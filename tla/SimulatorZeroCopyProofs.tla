---------------------- MODULE SimulatorZeroCopyProofs ----------------------
(* The ownership of zero-copy buffers, for every number of ports, buffers   *)
(* and resets, while applications obey the reset rule; and the invariants   *)
(* of the link, which buffer transfers keep as copied ones do.              *)
EXTENDS SimulatorZeroCopy, SimulatorTransferProofs

\* The ownership of the buffers of one port.
AgreesAt(p) ==
    Open(p) => \A b \in Buffer :
        LET busy == in_flight[p].buffer = b
            held == Handle(p, b) \in handles[p]
        IN  /\ buf[p][b].state = "APPLICATION" <=> held /\ ~busy
            /\ buf[p][b].state = "BACKEND" <=> busy
            /\ buf[p][b].state = "COMPLETED" => b \in TX /\ ~held
            /\ buf[p][b].state \in {"APPLICATION", "COMPLETED"}
               => buf[p][b].epoch = ownership_epoch[p]

\* The call behind the buffer in use.
WaitingAt(p) ==
    in_flight[p] # NoHandle =>
        /\ ~Idle(p) /\ call[p].kind = "packet"
        /\ IF in_flight[p].buffer = RX
           THEN call[p].op = "receive"
           ELSE call[p].op = "send" /\ call[p].item = buf[p][in_flight[p].buffer].length

\* What makes the two inductive: handles are of the current epoch, the buffer
\* in use is held exactly if it is a TX buffer, and a closed port has nothing.
HandlesAt(p) ==
    LET f == in_flight[p] IN
    /\ f.buffer = NULL => f = NoHandle
    /\ f # NoHandle => /\ f = Handle(p, f.buffer)
                       /\ f.buffer # RX <=> f \in handles[p]
                       /\ f.buffer # RX => buf[p][f.buffer].epoch = ownership_epoch[p]
    /\ \A h \in handles[p] : h.epoch = ownership_epoch[p]
    /\ ~Open(p) => handles[p] = {} /\ f = NoHandle

OwnedAt(p) == AgreesAt(p) /\ WaitingAt(p) /\ HandlesAt(p)

\* The inductive invariant.
ZInv == Inv /\ ZTypeOK /\ \A p \in Port : OwnedAt(p)

-----------------------------------------------------------------------------
(* What the steps of the link do to the calls of the ports. *)

\* The call of port q is what it was, but perhaps woken.
SameCall(q) == /\ call'[q].op = call[q].op
               /\ call'[q].kind = call[q].kind
               /\ call'[q].item = call[q].item

\* A broadcast wakes calls and changes nothing else.
LEMMA BroadcastKeeps ==
  ASSUME NEW c \in [Port -> Call], NEW s, NEW q \in Port
  PROVE  /\ broadcast(c, s)[q].op = c[q].op
         /\ broadcast(c, s)[q].kind = c[q].kind
         /\ broadcast(c, s)[q].item = c[q].item
  <1>1. broadcast(c, s)[q] = c[q] \/ broadcast(c, s)[q] = [c[q] EXCEPT !.woken = TRUE]
    BY DEF broadcast
  <1>2. c[q] \in Call
    OBVIOUS
  <1> QED
    BY <1>1, <1>2 DEF Call

\* So every call is the same, whether or not there is a broadcast.
LEMMA BroadcastSame ==
  ASSUME TypeOK, NEW s, NEW q \in Port,
         call' = broadcast(call, s) \/ call' = call
  PROVE  SameCall(q)
  <1>1. call \in [Port -> Call]
    BY DEF TypeOK
  <1>2. CASE call' = broadcast(call, s)
    BY <1>1, <1>2, BroadcastKeeps DEF SameCall
  <1>3. CASE call' = call
    BY <1>3 DEF SameCall
  <1> QED
    BY <1>2, <1>3

\* A lifecycle call ends no waiting call, and opens or closes no other port.
LEMMA LifecycleCalls ==
  ASSUME TypeOK, NEW p \in Port, Lifecycle(p)
  PROVE  /\ \A q \in Port : SameCall(q)
         /\ \A q \in Port : q # p => link'[q] = link[q]
  <1>1. \E s : call' = broadcast(call, s) \/ call' = call
    BY Zenon DEF Lifecycle, spw_port_open, spw_port_close, spw_port_start, spw_port_stop,
       spw_port_reset, spw_port_clear_statistics, attach_backend, detach_backend,
       simulator_start, simulator_stop, simulator_reset
  <1>2. \/ UNCHANGED link
        \/ link' = [link EXCEPT ![p] = attach_target(p)]
        \/ link' = [link EXCEPT ![p] = NULL]
    BY Zenon DEF Lifecycle, spw_port_open, spw_port_close, spw_port_start, spw_port_stop,
       spw_port_reset, spw_port_clear_statistics, attach_backend, detach_backend
  <1>3. \A q \in Port : q # p => link'[q] = link[q]
    BY <1>2 DEF TypeOK
  <1> QED
    BY <1>1, <1>3, BroadcastSame

\* A call that finishes leaves its port idle and the calls of others alone.
LEMMA FinishCalls ==
  ASSUME TypeOK, NEW p \in Port, NEW c, Finish(p, c)
  PROVE  call'[p].op = "none" /\ \A q \in Port : q # p => SameCall(q)
  <1>1. Done(p) \in [Port -> Call] /\ Done(p)[p] = NoCall
        /\ \A q \in Port : q # p => Done(p)[q] = call[q]
    BY CallFacts DEF Done, TypeOK
  <1>2. call' = Done(p) \/ call' = broadcast(Done(p), link[p])
    BY DEF Finish, simulator_send, simulator_receive
  <1>3. \A q \in Port : /\ call'[q].op = Done(p)[q].op
                        /\ call'[q].kind = Done(p)[q].kind
                        /\ call'[q].item = Done(p)[q].item
    <2>1. CASE call' = Done(p)
      BY <2>1
    <2>2. CASE call' = broadcast(Done(p), link[p])
      BY <1>1, <2>2, BroadcastKeeps
    <2> QED
      BY <1>2, <2>1, <2>2
  <1> QED
    BY <1>1, <1>3 DEF SameCall, NoCall

\* A transfer call ends or waits, and leaves the calls of others alone.
LEMMA TransferCalls ==
  ASSUME TypeOK, NEW p \in Port, NEW c \in Call, Transfer(p, c)
  PROVE  /\ call'[p].op = "none" \/ call'[p] = c
         /\ \A q \in Port : q # p => SameCall(q)
         /\ link' = link
  <1>1. CASE Finish(p, c)
    BY <1>1, FinishCalls DEF Transfer
  <1>2. CASE UNCHANGED call
    BY <1>2 DEF Transfer, Idle, SameCall
  <1>3. CASE call' = [call EXCEPT ![p] = c]
    BY <1>3 DEF Transfer, SameCall, TypeOK
  <1> QED
    BY <1>1, <1>2, <1>3 DEF Transfer

\* So does a waiting call that goes on or is woken.
LEMMA WakeCalls ==
  ASSUME TypeOK, NEW p \in Port, Resume(p) \/ Expire(p) \/ SpuriousWakeup(p)
  PROVE  /\ call'[p].op = "none" \/ SameCall(p)
         /\ SpuriousWakeup(p) => SameCall(p)
         /\ \A q \in Port : q # p => SameCall(q)
         /\ link' = link
  <1>0. call \in [Port -> Call]
    BY DEF TypeOK
  <1>1. CASE Finish(p, call[p]) /\ ~SpuriousWakeup(p)
    BY <1>1, FinishCalls DEF Resume, Expire
  <1>2. CASE call' = Done(p) /\ ~SpuriousWakeup(p)
    BY <1>0, <1>2 DEF Done, NoCall, SameCall, Resume, Expire
  <1>3. CASE call' = [call EXCEPT ![p].woken = FALSE] \/ call' = [call EXCEPT ![p].woken = TRUE]
    BY <1>0, <1>3 DEF SameCall, Call, Resume, Expire, SpuriousWakeup
  <1> QED
    BY <1>1, <1>2, <1>3 DEF Resume, Expire, SpuriousWakeup

-----------------------------------------------------------------------------
(* How the ownership of one port's buffers changes. *)

\* Only buffer b of port p may change, and no other port's state does.
OnlyBuffer(p, b) ==
    /\ \A q \in Port : q # p => buf'[q] = buf[q]
    /\ \A x \in Buffer : x # b => buf'[p][x] = buf[p][x]

\* A port whose buffers, handles and waiting call are left alone.
LEMMA FrameOwned ==
  ASSUME ZTypeOK, NEW q \in Port, OwnedAt(q), buf'[q] = buf[q],
         ownership_epoch'[q] = ownership_epoch[q], in_flight'[q] = in_flight[q],
         handles'[q] = handles[q], link'[q] = link[q],
         SameCall(q) \/ in_flight[q] = NoHandle
  PROVE  OwnedAt(q)'
  BY DEF OwnedAt, AgreesAt, WaitingAt, HandlesAt, Handle, Open, Idle, SameCall

\* A port whose buffers are all free: just opened, or reset.
LEMMA FreshOwned ==
  ASSUME NEW p \in Port, buf'[p] = initialize_zero_copy_buffers,
         in_flight'[p] = NoHandle, handles'[p] = {}
  PROVE  OwnedAt(p)'
  <1>1. \A b \in Buffer : buf'[p][b].state = "FREE" /\ b # NULL
    BY ZeroCopyAssumption
      DEF initialize_zero_copy_buffers, free_buffer, Buffer, RX, TX, NULL
  <1> QED
    BY <1>1 DEF OwnedAt, AgreesAt, WaitingAt, HandlesAt, NoHandle

\* The application has buffer b, with its handle of the current epoch.
LEMMA GivenOwned ==
  ASSUME ZTypeOK, NEW p \in Port, OwnedAt(p), Open(p), NEW b \in Buffer,
         in_flight[p].buffer \in {NULL, b}, in_flight'[p] = NoHandle,
         ownership_epoch'[p] = ownership_epoch[p], link'[p] = link[p],
         OnlyBuffer(p, b), buf'[p][b].state = "APPLICATION",
         buf'[p][b].epoch = ownership_epoch[p],
         handles'[p] = handles[p] \cup {Handle(p, b)}
  PROVE  OwnedAt(p)'
  <1>0. NULL \notin Buffer
    BY ZeroCopyAssumption DEF Buffer, RX, TX, NULL
  <1>1. \A x \in Buffer : Handle(p, x)' = Handle(p, x) /\ (x # b => Handle(p, x) # Handle(p, b))
    BY DEF Handle
  <1>2. AgreesAt(p)'
    <2> SUFFICES ASSUME NEW x \in Buffer
                 PROVE  /\ buf'[p][x].state = "APPLICATION" <=> Handle(p, x) \in handles'[p]
                        /\ buf'[p][x].state # "BACKEND"
                        /\ buf'[p][x].state = "COMPLETED" => x \in TX /\ Handle(p, x) \notin handles'[p]
                        /\ buf'[p][x].state \in {"APPLICATION", "COMPLETED"}
                           => buf'[p][x].epoch = ownership_epoch[p]
      BY <1>0, <1>1 DEF AgreesAt, NoHandle
    <2> QED
      BY <1>0, <1>1 DEF OwnedAt, AgreesAt, OnlyBuffer
  <1>3. HandlesAt(p)'
    BY <1>0 DEF OwnedAt, HandlesAt, NoHandle, Handle, Open
  <1> QED
    BY <1>2, <1>3 DEF OwnedAt, WaitingAt

\* The application has given up buffer b: it is free, or completed.
LEMMA TakenOwned ==
  ASSUME ZTypeOK, NEW p \in Port, OwnedAt(p), Open(p), NEW b \in Buffer,
         in_flight[p].buffer \in {NULL, b}, in_flight'[p] = NoHandle,
         ownership_epoch'[p] = ownership_epoch[p], link'[p] = link[p],
         OnlyBuffer(p, b),
         \/ buf'[p][b].state = "FREE"
         \/ /\ buf'[p][b].state = "COMPLETED" /\ b \in TX
            /\ buf'[p][b].epoch = ownership_epoch[p],
         handles'[p] = handles[p] \ {Handle(p, b)}
  PROVE  OwnedAt(p)'
  <1>0. NULL \notin Buffer
    BY ZeroCopyAssumption DEF Buffer, RX, TX, NULL
  <1>1. \A x \in Buffer : Handle(p, x)' = Handle(p, x) /\ (x # b => Handle(p, x) # Handle(p, b))
    BY DEF Handle
  <1>2. AgreesAt(p)'
    <2> SUFFICES ASSUME NEW x \in Buffer
                 PROVE  /\ buf'[p][x].state = "APPLICATION" <=> Handle(p, x) \in handles'[p]
                        /\ buf'[p][x].state # "BACKEND"
                        /\ buf'[p][x].state = "COMPLETED" => x \in TX /\ Handle(p, x) \notin handles'[p]
                        /\ buf'[p][x].state \in {"APPLICATION", "COMPLETED"}
                           => buf'[p][x].epoch = ownership_epoch[p]
      BY <1>0, <1>1 DEF AgreesAt, NoHandle
    <2> QED
      BY <1>0, <1>1 DEF OwnedAt, AgreesAt, OnlyBuffer
  <1>3. HandlesAt(p)'
    BY <1>0 DEF OwnedAt, HandlesAt, NoHandle, Handle, Open
  <1> QED
    BY <1>2, <1>3 DEF OwnedAt, WaitingAt

\* Buffer b is in use by a call that waits.
LEMMA LentOwned ==
  ASSUME ZTypeOK, NEW p \in Port, OwnedAt(p), Open(p), NEW b \in Buffer,
         in_flight[p] = NoHandle, in_flight'[p] = Handle(p, b),
         ownership_epoch'[p] = ownership_epoch[p], link'[p] = link[p],
         OnlyBuffer(p, b), buf'[p][b].state = "BACKEND",
         b # RX <=> Handle(p, b) \in handles[p],
         b # RX => buf'[p][b].epoch = ownership_epoch[p],
         handles'[p] = handles[p],
         call'[p].kind = "packet",
         IF b = RX THEN call'[p].op = "receive"
         ELSE call'[p].op = "send" /\ call'[p].item = buf'[p][b].length
  PROVE  OwnedAt(p)'
  <1>0. NULL \notin Buffer /\ Handle(p, b).buffer = b
    BY ZeroCopyAssumption DEF Buffer, RX, TX, NULL, Handle
  <1>1. \A x \in Buffer : Handle(p, x)' = Handle(p, x) /\ (x # b => Handle(p, x) # Handle(p, b))
    BY DEF Handle
  <1>2. AgreesAt(p)'
    <2> SUFFICES ASSUME NEW x \in Buffer
                 PROVE  /\ buf'[p][x].state = "APPLICATION" <=> Handle(p, x) \in handles[p] /\ x # b
                        /\ buf'[p][x].state = "BACKEND" <=> x = b
                        /\ buf'[p][x].state = "COMPLETED" => x \in TX /\ Handle(p, x) \notin handles[p]
                        /\ buf'[p][x].state \in {"APPLICATION", "COMPLETED"}
                           => buf'[p][x].epoch = ownership_epoch[p]
      BY <1>0, <1>1 DEF AgreesAt
    <2> QED
      BY <1>0, <1>1 DEF OwnedAt, AgreesAt, OnlyBuffer, NoHandle
  <1>3. HandlesAt(p)'
    BY <1>0 DEF OwnedAt, HandlesAt, NoHandle, Handle, Open
  <1>4. WaitingAt(p)'
    BY <1>0 DEF WaitingAt, Idle
  <1> QED
    BY <1>2, <1>3, <1>4 DEF OwnedAt

-----------------------------------------------------------------------------
(* The types of the variables, and the operations on buffers. *)

BufferType == [state : BufferState, length : Nat, epoch : Nat]

\* A handle the application keeps, or a waiting call uses, is of the current
\* epoch.
LEMMA HandleFacts ==
  ASSUME ZTypeOK, NEW p \in Port, OwnedAt(p)
  PROVE  /\ \A h \in handles[p] : h.buffer \in Buffer /\ h = Handle(p, h.buffer)
         /\ \A b \in Buffer : Handle(p, b) \in [buffer : Buffer, epoch : Nat]
         /\ in_flight[p] # NoHandle =>
               in_flight[p].buffer \in Buffer /\ in_flight[p] = Handle(p, in_flight[p].buffer)
         /\ in_flight[p].buffer \in Buffer \cup {NULL}
  BY DEF ZTypeOK, OwnedAt, HandlesAt, Handle

\* Giving a buffer to the application.
LEMMA GiveStep ==
  ASSUME ZTypeOK, NEW p \in Port, OwnedAt(p), Open(p), NEW b \in Buffer, NEW n \in Nat,
         in_flight[p].buffer \in {NULL, b}, Give(p, b, n),
         in_flight' = [in_flight EXCEPT ![p] = NoHandle],
         UNCHANGED <<ownership_epoch, link>>
  PROVE  ZTypeOK' /\ OwnedAt(p)'
  <1> DEFINE r == [state |-> "APPLICATION", length |-> n, epoch |-> ownership_epoch[p]]
  <1>1. r \in BufferType /\ r.state = "APPLICATION" /\ r.epoch = ownership_epoch[p]
    BY DEF ZTypeOK, BufferType, BufferState
  <1>2. buf \in [Port -> [Buffer -> BufferType]] /\ buf' = [buf EXCEPT ![p][b] = r]
    BY DEF ZTypeOK, Give, BufferType
  <1> HIDE DEF r
  <1>3. /\ buf' \in [Port -> [Buffer -> BufferType]]
        /\ OnlyBuffer(p, b) /\ buf'[p][b] = r
    BY <1>1, <1>2 DEF OnlyBuffer
  <1>4. Handle(p, b) \in [buffer : Buffer, epoch : Nat]
    BY HandleFacts
  <1>5. /\ handles' \in [Port -> SUBSET [buffer : Buffer, epoch : Nat]]
        /\ handles'[p] = handles[p] \cup {Handle(p, b)}
    BY <1>4 DEF Give, ZTypeOK
  <1>6. /\ in_flight' \in [Port -> [buffer : Buffer \cup {NULL}, epoch : Nat]]
        /\ in_flight'[p] = NoHandle
    BY DEF ZTypeOK, NoHandle
  <1>7. ZTypeOK'
    BY <1>3, <1>5, <1>6 DEF ZTypeOK, BufferType
  <1>8. OwnedAt(p)'
    BY <1>1, <1>3, <1>5, <1>6, GivenOwned
  <1> QED
    BY <1>7, <1>8

\* What moving buffer b to state s does.
LEMMA MoveFacts ==
  ASSUME ZTypeOK, NEW p \in Port, NEW b \in Buffer, NEW s \in BufferState,
         buf' = [buf EXCEPT ![p][b].state = s]
  PROVE  /\ buf' \in [Port -> [Buffer -> BufferType]]
         /\ OnlyBuffer(p, b)
         /\ buf'[p][b].state = s
         /\ buf'[p][b].epoch = buf[p][b].epoch
         /\ buf'[p][b].length = buf[p][b].length
  <1> DEFINE r == [buf[p][b] EXCEPT !.state = s]
  <1>1. buf[p][b] \in BufferType
    BY DEF ZTypeOK, BufferType
  <1>2. /\ r \in BufferType /\ r.state = s
        /\ r.epoch = buf[p][b].epoch /\ r.length = buf[p][b].length
    BY <1>1 DEF BufferType
  <1>3. buf \in [Port -> [Buffer -> BufferType]] /\ buf' = [buf EXCEPT ![p][b] = r]
    BY DEF ZTypeOK, BufferType
  <1> HIDE DEF r
  <1>4. buf' \in [Port -> [Buffer -> BufferType]] /\ OnlyBuffer(p, b) /\ buf'[p][b] = r
    BY <1>2, <1>3 DEF OnlyBuffer
  <1> QED
    BY <1>2, <1>4

\* settle: the buffer of a call that returned goes back where it belongs.
LEMMA SettleStep ==
  ASSUME ZTypeOK, NEW p \in Port, OwnedAt(p), Open(p), NEW b \in Buffer, NEW n \in Nat,
         in_flight[p].buffer \in {NULL, b},
         b # RX <=> Handle(p, b) \in handles[p],
         b # RX => buf[p][b].epoch = ownership_epoch[p],
         settle(p, Handle(p, b), n), UNCHANGED <<ownership_epoch, link>>
  PROVE  ZTypeOK' /\ OwnedAt(p)'
  <1>0. Handle(p, b).buffer = b /\ RX \in Buffer /\ (b # RX => b \in TX)
    BY DEF Handle, Buffer
  <1>1. /\ in_flight' = [in_flight EXCEPT ![p] = NoHandle]
        /\ in_flight' \in [Port -> [buffer : Buffer \cup {NULL}, epoch : Nat]]
        /\ in_flight'[p] = NoHandle
    BY DEF settle, ZTypeOK, NoHandle
  <1>2. CASE b = RX /\ result'[p] = "OK"
    BY <1>0, <1>1, <1>2, GiveStep, Zenon DEF settle
  <1>3. CASE b = RX /\ result'[p] # "OK"
    <2>1. buf' = [buf EXCEPT ![p][b].state = "FREE"] /\ handles' = handles
      BY <1>0, <1>3 DEF settle
    <2>2. /\ buf' \in [Port -> [Buffer -> BufferType]]
          /\ OnlyBuffer(p, b) /\ buf'[p][b].state = "FREE"
      BY <2>1, MoveFacts, Zenon DEF BufferState
    <2>3. handles'[p] = handles[p] \ {Handle(p, b)}
      BY <1>3, <2>1
    <2>4. OwnedAt(p)'
      BY <1>1, <2>2, <2>3, TakenOwned
    <2> QED
      BY <1>1, <2>1, <2>2, <2>4 DEF ZTypeOK, BufferType
  <1>4. CASE b # RX /\ result'[p] = "OK"
    <2>1. /\ buf' = [buf EXCEPT ![p][b].state = "COMPLETED"]
          /\ handles' = [handles EXCEPT ![p] = @ \ {Handle(p, b)}]
      BY <1>0, <1>4 DEF settle, Forget
    <2>2. /\ buf' \in [Port -> [Buffer -> BufferType]]
          /\ OnlyBuffer(p, b) /\ buf'[p][b].state = "COMPLETED"
          /\ buf'[p][b].epoch = ownership_epoch[p]
      BY <1>4, <2>1, MoveFacts, Zenon DEF BufferState
    <2>3. /\ handles'[p] = handles[p] \ {Handle(p, b)}
          /\ handles' \in [Port -> SUBSET [buffer : Buffer, epoch : Nat]]
      BY <2>1 DEF ZTypeOK
    <2>4. OwnedAt(p)'
      BY <1>0, <1>1, <1>4, <2>2, <2>3, TakenOwned
    <2> QED
      BY <1>1, <2>2, <2>3, <2>4, Zenon DEF ZTypeOK, BufferType
  <1>5. CASE b # RX /\ result'[p] # "OK"
    <2>1. buf' = [buf EXCEPT ![p][b].state = "APPLICATION"] /\ handles' = handles
      BY <1>0, <1>5 DEF settle
    <2>2. /\ buf' \in [Port -> [Buffer -> BufferType]]
          /\ OnlyBuffer(p, b) /\ buf'[p][b].state = "APPLICATION"
          /\ buf'[p][b].epoch = ownership_epoch[p]
      BY <1>5, <2>1, MoveFacts, Zenon DEF BufferState
    <2>3. handles'[p] = handles[p] \cup {Handle(p, b)}
      BY <1>5, <2>1
    <2>4. OwnedAt(p)'
      BY <1>1, <2>2, <2>3, GivenOwned
    <2> QED
      BY <1>1, <2>1, <2>2, <2>4 DEF ZTypeOK, BufferType
  <1> QED
    BY <1>2, <1>3, <1>4, <1>5

\* The packet a receive would return is a length.
LEMMA FirstPacketFacts ==
  ASSUME TypeOK, NEW p \in Port, Open(p)
  PROVE  FirstPacket(p) \in Nat
  <1>1. local(p) \in Endpoint
    BY LocalFacts
  <1>2. ep[local(p)].queue["packet"] \in Seq(Nat)
    BY <1>1 DEF TypeOK, EndpointState, Kind
  <1> QED
    BY <1>2 DEF FirstPacket, Local

\* An idle port has no buffer in use.
LEMMA IdleFacts ==
  ASSUME NEW p \in Port, OwnedAt(p), Idle(p)
  PROVE  in_flight[p] = NoHandle /\ in_flight[p].buffer = NULL
  BY DEF OwnedAt, WaitingAt, NoHandle

\* A submit, or an acquire of the RX buffer, up to its return or its wait.
LEMMA BufferTransferStep ==
  ASSUME TypeOK, ZTypeOK, NEW p \in Port, OwnedAt(p), NEW b \in Buffer, NEW c \in Call,
         c.op # "none", c.kind = "packet",
         IF b = RX THEN c.op = "receive" ELSE c.op = "send" /\ c.item = buf[p][b].length,
         b # RX <=> Handle(p, b) \in handles[p],
         b # RX => buf[p][b].epoch = ownership_epoch[p],
         BufferTransfer(p, Handle(p, b), c)
  PROVE  ZTypeOK' /\ OwnedAt(p)'
  <1>0. /\ Open(p) /\ Idle(p) /\ UNCHANGED <<ownership_epoch, link>>
        /\ Handle(p, b).buffer = b
    BY DEF BufferTransfer, Transfer, Handle
  <1>1. in_flight[p] = NoHandle /\ in_flight[p].buffer = NULL
    BY <1>0, IdleFacts
  <1>2. CASE call'[p].op = "none"
    <2>1. settle(p, Handle(p, b), FirstPacket(p)) /\ FirstPacket(p) \in Nat
      BY <1>0, <1>2, FirstPacketFacts DEF BufferTransfer
    <2> QED
      BY <1>0, <1>1, <2>1, SettleStep
  <1>3. CASE call'[p].op # "none"
    <2>1. /\ buf' = [buf EXCEPT ![p][b].state = "BACKEND"]
          /\ in_flight' = [in_flight EXCEPT ![p] = Handle(p, b)]
          /\ handles' = handles
      BY <1>0, <1>3 DEF BufferTransfer
    <2>2. call'[p] = c
      BY <1>3, TransferCalls DEF BufferTransfer
    <2>3. /\ buf' \in [Port -> [Buffer -> BufferType]]
          /\ OnlyBuffer(p, b) /\ buf'[p][b].state = "BACKEND"
          /\ buf'[p][b].epoch = buf[p][b].epoch
          /\ buf'[p][b].length = buf[p][b].length
      BY <2>1, MoveFacts, Zenon DEF BufferState
    <2>4. Handle(p, b) \in [buffer : Buffer, epoch : Nat]
      BY HandleFacts
    <2>5. /\ in_flight' \in [Port -> [buffer : Buffer \cup {NULL}, epoch : Nat]]
          /\ in_flight'[p] = Handle(p, b)
      BY <2>1, <2>4 DEF ZTypeOK
    <2>6. OwnedAt(p)'
      BY <1>0, <1>1, <2>1, <2>2, <2>3, <2>5, LentOwned
    <2> QED
      BY <1>0, <2>1, <2>3, <2>5, <2>6 DEF ZTypeOK, BufferType
  <1> QED
    BY <1>2, <1>3

-----------------------------------------------------------------------------
(* What the actions do to the port that takes them, and to the others. *)

\* The buffers of the ports other than p.
BuffersElsewhere(p) ==
    \A q \in Port : q # p => /\ buf'[q] = buf[q]
                             /\ ownership_epoch'[q] = ownership_epoch[q]
                             /\ in_flight'[q] = in_flight[q]
                             /\ handles'[q] = handles[q]

\* The links and calls of the ports other than p.
CallsElsewhere(p) == \A q \in Port : q # p => link'[q] = link[q] /\ SameCall(q)

\* What an action of port p must do to keep the invariant of buffers.
Keeps(p) ==
    ZTypeOK' /\ OwnedAt(p)' /\ BuffersElsewhere(p) /\ CallsElsewhere(p)

\* settle concerns one port.
LEMMA SettleElsewhere ==
  ASSUME ZTypeOK, NEW p \in Port, NEW h, NEW n, settle(p, h, n), UNCHANGED ownership_epoch
  PROVE  BuffersElsewhere(p)
  <1>1. \A q \in Port : q # p => buf'[q] = buf[q]
    BY DEF ZTypeOK, settle, Give
  <1>2. \A q \in Port : q # p => handles'[q] = handles[q]
    BY DEF ZTypeOK, settle, Give, Forget
  <1>3. \A q \in Port : q # p => in_flight'[q] = in_flight[q]
    BY DEF ZTypeOK, settle
  <1> QED
    BY <1>1, <1>2, <1>3 DEF BuffersElsewhere

\* So does the call with a buffer.
LEMMA BufferTransferElsewhere ==
  ASSUME TypeOK, ZTypeOK, NEW p \in Port, NEW h, NEW c \in Call, BufferTransfer(p, h, c)
  PROVE  BuffersElsewhere(p) /\ CallsElsewhere(p)
  <1>1. ASSUME settle(p, h, FirstPacket(p))
        PROVE  BuffersElsewhere(p)
    BY <1>1, SettleElsewhere DEF BufferTransfer
  <1>2. ASSUME buf' = [buf EXCEPT ![p][h.buffer].state = "BACKEND"],
               in_flight' = [in_flight EXCEPT ![p] = h],
               UNCHANGED handles
        PROVE  BuffersElsewhere(p)
    BY <1>2 DEF BufferTransfer, ZTypeOK, BuffersElsewhere
  <1>3. CallsElsewhere(p)
    BY TransferCalls DEF BufferTransfer, CallsElsewhere
  <1> QED
    BY <1>1, <1>2, <1>3 DEF BufferTransfer

\* A call that is refused, or that only reads.
LEMMA QuietKeeps ==
  ASSUME ZTypeOK, NEW p \in Port, OwnedAt(p), UNCHANGED <<bufferVars, link, call>>
  PROVE  Keeps(p)
  <1>1. \A q \in Port : SameCall(q)
    BY DEF SameCall
  <1>2. OwnedAt(p)'
    BY <1>1, FrameOwned DEF bufferVars
  <1>3. ZTypeOK'
    BY DEF ZTypeOK, bufferVars
  <1>4. BuffersElsewhere(p)
    BY DEF BuffersElsewhere, bufferVars
  <1>5. CallsElsewhere(p)
    BY <1>1 DEF CallsElsewhere
  <1> QED
    BY <1>2, <1>3, <1>4, <1>5 DEF Keeps

\* A buffer given to the application of an idle port.
LEMMA GiveKeeps ==
  ASSUME ZTypeOK, NEW p \in Port, OwnedAt(p), Open(p), Idle(p),
         NEW b \in Buffer, NEW n \in Nat, Give(p, b, n), Accept(p)
  PROVE  Keeps(p)
  <1>1. in_flight[p] = NoHandle /\ in_flight[p].buffer = NULL
    BY IdleFacts
  <1>2. UNCHANGED <<ownership_epoch, link, in_flight, call>>
    BY DEF Accept
  <1>3. in_flight' = [in_flight EXCEPT ![p] = NoHandle]
    BY <1>1, <1>2 DEF ZTypeOK
  <1>4. ZTypeOK' /\ OwnedAt(p)'
    BY <1>1, <1>2, <1>3, GiveStep, Zenon
  <1>5. BuffersElsewhere(p)
    BY <1>2 DEF BuffersElsewhere, Give, ZTypeOK
  <1>6. CallsElsewhere(p)
    BY <1>2 DEF CallsElsewhere, SameCall
  <1> QED
    BY <1>4, <1>5, <1>6 DEF Keeps

\* acquire_tx and reclaim_tx: the lowest buffer of a set of TX buffers.
LEMMA LowestFacts ==
  ASSUME NEW S \in SUBSET TX, S # {}
  PROVE  Lowest(S) \in S
  <1>1. TX \subseteq Nat
    BY DEF TX
  <1>2. Lowest(S) = first(S)
    BY DEF Lowest, first
  <1> QED
    BY <1>1, <1>2, FirstFacts, Zenon

\* acquire_tx_buffer and reclaim_tx_buffer.
LEMMA AcquireTxKeeps ==
  ASSUME ZTypeOK, NEW p \in Port, OwnedAt(p), NEW t \in Timeout,
         spw_port_acquire_tx_buffer(p, t) \/ spw_port_reclaim_tx_buffer(p, t)
  PROVE  Keeps(p)
  <1>0. Open(p) /\ Idle(p)
    BY DEF spw_port_acquire_tx_buffer, spw_port_reclaim_tx_buffer
  <1>1. CASE \E r : Refuse(p, r)
    BY <1>1, QuietKeeps DEF Refuse
  <1>2. CASE \E b \in Buffer, n \in Nat : Give(p, b, n) /\ Accept(p)
    BY <1>0, <1>2, GiveKeeps
  <1>3. \A s : InState(p, s) # {} => Lowest(InState(p, s)) \in Buffer
    BY LowestFacts DEF InState, Buffer
  <1>4. \A b \in Buffer : buf[p][b].length \in Nat
    BY DEF ZTypeOK
  <1> QED
    BY <1>1, <1>2, <1>3, <1>4
      DEF spw_port_acquire_tx_buffer, spw_port_reclaim_tx_buffer, NotReady

\* submit_tx_buffer.
LEMMA SubmitKeeps ==
  ASSUME TypeOK, ZTypeOK, NEW p \in Port, OwnedAt(p), NEW t \in Timeout,
         NEW h \in handles[p], spw_port_submit_tx_buffer(p, h, t)
  PROVE  Keeps(p)
  <1>1. CASE Refuse(p, "INVALID_STATE")
    BY <1>1, QuietKeeps DEF Refuse
  <1>2. CASE /\ application_owned(p, h.buffer)
             /\ BufferTransfer(p, h, Request("send", "packet", buf[p][h.buffer].length, t))
    <2> DEFINE b == h.buffer
               c == Request("send", "packet", buf[p][b].length, t)
    <2>1. b \in Buffer /\ h = Handle(p, b) /\ b # RX
      BY HandleFacts DEF spw_port_submit_tx_buffer, TX, RX
    <2>2. buf[p][b].length \in Nat /\ "packet" \in Kind /\ "send" \in {"send", "receive"}
      BY <2>1 DEF ZTypeOK, Kind
    <2>3. c \in Call /\ c.op # "none"
      BY <2>2, RequestFacts
    <2>4. c.kind = "packet" /\ c.op = "send" /\ c.item = buf[p][b].length
      BY DEF Request
    <2>5. buf[p][b].epoch = ownership_epoch[p] /\ BufferTransfer(p, Handle(p, b), c)
      BY <1>2, <2>1 DEF application_owned
    <2> HIDE DEF b, c
    <2>6. Handle(p, b) \in handles[p]
      BY <2>1
    <2>7. ZTypeOK' /\ OwnedAt(p)'
      BY <2>1, <2>3, <2>4, <2>5, <2>6, BufferTransferStep
    <2>8. BuffersElsewhere(p) /\ CallsElsewhere(p)
      BY <2>3, <2>5, BufferTransferElsewhere
    <2> QED
      BY <2>7, <2>8 DEF Keeps
  <1> QED
    BY <1>1, <1>2 DEF spw_port_submit_tx_buffer

\* acquire_rx_buffer.
LEMMA AcquireRxKeeps ==
  ASSUME TypeOK, ZTypeOK, NEW p \in Port, OwnedAt(p), NEW t \in Timeout,
         spw_port_acquire_rx_buffer(p, t)
  PROVE  Keeps(p)
  <1>1. CASE \E r : Refuse(p, r)
    BY <1>1, QuietKeeps DEF Refuse
  <1>2. CASE /\ buf[p][RX].state = "FREE"
             /\ BufferTransfer(p, Handle(p, RX),
                               Request("receive", "packet", MAX_PACKET_SIZE, t))
    <2> DEFINE c == Request("receive", "packet", MAX_PACKET_SIZE, t)
    <2>1. MAX_PACKET_SIZE \in Nat /\ "packet" \in Kind /\ "receive" \in {"send", "receive"}
      BY ConfigAssumption DEF Kind
    <2>2. c \in Call /\ c.op # "none"
      BY <2>1, RequestFacts
    <2>3. c.kind = "packet" /\ c.op = "receive"
      BY DEF Request
    <2>4. BufferTransfer(p, Handle(p, RX), c)
      BY <1>2
    <2> HIDE DEF c
    <2>5. RX \in Buffer /\ Open(p)
      BY DEF Buffer, spw_port_acquire_rx_buffer
    <2>6. Handle(p, RX) \notin handles[p]
      BY <1>2, <2>5 DEF OwnedAt, AgreesAt
    <2>7. ZTypeOK' /\ OwnedAt(p)'
      BY <2>2, <2>3, <2>4, <2>5, <2>6, BufferTransferStep
    <2>8. BuffersElsewhere(p) /\ CallsElsewhere(p)
      BY <2>2, <2>4, BufferTransferElsewhere
    <2> QED
      BY <2>7, <2>8 DEF Keeps
  <1> QED
    BY <1>1, <1>2 DEF spw_port_acquire_rx_buffer, NotReady

\* release_tx_buffer and release_rx_buffer.
LEMMA ReleaseKeeps ==
  ASSUME ZTypeOK, NEW p \in Port, OwnedAt(p), NEW h \in handles[p], Release(p, h)
  PROVE  Keeps(p)
  <1>1. CASE Refuse(p, "INVALID_STATE")
    BY <1>1, QuietKeeps DEF Refuse
  <1>2. CASE ~Refuse(p, "INVALID_STATE")
    <2> DEFINE b == h.buffer
               r == [buf[p][b] EXCEPT !.state = "FREE", !.length = 0]
    <2>1. b \in Buffer /\ h = Handle(p, b) /\ Open(p) /\ Idle(p)
      BY HandleFacts DEF Release
    <2>2. /\ buf' = [buf EXCEPT ![p][b].state = "FREE", ![p][b].length = 0]
          /\ handles' = [handles EXCEPT ![p] = @ \ {h}]
          /\ UNCHANGED <<ownership_epoch, link, in_flight, call>>
      BY <1>2 DEF Release, Forget, Accept
    <2>3. /\ buf \in [Port -> [Buffer -> BufferType]]
          /\ buf[p][b] \in BufferType
      BY <2>1 DEF ZTypeOK, BufferType
    <2>4. r \in BufferType /\ r.state = "FREE"
      BY <2>3, Zenon DEF BufferType, BufferState
    <2>5. buf' = [buf EXCEPT ![p][b] = r]
      BY <2>1, <2>2, <2>3, Zenon
    <2> HIDE DEF b, r
    <2>6. buf' \in [Port -> [Buffer -> BufferType]] /\ OnlyBuffer(p, b) /\ buf'[p][b] = r
      BY <2>1, <2>3, <2>4, <2>5 DEF OnlyBuffer
    <2>7. /\ handles' \in [Port -> SUBSET [buffer : Buffer, epoch : Nat]]
          /\ handles'[p] = handles[p] \ {Handle(p, b)}
          /\ \A q \in Port : q # p => handles'[q] = handles[q]
      BY <2>1, <2>2 DEF ZTypeOK
    <2>8. in_flight[p] = NoHandle /\ in_flight[p].buffer = NULL
      BY <2>1, IdleFacts
    <2>9. OwnedAt(p)'
      BY <2>1, <2>2, <2>4, <2>6, <2>7, <2>8, TakenOwned
    <2>10. ZTypeOK'
      BY <2>2, <2>6, <2>7 DEF ZTypeOK, BufferType
    <2>11. BuffersElsewhere(p) /\ CallsElsewhere(p)
      BY <2>2, <2>6, <2>7 DEF OnlyBuffer, BuffersElsewhere, CallsElsewhere, SameCall
    <2> QED
      BY <2>9, <2>10, <2>11 DEF Keeps
  <1> QED
    BY <1>1, <1>2

\* spw_buffer_set_packet.
LEMMA SetPacketKeeps ==
  ASSUME ZTypeOK, NEW p \in Port, OwnedAt(p), NEW h \in handles[p], NEW n \in Length,
         spw_buffer_set_packet(p, h, n)
  PROVE  Keeps(p)
  <1>1. CASE \E r : Refuse(p, r)
    BY <1>1, QuietKeeps DEF Refuse
  <1>2. CASE ~\E r : Refuse(p, r)
    <2> DEFINE b == h.buffer
               r == [buf[p][b] EXCEPT !.length = n]
    <2>1. b \in Buffer /\ h = Handle(p, b) /\ Open(p) /\ Idle(p) /\ n \in Nat
      BY HandleFacts, ConfigAssumption DEF spw_buffer_set_packet
    <2>2. /\ application_owned(p, b)
          /\ buf' = [buf EXCEPT ![p][b].length = n]
          /\ UNCHANGED <<handles, ownership_epoch, link, in_flight, call>>
      BY <1>2 DEF spw_buffer_set_packet, Accept
    <2>3. /\ buf \in [Port -> [Buffer -> BufferType]]
          /\ buf[p][b] \in BufferType
      BY <2>1 DEF ZTypeOK, BufferType
    <2>4. /\ r \in BufferType /\ r.state = "APPLICATION"
          /\ r.epoch = ownership_epoch[p]
      BY <2>1, <2>2, <2>3 DEF BufferType, BufferState, application_owned
    <2>5. buf' = [buf EXCEPT ![p][b] = r]
      BY <2>1, <2>2, <2>3
    <2> HIDE DEF b, r
    <2>6. buf' \in [Port -> [Buffer -> BufferType]] /\ OnlyBuffer(p, b) /\ buf'[p][b] = r
      BY <2>1, <2>3, <2>4, <2>5 DEF OnlyBuffer
    <2>7. handles'[p] = handles[p] \cup {Handle(p, b)}
      BY <2>1, <2>2
    <2>8. in_flight[p] = NoHandle /\ in_flight[p].buffer = NULL
      BY <2>1, IdleFacts
    <2>9. OwnedAt(p)'
      BY <2>1, <2>2, <2>4, <2>6, <2>7, <2>8, GivenOwned, Zenon
    <2>10. ZTypeOK'
      BY <2>2, <2>6 DEF ZTypeOK, BufferType
    <2>11. BuffersElsewhere(p) /\ CallsElsewhere(p)
      BY <2>2, <2>6 DEF OnlyBuffer, BuffersElsewhere, CallsElsewhere, SameCall
    <2> QED
      BY <2>9, <2>10, <2>11 DEF Keeps
  <1> QED
    BY <1>1, <1>2

\* A waiting call that goes on: its buffer stays in use, or is settled.
LEMMA ContinueKeeps ==
  ASSUME TypeOK, NoLostWakeup, ZTypeOK, NEW p \in Port, OwnedAt(p), Continue(p)
  PROVE  Keeps(p)
  <1>0. Resume(p) \/ Expire(p)
    BY DEF Continue
  <1>1. /\ call'[p].op = "none" \/ SameCall(p)
        /\ CallsElsewhere(p) /\ UNCHANGED <<link, ownership_epoch>>
    BY <1>0, WakeCalls DEF CallsElsewhere, Continue
  <1>2. Open(p)
    BY <1>0 DEF NoLostWakeup, Resume, Expire
  <1>3. CASE in_flight[p] # NoHandle /\ call'[p].op = "none"
    <2> DEFINE b == in_flight[p].buffer
    <2>1. b \in Buffer /\ in_flight[p] = Handle(p, b)
      BY <1>3, HandleFacts
    <2>2. /\ b # RX <=> Handle(p, b) \in handles[p]
          /\ b # RX => buf[p][b].epoch = ownership_epoch[p]
      BY <1>3, <2>1 DEF OwnedAt, HandlesAt
    <2>3. settle(p, Handle(p, b), FirstPacket(p)) /\ FirstPacket(p) \in Nat
      BY <1>2, <1>3, <2>1, FirstPacketFacts DEF Continue
    <2>4. in_flight[p].buffer \in {NULL, b}
      OBVIOUS
    <2> HIDE DEF b
    <2>5. ZTypeOK' /\ OwnedAt(p)'
      BY <1>1, <1>2, <2>1, <2>2, <2>3, <2>4, SettleStep
    <2>6. BuffersElsewhere(p)
      BY <1>1, <2>3, SettleElsewhere
    <2> QED
      BY <1>1, <2>5, <2>6 DEF Keeps
  <1>4. CASE ~(in_flight[p] # NoHandle /\ call'[p].op = "none")
    <2>1. UNCHANGED <<buf, in_flight, handles>>
      BY <1>4 DEF Continue
    <2>2. OwnedAt(p)'
      BY <1>1, <1>4, <2>1, FrameOwned
    <2>3. ZTypeOK' /\ BuffersElsewhere(p)
      BY <1>1, <2>1 DEF ZTypeOK, BuffersElsewhere
    <2> QED
      BY <1>1, <2>2, <2>3 DEF Keeps
  <1> QED
    BY <1>3, <1>4

\* The other calls touch no buffer.
LEMMA OtherKeeps ==
  ASSUME TypeOK, ZTypeOK, NEW p \in Port, OwnedAt(p), Other(p)
  PROVE  Keeps(p)
  <1>0. UNCHANGED bufferVars
    BY DEF Other
  <1>1. CASE spw_port_start(p) \/ spw_port_stop(p) \/ spw_port_clear_statistics(p)
    <2>1. Lifecycle(p) /\ UNCHANGED link
      BY <1>1 DEF Lifecycle, spw_port_start, spw_port_stop, spw_port_clear_statistics
    <2> QED
      BY <1>0, <2>1, LifecycleCalls, FrameOwned
        DEF Keeps, ZTypeOK, bufferVars, BuffersElsewhere, CallsElsewhere
  <1>2. CASE SpuriousWakeup(p)
    BY <1>0, <1>2, WakeCalls, FrameOwned, Zenon
      DEF Keeps, ZTypeOK, bufferVars, BuffersElsewhere, CallsElsewhere
  <1>3. CASE Transfers(p)
    <2>1. \E c \in Call : Transfer(p, c)
      BY <1>3, TransfersCall
    <2>2. in_flight[p] = NoHandle
      BY <2>1, IdleFacts DEF Transfer
    <2> QED
      BY <1>0, <2>1, <2>2, TransferCalls, FrameOwned
        DEF Keeps, ZTypeOK, bufferVars, BuffersElsewhere, CallsElsewhere
  <1> QED
    BY <1>1, <1>2, <1>3 DEF Other

\* Opening, closing and resetting a port, with the handles of the port given
\* up by its application.
LEMMA LifecycleKeeps ==
  ASSUME ~UsesStaleHandles, TypeOK, ZTypeOK, NEW p \in Port, OwnedAt(p),
         OpenPort(p) \/ ClosePort(p) \/ ResetPort(p)
  PROVE  Keeps(p)
  <1>0. Lifecycle(p)
    BY DEF Lifecycle, OpenPort, ClosePort, ResetPort
  <1>1. CallsElsewhere(p)
    BY <1>0, LifecycleCalls DEF CallsElsewhere
  <1>2. initialize_zero_copy_buffers \in [Buffer -> BufferType]
    BY DEF initialize_zero_copy_buffers, free_buffer, BufferType, BufferState
  <1>3. in_flight[p] = NoHandle /\ UNCHANGED in_flight
    <2>1. ~Open(p) \/ Idle(p)
      BY DEF OpenPort, ClosePort, ResetPort, spw_port_open, spw_port_close, spw_port_reset
    <2> QED
      BY <2>1, IdleFacts DEF OwnedAt, HandlesAt, OpenPort, ClosePort, ResetPort
  <1>4. CASE OpenPort(p) \/ ResetPort(p)
    <2>1. handles'[p] = {}
      BY <1>4 DEF OpenPort, ResetPort, spw_port_open, OwnedAt, HandlesAt, ZTypeOK
    <2>2. /\ buf' = [buf EXCEPT ![p] = initialize_zero_copy_buffers]
          /\ buf' \in [Port -> [Buffer -> BufferType]]
      BY <1>2, <1>4, Zenon DEF OpenPort, ResetPort, ZTypeOK, BufferType
    <2>3. OwnedAt(p)'
      BY <1>3, <2>1, <2>2, FreshOwned DEF ZTypeOK
    <2>4. /\ handles' = handles \/ handles' = [handles EXCEPT ![p] = {}]
          /\ \/ ownership_epoch' = [ownership_epoch EXCEPT ![p] = 1]
             \/ ownership_epoch' = [ownership_epoch EXCEPT ![p] = @ + 1]
      BY <1>4 DEF OpenPort, ResetPort
    <2>5. /\ handles' \in [Port -> SUBSET [buffer : Buffer, epoch : Nat]]
          /\ ownership_epoch' \in [Port -> Nat \ {0}]
      <3>1. handles' \in [Port -> SUBSET [buffer : Buffer, epoch : Nat]]
        BY <2>4 DEF ZTypeOK
      <3>2. ownership_epoch \in [Port -> Nat \ {0}] /\ ownership_epoch[p] + 1 \in Nat \ {0}
        BY DEF ZTypeOK
      <3>3. ownership_epoch' \in [Port -> Nat \ {0}]
        BY <2>4, <3>2
      <3> QED
        BY <3>1, <3>3
    <2>6. ZTypeOK'
      BY <1>3, <2>2, <2>5, Zenon DEF ZTypeOK, BufferType
    <2>7. BuffersElsewhere(p)
      BY <1>3, <2>2, <2>4 DEF BuffersElsewhere, ZTypeOK
    <2> QED
      BY <1>1, <2>3, <2>6, <2>7 DEF Keeps
  <1>5. CASE ClosePort(p)
    <2>1. /\ handles' = [handles EXCEPT ![p] = {}] /\ UNCHANGED <<buf, ownership_epoch>>
          /\ link' = [link EXCEPT ![p] = NULL]
      BY <1>5 DEF ClosePort, spw_port_close, detach_backend
    <2>2. ~Open(p)' /\ handles'[p] = {} /\ in_flight'[p] = NoHandle
      BY <1>3, <2>1 DEF Open, TypeOK, ZTypeOK
    <2>3. OwnedAt(p)'
      BY <2>2, Zenon DEF OwnedAt, AgreesAt, WaitingAt, HandlesAt
    <2>4. ZTypeOK' /\ BuffersElsewhere(p)
      BY <1>3, <2>1 DEF ZTypeOK, BuffersElsewhere
    <2> QED
      BY <1>1, <2>3, <2>4 DEF Keeps
  <1> QED
    BY <1>4, <1>5

-----------------------------------------------------------------------------
(* The invariant. *)

\* Every zero-copy call keeps the ownership of buffers.
LEMMA ZeroCopyKeeps ==
  ASSUME TypeOK, ZTypeOK, NEW p \in Port, OwnedAt(p), ZeroCopy(p)
  PROVE  Keeps(p)
  BY AcquireTxKeeps, SubmitKeeps, AcquireRxKeeps, ReleaseKeeps, SetPacketKeeps
    DEF ZeroCopy, spw_port_release_tx_buffer, spw_port_release_rx_buffer

\* To the link a zero-copy call is nothing, or a transfer.
LEMMA ZeroCopyLink ==
  ASSUME TypeOK, ZTypeOK, NEW p \in Port, OwnedAt(p), ZeroCopy(p)
  PROVE  LinkStep
  <1>1. ASSUME NEW r \in Result, Refuse(p, r) \/ Accept(p)
        PROVE  LinkStep
    <2>1. "OK" \in Result
      BY DEF Result
    <2> QED
      BY <1>1, <2>1, ReturnFacts DEF Refuse, Accept, Nothing, LinkStep
  <1>2. ASSUME NEW h, NEW op \in {"send", "receive"}, NEW n \in Nat, NEW t \in Timeout,
               BufferTransfer(p, h, Request(op, "packet", n, t))
        PROVE  LinkStep
    <2>1. "packet" \in Kind
      BY DEF Kind
    <2>2. Request(op, "packet", n, t) \in Call /\ Request(op, "packet", n, t).op # "none"
      BY <2>1, RequestFacts
    <2> QED
      BY <1>2, <2>2, TransferCases DEF BufferTransfer, LinkStep
  <1>3. {"INVALID_STATE", "INVALID_PACKET", "RESOURCE_EXHAUSTED", "TIMEOUT", "OK"} \subseteq Result
    BY DEF Result
  <1>4. ASSUME NEW t \in Timeout,
               spw_port_acquire_tx_buffer(p, t) \/ spw_port_reclaim_tx_buffer(p, t)
        PROVE  LinkStep
    BY <1>1, <1>3, <1>4
      DEF spw_port_acquire_tx_buffer, spw_port_reclaim_tx_buffer, NotReady
  <1>5. ASSUME NEW t \in Timeout, spw_port_acquire_rx_buffer(p, t)
        PROVE  LinkStep
    <2>1. MAX_PACKET_SIZE \in Nat /\ "receive" \in {"send", "receive"}
      BY ConfigAssumption
    <2> QED
      BY <1>1, <1>2, <1>3, <1>5, <2>1 DEF spw_port_acquire_rx_buffer, NotReady
  <1>6. ASSUME NEW t \in Timeout, NEW h \in handles[p], spw_port_submit_tx_buffer(p, h, t)
        PROVE  LinkStep
    <2>1. buf[p][h.buffer].length \in Nat /\ "send" \in {"send", "receive"}
      BY HandleFacts DEF ZTypeOK
    <2> QED
      BY <1>1, <1>2, <1>3, <1>6, <2>1 DEF spw_port_submit_tx_buffer
  <1>7. ASSUME NEW h \in handles[p], Release(p, h)
        PROVE  LinkStep
    BY <1>1, <1>3, <1>7 DEF Release
  <1>8. ASSUME NEW h \in handles[p], NEW n \in Length, spw_buffer_set_packet(p, h, n)
        PROVE  LinkStep
    BY <1>1, <1>3, <1>8 DEF spw_buffer_set_packet
  <1> QED
    BY <1>4, <1>5, <1>6, <1>7, <1>8
      DEF ZeroCopy, spw_port_release_tx_buffer, spw_port_release_rx_buffer

\* Every step is a step of the link, and keeps the ownership of the port that
\* takes it.
LEMMA ZNextCases ==
  ASSUME ~UsesStaleHandles, ZInv, ZNext
  PROVE  LinkStep /\ \E p \in Port : Keeps(p)
  <1>0. TypeOK /\ NoLostWakeup /\ ZTypeOK /\ \A p \in Port : OwnedAt(p)
    BY DEF ZInv, Inv
  <1>1. ASSUME NEW p \in Port, OpenPort(p) \/ ClosePort(p) \/ ResetPort(p)
        PROVE  LinkStep /\ Keeps(p)
    BY <1>0, <1>1, LifecycleCases, LifecycleKeeps
      DEF Lifecycle, OpenPort, ClosePort, ResetPort
  <1>2. ASSUME NEW p \in Port, Other(p)
        PROVE  LinkStep /\ Keeps(p)
    <2>1. Lifecycle(p) \/ SpuriousWakeup(p) \/ Transfers(p)
      BY <1>2 DEF Other, Lifecycle
    <2>2. LinkStep
      BY <1>0, <2>1, LifecycleCases, TransfersCases, WakeCases DEF LinkStep
    <2> QED
      BY <1>0, <1>2, <2>2, OtherKeeps
  <1>3. ASSUME NEW p \in Port, Continue(p)
        PROVE  LinkStep /\ Keeps(p)
    BY <1>0, <1>3, WakeCases, ContinueKeeps, Zenon DEF Continue, LinkStep
  <1>4. ASSUME NEW p \in ZeroCopyPort, ZeroCopy(p)
        PROVE  LinkStep /\ Keeps(p) /\ p \in Port
    BY <1>0, <1>4, ZeroCopyLink, ZeroCopyKeeps, ZeroCopyAssumption
  <1> QED
    BY <1>1, <1>2, <1>3, <1>4 DEF ZNext

\* Every step keeps the invariant.
LEMMA ZInvStep ==
  ASSUME ~UsesStaleHandles, ZInv, [ZNext]_zvars
  PROVE  ZInv' /\ LinkStep
  <1>1. CASE UNCHANGED zvars
    <2>1. UNCHANGED vars /\ UNCHANGED bufferVars
      BY <1>1 DEF zvars
    <2>2. LinkStep
      BY <2>1 DEF LinkStep
    <2>3. \A q \in Port : OwnedAt(q)'
      BY <2>1, FrameOwned DEF ZInv, bufferVars, vars, SameCall
    <2> QED
      BY <2>1, <2>2, <2>3, InvStep DEF ZInv, ZTypeOK, bufferVars
  <1>2. CASE ZNext
    <2>1. LinkStep
      BY <1>2, ZNextCases
    <2>2. PICK p \in Port : Keeps(p)
      BY <1>2, ZNextCases
    <2>3. \A q \in Port : q # p => OwnedAt(q)'
      BY <2>2, FrameOwned DEF ZInv, Keeps, BuffersElsewhere, CallsElsewhere
    <2> QED
      BY <2>1, <2>2, <2>3, InvStep DEF ZInv, Keeps
  <1> QED
    BY <1>1, <1>2

\* The initial state satisfies it.
LEMMA ZInitInv ==
  ASSUME ZInit
  PROVE  ZInv
  <1>1. Inv
    BY InitInv DEF ZInit
  <1>2. ZTypeOK
    BY DEF ZInit, ZTypeOK, initialize_zero_copy_buffers, free_buffer, BufferState, NoHandle
  <1>3. \A p \in Port : ~Open(p) /\ in_flight[p] = NoHandle /\ handles[p] = {}
    BY DEF ZInit, Init, Open
  <1>4. \A p \in Port : OwnedAt(p)
    BY <1>3 DEF OwnedAt, AgreesAt, WaitingAt, HandlesAt
  <1> QED
    BY <1>1, <1>2, <1>4 DEF ZInv

\* The inductive invariant holds in every reachable state, if applications give
\* up their handles when they reset a port.
THEOREM ZInvariance == ~UsesStaleHandles => (ZSpec => []ZInv)
  <1> SUFFICES ASSUME ~UsesStaleHandles PROVE ZSpec => []ZInv
    OBVIOUS
  <1>1. ZInit => ZInv
    BY ZInitInv
  <1>2. ZInv /\ [ZNext]_zvars => ZInv'
    BY ZInvStep
  <1> QED
    BY <1>1, <1>2, PTL DEF ZSpec

\* No buffer is lost, owned twice or completed for nobody, whatever submits,
\* acquires, timeouts, stops and resets of either end happen in between.
THEOREM BuffersHaveOneOwner == ~UsesStaleHandles => (ZSpec => []OwnershipAgrees)
  <1>1. ZInv => OwnershipAgrees
    BY DEF ZInv, OwnedAt, AgreesAt, OwnershipAgrees
  <1> QED
    BY <1>1, ZInvariance, PTL

\* A buffer in the BACKEND state always has its call: a port whose call
\* returned, by whatever way out of the wait, has no buffer left in use.
THEOREM BackendBuffersHaveACall == ~UsesStaleHandles => (ZSpec => []InFlightMeansWaiting)
  <1>1. ZInv => InFlightMeansWaiting
    BY DEF ZInv, OwnedAt, WaitingAt, InFlightMeansWaiting
  <1> QED
    BY <1>1, ZInvariance, PTL

\* Buffer transfers go through the same queues as copied ones and keep what
\* holds of the link without them: no waiting call misses a wake-up, nothing is
\* taken from an endpoint from afar, and no packet escapes the counters.
THEOREM BuffersKeepTheLink ==
  ~UsesStaleHandles =>
      (ZSpec => []Inv /\ OnlyOwnerRemoves /\ PacketsAccountedFor)
  <1> SUFFICES ASSUME ~UsesStaleHandles
               PROVE  ZSpec => []Inv /\ OnlyOwnerRemoves /\ PacketsAccountedFor
    OBVIOUS
  <1> DEFINE Owner == \A e \in Endpoint : \A k \in Kind :
                        Len(ep'[e].queue[k]) < Len(ep[e].queue[k]) =>
                            LET other == peer(e) IN
                            /\ ep'[other].started = ep[other].started
                            /\ ep'[other].attached = ep[other].attached
                            /\ ep'[other].queue = ep[other].queue
             Account == (\A p \in Port : ~spw_port_clear_statistics(p)) =>
                        \A e \in Endpoint :
                            (\A x \in {e, peer(e)} : ep[x].attached <=> ep'[x].attached)
                            => Balance(e)' = Balance(e)
  <1>1. ZInit => ZInv /\ DetachedEmpty
    BY ZInitInv, InitDetached DEF ZInit
  <1>2. ZInv /\ DetachedEmpty /\ [ZNext]_zvars => (ZInv /\ DetachedEmpty)'
    BY ZInvStep, DetachedStep DEF ZInv
  <1>3. ZInv /\ DetachedEmpty /\ [ZNext]_zvars => Owner
    BY ZInvStep, OwnerStep DEF ZInv, Same
  <1>4. ZInv /\ [ZNext]_zvars => Account
    BY ZInvStep, AccountStep DEF ZInv
  <1>5. ZInv => Inv
    BY DEF ZInv
  <1> HIDE DEF Owner, Account
  <1>6. ZSpec => []Inv /\ [][Owner]_vars /\ [][Account]_vars
    BY <1>1, <1>2, <1>3, <1>4, <1>5, PTL DEF ZSpec
  <1> QED
    BY <1>6 DEF Owner, Account, OnlyOwnerRemoves, PacketsAccountedFor
=============================================================================
