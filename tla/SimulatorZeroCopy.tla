------------------------- MODULE SimulatorZeroCopy -------------------------
(***************************************************************************)
(* Zero-copy buffers on top of SimulatorLink: the ownership checks of the  *)
(* port layer (src/core/port.c), its reset epoch, and the simulator's      *)
(* fixed TX buffers and single RX buffer                                   *)
(* (src/backends/virtual/simulator_backend.c).  A submit is a packet send  *)
(* and an acquire of the RX buffer is a packet receive, so both may wait   *)
(* on the link with the buffer in the BACKEND state.                       *)
(*                                                                         *)
(* The buffers of a port are reached only through calls on that port,      *)
(* which the application serialises: nobody can end a wait on              *)
(* zero_copy_condition.  A finite wait there times out; an infinite one    *)
(* never returns, and the port just takes no further step.                 *)
(***************************************************************************)
EXTENDS SimulatorLink

CONSTANTS
    ZeroCopyPort,       \* ports whose application uses buffers
    TX_BUFFERS,         \* number of TX buffers of a port
    UsesStaleHandles,   \* whether applications keep handles over a reset
    MaxEpoch            \* bound on resets of one port

ASSUME ZeroCopyAssumption ==
    /\ ZeroCopyPort \subseteq Port
    /\ TX_BUFFERS \in Nat \ {0}
    /\ UsesStaleHandles \in BOOLEAN
    /\ MaxEpoch \in Nat \ {0}

RX == 0                 \* the RX buffer; TX buffers are 1 .. TX_BUFFERS
TX == 1 .. TX_BUFFERS
Buffer == TX \cup {RX}

VARIABLES
    buf,                \* [Port -> [Buffer -> struct spw_buffer]]
    ownership_epoch,    \* [Port -> Nat]
    in_flight,          \* [Port -> handle used by the waiting call, or NoHandle]
    handles             \* [Port -> handles the application keeps]: a handle is
                        \* the buffer it points to and, for the properties
                        \* only, the epoch it was obtained in

bufferVars == <<buf, ownership_epoch, in_flight, handles>>
zvars == <<vars, bufferVars>>

\* Epoch 0 is owner_epoch = NULL: the port layer has not bound the buffer.
free_buffer == [state |-> "FREE", length |-> 0, epoch |-> 0]

initialize_zero_copy_buffers == [b \in Buffer |-> free_buffer]

NoHandle == [buffer |-> NULL, epoch |-> 0]

ZInit ==
    /\ Init
    /\ buf = [p \in Port |-> initialize_zero_copy_buffers]
    /\ ownership_epoch = [p \in Port |-> 1]
    /\ in_flight = [p \in Port |-> NoHandle]
    /\ handles = [p \in Port |-> {}]

-----------------------------------------------------------------------------
(* Ownership checks and bookkeeping of the port layer *)

application_owned(p, b) ==
    /\ buf[p][b].state = "APPLICATION"
    /\ buf[p][b].epoch = ownership_epoch[p]

InState(p, s) == {b \in TX : buf[p][b].state = s}

Handle(p, b) == [buffer |-> b, epoch |-> ownership_epoch[p]]

\* The application gets buffer b (acquire, reclaim): the port layer binds it
\* to the current epoch.
Give(p, b, n) ==
    /\ buf' = [buf EXCEPT ![p][b] = [state |-> "APPLICATION", length |-> n,
                                     epoch |-> ownership_epoch[p]]]
    /\ handles' = [handles EXCEPT ![p] = @ \cup {Handle(p, b)}]

\* The caller's pointer is cleared after a successful submit or release.
Forget(p, h) == handles' = [handles EXCEPT ![p] = @ \ {h}]

Refuse(p, r) == Return(p, r) /\ UNCHANGED <<REGISTRY, ep, link, locally_started,
                                            call, bufferVars>>
Accept(p) == Return(p, "OK") /\ UNCHANGED <<REGISTRY, ep, link, locally_started,
                                            call, ownership_epoch, in_flight>>
NotReady(p, t, full) ==
    /\ t # "infinite"
    /\ Refuse(p, IF t = "immediate" THEN full ELSE "TIMEOUT")

-----------------------------------------------------------------------------
(* Lifecycle of the port, with its buffers *)

OpenPort(p) ==
    /\ spw_port_open(p)
    /\ buf' = [buf EXCEPT ![p] = initialize_zero_copy_buffers]
    /\ ownership_epoch' = [ownership_epoch EXCEPT ![p] = 1]
    /\ UNCHANGED <<in_flight, handles>>

\* Handles of a closed port are no longer valid application objects.
ClosePort(p) ==
    /\ spw_port_close(p)
    /\ handles' = [handles EXCEPT ![p] = {}]
    /\ UNCHANGED <<buf, ownership_epoch, in_flight>>

ResetPort(p) ==
    /\ ownership_epoch[p] < MaxEpoch
    /\ spw_port_reset(p)
    /\ buf' = [buf EXCEPT ![p] = initialize_zero_copy_buffers]
    /\ ownership_epoch' = [ownership_epoch EXCEPT ![p] = @ + 1]
    /\ handles' = [handles EXCEPT ![p] = IF UsesStaleHandles THEN @ ELSE {}]
    /\ UNCHANGED in_flight

Other(p) ==
    /\ \/ spw_port_start(p) \/ spw_port_stop(p)
       \/ spw_port_clear_statistics(p) \/ SpuriousWakeup(p)
       \/ Transfers(p)
    /\ UNCHANGED bufferVars

-----------------------------------------------------------------------------
(* Zero-copy calls *)

Lowest(S) == CHOOSE b \in S : \A c \in S : b <= c

spw_port_acquire_tx_buffer(p, t) ==
    /\ Open(p) /\ Idle(p)
    /\ \/ ~locally_started[p] /\ Refuse(p, "INVALID_STATE")
       \/ /\ locally_started[p] /\ InState(p, "FREE") = {}
          /\ NotReady(p, t, "RESOURCE_EXHAUSTED")
       \/ /\ locally_started[p] /\ InState(p, "FREE") # {}
          /\ Give(p, Lowest(InState(p, "FREE")), 0)
          /\ Accept(p)

spw_port_reclaim_tx_buffer(p, t) ==
    /\ Open(p) /\ Idle(p)
    /\ \/ ~locally_started[p] /\ Refuse(p, "INVALID_STATE")
       \/ /\ locally_started[p] /\ InState(p, "COMPLETED") = {}
          /\ NotReady(p, t, "TIMEOUT")
       \/ /\ locally_started[p] /\ InState(p, "COMPLETED") # {}
          /\ LET b == Lowest(InState(p, "COMPLETED"))
             IN  Give(p, b, buf[p][b].length)
          /\ Accept(p)

spw_buffer_set_packet(p, h, n) ==
    /\ Open(p) /\ Idle(p)
    /\ LET ok == application_owned(p, h.buffer) /\ h.buffer # RX
       IN  \/ ~ok /\ Refuse(p, "INVALID_STATE")
           \/ ok /\ n > MAX_PACKET_SIZE /\ Refuse(p, "INVALID_PACKET")
           \/ /\ ok /\ n <= MAX_PACKET_SIZE
              /\ buf' = [buf EXCEPT ![p][h.buffer].length = n]
              /\ UNCHANGED handles
              /\ Accept(p)

\* release_tx and release_rx: the same checks, for the buffer of the direction.
Release(p, h) ==
    /\ Open(p) /\ Idle(p)
    /\ \/ ~application_owned(p, h.buffer) /\ Refuse(p, "INVALID_STATE")
       \/ /\ application_owned(p, h.buffer)
          /\ buf' = [buf EXCEPT ![p][h.buffer].state = "FREE",
                                ![p][h.buffer].length = 0]
          /\ Forget(p, h)
          /\ Accept(p)

spw_port_release_tx_buffer(p, h) == h.buffer \in TX /\ Release(p, h)
spw_port_release_rx_buffer(p, h) == h.buffer = RX /\ Release(p, h)

\* Mutant: the backend completes the TX buffer of a failed submit as well, while
\* the port layer leaves the application its handle.
settle_completes(p, h, item) ==
    /\ in_flight' = [in_flight EXCEPT ![p] = NoHandle]
    /\ IF h.buffer = RX /\ result'[p] = "OK" THEN Give(p, RX, item)
       ELSE /\ buf' = [buf EXCEPT ![p][h.buffer].state =
                  IF h.buffer = RX THEN "FREE" ELSE "COMPLETED"]
            /\ IF result'[p] = "OK" THEN Forget(p, h) ELSE UNCHANGED handles

\* The end of the send behind a submit, or of the receive behind an acquire of
\* the RX buffer, after the step that set result'; item is the packet received.
settle(p, h, item) ==
    /\ in_flight' = [in_flight EXCEPT ![p] = NoHandle]
    /\ IF h.buffer = RX
       THEN IF result'[p] = "OK" THEN Give(p, RX, item)
            ELSE /\ buf' = [buf EXCEPT ![p][RX].state = "FREE"]
                 /\ UNCHANGED handles
       ELSE IF result'[p] = "OK"
            THEN /\ buf' = [buf EXCEPT ![p][h.buffer].state = "COMPLETED"]
                 /\ Forget(p, h)
            ELSE /\ buf' = [buf EXCEPT ![p][h.buffer].state = "APPLICATION"]
                 /\ UNCHANGED handles

\* The packet a receive by p would return (0 if there is none).
FirstPacket(p) ==
    LET q == Local(p).queue["packet"] IN IF q = <<>> THEN 0 ELSE Head(q)

\* Transfer call c with buffer h: settled at once, or waiting in BACKEND.
BufferTransfer(p, h, c) ==
    /\ Transfer(p, c)
    /\ IF call'[p].op = "none" THEN settle(p, h, FirstPacket(p))
       ELSE /\ buf' = [buf EXCEPT ![p][h.buffer].state = "BACKEND"]
            /\ in_flight' = [in_flight EXCEPT ![p] = h]
            /\ UNCHANGED handles
    /\ UNCHANGED ownership_epoch

\* Mutant: the capacity of the buffer is sent instead of the packet in it.
submit_capacity(p, h, t) ==
    /\ Open(p) /\ Idle(p) /\ h.buffer \in TX
    /\ locally_started[p] /\ application_owned(p, h.buffer)
    /\ BufferTransfer(p, h, Request("send", "packet", MAX_PACKET_SIZE, t))

spw_port_submit_tx_buffer(p, h, t) ==
    /\ Open(p) /\ Idle(p) /\ h.buffer \in TX
    /\ LET ok == locally_started[p] /\ application_owned(p, h.buffer)
       IN  \/ ~ok /\ Refuse(p, "INVALID_STATE")
           \/ /\ ok
              /\ BufferTransfer(p, h, Request("send", "packet",
                                              buf[p][h.buffer].length, t))

spw_port_acquire_rx_buffer(p, t) ==
    /\ Open(p) /\ Idle(p)
    /\ LET free == buf[p][RX].state = "FREE"
       IN  \/ ~locally_started[p] /\ Refuse(p, "INVALID_STATE")
           \/ /\ locally_started[p] /\ ~free
              /\ NotReady(p, t, "RESOURCE_EXHAUSTED")
           \/ /\ locally_started[p] /\ free
              /\ BufferTransfer(p, Handle(p, RX), Request("receive", "packet",
                                                          MAX_PACKET_SIZE, t))

\* A waiting call goes on; a zero-copy call that returns settles its buffer.
Continue(p) ==
    /\ Resume(p) \/ Expire(p)
    /\ IF in_flight[p] # NoHandle /\ call'[p].op = "none"
       THEN settle(p, in_flight[p], FirstPacket(p))
       ELSE UNCHANGED <<buf, in_flight, handles>>
    /\ UNCHANGED ownership_epoch

ZeroCopy(p) ==
    \/ \E t \in Timeout : \/ spw_port_acquire_tx_buffer(p, t)
                          \/ spw_port_reclaim_tx_buffer(p, t)
                          \/ spw_port_acquire_rx_buffer(p, t)
                          \/ \E h \in handles[p] : spw_port_submit_tx_buffer(p, h, t)
    \/ \E h \in handles[p] : \/ spw_port_release_tx_buffer(p, h)
                             \/ spw_port_release_rx_buffer(p, h)
                             \/ \E n \in Length : spw_buffer_set_packet(p, h, n)

ZNext ==
    \/ \E p \in Port : OpenPort(p) \/ ClosePort(p) \/ ResetPort(p)
                       \/ Other(p) \/ Continue(p)
    \/ \E p \in ZeroCopyPort : ZeroCopy(p)

ZSpec == ZInit /\ [][ZNext]_zvars

-----------------------------------------------------------------------------
(* Properties *)

BufferState == {"FREE", "APPLICATION", "BACKEND", "COMPLETED"}

ZTypeOK ==
    /\ buf \in [Port -> [Buffer -> [state : BufferState, length : Nat, epoch : Nat]]]
    /\ ownership_epoch \in [Port -> Nat \ {0}]
    /\ in_flight \in [Port -> [buffer : Buffer \cup {NULL}, epoch : Nat]]
    /\ handles \in [Port -> SUBSET [buffer : Buffer, epoch : Nat]]

\* The application and the backend agree on who owns a buffer: an open port's
\* buffer is APPLICATION exactly when the application holds its current-epoch
\* handle and no call is using it, BACKEND exactly while a waiting call uses
\* it, and only TX buffers complete.  A failed or timed-out submit or acquire,
\* a stop, and a reset by either end keep this; no buffer is lost.
OwnershipAgrees ==
    \A p \in Port : Open(p) => \A b \in Buffer :
        LET busy == in_flight[p].buffer = b
            held == Handle(p, b) \in handles[p]
        IN  /\ buf[p][b].state = "APPLICATION" <=> held /\ ~busy
            /\ buf[p][b].state = "BACKEND" <=> busy
            /\ buf[p][b].state = "COMPLETED" => b \in TX /\ ~held
            /\ buf[p][b].state \in {"APPLICATION", "COMPLETED"}
               => buf[p][b].epoch = ownership_epoch[p]

\* A buffer in use by a waiting call belongs to a call that really waits, and
\* the packet the call would send is the one the application left in it.
InFlightMeansWaiting ==
    \A p \in Port : in_flight[p] # NoHandle =>
        /\ ~Idle(p) /\ call[p].kind = "packet"
        /\ IF in_flight[p].buffer = RX
           THEN call[p].op = "receive"
           ELSE call[p].op = "send" /\ call[p].item = buf[p][in_flight[p].buffer].length

\* docs/current-status.md: "stale pre-reset handles are rejected".  A step that
\* takes a handle from the application (submit or release succeeded) takes one
\* of the current epoch, unless the port is closed.
StaleHandlesRejected ==
    [][\A p \in Port : Open(p)' => \A h \in handles[p] \ handles'[p] :
          h.epoch = ownership_epoch[p]]_zvars

=============================================================================
