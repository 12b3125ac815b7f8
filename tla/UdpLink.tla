------------------------------ MODULE UdpLink ------------------------------
(***************************************************************************)
(* Two UDP backends and the network between them: transport sessions,      *)
(* KEEPALIVE liveness, one reliable transmit slot with bounded retries,    *)
(* fragments and their reassembly, acknowledgements bound to two sessions, *)
(* and the bounded histories of delivered messages and retired sessions.   *)
(*   source: src/backends/ethernet/udp_backend.c, and the port layer of    *)
(*   src/core/port.c around it                                             *)
(*                                                                         *)
(* The functions of the source are operators from a backend to the next    *)
(* one.  The field io holds what one step leaves outside the backend: the  *)
(* datagrams handed to the socket (out), how many more the socket takes    *)
(* (room) and the error it gives after that (err), the last function's     *)
(* result (rc), and the messages accepted from the peer (got).             *)
(*                                                                         *)
(* A blocking call is one step up to its first wait and one step for every *)
(* round of its loop; each round reads at most one datagram.  Clocks are   *)
(* reduced to what the code asks of them: at the start of a step any set   *)
(* of running intervals may turn out to be over.                           *)
(***************************************************************************)
EXTENDS FragmentReassembler, VspwTp, SequencesExt

CONSTANTS
    fragment_payload_size,      \* bytes of a packet in one datagram
    RECENT_MESSAGE_DEPTH, RETIRED_SESSION_DEPTH, TIME_CODE_QUEUE_DEPTH,
    COUNTER_MODULUS,            \* where a statistics counter wraps (2^64)
    MaxLag,                     \* later messages a datagram can be delayed past
    Settings                    \* [name -> configuration and environment]

VARIABLE setting    \* the name of the setting; it never changes

max_retries == Settings[setting].max_retries
virtual_delay == Settings[setting].virtual_delay    \* the link has a rate or latency
ID_MODULUS == Settings[setting].ID_MODULUS  \* where next_message_id wraps (2^32)
Kinds == Settings[setting].Kinds            \* of messages sent
Lengths == Settings[setting].Lengths        \* of packets sent
Terminators == Settings[setting].Terminators
MaxSessions == Settings[setting].MaxSessions    \* [Port -> starts of the port]
MaxSent == Settings[setting].MaxSent        \* [Port -> messages offered on it]
Timeouts == Settings[setting].Timeouts      \* classes of the calls' timeouts
Capacities == Settings[setting].Capacities  \* buffer sizes offered to receive
Expiring == Settings[setting].Expiring      \* which intervals may run out
Rooms == Settings[setting].Rooms    \* how many datagrams the socket takes in a step
Errors == Settings[setting].Errors  \* and what it answers after that
Survives == Settings[setting].Survives  \* datagrams outlive a start of either side
Closing == Settings[setting].Closing    \* ports are closed (or their process dies)

Port == {"A", "B"}
peer(p) == CHOOSE q \in Port : q # p

Active == {"CONNECTING", "RUN", "ERROR_WAIT"}
Interval == {"ack", "peer", "keepalive", "fragment"}

ASSUME UdpAssumption ==
    /\ fragment_payload_size \in Nat \ {0}
    /\ RECENT_MESSAGE_DEPTH \in Nat \ {0} /\ RETIRED_SESSION_DEPTH \in Nat \ {0}
    /\ TIME_CODE_QUEUE_DEPTH \in Nat \ {0}
    /\ \A n \in DOMAIN Settings :
         LET s == Settings[n]
         IN  /\ s.max_retries \in Nat \ {0} /\ s.ID_MODULUS > RECENT_MESSAGE_DEPTH + 1
             /\ s.Lengths \subseteq 0 .. capacity /\ s.Terminators \subseteq {"EOP", "EEP"}
             /\ s.Expiring \subseteq Interval
             /\ {s.virtual_delay, s.Survives, s.Closing} \subseteq BOOLEAN

VARIABLES
    udp,            \* [Port -> backend]
    net,            \* [Port -> datagrams on their way to the port]; delivery
                    \* removes none, so one may arrive late, often or never
    call,           \* [Port -> blocked call or NoCall]
    started,        \* [Port -> sessions begun so far]
    sent,           \* [Port -> the messages the application offered]
    delivered,      \* [Port -> messages accepted since the port's last start]
    accepted,       \* [Port -> items ever accepted from the peer]
    refused         \* [Port -> items whose send call returned an error]

vars == <<udp, net, call, started, sent, delivered, accepted, refused, setting>>

NoTx == [kind |-> "none"]
NoCall == [op |-> "none"]
NoIo == [out |-> {}, room |-> 0, err |-> "OK", rc |-> "OK", got |-> <<>>]

\* A backend as udp_construct leaves it; open is socket_fd >= 0.
Constructed ==
    [open |-> TRUE, locally_started |-> FALSE, state |-> "READY",
     local_session_id |-> NO_SESSION, remote_session_id |-> NO_SESSION,
     peer |-> "unseen", keepalive |-> "due", tx |-> NoTx, rx |-> <<>>,
     time_codes |-> <<>>, reassembly |-> spw_fragment_reassembler_init,
     fragment |-> "none", recent_messages |-> <<>>, retired_sessions |-> <<>>,
     next_message_id |-> 1, link_errors |-> 0, dropped_packets |-> 0,
     io |-> NoIo]
Closed == [Constructed EXCEPT !.open = FALSE, !.state = "ERROR_RESET"]

Init ==
    /\ udp = [p \in Port |-> Closed]
    /\ net = [p \in Port |-> {}] /\ call = [p \in Port |-> NoCall]
    /\ started = [p \in Port |-> 0] /\ sent = [p \in Port |-> <<>>]
    /\ delivered = [p \in Port |-> <<>>] /\ accepted = [p \in Port |-> {}]
    /\ refused = [p \in Port |-> {}] /\ setting \in DOMAIN Settings

With(b, rc) == [b EXCEPT !.io.rc = rc]

-----------------------------------------------------------------------------
(* Clearing state *)

clear_reassembly(b) ==
    [b EXCEPT !.reassembly = spw_fragment_reassembler_reset(@), !.fragment = "none"]

expire_reassembly(b) ==
    IF b.reassembly.active /\ b.fragment = "old" THEN clear_reassembly(b) ELSE b

clear_pending_tx(b) == [b EXCEPT !.tx = NoTx]
clear_recent_messages(b) == [b EXCEPT !.recent_messages = <<>>]
clear_retired_sessions(b) == [b EXCEPT !.retired_sessions = <<>>]

-----------------------------------------------------------------------------
(* The peer: liveness and sessions *)

peer_is_current(b) == b.peer = "heard"

mark_peer_lost(b) ==
    [clear_reassembly(b) EXCEPT
        !.link_errors = IF b.state # "ERROR_WAIT" THEN (@ + 1) % COUNTER_MODULUS ELSE @,
        !.state = "ERROR_WAIT"]

refresh_peer_state(b) ==
    LET e == expire_reassembly(b)
    IN  IF e.state = "RUN" /\ ~peer_is_current(e) THEN mark_peer_lost(e)
        ELSE IF e.state = "ERROR_WAIT" /\ peer_is_current(e)
             THEN [e EXCEPT !.state = "RUN"]
        ELSE e

note_peer_activity(b) ==
    [b EXCEPT !.peer = "heard",
              !.state = IF @ \in {"CONNECTING", "ERROR_WAIT"} THEN "RUN" ELSE @]

is_retired_session(b, s) == Contains(b.retired_sessions, s)

\* The last `depth` values of a history, in which a value is kept once.
Remember(history, v, depth) ==
    IF Contains(history, v) THEN history
    ELSE IF Len(history) < depth THEN Append(history, v)
    ELSE Append(Tail(history), v)

remember_retired_session(b, s) ==
    [b EXCEPT !.retired_sessions = Remember(@, s, RETIRED_SESSION_DEPTH)]

recently_delivered(b, type, id) ==
    id # 0 /\ Contains(b.recent_messages, <<type, id>>)

remember_delivered(b, type, id) ==
    IF id = 0 THEN b
    ELSE [b EXCEPT !.recent_messages = Remember(@, <<type, id>>, RECENT_MESSAGE_DEPTH)]

\* A pending message is offered to the new session from the beginning.
restart_pending(b) ==
    IF b.tx = NoTx THEN b
    ELSE [b EXCEPT !.tx.retries = 0, !.tx.failed = FALSE, !.tx.timer = "due"]

\* Mutant: the replaced session is not retired.
replace_unretired(b, s) ==
    IF s = NO_SESSION \/ is_retired_session(b, s) THEN b
    ELSE IF b.remote_session_id = s THEN note_peer_activity(b)
    ELSE note_peer_activity(restart_pending(clear_recent_messages(clear_reassembly(
             [b EXCEPT !.remote_session_id = s]))))

reset_remote_session(b, s) ==
    IF s = NO_SESSION \/ is_retired_session(b, s) THEN b
    ELSE IF b.remote_session_id = s THEN note_peer_activity(b)
    ELSE LET old == IF b.remote_session_id = NO_SESSION THEN b
                    ELSE remember_retired_session(b, b.remote_session_id)
         IN  note_peer_activity(restart_pending(clear_recent_messages(
                 clear_reassembly([old EXCEPT !.remote_session_id = s]))))

-----------------------------------------------------------------------------
(* Sending.  A datagram carries the header fields receivers look at, the   *)
(* acknowledged session of an ACK, and the item it is about, which is also *)
(* the content of every payload byte.  Fault rules, which only drop, hold  *)
(* or repeat datagrams here, are in UdpFaults.                             *)

send_datagram(b, d) ==
    IF b.io.room = 0 THEN With(b, b.io.err)
    ELSE [b EXCEPT !.io.out = @ \cup {d}, !.io.room = @ - 1, !.io.rc = "OK"]

Datagram(b, type, flags, id, offset, size, total, item) ==
    [type |-> type, flags |-> flags, session_id |-> b.local_session_id,
     message_id |-> id, fragment_offset |-> offset, payload_size |-> size,
     total_size |-> total, acked |-> NO_SESSION, item |-> item]

\* The header of a datagram as the codec sees it.
header(d) ==
    [HEADER_INITIALIZER EXCEPT
        !.type = d.type, !.flags = d.flags, !.session_id = d.session_id,
        !.message_id = d.message_id, !.fragment_offset = d.fragment_offset,
        !.payload_size = d.payload_size, !.total_size = d.total_size]

send_keepalive(b) ==
    LET s == send_datagram(b, Datagram(b, "KEEPALIVE", {}, 0, 0, 0, 0, 0))
    IN  IF s.io.rc = "OK" THEN [s EXCEPT !.keepalive = "sent"] ELSE s

maybe_send_keepalive(b) ==
    IF b.open /\ b.state \in Active /\ b.keepalive = "due" THEN send_keepalive(b) ELSE b

\* Its result is ignored everywhere: a lost ACK is repaired by the peer's
\* retransmission.
send_ack(b, id, item) ==
    IF id = 0 \/ b.remote_session_id = NO_SESSION THEN b
    ELSE With(send_datagram(b,
                 [Datagram(b, "ACK", {}, id, 0, ACK_PAYLOAD_SIZE, ACK_PAYLOAD_SIZE, item)
                     EXCEPT !.acked = b.remote_session_id]), b.io.rc)

take_nonzero(counter) == IF counter = 0 THEN 1 ELSE counter

terminator_flag(t) == IF t = "EEP" THEN "EEP" ELSE "EOP"
Length(m) == Cardinality(DOMAIN m.bytes)

\* The datagrams of the pending message, in the order they are sent.
fragments(b) ==
    LET m == b.tx.message
        size == Length(m)
        F == fragment_payload_size
        count == IF size = 0 THEN 1 ELSE (size + F - 1) \div F
        part(i) == IF size - (i * F) < F THEN size - (i * F) ELSE F
        flags(i) == {terminator_flag(m.terminator), "ACK_REQUIRED"}
                    \cup (IF size > F /\ i = 0 THEN {"FRAGMENT_START"} ELSE {})
                    \cup (IF size > F /\ i = count - 1 THEN {"FRAGMENT_END"} ELSE {})
    IN  IF m.kind = "time_code"
        THEN <<Datagram(b, "TIME_CODE", {"ACK_REQUIRED"}, b.tx.id, 0,
                        TIME_CODE_PAYLOAD_SIZE, TIME_CODE_PAYLOAD_SIZE, b.tx.item)>>
        ELSE [i \in 1 .. count |->
                Datagram(b, "DATA", flags(i - 1), b.tx.id, (i - 1) * F, part(i - 1),
                         size, b.tx.item)]

\* Stops at the first datagram the socket refuses; those before it are out.
transmit_pending(b) ==
    IF b.tx = NoTx \/ b.tx.id = 0 THEN With(b, "OK")
    ELSE LET after == FoldLeft(
                 LAMBDA x, d : IF x.io.rc = "OK" THEN send_datagram(x, d) ELSE x,
                 With(b, "OK"), fragments(b))
         IN  IF after.io.rc = "OK" THEN [after EXCEPT !.tx.timer = "waiting"] ELSE after

\* Mutant: a retry is not counted.
service_uncounted(b) ==
    IF b.tx = NoTx \/ b.tx.timer = "waiting" THEN With(b, "OK")
    ELSE transmit_pending(b)

service_pending_tx(b) ==
    IF b.tx = NoTx \/ b.tx.timer = "waiting" THEN With(b, "OK")
    ELSE IF b.tx.retries >= max_retries
         THEN With(mark_peer_lost(
                  [b EXCEPT !.tx.failed = TRUE,
                            !.dropped_packets =
                                IF b.tx.failed THEN @ ELSE (@ + 1) % COUNTER_MODULUS]),
                  "LINK_UNAVAILABLE")
    ELSE LET t == transmit_pending(b)
         IN  IF t.io.rc = "OK" THEN [t EXCEPT !.tx.retries = @ + 1] ELSE t

-----------------------------------------------------------------------------
(* Receiving *)

Drop(b) == [b EXCEPT !.dropped_packets = (@ + 1) % COUNTER_MODULUS]

\* Mutant: an ACK is taken without looking whose message it acknowledges.
process_any_ack(b, d) ==
    IF b.tx # NoTx /\ d.message_id = b.tx.id THEN clear_pending_tx(b) ELSE b

process_ack(b, d) ==
    IF d.acked = NO_SESSION THEN Drop(b)
    ELSE IF /\ d.acked = b.local_session_id
            /\ b.tx # NoTx /\ d.message_id = b.tx.id
         THEN clear_pending_tx(b)
    ELSE b

process_keepalive(b, d) == reset_remote_session(b, d.session_id)

\* What every accepted message leaves behind: the record of the delivery, its
\* entry in the history and its acknowledgement.
Acknowledge(b, type, id, item, message, wanted) ==
    LET g == [b EXCEPT !.io.got = Append(@, [item |-> item, message |-> message])]
    IN  IF wanted THEN send_ack(remember_delivered(g, type, id), id, item) ELSE g

Content(item, n) == [i \in 0 .. n - 1 |-> item]

process_time_code(b, d) ==
    LET m == [kind |-> "time_code", terminator |-> "EOP", bytes |-> Content(d.item, 2)]
    IN  IF ack_required(d) /\ recently_delivered(b, "TIME_CODE", d.message_id)
        THEN send_ack(b, d.message_id, d.item)
        ELSE IF Len(b.time_codes) = TIME_CODE_QUEUE_DEPTH
             THEN With(b, "RESOURCE_EXHAUSTED")
        ELSE Acknowledge([b EXCEPT !.time_codes = Append(@, m)],
                         "TIME_CODE", d.message_id, d.item, m, ack_required(d))

terminator(flags) == IF "EEP" \in flags THEN "EEP" ELSE "EOP"

\* A whole packet in one datagram.
accept_unfragmented(b, d) ==
    LET m == [kind |-> "packet", terminator |-> terminator(d.flags),
              bytes |-> Content(d.item, d.payload_size)]
    IN  IF b.rx # <<>> THEN With(b, "RESOURCE_EXHAUSTED")
        ELSE Acknowledge([b EXCEPT !.rx = <<m>>], "DATA", d.message_id, d.item, m,
                         ack_required(d))

\* The reassembled packet; it stays in the reassembler while the slot is full.
accept_reassembled(b, d) ==
    LET r == b.reassembly
        m == [kind |-> "packet", terminator |-> terminator(r.terminator_flags),
              bytes |-> [i \in 0 .. r.total_size - 1 |-> r.data[i]]]
    IN  IF b.rx # <<>> THEN With(b, "RESOURCE_EXHAUSTED")
        ELSE Acknowledge([clear_reassembly(b) EXCEPT !.rx = <<m>>], "DATA",
                         r.message_id, d.item, m, r.ack_required)

fragment_of(d) ==
    [type |-> d.type, flags |-> d.flags, message_id |-> d.message_id,
     total_size |-> d.total_size, payload_size |-> d.payload_size,
     fragment_offset |-> d.fragment_offset,
     content |-> [p \in Position |-> d.item]]

process_data(b, d) ==
    LET e == expire_reassembly(b)
        push == spw_fragment_reassembler_push(e.reassembly, fragment_of(d))
        pushed == [e EXCEPT !.reassembly = push.r, !.fragment = "fresh"]
    IN  IF ack_required(d) /\ recently_delivered(b, "DATA", d.message_id)
        THEN send_ack(b, d.message_id, d.item)
        ELSE IF d.total_size = d.payload_size THEN accept_unfragmented(b, d)
        ELSE IF push.result \in {"INVALID", "CONFLICT"} THEN Drop([e EXCEPT !.reassembly = push.r])
        ELSE IF push.result # "COMPLETE" THEN pushed
        ELSE accept_reassembled(pushed, d)

\* A datagram from the peer's address, on this link.
process(b, d) ==
    IF ~spw_vspw_tp_validate(header(d)) THEN Drop(b)
    ELSE IF d.type = "KEEPALIVE" THEN process_keepalive(b, d)
    ELSE IF \/ b.remote_session_id = NO_SESSION
            \/ d.session_id # b.remote_session_id THEN b
    ELSE LET n == note_peer_activity(b)
         IN  CASE d.type = "DATA" -> IF d.total_size > capacity THEN Drop(n)
                                     ELSE process_data(n, d)
               [] d.type = "TIME_CODE" -> process_time_code(n, d)
               [] d.type = "ACK" -> process_ack(n, d)
               [] OTHER -> n

NoDatagram == [type |-> "nothing arrives"]
ReadError == [type |-> "recvfrom fails"]

\* At most one datagram; "TIMEOUT" and "OK" of an empty round are alike to
\* every caller.
pump_one(b, d) ==
    LET k == With(maybe_send_keepalive(b), "OK")
    IN  CASE d = NoDatagram -> With(refresh_peer_state(maybe_send_keepalive(k)), "TIMEOUT")
          [] d = ReadError -> With(k, "BACKEND")
          [] OTHER -> process(k, d)

-----------------------------------------------------------------------------
(* Blocking calls.  c is the call; when says how the clock stands at the   *)
(* end of a round: "early", "target" (the virtual link delay is over) or   *)
(* "deadline".  An outcome is the backend, the call if it goes on, and the *)
(* result ("PENDING" while it goes on).                                    *)

Return(b, rc) == [b |-> b, call |-> NoCall, result |-> rc]
Park(b, c, phase) == [b |-> b, call |-> [c EXCEPT !.phase = phase], result |-> "PENDING"]

Tolerated(rc) == rc \in {"OK", "TIMEOUT", "RESOURCE_EXHAUSTED"}
Usable(b) == b.state = "RUN" /\ peer_is_current(b)
\* udp_receive and udp_receive_time_code differ in the queue they wait for.
Queue(b, c) == IF c.kind = "packet" THEN b.rx ELSE b.time_codes

\* The end of udp_receive and udp_receive_time_code.
hand_over(b, c) ==
    IF c.kind = "packet" /\ c.capacity < Length(Head(b.rx)) THEN Return(b, "BUFFER_TOO_SMALL")
    ELSE IF c.kind = "packet" THEN Return([b EXCEPT !.rx = <<>>], "OK")
    ELSE Return([b EXCEPT !.time_codes = Tail(@)], "OK")

\* Mutant: the slot keeps what a failed transmission left in it.
transmit_keeping(b, c) ==
    LET id == take_nonzero(b.next_message_id)
        loaded == [b EXCEPT
            !.tx = [kind |-> c.kind, message |-> c.message, item |-> c.item, id |-> id,
                    retries |-> 0, failed |-> FALSE, timer |-> "due"],
            !.next_message_id = (id + 1) % ID_MODULUS]
        done == transmit_pending(send_keepalive(loaded))
    IN  Return(done, done.io.rc)

\* The end of udp_send and udp_send_time_code: fill the slot, send a
\* KEEPALIVE, transmit; a failed transmission empties the slot again.
transmit(b, c) ==
    LET id == take_nonzero(b.next_message_id)
        loaded == [b EXCEPT
            !.tx = [kind |-> c.kind, message |-> c.message, item |-> c.item, id |-> id,
                    retries |-> 0, failed |-> FALSE, timer |-> "due"],
            !.next_message_id = (id + 1) % ID_MODULUS]
        done == transmit_pending(send_keepalive(loaded))
    IN  IF done.io.rc = "OK" THEN Return(done, "OK")
        ELSE Return(clear_pending_tx(done), done.io.rc)

\* wait_virtual_link_delay, up to its loop.
begin_delay(b, c, when) ==
    IF ~virtual_delay THEN transmit(b, c)
    ELSE IF when = "deadline" THEN Return(b, "TIMEOUT")
    ELSE Park(b, c, "delay")

wait_virtual_link_delay(b, c, d, when) ==
    LET q == pump_one(b, d)
    IN  IF ~Tolerated(q.io.rc) THEN Return(q, q.io.rc)
        ELSE IF when = "target" THEN transmit(q, c)
        ELSE IF when = "deadline" THEN Return(q, "TIMEOUT")
        ELSE Park(q, c, "delay")

wait_for_tx_slot(b, c, d, when) ==
    LET s == service_pending_tx(b)
        q == pump_one(s, d)
    IN  IF s.io.rc \notin {"OK", "TIMEOUT"} THEN Return(s, s.io.rc)
        ELSE IF ~Tolerated(q.io.rc) THEN Return(q, q.io.rc)
        ELSE IF q.tx = NoTx THEN begin_delay(q, c, when)
        ELSE IF when = "deadline" THEN Return(q, "TIMEOUT")
        ELSE Park(q, c, "slot")

\* A round of the loop of udp_receive and udp_receive_time_code.
await_queue(b, c, d, when) ==
    LET s == service_pending_tx(b)
        q == pump_one(s, d)
        f == refresh_peer_state(q)
    IN  IF s.io.rc = "LINK_UNAVAILABLE" THEN Return(s, s.io.rc)
        ELSE IF ~Tolerated(q.io.rc) THEN Return(q, q.io.rc)
        ELSE IF Queue(q, c) # <<>> THEN hand_over(q, c)
        ELSE IF when = "deadline"
             THEN Return(f, IF f.state = "ERROR_WAIT" THEN "LINK_UNAVAILABLE" ELSE "TIMEOUT")
        ELSE Park(q, c, "queue")

\* Mutant: a message that finds the slot taken is sent once, past the slot.
send_past_slot(b, c, when) ==
    IF c.op = "receive" THEN IF Queue(b, c) # <<>> THEN hand_over(b, c) ELSE Park(b, c, "queue")
    ELSE LET o == begin_delay(b, c, when)
         IN  IF b.tx = NoTx THEN o ELSE [o EXCEPT !.b.tx = b.tx]

\* What follows ensure_peer when it succeeds, and when it does not.
peer_found(b, c, when) ==
    IF c.op = "receive" THEN IF Queue(b, c) # <<>> THEN hand_over(b, c) ELSE Park(b, c, "queue")
    ELSE IF b.tx = NoTx THEN begin_delay(b, c, when)
    ELSE Park(b, c, "slot")
peer_missing(b, c, rc) ==
    IF c.op = "receive" /\ Queue(b, c) # <<>> THEN hand_over(b, c) ELSE Return(b, rc)

\* ensure_peer up to its loop: where every blocking call begins.
begin_call(b, c, when) ==
    LET r == refresh_peer_state(b)
    IN  IF Usable(r) THEN peer_found(r, c, when)
        ELSE IF r.state \notin Active THEN peer_missing(r, c, "LINK_UNAVAILABLE")
        ELSE Park(r, c, "peer")

ensure_peer(b, c, d, when) ==
    LET q == pump_one(maybe_send_keepalive(b), d)
        r == refresh_peer_state(q)
    IN  IF Usable(r) THEN peer_found(r, c, when)
        ELSE IF ~Tolerated(q.io.rc) THEN peer_missing(r, c, q.io.rc)
        ELSE IF when = "deadline" THEN peer_missing(r, c, "LINK_UNAVAILABLE")
        ELSE Park(r, c, "peer")

Round(b, c, d, when) ==
    CASE c.phase = "peer"  -> ensure_peer(b, c, d, when)
      [] c.phase = "slot"  -> wait_for_tx_slot(b, c, d, when)
      [] c.phase = "delay" -> wait_virtual_link_delay(b, c, d, when)
      [] c.phase = "queue" -> await_queue(b, c, d, when)

\* An immediate call has one round; an infinite one never reaches a deadline.
When(c) ==
    CASE c.timeout = "immediate" -> {"deadline"}
      [] c.timeout = "finite"    -> {"early", "target", "deadline"}
      [] c.timeout = "infinite"  -> {"early", "target"}

-----------------------------------------------------------------------------
(* Steps *)

\* Backend b after a while in which the intervals of E ran out.
Elapse(b, E) ==
    LET t == [b EXCEPT
            !.peer = IF @ = "heard" /\ "peer" \in E THEN "silent" ELSE @,
            !.keepalive = IF "keepalive" \in E THEN "due" ELSE @,
            !.fragment = IF @ = "fresh" /\ "fragment" \in E THEN "old" ELSE @]
    IN  IF t.tx # NoTx /\ "ack" \in E THEN [t EXCEPT !.tx.timer = "due"] ELSE t

\* The backends a step of p may begin with.
Ready(p) ==
    {[Elapse(udp[p], E) EXCEPT !.io = [NoIo EXCEPT !.room = r, !.err = e]] :
        E \in SUBSET Expiring, r \in Rooms, e \in Errors}

Arriving(p) == net[p] \cup {NoDatagram}
               \cup (IF "BACKEND" \in Errors THEN {ReadError} ELSE {})

\* The network forgets a datagram once its sender is MaxLag messages further.
\* An ACK to p is about an item of p, anything else to p about one of its peer.
Alive(p, d) ==
    \/ d.type = "KEEPALIVE"
    \/ Len(sent'[IF d.type = "ACK" THEN p ELSE peer(p)]) - d.item < MaxLag
NetAfter(before) == [p \in Port |-> {d \in before[p] : Alive(p, d)}]

\* The step ends with backend b on port p.
Commit(p, b, before) ==
    /\ udp' = [udp EXCEPT ![p] = [b EXCEPT !.io = NoIo]]
    /\ net' = NetAfter([before EXCEPT ![peer(p)] = @ \cup b.io.out])
    /\ accepted' = [accepted EXCEPT ![p] =
                        @ \cup {b.io.got[i].item : i \in DOMAIN b.io.got}]

Got(p, b) == delivered' = [delivered EXCEPT ![p] = @ \o b.io.got]
Idle(p) == call[p] = NoCall
Finish(p, c, o) ==
    /\ Commit(p, o.b, net) /\ Got(p, o.b)
    /\ call' = [call EXCEPT ![p] = o.call]
    /\ refused' = IF c.op = "send" /\ o.result \notin {"OK", "PENDING"}
                  THEN [refused EXCEPT ![p] = @ \cup {c.item}] ELSE refused

spw_port_open(p) ==
    /\ ~udp[p].open
    /\ udp' = [udp EXCEPT ![p] = Constructed]
    /\ UNCHANGED <<net, call, started, sent, delivered, accepted, refused>>

\* Closing, or the death of the process at any point of a call.
spw_port_close(p) ==
    /\ Closing /\ udp[p].open
    /\ udp' = [udp EXCEPT ![p] = Closed]
    /\ call' = [call EXCEPT ![p] = NoCall]
    /\ UNCHANGED <<net, started, sent, delivered, accepted, refused>>

\* What udp_start, udp_stop and udp_reset all throw away.
forget_session(b) ==
    [clear_retired_sessions(clear_recent_messages(clear_pending_tx(clear_reassembly(b))))
        EXCEPT !.rx = <<>>, !.time_codes = <<>>, !.peer = "unseen",
               !.remote_session_id = NO_SESSION]

\* A TIMEOUT of the first KEEPALIVE is not an error of start; any other error
\* leaves the backend connecting and the port not started.
udp_start(b, session) ==
    send_keepalive([forget_session(b) EXCEPT
        !.next_message_id = 1, !.local_session_id = session,
        !.keepalive = "due", !.state = "CONNECTING"])

spw_port_start(p) ==
    /\ udp[p].open /\ Idle(p) /\ started[p] < MaxSessions[p]
    /\ UNCHANGED <<call, sent, refused>>
    /\ started' = [started EXCEPT ![p] = @ + 1]
    /\ \E b0 \in Ready(p) :
         LET b == udp_start(b0, <<0, started[p] + 1>>)
             ok == b.io.rc \in {"OK", "TIMEOUT"}
         IN  /\ Commit(p, [b EXCEPT !.locally_started = @ \/ ok],
                       IF Survives THEN net ELSE [q \in Port |-> {}])
    /\ delivered' = [delivered EXCEPT ![p] = <<>>]

\* stop (READY) and reset (ERROR_RESET).
End(p, state) ==
    /\ udp[p].open /\ Idle(p)
    /\ udp' = [udp EXCEPT ![p] =
                  [forget_session(@) EXCEPT !.state = state, !.locally_started = FALSE]]
    /\ UNCHANGED <<net, call, started, sent, delivered, accepted, refused>>
spw_port_stop(p) == End(p, "READY")
spw_port_reset(p) == End(p, "ERROR_RESET")

\* udp_get_link_state reads, services the slot and refreshes, in this order.
udp_get_link_state(b, d) ==
    IF b.state \notin Active THEN b
    ELSE refresh_peer_state(service_pending_tx(pump_one(maybe_send_keepalive(b), d)))

spw_port_get_link_state(p, d) ==
    /\ udp[p].open /\ Idle(p)
    /\ UNCHANGED <<started, sent>>
    /\ \E b \in Ready(p) : Finish(p, NoCall, Return(udp_get_link_state(b, d), "OK"))

spw_port_clear_statistics(p) ==
    /\ udp[p].open /\ Idle(p)
    /\ udp' = [udp EXCEPT ![p].link_errors = 0, ![p].dropped_packets = 0]
    /\ UNCHANGED <<net, call, started, sent, delivered, accepted, refused>>

\* Packets and time-codes are sent by the same steps (udp_send and
\* udp_send_time_code) and differ in what fills the slot.
Message(kind, length, t, item) ==
    [kind |-> kind, terminator |-> IF kind = "packet" THEN t ELSE "EOP",
     bytes |-> Content(item, IF kind = "packet" THEN length ELSE 2)]

spw_port_send(p) ==
    /\ udp[p].open /\ udp[p].locally_started /\ Idle(p)
    /\ Len(sent[p]) < MaxSent[p]
    /\ UNCHANGED started
    /\ \E kind \in Kinds, length \in Lengths, t \in Terminators,
          timeout \in Timeouts, b \in Ready(p) :
         LET item == Len(sent[p]) + 1
             c == [op |-> "send", kind |-> kind, phase |-> "peer", timeout |-> timeout,
                   item |-> item, message |-> Message(kind, length, t, item)]
         IN  /\ sent' = [sent EXCEPT ![p] = Append(@, c.message)]
             /\ \E when \in When(c) : Finish(p, c, begin_call(b, c, when))

spw_port_receive(p) ==
    /\ udp[p].open /\ udp[p].locally_started /\ Idle(p)
    /\ UNCHANGED <<started, sent>>
    /\ \E kind \in Kinds, timeout \in Timeouts, n \in Capacities, b \in Ready(p) :
         LET c == [op |-> "receive", kind |-> kind, phase |-> "peer",
                   timeout |-> timeout, capacity |-> n]
         IN  \E when \in When(c) : Finish(p, c, begin_call(b, c, when))

\* One round of the loop a blocked call is in.
Continue(p, d) ==
    /\ ~Idle(p)
    /\ UNCHANGED <<started, sent>>
    /\ \E b \in Ready(p), when \in When(call[p]) : Finish(p, call[p], Round(b, call[p], d, when))

Next ==
    /\ UNCHANGED setting
    /\ \E p \in Port :
        \/ spw_port_open(p) \/ spw_port_close(p)
        \/ spw_port_start(p) \/ spw_port_stop(p) \/ spw_port_reset(p)
        \/ spw_port_send(p) \/ spw_port_receive(p) \/ spw_port_clear_statistics(p)
        \/ \E d \in Arriving(p) : spw_port_get_link_state(p, d) \/ Continue(p, d)

Spec == Init /\ [][Next]_vars

\* Weak fairness, with the enabling conditions written out.  An application
\* keeps calling: a port that is polled, or blocked in a loop that services the
\* slot, comes to the end of an acknowledgement interval and services it, and a
\* loop that can end ends.
Pending(p) == IF udp[p].tx = NoTx THEN FALSE ELSE ~udp[p].tx.failed
InPhase(p, phases) == IF Idle(p) THEN FALSE ELSE call[p].phase \in phases
RetryDue(p) ==
    /\ udp[p].state \in Active /\ (Idle(p) \/ InPhase(p, {"slot", "queue"}))
    /\ \E b \in Ready(p) : service_pending_tx(b).tx # udp[p].tx
Retried(p) == udp'[p].tx # udp[p].tx
EndDue(p) ==
    /\ InPhase(p, {"slot"})
    /\ \E b \in Ready(p), when \in When(call[p]) :
         wait_for_tx_slot(b, call[p], NoDatagram, when).call # call[p]
Moved(p) == call'[p] # call[p]
ServicedSpec ==
    /\ Spec
    /\ \A p \in Port : /\ []<>~RetryDue(p) \/ []<><<Retried(p)>>_vars
                       /\ []<>~EndDue(p) \/ []<><<Moved(p)>>_vars

-----------------------------------------------------------------------------
(* Properties *)

\* What a backend hands up is what the peer's application offered: bytes,
\* length and terminator of one message, never fragments of two (process_data
\* with the reassembler it drives).  And between two starts of a port no
\* message is accepted twice, whatever the network repeats and however often
\* either side changes sessions, as long as it delays nothing past
\* RECENT_MESSAGE_DEPTH later messages and there are no more than
\* RETIRED_SESSION_DEPTH old sessions.
DeliveredOnceIntact ==
    \A p \in Port : \A i \in DOMAIN delivered[p] :
        /\ delivered[p][i].message = sent[peer(p)][delivered[p][i].item]
        /\ \A j \in DOMAIN delivered[p] :
              delivered[p][i].item = delivered[p][j].item => i = j

\* The reliable slot is emptied by an acknowledgement only when the peer did
\* accept the message in it (process_ack, and the ACK sent for a duplicate).
AckedWasAccepted ==
    [][\A p \in Port :
         LET tx == udp[p].tx
         IN  tx # NoTx /\ udp'[p].state \in Active
             /\ udp'[p].local_session_id = udp[p].local_session_id
             /\ (IF udp'[p].tx = NoTx THEN TRUE ELSE udp'[p].tx.item # tx.item)
                => tx.item \in accepted'[peer(p)]]_vars

\* A message whose send call returned an error never reaches the peer's
\* application, not even when some of its fragments went out (the
\* clear_pending_tx after a failed transmit_pending).
RefusedNeverDelivered ==
    \A p \in Port : refused[p] \cap accepted[peer(p)] = {}

Items(p) == [i \in DOMAIN delivered[p] |-> delivered[p][i].item]
Channel == INSTANCE MessageChannel
    WITH offered <- IF Survives THEN 0 ELSE Len(sent["A"]),
         received <- IF Survives THEN <<>> ELSE Items("B")

\* Sessions, retries, acknowledgements and histories implement the channel the
\* applications are promised, here from A to B: between two starts of the
\* receiver its messages arrive once and in the order they were offered.  The
\* network may lose, repeat and reorder, but not past a start of either side
\* nor past RECENT_MESSAGE_DEPTH later messages.
ImplementsChannel == Channel!CSpec

\* A pending message does not stay undecided: it is acknowledged, or its
\* retries run out and it is marked failed, or the session ends
\* (service_pending_tx in the loop of wait_for_tx_slot and on the way of the
\* other calls).  Nor does a send wait for ever for the slot.  No datagram need
\* ever arrive.
RetriesEnd ==
    \A p \in Port : /\ Pending(p) ~> ~Pending(p)
                    /\ InPhase(p, {"slot"}) ~> ~InPhase(p, {"slot"})
=============================================================================
