--------------------------- MODULE CusePresenter ---------------------------
(***************************************************************************)
(* spwcuse, which shows a vspwd port as the character device /dev/vspwX.   *)
(* The FUSE thread runs the handlers one at a time (main passes -s); the   *)
(* broker thread is the only one that touches the port.  They share three  *)
(* bounded queues and one poll handle, under one mutex and one condition.  *)
(*   source: src/cuse/spwcuse.c, vspw_cuse_record.c                        *)
(*                                                                         *)
(* A critical section and the replies that follow it are one step; the     *)
(* broker's loop is cut wherever it lets go of the mutex.  A wakeup moves  *)
(* the broker only when it sleeps: a signal nobody waits for is lost.      *)
(* The port is external: what the DEVICE backend returns to these calls.   *)
(***************************************************************************)
EXTENDS Integers, Sequences, Functions

CONSTANTS
    READ_QUEUE_DEPTH, WRITE_QUEUE_DEPTH, RECORD_QUEUE_DEPTH,
    BufferSizes,    \* the sizes of read() buffers
    UserRecords,    \* what write() is given
    Arriving,       \* the records the port receives, in this order
    Modes,          \* the O_NONBLOCK settings the device is opened with
    Opens, Requests, Polls,     \* bounds: opens, reads and writes, polls
    Faults          \* bound on the daemon going away, its return, and malloc failing

VARIABLES
    state,      \* spwcuse_state_t
    broker,     \* where broker_main is, and its locals
    port,       \* [up, packets, time_codes, coming, sent]
    asked,      \* the requests the kernel has passed on, in order
    answers,    \* the replies each of them has had
    polled,     \* the events reported to the polls nobody has woken since
    bounds      \* what is left of Opens, Polls and Faults

vars == <<state, broker, port, asked, answers, polled, bounds>>

-----------------------------------------------------------------------------
(* Records.  A record is [framed, type, eep, payload_size, given, legal]:   *)
(* framed is the magic, the version and the reserved octets; given counts   *)
(* the octets after the header; legal is a time code's value range.         *)

Records == [framed : BOOLEAN, type : {"DATA", "TIME_CODE", "OTHER"}, eep : BOOLEAN,
            payload_size : Nat, given : Nat, legal : BOOLEAN]

ASSUME CuseAssumption ==
    /\ READ_QUEUE_DEPTH \in Nat \ {0} /\ WRITE_QUEUE_DEPTH \in Nat \ {0}
    /\ RECORD_QUEUE_DEPTH \in Nat \ {0}
    /\ BufferSizes \subseteq Nat /\ UserRecords \subseteq Records
    /\ Arriving \in Seq(Records) /\ Modes \subseteq BOOLEAN
    /\ {Opens, Requests, Polls, Faults} \subseteq Nat

VSPW_CUSE_RECORD_HEADER_SIZE == 16
VSPW_CUSE_RECORD_MAX_PAYLOAD == 1024 * 1024

validate_header(h) ==
    /\ h.type \in {"DATA", "TIME_CODE"}
    /\ h.payload_size <= VSPW_CUSE_RECORD_MAX_PAYLOAD
    /\ h.type = "TIME_CODE" => ~h.eep /\ h.payload_size = 2

vspw_cuse_record_decode_header(r) == r.framed /\ validate_header(r)

\* Mutant: the value of a time code is not looked at.
validate_size_only(r) == r.given = r.payload_size

vspw_cuse_record_validate_payload(r) ==
    r.given = r.payload_size /\ (r.type = "TIME_CODE" => r.legal)

validate_user_record(r) ==
    IF ~vspw_cuse_record_decode_header(r) THEN "EINVAL"
    ELSE IF r.given # r.payload_size THEN "EMSGSIZE"
    ELSE IF ~vspw_cuse_record_validate_payload(r) THEN "EINVAL"
    ELSE "OK"

record_size(r) == VSPW_CUSE_RECORD_HEADER_SIZE + r.payload_size

result_to_errno(result) ==
    CASE result = "OK"                                      -> "OK"
      [] result \in {"INVALID_ARGUMENT", "INVALID_PACKET"} -> "EINVAL"
      [] result = "INVALID_STATE"                           -> "EBUSY"
      [] result = "TIMEOUT"                                 -> "EAGAIN"
      [] result = "UNSUPPORTED"                             -> "EOPNOTSUPP"
      [] result = "RESOURCE_EXHAUSTED"                      -> "ENOBUFS"
      [] result = "LINK_UNAVAILABLE"                        -> "ENOLINK"
      [] result = "BUFFER_TOO_SMALL"                        -> "EMSGSIZE"
      [] OTHER                                              -> "EIO"

-----------------------------------------------------------------------------
(* The queues, with the mutex held *)

current_poll_events_locked(s) ==
    (IF s.records # <<>> THEN {"POLLIN"} ELSE {})
      \cup (IF Len(s.writes) < WRITE_QUEUE_DEPTH THEN {"POLLOUT"} ELSE {})

take_poll_handle_locked(s) == [s EXCEPT !.poll_handle = FALSE]

\* Each enqueue yields {} when it refuses, the new state otherwise.
enqueue_read_locked(s, r) ==
    IF Len(s.reads) >= READ_QUEUE_DEPTH THEN {} ELSE {[s EXCEPT !.reads = Append(@, r)]}

enqueue_write_locked(s, w) ==
    IF Len(s.writes) >= WRITE_QUEUE_DEPTH THEN {} ELSE {[s EXCEPT !.writes = Append(@, w)]}

enqueue_record_locked(s, r) ==
    IF Len(s.records) >= RECORD_QUEUE_DEPTH \/ r.payload_size > VSPW_CUSE_RECORD_MAX_PAYLOAD
    THEN {} ELSE {[s EXCEPT !.records = Append(@, r)]}

malloc_fails == bounds.faults > 0 /\ bounds' = [bounds EXCEPT !.faults = @ - 1]

\* A reply is its errno, and the record when a read returns one.
Reply(r, reply) == [answers EXCEPT ![r] = Append(@, reply)]

\* pthread_cond_signal and broadcast: there is one thread that may sleep.
Signal == broker' = IF broker.at = "asleep" THEN [broker EXCEPT !.at = "service"] ELSE broker

-----------------------------------------------------------------------------
(* The broker thread *)

Go(at) == broker' = [broker EXCEPT !.at = at]

\* Mutant: a short read takes the record with it.
serve_and_consume ==
    LET pending == Head(state.reads)
        record == Head(state.records)
        fits == pending.size >= record_size(record)
    IN  /\ broker.at = "service" /\ state.reads # <<>> /\ state.records # <<>>
        /\ state' = [state EXCEPT !.reads = Tail(@), !.records = Tail(@)]
        /\ answers' = Reply(pending.req, IF fits THEN <<"OK", record>> ELSE <<"EMSGSIZE">>)
        /\ UNCHANGED <<broker, port, asked, polled, bounds>>

service_one_read ==
    LET pending == Head(state.reads)
        record == Head(state.records)
        fits == pending.size >= record_size(record)
    IN  /\ broker.at = "service" /\ state.reads # <<>> /\ state.records # <<>>
        /\ state' = [state EXCEPT !.reads = Tail(@), !.records = IF fits THEN Tail(@) ELSE @]
        /\ answers' = Reply(pending.req, IF fits THEN <<"OK", record>> ELSE <<"EMSGSIZE">>)
        /\ UNCHANGED <<broker, port, asked, polled, bounds>>

no_read_to_service ==
    /\ broker.at = "service" /\ (state.reads = <<>> \/ state.records = <<>>)
    /\ Go("decide")
    /\ UNCHANGED <<state, port, asked, answers, polled, bounds>>

should_wait_backend ==
    /\ Len(state.records) < RECORD_QUEUE_DEPTH
    /\ state.reads # <<>> \/ state.poll_handle

pop_write_locked(s) == [s EXCEPT !.writes = Tail(@)]

\* One pass of broker_main with the mutex held: stop, take a write, ask the
\* port, or sleep.  "popped" is the state once a write has been taken.
pass(popped) ==
    /\ broker.at = "decide"
    /\ IF state.stopping THEN Go("exited") /\ UNCHANGED state
       ELSE IF state.writes # <<>>
       THEN /\ state' = popped
            /\ broker' = [broker EXCEPT !.at = "notify", !.then = "write",
                            !.write = Head(state.writes),
                            !.handle = state.poll_handle /\ ~popped.poll_handle]
       ELSE IF should_wait_backend
       THEN /\ broker' = [broker EXCEPT !.at = "notify", !.then = "wait",
                            !.immediate = state.reads # <<>> /\ Head(state.reads).nonblocking]
            /\ UNCHANGED state
       ELSE Go("asleep") /\ UNCHANGED state
    /\ UNCHANGED <<port, asked, answers, polled, bounds>>

\* Mutant: the write is taken, the handle that waits for room stays.
decide_without_notice == pass(pop_write_locked(state))

decide == pass(take_poll_handle_locked(pop_write_locked(state)))

\* A condition variable may also wake on its own.
spurious_wakeup ==
    /\ broker.at = "asleep" /\ Go("service")
    /\ UNCHANGED <<state, port, asked, answers, polled, bounds>>

notify_poll_handle ==
    /\ broker.at = "notify"
    /\ broker' = [broker EXCEPT !.at = broker.then, !.handle = FALSE]
    /\ polled' = IF broker.handle THEN {} ELSE polled
    /\ UNCHANGED <<state, port, asked, answers, bounds>>

\* What spw_port_send may return.  A send that times out may still arrive.
SendResults == IF port.up THEN {"OK", "TIMEOUT", "RESOURCE_EXHAUSTED"} ELSE {"LINK_UNAVAILABLE"}

process_write ==
    /\ broker.at = "write"
    /\ \E result \in SendResults, late \in BOOLEAN :
         /\ late => result = "TIMEOUT"
         /\ port' = [port EXCEPT !.sent =
                       IF result = "OK" \/ late
                       THEN Append(@, [req |-> broker.write.req, type |-> broker.write.record.type,
                                       terminator |-> IF broker.write.record.eep THEN "EEP" ELSE "EOP"])
                       ELSE @]
         /\ answers' = Reply(broker.write.req, <<result_to_errno(result)>>)
    /\ broker' = [broker EXCEPT !.at = "service", !.write = <<>>]
    /\ UNCHANGED <<state, asked, polled, bounds>>

\* What spw_port_wait reports ready.
Ready == (IF port.packets # <<>> THEN {"RX_PACKET"} ELSE {})
           \cup (IF port.time_codes # <<>> THEN {"RX_TIME_CODE"} ELSE {})

\* Mutant: no wait is taken for an immediate one.
wait_without_refusal ==
    /\ broker.at = "wait"
    /\ Go(IF port.up /\ Ready # {} THEN "receive" ELSE "service")
    /\ UNCHANGED <<state, port, asked, answers, polled, bounds>>

\* The wait for the port: something is ready, or the time is up, or the link
\* is down.  Only an immediate wait that times out has a reader to answer.
wait_backend ==
    /\ broker.at = "wait"
    /\ Go(IF port.up /\ Ready # {} THEN "receive"
          ELSE IF port.up /\ broker.immediate THEN "eagain" ELSE "service")
    /\ UNCHANGED <<state, port, asked, answers, polled, bounds>>

\* Mutant: the reader is answered and stays in the queue.
refuse_and_keep ==
    /\ broker.at = "eagain"
    /\ IF state.records = <<>> /\ state.reads # <<>> /\ Head(state.reads).nonblocking
       THEN answers' = Reply(Head(state.reads).req, <<"EAGAIN">>)
       ELSE UNCHANGED answers
    /\ Go("service")
    /\ UNCHANGED <<state, port, asked, polled, bounds>>

refuse_nonblocking_read ==
    /\ broker.at = "eagain"
    /\ IF state.records = <<>> /\ state.reads # <<>> /\ Head(state.reads).nonblocking
       THEN /\ answers' = Reply(Head(state.reads).req, <<"EAGAIN">>)
            /\ state' = [state EXCEPT !.reads = Tail(@)]
       ELSE UNCHANGED <<answers, state>>
    /\ Go("service")
    /\ UNCHANGED <<port, asked, polled, bounds>>

\* A packet before a time code; the record is lost when it cannot be queued.
receive_one_ready_record ==
    /\ broker.at = "receive"
    /\ IF ~port.up \/ Ready = {} THEN Go("service") /\ UNCHANGED <<state, port, bounds>>
       ELSE LET queue == IF port.packets # <<>> THEN "packets" ELSE "time_codes"
                queued == enqueue_record_locked(state, Head(port[queue]))
            IN  /\ port' = [port EXCEPT ![queue] = Tail(@)]
                /\ \/ \E s \in queued :
                         /\ state' = take_poll_handle_locked(s)
                         /\ broker' = [broker EXCEPT !.at = "notify", !.then = "more",
                                                     !.handle = state.poll_handle]
                         /\ UNCHANGED bounds
                   \/ /\ (queued = {} /\ UNCHANGED bounds) \/ malloc_fails
                      /\ Go("service") /\ UNCHANGED state
    /\ UNCHANGED <<asked, answers, polled>>

receive_more ==
    /\ broker.at = "more"
    /\ Go(IF port.up /\ Ready # {} /\ Len(state.records) < RECORD_QUEUE_DEPTH
          THEN "receive" ELSE "service")
    /\ UNCHANGED <<state, port, asked, answers, polled, bounds>>

broker_main ==
    \/ service_one_read \/ no_read_to_service \/ decide \/ notify_poll_handle
    \/ process_write \/ wait_backend \/ refuse_nonblocking_read
    \/ receive_one_ready_record \/ receive_more

-----------------------------------------------------------------------------
(* The FUSE thread *)

Serving == ~state.stopping
Ask(op) == asked' = Append(asked, op) /\ answers' = Append(answers, <<>>)
req == Len(asked) + 1

\* The device is open once at a time; a second open is refused with EBUSY and
\* changes nothing.
cuse_open ==
    /\ Serving /\ ~state.opened /\ bounds.opens > 0
    /\ \E nonblocking \in Modes :
         state' = [state EXCEPT !.opened = TRUE, !.nonblocking = nonblocking]
    /\ bounds' = [bounds EXCEPT !.opens = @ - 1]
    /\ UNCHANGED <<broker, port, asked, answers, polled>>

\* A request that is queued is answered later; a full queue answers at once.
Queue(op, queued) ==
    IF queued # {}
    THEN state' \in queued /\ Ask(op) /\ Signal
    ELSE /\ asked' = Append(asked, op)
         /\ answers' = Append(answers, << <<IF state.nonblocking THEN "EAGAIN" ELSE "ENOBUFS">> >>)
         /\ UNCHANGED <<state, broker>>

cuse_read ==
    /\ Serving /\ state.opened /\ Len(asked) < Requests
    /\ \E size \in BufferSizes :
         Queue([op |-> "read"],
               enqueue_read_locked(state, [req |-> req, size |-> size,
                                           nonblocking |-> state.nonblocking]))
    /\ UNCHANGED <<port, polled, bounds>>

\* A record that is not legal, or cannot be copied, is refused at once.
cuse_write ==
    /\ Serving /\ state.opened /\ Len(asked) < Requests
    /\ \E record \in UserRecords :
         LET verdict == validate_user_record(record)
             op == [op |-> "write", record |-> record]
         IN  \/ /\ verdict = "OK"
                /\ Queue(op, enqueue_write_locked(state, [req |-> req, record |-> record]))
                /\ UNCHANGED bounds
             \/ \E error \in {verdict, "ENOMEM"} :
                  /\ error # "OK"
                  /\ IF error = "ENOMEM" THEN verdict = "OK" /\ malloc_fails ELSE UNCHANGED bounds
                  /\ asked' = Append(asked, op)
                  /\ answers' = Append(answers, << <<error>> >>)
                  /\ UNCHANGED <<state, broker>>
    /\ UNCHANGED <<port, polled>>

\* The one handle kept wakes every poll of the device; a second is discarded.
cuse_poll ==
    /\ Serving /\ state.opened /\ bounds.polls > 0
    /\ state' = [state EXCEPT !.poll_handle = TRUE]
    /\ polled' = polled \cup {current_poll_events_locked(state)}
    /\ Signal
    /\ bounds' = [bounds EXCEPT !.polls = @ - 1]
    /\ UNCHANGED <<port, asked, answers>>

\* Records and writes outlive the session; its reads and its handle do not.
cuse_release ==
    /\ Serving /\ state.opened
    /\ state' = take_poll_handle_locked([state EXCEPT !.opened = FALSE, !.reads = <<>>])
    /\ answers' = [r \in DOMAIN answers |->
                     IF \E p \in Range(state.reads) : p.req = r
                     THEN Append(answers[r], <<"EINTR">>) ELSE answers[r]]
    /\ polled' = {}
    /\ UNCHANGED <<broker, port, asked, bounds>>

\* cleanup_state, until it joins the broker ...
stop ==
    /\ Serving /\ state' = [state EXCEPT !.stopping = TRUE]
    /\ Signal
    /\ UNCHANGED <<port, asked, answers, polled, bounds>>

\* ... and after.
cleanup_state ==
    /\ broker.at = "exited"
    /\ broker' = [broker EXCEPT !.at = "joined"]
    /\ state' = [state EXCEPT !.writes = <<>>, !.records = <<>>, !.poll_handle = FALSE]
    /\ polled' = {}
    /\ UNCHANGED <<port, asked, answers, bounds>>

-----------------------------------------------------------------------------
(* The port *)

Arrive ==
    /\ port.up /\ port.coming # <<>>
    /\ LET r == Head(port.coming)
           queue == IF r.type = "DATA" THEN "packets" ELSE "time_codes"
       IN  port' = [port EXCEPT !.coming = Tail(@), ![queue] = Append(@, r)]
    /\ UNCHANGED <<state, broker, asked, answers, polled, bounds>>

\* The daemon goes away, with what it had sent and nobody had read, or returns.
Outage ==
    /\ bounds.faults > 0
    /\ port' = [port EXCEPT !.up = ~@, !.packets = <<>>, !.time_codes = <<>>]
    /\ bounds' = [bounds EXCEPT !.faults = @ - 1]
    /\ UNCHANGED <<state, broker, asked, answers, polled>>

\* main has opened and started the port and created the broker.
Init ==
    /\ state = [opened |-> FALSE, nonblocking |-> FALSE, stopping |-> FALSE, reads |-> <<>>,
                writes |-> <<>>, records |-> <<>>, poll_handle |-> FALSE]
    /\ broker = [at |-> "service", then |-> "service", write |-> <<>>, immediate |-> FALSE,
                 handle |-> FALSE]
    /\ port = [up |-> TRUE, packets |-> <<>>, time_codes |-> <<>>, coming |-> Arriving,
               sent |-> <<>>]
    /\ asked = <<>> /\ answers = <<>> /\ polled = {}
    /\ bounds = [opens |-> Opens, polls |-> Polls, faults |-> Faults]

Next ==
    \/ service_one_read \/ no_read_to_service \/ decide \/ notify_poll_handle
    \/ process_write \/ wait_backend \/ refuse_nonblocking_read
    \/ receive_one_ready_record \/ receive_more \/ spurious_wakeup
    \/ cuse_open \/ cuse_read \/ cuse_write \/ cuse_poll \/ cuse_release
    \/ stop \/ cleanup_state \/ Arrive \/ Outage

Spec == Init /\ [][Next]_vars

\* The broker is a thread: it is scheduled while it does not sleep.
FairSpec == Spec /\ WF_vars(broker_main)

-----------------------------------------------------------------------------
(* What the device promises *)

InQueue(r) == \/ \E p \in Range(state.reads) \cup Range(state.writes) : p.req = r
              \/ broker.write # <<>> /\ broker.write.req = r

\* libfuse frees a request when it is answered: each one waits in exactly one
\* place or has had its one answer, whichever of the broker, EAGAIN, a release
\* and a full queue came first.  What cleanup_state drops is never answered.
AnsweredOnce ==
    \A r \in DOMAIN asked :
        IF InQueue(r) THEN answers[r] = <<>>
        ELSE Len(answers[r]) = 1 \/ (broker.at = "joined" /\ answers[r] = <<>>)

\* A write that returns its size went to the port, a write is never sent twice,
\* writes are sent in the order of the calls, EEP as EEP, and what is not a
\* complete legal record is never sent.
WritesInOrder ==
    /\ \A i, j \in DOMAIN port.sent : i < j => port.sent[i].req < port.sent[j].req
    /\ \A r \in DOMAIN asked :
         asked[r].op = "write" /\ answers[r] = << <<"OK">> >>
         => \E i \in DOMAIN port.sent : port.sent[i].req = r
    /\ \A i \in DOMAIN port.sent :
         LET given == asked[port.sent[i].req].record
         IN  /\ port.sent[i].type = given.type
             /\ port.sent[i].terminator = "EEP" <=> given.eep
             /\ given.framed /\ given.given = given.payload_size
             /\ given.type = "TIME_CODE" => given.legal

\* Nobody sleeps in poll() on an event that has happened: once a record is
\* queued or a write slot is free, every poll that was told otherwise has been
\* woken or is about to be.
PollersWoken ==
    \A events \in polled :
        \/ broker.handle
        \/ state.poll_handle /\ current_poll_events_locked(state) \subseteq events

Answerable(r) ==
    \E p \in Range(state.reads) :
        p.req = r /\ (p.nonblocking \/ state.records # <<>> \/ Ready # {})

\* The broker sleeps with the record queue full: a read queued after it last
\* served reads, and before it slept, has signalled nobody and waits for the
\* next request.
Overslept == broker.at = "asleep" /\ Len(state.records) >= RECORD_QUEUE_DEPTH

\* With the daemon up, a non-blocking read, and a read for which there is a
\* record, is answered, unless the broker oversleeps.
ReadsReturn ==
    \A r \in 1 .. Requests :
        Answerable(r) ~> (~Answerable(r) \/ ~port.up \/ Overslept \/ state.stopping)

\* A poll that has seen no record is woken when the port has one.
PollsReturn ==
    (\E e \in polled : "POLLIN" \notin e) /\ Ready # {}
    ~> ((\A e \in polled : "POLLIN" \in e) \/ Ready = {} \/ ~port.up \/ state.stopping)

\* A queued write is answered, whether or not the session or the daemon lives.
WritesReturn ==
    \A r \in 1 .. Requests :
        (\E w \in Range(state.writes) : w.req = r) ~> (~InQueue(r) \/ state.stopping)

\* cleanup_state does not wait for ever: the broker sees the order to stop.
StopCompletes == state.stopping ~> broker.at \in {"exited", "joined"}

\* Nobody waits for ever on a broker that has what it takes to go on: readers,
\* pollers, writers and the shutdown each come to their end, although a signal
\* the broker does not sleep for is lost (the loop of broker_main).
WaitsEnd == ReadsReturn /\ PollsReturn /\ WritesReturn /\ StopCompletes
=============================================================================
