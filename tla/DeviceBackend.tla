--------------------------- MODULE DeviceBackend ----------------------------
(***************************************************************************)
(* Applications on DEVICE ports, each with a connection to vspwd.          *)
(*   source: src/backends/device/device_backend.c, and the checks of       *)
(*   src/core/port.c in front of it                                        *)
(*                                                                         *)
(* A record w holds the devices and the connections.  A call runs until it *)
(* would block: "pending" are the records it still has to send and, once   *)
(* that is empty, it reads.  Its stage is the request of connect_session   *)
(* it has got to, or "op" for the operation itself.  What has to wait can  *)
(* time out where the code passes a finite deadline.                       *)
(***************************************************************************)
EXTENDS VspwdServer

CONSTANTS
    Device,
    PortOf,                         \* [Device -> PortId]
    DEVICE_TIME_CODE_QUEUE_DEPTH,
    Capacities,                     \* capacities receive is called with
    Codes,                          \* time codes a device may send
    Limits                          \* whether the callers' timeouts are finite

Lengths == Settings[setting].lengths    \* of the packets a device sends, in order
Ops == Settings[setting].ops            \* [Device -> operations its application uses]

VARIABLE dev

clear_rx ==
    [active |-> FALSE, ready |-> FALSE, message_id |-> 0, total_size |-> 0,
     next_offset |-> 0, terminator |-> "EOP", data |-> <<>>]
NoCall ==
    [op |-> "none", stage |-> "none", pending |-> <<>>, type |-> "none", id |-> 0,
     finite |-> TRUE, arg |-> 0]

\* device_construct.  The last six fields are not the device's: they record
\* what was offered, received and answered, and which packets are too old to
\* be received any more.
device_construct ==
    [open |-> FALSE, locally_started |-> FALSE, fd |-> NONE, next_request_id |-> 1,
     next_message_id |-> 1, desired_started |-> FALSE, state |-> "ERROR_RESET",
     rx |-> clear_rx, time_codes |-> <<>>, call |-> NoCall]
History ==
    [offered |-> 0, received |-> <<>>, codes_offered |-> 0, codes_received |-> <<>>,
     last |-> [op |-> "none", result |-> "OK", arg |-> 0], past |-> {}]

World == [dev |-> dev, sock |-> sock, backlog |-> backlog]
Become(w) == dev' = w.dev /\ sock' = w.sock /\ backlog' = w.backlog

Item(d, n) == <<d, n>>
TerminatorOf(n) == IF n % 2 = 1 THEN "EOP" ELSE "EEP"
Offsets(length) == {o \in {i * VSPD_MAX_FRAME_PAYLOAD : i \in 0 .. 2} : o = 0 \/ o < length}

-----------------------------------------------------------------------------
(* Connections *)

client_end_closed(socks, k) ==
    IF k = NONE THEN socks
    ELSE IF socks[k].server = "closed" THEN [j \in DOMAIN socks \ {k} |-> socks[j]]
    ELSE [socks EXCEPT ![k].client = FALSE, ![k].out = <<>>]

mark_disconnected(w, d) ==
    [w EXCEPT !.sock = client_end_closed(@, w.dev[d].fd),
              !.dev[d].fd = NONE, !.dev[d].state = "ERROR_WAIT",
              !.dev[d].rx = clear_rx, !.dev[d].time_codes = <<>>]

\* device_destroy closes what DETACH, answered or not, left open.
destroyed(w, d) ==
    [w EXCEPT !.sock = client_end_closed(@, w.dev[d].fd),
              !.dev[d] = device_construct @@ @]

\* The call returns: what the operation and spw_port_* around it still do.
return(w, d, result) ==
    LET call == w.dev[d].call
        ok == result = "OK"
        r == [w EXCEPT !.dev[d].call = NoCall,
                       !.dev[d].last = [op |-> call.op, result |-> result, arg |-> call.arg]]
    IN  CASE call.op = "open"  -> IF ok THEN [r EXCEPT !.dev[d].open = TRUE] ELSE destroyed(r, d)
          [] call.op = "close" -> destroyed(r, d)
          [] call.op = "start" /\ ok -> [r EXCEPT !.dev[d].locally_started = TRUE]
          [] call.op = "stop" /\ ok -> [r EXCEPT !.dev[d].locally_started = FALSE]
          [] call.op = "reset" /\ ok ->
                [r EXCEPT !.dev[d].locally_started = FALSE, !.dev[d].time_codes = <<>>,
                          !.dev[d].rx = clear_rx, !.dev[d].past = server.accepted]
          [] OTHER -> r

\* A failure inside connect_session gives the connection up; one of the
\* operation itself does so only where the failing function did.
session(call) == call.stage \notin {"op", "none"}
fail(w, d, result) ==
    return(IF session(w.dev[d].call) THEN mark_disconnected(w, d) ELSE w, d, result)
lost(w, d) == return(mark_disconnected(w, d), d, "LINK_UNAVAILABLE")

broken(q) == q.reset \/ q.server = "closed"

\* send_record of the next pending record, if it need not wait.
send_record(w, d) ==
    LET k == w.dev[d].fd
        q == w.sock[k]
    IN  IF broken(q) THEN lost(w, d)
        ELSE IF Len(q.in) >= SOCKET_ROOM THEN w
        ELSE [w EXCEPT !.sock[k].in = Append(@, w.dev[d].call.pending[1]),
                       !.dev[d].call.pending = Tail(@)]

\* The front half of send_request.
send_request(w, d, type, stage, size, body) ==
    LET x == w.dev[d]
    IN  send_record([w EXCEPT
            !.dev[d].next_request_id = (@ + 1) % ID_MODULUS,
            !.dev[d].call.stage = stage, !.dev[d].call.type = type,
            !.dev[d].call.id = x.next_request_id,
            !.dev[d].call.pending =
                <<[HeaderOf(type) EXCEPT !.payload_size = size, !.port_id = PortOf[d],
                                         !.request_id = x.next_request_id]
                  @@ [body |-> body]>>], d)

\* The fragments of device_send, all under one request and message identifier.
fragments(x, d, item, length) ==
    LET pieces == IF length = 0 THEN 1
                  ELSE (length + VSPD_MAX_FRAME_PAYLOAD - 1) \div VSPD_MAX_FRAME_PAYLOAD
        offset(j) == (j - 1) * VSPD_MAX_FRAME_PAYLOAD
        chunk(j) == min(length - offset(j), VSPD_MAX_FRAME_PAYLOAD)
    IN  [j \in 1 .. pieces |->
            [HeaderOf("DATA_TX") EXCEPT
                !.payload_size = chunk(j), !.request_id = x.next_request_id,
                !.port_id = PortOf[d], !.message_id = x.next_message_id,
                !.fragment_offset = offset(j), !.total_size = length,
                !.flags = fragment_flags(offset(j), chunk(j), length, TerminatorOf(item[2]))]
            @@ [body |-> <<item>>]]

device_send(w, d) ==
    LET x == w.dev[d]
        n == x.call.arg
    IN  send_record([w EXCEPT
            !.dev[d].next_request_id = (@ + 1) % ID_MODULUS,
            !.dev[d].next_message_id = (@ + 1) % ID_MODULUS,
            !.dev[d].call.type = "DATA_TX", !.dev[d].call.id = x.next_request_id,
            !.dev[d].call.pending = fragments(x, d, Item(d, n), Lengths[n])], d)

-----------------------------------------------------------------------------
(* What a record read from the connection does *)

queue_time_code(w, d, code) ==
    IF Len(w.dev[d].time_codes) >= DEVICE_TIME_CODE_QUEUE_DEPTH
    THEN [w |-> w, result |-> "RESOURCE_EXHAUSTED"]
    ELSE [w |-> [w EXCEPT !.dev[d].time_codes = Append(@, code)], result |-> "OK"]

\* process_event of DATA_RX.
rx_data(w, d, h) ==
    LET first == "FRAGMENT_START" \in h.flags
        end == "FRAGMENT_END" \in h.flags
        rx == w.dev[d].rx
        misplaced == \/ first /\ (rx.active \/ h.fragment_offset # 0)
                     \/ ~first /\ (\/ ~rx.active \/ rx.message_id # h.message_id
                                   \/ rx.total_size # h.total_size)
        wanted == IF first THEN 0 ELSE rx.next_offset
        next == [active |-> ~end, ready |-> end, message_id |-> h.message_id,
                 total_size |-> h.total_size,
                 next_offset |-> h.fragment_offset + h.payload_size,
                 terminator |-> IF "EEP" \in h.flags THEN "EEP" ELSE "EOP",
                 data |-> (h.fragment_offset :> h.body[1]) @@ rx.data]
    IN  IF rx.ready THEN [w |-> w, result |-> "RESOURCE_EXHAUSTED"]
        ELSE IF misplaced THEN [w |-> w, result |-> "BACKEND"]
        ELSE IF h.fragment_offset # wanted \/ h.payload_size > h.total_size - wanted
             THEN [w |-> [w EXCEPT !.dev[d].rx = clear_rx], result |-> "BACKEND"]
        ELSE IF end /\ next.next_offset # h.total_size
             THEN [w |-> [w EXCEPT !.dev[d].rx = clear_rx], result |-> "BACKEND"]
        ELSE [w |-> [w EXCEPT !.dev[d].rx = next], result |-> "OK"]

process_event(w, d, h) ==
    CASE h.type = "LINK_STATE_EVENT" ->
            [w |-> [w EXCEPT !.dev[d].state = h.body[1]], result |-> "OK"]
      [] h.type = "TIME_CODE_RX" -> queue_time_code(w, d, h.body)
      [] h.type = "DATA_RX" -> rx_data(w, d, h)
      [] OTHER -> [w |-> w, result |-> "BACKEND"]

device_ready_events(x) ==
    (IF x.rx.ready THEN {"RX_PACKET"} ELSE {})
        \cup (IF x.time_codes # <<>> THEN {"RX_TIME_CODE"} ELSE {})

\* What the caller's buffer holds then.
copied(rx) ==
    [length |-> rx.total_size, terminator |-> rx.terminator,
     data |-> [o \in DOMAIN rx.data \cap Offsets(rx.total_size) |-> rx.data[o]]]

\* The end of device_receive, with the caller's capacity.
deliver(w, d) ==
    LET x == w.dev[d]
    IN  IF x.call.arg < x.rx.total_size THEN return(w, d, "BUFFER_TOO_SMALL")
        ELSE return([w EXCEPT !.dev[d].rx = clear_rx,
                              !.dev[d].received = Append(@, copied(x.rx))], d, "OK")

deliver_time_code(w, d) ==
    return([w EXCEPT !.dev[d].time_codes = Tail(@),
                     !.dev[d].codes_received = Append(@, w.dev[d].time_codes[1])], d, "OK")

\* The loops of device_receive, device_receive_time_code and device_wait: stop
\* as soon as there is something for the caller.
serve_caller(w, d) ==
    LET x == w.dev[d]
    IN  CASE x.call.stage # "op" -> w
          [] x.call.op = "receive" /\ x.rx.ready -> deliver(w, d)
          [] x.call.op = "receive_time_code" /\ x.time_codes # <<>> -> deliver_time_code(w, d)
          [] x.call.op = "wait" /\ device_ready_events(x) \cap x.call.arg # {} ->
                return(w, d, "OK")
          [] OTHER -> w

\* The operation itself, once there is a session.
RequestType(op) ==
    CASE op = "start" -> "START" [] op = "stop" -> "STOP" [] op = "reset" -> "RESET"
      [] op = "get_link_state" -> "GET_LINK_STATE"
      [] op = "get_statistics" -> "GET_STATISTICS"
      [] op = "clear_statistics" -> "CLEAR_STATISTICS"
      [] op = "close" -> "DETACH"
      [] OTHER -> "none"

operate(w, d) ==
    LET call == w.dev[d].call
        here == [w EXCEPT !.dev[d].call.stage = "op", !.dev[d].call.type = "none"]
    IN  CASE call.op = "open" -> return(here, d, "OK")
          [] call.op = "send" -> device_send(here, d)
          [] call.op = "send_time_code" ->
                send_request(here, d, "TIME_CODE_TX", "op", VSPD_TIME_CODE_PAYLOAD_SIZE,
                             <<call.arg>>)
          [] call.op \in {"receive", "receive_time_code", "wait"} -> serve_caller(here, d)
          [] OTHER -> send_request(here, d, RequestType(call.op), "op", 0, <<>>)

\* connect_session, one request after the other.
connect_session(w, d) ==
    LET k == CHOOSE i \in 1 .. Cardinality(DOMAIN w.sock) + 1 :
                    /\ i \notin DOMAIN w.sock
                    /\ \A j \in 1 .. i - 1 : j \in DOMAIN w.sock
        fresh == [client |-> TRUE, server |-> "backlog", in |-> <<>>, out |-> <<>>,
                  reset |-> FALSE]
    IN  IF ~server.up THEN lost(w, d)
        ELSE send_request([w EXCEPT !.sock = (k :> fresh) @@ @, !.backlog = Append(@, k),
                                    !.dev[d].fd = k],
                          d, "HELLO", "HELLO", VSPD_HELLO_PAYLOAD_SIZE,
                          <<VSPD_VERSION_MAJOR, VSPD_VERSION_MINOR>>)

\* Mutant: the session does not start what the application had started.
next_stage_without_start(w, d) ==
    LET stage == w.dev[d].call.stage
    IN  CASE stage = "HELLO" -> send_request(w, d, "ATTACH", "ATTACH", 0, <<>>)
          [] stage = "ATTACH" ->
                send_request([w EXCEPT !.dev[d].state = "ERROR_RESET", !.dev[d].rx = clear_rx,
                                       !.dev[d].time_codes = <<>>,
                                       !.dev[d].past = server.accepted],
                             d, "GET_CAPABILITIES", "GET_CAPABILITIES", 0, <<>>)
          [] OTHER -> operate(w, d)

next_stage(w, d) ==
    LET stage == w.dev[d].call.stage
    IN  CASE stage = "HELLO" -> send_request(w, d, "ATTACH", "ATTACH", 0, <<>>)
          [] stage = "ATTACH" ->
                send_request([w EXCEPT !.dev[d].state = "ERROR_RESET", !.dev[d].rx = clear_rx,
                                       !.dev[d].time_codes = <<>>,
                                       !.dev[d].past = server.accepted],
                             d, "GET_CAPABILITIES", "GET_CAPABILITIES", 0, <<>>)
          [] stage = "GET_CAPABILITIES" /\ w.dev[d].desired_started ->
                send_request(w, d, "START", "START", 0, <<>>)
          [] OTHER -> operate(w, d)

status_to_result(status) == IF vspd_status_valid(status) THEN status ELSE "BACKEND"

\* Mutant: any response will do.
respond_to_any(w, d, h) ==
    LET x == w.dev[d]
        told == [w EXCEPT !.dev[d].state = h.body[1]]
    IN  IF h.status # "OK" THEN fail(w, d, status_to_result(h.status))
        ELSE IF session(x.call) THEN next_stage(w, d)
        ELSE IF x.call.op = "get_link_state" THEN return(told, d, "OK")
        ELSE return(w, d, "OK")

\* wait_response and its callers on a response.
on_response(w, d, h) ==
    LET x == w.dev[d]
        told == [w EXCEPT !.dev[d].state = h.body[1]]
    IN  IF h.type # x.call.type \/ h.request_id # x.call.id
        THEN return(mark_disconnected(w, d), d, "BACKEND")
        ELSE IF h.status # "OK" THEN fail(w, d, status_to_result(h.status))
        ELSE IF session(x.call) THEN next_stage(w, d)
        ELSE IF x.call.op = "get_link_state" THEN return(told, d, "OK")
        ELSE return(w, d, "OK")

awaiting(x) == x.call.type # "none"

\* One record handled by wait_response, service_until_packet or
\* device_service_event; only the last gives the connection up on a response
\* nobody asked for.
take_record(w, d, h) ==
    LET x == w.dev[d]
        e == process_event(w, d, h)
    IN  IF "RESPONSE" \in h.flags
        THEN IF awaiting(x) THEN on_response(w, d, h)
             ELSE return(IF x.call.op = "wait" THEN mark_disconnected(w, d) ELSE w, d, "BACKEND")
        ELSE IF e.result # "OK" THEN fail(e.w, d, e.result)
        ELSE serve_caller(e.w, d)

receive_record(w, d) ==
    LET k == w.dev[d].fd
        q == w.sock[k]
    IN  IF q.reset \/ q.out = <<>> THEN lost(w, d)
        ELSE take_record([w EXCEPT !.sock[k].out = Tail(@)], d, q.out[1])

-----------------------------------------------------------------------------
(* Steps of the applications *)

\* The operations that spw_port_* refuses before spw_port_start.
Started == {"send", "receive", "send_time_code", "receive_time_code", "wait"}

Arguments(x, op) ==
    CASE op = "send" -> {n \in DOMAIN Lengths : n = x.offered + 1}
      [] op = "receive" -> Capacities
      [] op = "send_time_code" -> {n \in Codes : n = x.codes_offered + 1}
      [] op = "wait" -> {{"RX_PACKET"}, {"RX_PACKET", "RX_TIME_CODE"}}
      [] OTHER -> {0}

\* start, stop and reset wait without limit, the queries, open and close with
\* a limit of their own, the transfers as the caller says.
Deadlines(op) ==
    CASE op \in {"start", "stop", "reset"} -> {FALSE}
      [] op \in Started -> Limits
      [] OTHER -> {TRUE}

\* ensure_connected and then the operation.  device_wait looks first at what it
\* already has, and device_destroy does not connect to say DETACH.
enter(w, d) ==
    LET x == w.dev[d]
        now == serve_caller([w EXCEPT !.dev[d].call.stage = "op"], d)
    IN  IF x.call.op = "wait" /\ now.dev[d].call.op = "none" THEN now
        ELSE IF x.fd # NONE THEN operate(w, d)
        ELSE IF x.call.op = "close" THEN return(w, d, "OK")
        ELSE connect_session(w, d)

Call(d, op) ==
    /\ dev[d].call.op = "none"
    /\ dev[d].open = (op # "open")
    /\ op \in Started => dev[d].locally_started
    /\ \E arg \in Arguments(dev[d], op), finite \in Deadlines(op) :
        LET x == [dev[d] EXCEPT
                    !.call = [NoCall EXCEPT !.op = op, !.arg = arg, !.finite = finite],
                    !.desired_started = IF op \in {"start", "stop", "reset"}
                                        THEN op = "start" ELSE @,
                    !.offered = IF op = "send" THEN @ + 1 ELSE @,
                    !.codes_offered = IF op = "send_time_code" THEN @ + 1 ELSE @]
        IN  Become(enter([World EXCEPT !.dev[d] = x], d))
    /\ UNCHANGED <<server, polled>>

calling(d) == dev[d].call.op # "none"
sending(d) == calling(d) /\ dev[d].call.pending # <<>>
reading(d) == calling(d) /\ dev[d].call.pending = <<>>
conn(d) == sock[dev[d].fd]

can_send(d) == sending(d) /\ (broken(conn(d)) \/ Len(conn(d).in) < SOCKET_ROOM)
can_read(d) == reading(d) /\ (broken(conn(d)) \/ conn(d).out # <<>>)

Send(d) ==
    /\ can_send(d)
    /\ Become(send_record(World, d))
    /\ UNCHANGED <<server, polled>>

Receive(d) ==
    /\ can_read(d)
    /\ Become(receive_record(World, d))
    /\ UNCHANGED <<server, polled>>

\* poll() returns 0 in wait_fd.
Timeout(d) ==
    /\ calling(d) /\ dev[d].call.finite /\ ~can_send(d) /\ ~can_read(d)
    /\ Become(fail(World, d, "TIMEOUT"))
    /\ UNCHANGED <<server, polled>>

\* The application's process ends without spw_port_close.
Die(d) ==
    /\ dev[d].open
    /\ Become(destroyed(World, d))
    /\ UNCHANGED <<server, polled>>

CallStep(d) == Send(d) \/ Receive(d) \/ Timeout(d)
DaemonStep == Poll \/ Accept \/ Serve

\* Sessions brought up by their requests alone, as connect_session and
\* spw_port_start leave them when nothing interferes; the events are still due.
session_of(d, i, s) ==
    FoldLeft(LAMBDA t, type :
                vspwd_handle_request([t EXCEPT !.clients[i].response = <<>>], i,
                    [HeaderOf(type) EXCEPT !.request_id = 1, !.port_id = PortOf[d],
                        !.payload_size = record_payload_size(type)] @@ [body |-> <<>>]),
             [s EXCEPT !.clients[i].fd = i + 1], <<"HELLO", "ATTACH", "START">>)
answered(s) == [s EXCEPT !.clients = [i \in ClientIndex |-> [@[i] EXCEPT !.response = <<>>]]]

\* The devices of the sequence ds are up, in slots 0, 1, ...; the others are
\* not open.
DInit(ds) ==
    /\ LET s == [k \in 1 .. Len(ds) |->
                    [client |-> TRUE, server |-> "open", in |-> <<>>, out |-> <<>>, reset |-> FALSE]]
           boot == Booted @@ [sock |-> s, io |-> "OK", keep |-> TRUE]
           up == answered(FoldLeftDomain(LAMBDA t, k : session_of(ds[k], k - 1, t), boot, ds))
       IN  /\ sock = s
           /\ server = [f \in DOMAIN Booted |-> up[f]]
    /\ backlog = <<>> /\ polled = NoPass
    /\ dev = [d \in Device |->
                (IF d \in ToSet(ds)
                 THEN [device_construct EXCEPT
                         !.open = TRUE, !.locally_started = TRUE, !.desired_started = TRUE,
                         !.next_request_id = 5,
                         !.fd = CHOOSE k \in DOMAIN ds : ds[k] = d]
                 ELSE device_construct) @@ History]

-----------------------------------------------------------------------------
(* Properties *)

\* The packet a buffer seems to hold, by its first bytes.
ItemOf(data) == data[CHOOSE o \in DOMAIN data : \A p \in DOMAIN data : o <= p]

Packet(item) ==
    LET length == Lengths[item[2]]
    IN  [length |-> length, terminator |-> TerminatorOf(item[2]),
         data |-> [o \in Offsets(length) |-> item]]

\* A send that returns OK is one whose very packet vspwd put into the peer's
\* queue: no answer to an earlier call that timed out is taken for it.
OkMeansAccepted ==
    \A d \in Device :
        dev[d].last.op = "send" /\ dev[d].last.result = "OK"
        => Item(d, dev[d].last.arg) \in server.accepted

\* Nothing queued for a port before its owner's session began, or before the
\* reset it last saw succeed, is received afterwards, wherever it was then: in
\* the daemon's queue, in the socket or half reassembled.
NothingFromThePast ==
    \A d \in Device : dev[d].rx.ready => ItemOf(dev[d].rx.data) \notin dev[d].past

\* The client that serves d's connection, once both ends agree on the session.
attachment(d) ==
    {i \in ClientIndex : /\ dev[d].fd # NONE /\ server.clients[i].fd = dev[d].fd
                         /\ server.clients[i].port_id # NONE}

\* An idle application that has its port started, and a connection that still
\* stands, has it started in the daemon too: a reconnect inside any call
\* restores it before the call goes on (connect_session, desired_started).
\* Not so after a reset that fails although the daemon has carried it out.
SessionRestored ==
    \A d \in Device :
        /\ "reset" \notin Ops[d]
        /\ dev[d].locally_started /\ dev[d].desired_started /\ ~calling(d)
        /\ dev[d].fd # NONE /\ ~broken(conn(d))
        => server.ports[PortOf[d]].started /\ attachment(d) # {}

\* What d will believe its link state to be once it has read what was sent.
told(d) ==
    LET events == SelectSeq(conn(d).out, LAMBDA h : h.type = "LINK_STATE_EVENT")
    IN  IF events = <<>> THEN dev[d].state ELSE Last(events).body[1]

\* A device never settles on a link state that is not the port's: either what
\* it has been told is the state, or an event is still due.  An event that
\* overtook the ATTACH response would be lost to connect_session's reset.
StateOnItsWay ==
    \A d \in Device : \A i \in attachment(d) :
        \/ server.ports[PortOf[d]].state_event_pending
        \/ told(d) = server.ports[PortOf[d]].state
        \/ dev[d].call.stage \in {"HELLO", "ATTACH"} /\ told(d) # dev[d].state

=============================================================================
