--------------------------- MODULE VspdManagement ---------------------------
(***************************************************************************)
(* A management tool next to the applications: spwmon, which subscribes to *)
(* both ports and prints their snapshots, or one command of spwctl.        *)
(*   source: src/tools/vspd_management_client.c, src/tools/spwmon.c,       *)
(*           src/tools/spwctl.c                                            *)
(*                                                                         *)
(* The tool is a list of requests it still has to make, each answered      *)
(* before the next; after its list spwmon watches until it is told to stop.*)
(***************************************************************************)
EXTENDS DeviceBackend

CONSTANT VSPD_MANAGEMENT_EVENT_QUEUE_DEPTH

Commands == Settings[setting].commands  \* the commands a tool may be started with

VARIABLE tool

NoTool ==
    [fd |-> NONE, command |-> "none", script |-> <<>>, sent |-> FALSE, stopping |-> FALSE,
     next_request_id |-> 1, id |-> 0, events |-> <<>>, status |-> "OK",
     printed |-> [p \in PortId |-> <<>>]]

Request(type, p) == [type |-> type, port_id |-> p]

\* The requests a tool starts with: main of spwmon, and command_list,
\* command_show, command_stats and the last command of spwctl.
spwmon_requests ==
    <<Request("GET_SERVER_INFO", 0), Request("SUBSCRIBE_PORT", 0), Request("SUBSCRIBE_PORT", 1)>>
spwctl_requests(command) ==
    CASE command = "list"  -> <<Request("GET_SERVER_INFO", 0), Request("GET_PORT_INFO", 0),
                                Request("GET_PORT_INFO", 1)>>
      [] command = "show"  -> <<Request("GET_SERVER_INFO", 0), Request("GET_PORT_INFO", 1)>>
      [] command = "stats" -> <<Request("GET_PORT_STATISTICS", 1)>>
      [] OTHER             -> <<Request("CLEAR_PORT_STATISTICS", 1)>>
script(command) ==
    <<Request("HELLO", 0)>>
        \o (IF command = "spwmon" THEN spwmon_requests ELSE spwctl_requests(command))

watching == tool.fd # NONE /\ tool.script = <<>>
requesting == tool.fd # NONE /\ tool.script # <<>>
tool_conn == sock[tool.fd]

next_request_id(next) ==
    LET id == IF next = 0 THEN 1 ELSE next
    IN  [id |-> id, next |-> IF (id + 1) % ID_MODULUS = 0 THEN 1 ELSE id + 1]

\* A newer snapshot of a port takes the place of the one still queued.
queue_event(events, p, snapshot) ==
    IF \E k \in DOMAIN events : events[k].port_id = p
    THEN [k \in DOMAIN events |->
            IF events[k].port_id = p THEN [events[k] EXCEPT !.snapshot = snapshot] ELSE events[k]]
    ELSE Append(events, [port_id |-> p, snapshot |-> snapshot])

\* vspd_management_close, and the process ends with the status.
vspd_management_close(status) ==
    /\ tool' = [NoTool EXCEPT !.command = tool.command, !.status = status]
    /\ sock' = client_end_closed(sock, tool.fd)

\* What the caller of request() does with its status: only the answers to
\* UNSUBSCRIBE_PORT are ignored.
finish_request(t, status) ==
    LET rest == [t EXCEPT !.script = Tail(@), !.sent = FALSE]
        last == Len(t.script) = 1 /\ (t.command # "spwmon" \/ t.stopping)
    IN  IF status # "OK" /\ ~t.stopping THEN [t EXCEPT !.script = <<>>, !.status = status]
        ELSE IF last THEN [rest EXCEPT !.status = "done"]
        ELSE rest

leave_or_go_on(t, socks) ==
    IF t.status = "OK" THEN tool' = t /\ sock' = socks
    ELSE /\ tool' = [NoTool EXCEPT !.command = t.command,
                                   !.status = IF t.status = "done" THEN "OK" ELSE t.status]
         /\ sock' = client_end_closed(socks, t.fd)

-----------------------------------------------------------------------------
(* Steps of the tool *)

\* vspd_management_open up to the HELLO it sends.
ToolStart(command) ==
    /\ tool.fd = NONE /\ tool.command = "none"
    /\ IF ~server.up
       THEN /\ tool' = [NoTool EXCEPT !.command = command, !.status = "BACKEND"]
            /\ UNCHANGED <<sock, backlog>>
       ELSE LET k == CHOOSE i \in 1 .. Cardinality(DOMAIN sock) + 1 : i \notin DOMAIN sock
            IN  /\ tool' = [NoTool EXCEPT !.fd = k, !.command = command,
                                          !.script = script(command)]
                /\ sock' = (k :> [client |-> TRUE, server |-> "backlog", in |-> <<>>,
                                  out |-> <<>>, reset |-> FALSE]) @@ sock
                /\ backlog' = Append(backlog, k)
    /\ UNCHANGED <<server, polled, dev>>

ToolCanSend ==
    requesting /\ ~tool.sent /\ (broken(tool_conn) \/ Len(tool_conn.in) < SOCKET_ROOM)
ToolCanRead ==
    /\ watching \/ (requesting /\ tool.sent)
    /\ broken(tool_conn) \/ tool_conn.out # <<>> \/ (watching /\ tool.events # <<>>)

\* The front half of request().
ToolSend ==
    /\ ToolCanSend
    /\ LET id == next_request_id(tool.next_request_id)
           r == tool.script[1]
           size == IF r.type = "HELLO" THEN VSPD_HELLO_PAYLOAD_SIZE ELSE 0
           frame == [HeaderOf(r.type) EXCEPT !.payload_size = size, !.request_id = id.id,
                                             !.port_id = r.port_id]
                    @@ [body |-> IF size = 0 THEN <<>>
                                 ELSE <<VSPD_VERSION_MAJOR, VSPD_VERSION_MINOR>>]
           t == [tool EXCEPT !.sent = TRUE, !.id = id.id, !.next_request_id = id.next]
       IN  IF broken(tool_conn) THEN leave_or_go_on(finish_request(t, "BACKEND"), sock)
           ELSE tool' = t /\ sock' = [sock EXCEPT ![tool.fd].in = Append(@, frame)]
    /\ UNCHANGED <<server, backlog, polled, dev>>

\* Mutant: only the awaited answer may come.
on_record_in_order(h, socks) ==
    IF h.type # tool.script[1].type \/ h.request_id # tool.id
    THEN leave_or_go_on(finish_request(tool, "BACKEND"), socks)
    ELSE leave_or_go_on(finish_request(tool, h.status), socks)

\* The back half of request(), one record: snapshots that come first are kept.
on_record(h, socks) ==
    LET t == [tool EXCEPT !.events = queue_event(@, h.port_id, h.body[1])]
    IN  IF "RESPONSE" \notin h.flags
        THEN IF \/ h.type # "PORT_SNAPSHOT_EVENT"
                \/ Len(t.events) > VSPD_MANAGEMENT_EVENT_QUEUE_DEPTH
             THEN leave_or_go_on(finish_request(tool, "BACKEND"), socks)
             ELSE leave_or_go_on(t, socks)
        ELSE IF h.type # tool.script[1].type \/ h.request_id # tool.id
             THEN leave_or_go_on(finish_request(tool, "BACKEND"), socks)
        ELSE leave_or_go_on(finish_request(tool, h.status), socks)

\* vspd_management_receive_snapshot in spwmon's loop: what is queued first.
vspd_management_receive_snapshot(h, socks) ==
    LET e == tool.events[1]
    IN  IF tool.events # <<>>
        THEN tool' = [tool EXCEPT !.events = Tail(@), !.printed[e.port_id] = <<e.snapshot>>]
             /\ sock' = sock
        ELSE IF h.type # "PORT_SNAPSHOT_EVENT" THEN vspd_management_close("BACKEND")
        ELSE tool' = [tool EXCEPT !.printed[h.port_id] = h.body] /\ sock' = socks

ToolReceive ==
    /\ ToolCanRead
    /\ IF broken(tool_conn) /\ ~(watching /\ tool.events # <<>>)
       THEN IF requesting THEN leave_or_go_on(finish_request(tool, "BACKEND"), sock)
            ELSE vspd_management_close("BACKEND")
       ELSE LET h == IF tool_conn.out = <<>> THEN HeaderOf("HELLO") ELSE tool_conn.out[1]
                socks == [sock EXCEPT ![tool.fd].out = IF @ = <<>> THEN @ ELSE Tail(@)]
            IN  IF requesting THEN on_record(h, socks)
                ELSE vspd_management_receive_snapshot(h, socks)
    /\ UNCHANGED <<server, backlog, polled, dev>>

\* VSPD_MANAGEMENT_TIMEOUT_MS passes; in the loop a timeout changes nothing.
ToolTimeout ==
    /\ requesting /\ ~ToolCanSend /\ ~ToolCanRead
    /\ leave_or_go_on(finish_request(tool, IF tool.sent THEN "TIMEOUT" ELSE "BACKEND"), sock)
    /\ UNCHANGED <<server, backlog, polled, dev>>

\* SIGINT or SIGTERM ends the loop.
ToolStop ==
    /\ watching
    /\ tool' = [tool EXCEPT !.stopping = TRUE,
                            !.script = <<Request("UNSUBSCRIBE_PORT", 0),
                                         Request("UNSUBSCRIBE_PORT", 1)>>]
    /\ UNCHANGED <<server, sock, backlog, polled, dev>>

ToolStep == ToolSend \/ ToolReceive \/ ToolTimeout \/ ToolStop

-----------------------------------------------------------------------------
(* Properties *)

=============================================================================
