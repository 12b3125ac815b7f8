---------------------------- MODULE VspwdServer -----------------------------
(***************************************************************************)
(* vspwd: the single-threaded daemon that pairs two virtual ports, serves  *)
(* their owners and any management clients over AF_UNIX SOCK_SEQPACKET,    *)
(* and may reserve one port for a UDP bridge.                              *)
(*   source: src/vspwd/server.c                                            *)
(*                                                                         *)
(* A record s holds what a handler may touch: the server's memory and both *)
(* queues of every connection.  A handler maps s to the s it leaves; "io"  *)
(* is the outcome of its last send and "keep" its return value.  A frame   *)
(* is a VSPD header and a body, a sequence; the body of DATA is the packet *)
(* its bytes are from, and data maps offsets to the packet copied there.   *)
(***************************************************************************)
EXTENDS VspdProtocol, FiniteSets

CONSTANTS
    VSPWD_PACKET_QUEUE_DEPTH,
    VSPWD_TIME_CODE_QUEUE_DEPTH,
    ID_MODULUS,         \* 2^32 in the code
    Settings            \* [name -> configuration and environment]

VARIABLE setting    \* the name of the setting; it never changes

VSPWD_CLIENT_COUNT == Settings[setting].client_count
COUNTER_MODULUS == Settings[setting].counter_modulus    \* 2^64 in the code
SOCKET_ROOM == Settings[setting].room   \* records a connection holds each way
BRIDGE == Settings[setting].bridge      \* the bridged port, or -1

VARIABLES
    server,     \* the daemon's memory
    sock,       \* connections with at least one open end
    backlog,    \* connections not yet accepted, oldest first
    polled      \* what is left of the current pass over the descriptors

PortId == {0, 1}
ClientIndex == 0 .. VSPWD_CLIENT_COUNT - 1
NONE == -1

NoReassembly ==
    [active |-> FALSE, request_id |-> 0, message_id |-> 0, total_size |-> 0,
     next_offset |-> 0, terminator |-> "EOP", data |-> <<>>]
NoClient ==
    [fd |-> NONE, hello_done |-> FALSE, port_id |-> NONE, monitor_mask |-> {},
     monitor_pending_mask |-> {}, response |-> <<>>, reassembly |-> NoReassembly]
NoStatistics == [c \in ToSet(Counter) |-> 0]
NoPort ==
    [client_index |-> NONE, started |-> FALSE, reset_latched |-> FALSE,
     ever_attached |-> FALSE, bridged |-> FALSE, state |-> "ERROR_RESET",
     state_event_pending |-> FALSE, next_message_id |-> 1, packets |-> <<>>,
     time_codes |-> <<>>, statistics |-> NoStatistics]

\* accepted is not the daemon's: it records which packets it ever queued.
vspwd_init_server ==
    [clients |-> [i \in ClientIndex |-> NoClient], ports |-> [p \in PortId |-> NoPort],
     bridge |-> [enabled |-> FALSE, port_id |-> NONE, state |-> "ERROR_RESET"],
     accepted |-> {}]

vspwd_peer_port(p) == 1 - p

\* The identifier vspwd_next_message_id hands out and the one it leaves.
vspwd_next_message_id(next) ==
    LET id == IF next = 0 THEN 1 ELSE next
    IN  [id |-> id, next |-> IF (id + 1) % ID_MODULUS = 0 THEN 1 ELSE id + 1]

count(s, p, counter, n) ==
    [s EXCEPT !.ports[p].statistics[counter] = (@ + n) % COUNTER_MODULUS]

-----------------------------------------------------------------------------
(* Port states and the monitors that watch them *)

\* A monitor is a client that said HELLO and owns no port.
vspwd_mark_port_changed(s, p) ==
    [s EXCEPT !.clients = [i \in ClientIndex |->
        LET c == s.clients[i]
        IN  IF c.fd # NONE /\ c.hello_done /\ c.port_id = NONE /\ p \in c.monitor_mask
            THEN [c EXCEPT !.monitor_pending_mask = @ \cup {p}] ELSE c]]

vspwd_clear_port_queues(s, p) ==
    [s EXCEPT !.ports[p].packets = <<>>, !.ports[p].time_codes = <<>>]

\* Mutant: a peer that is attached counts as running.
calculate_attached(s, p) ==
    LET port == s.ports[p]
        peer == s.ports[vspwd_peer_port(p)]
    IN  IF port.bridged THEN s.bridge.state
        ELSE IF port.client_index = NONE \/ port.reset_latched THEN "ERROR_RESET"
        ELSE IF ~port.started THEN "READY"
        ELSE IF peer.bridged
             THEN IF peer.state \in {"RUN", "ERROR_WAIT"} THEN peer.state ELSE "CONNECTING"
        ELSE IF peer.client_index # NONE THEN "RUN"
        ELSE IF peer.ever_attached THEN "ERROR_WAIT" ELSE "CONNECTING"

vspwd_calculate_state(s, p) ==
    LET port == s.ports[p]
        peer == s.ports[vspwd_peer_port(p)]
    IN  IF port.bridged THEN s.bridge.state
        ELSE IF port.client_index = NONE \/ port.reset_latched THEN "ERROR_RESET"
        ELSE IF ~port.started THEN "READY"
        ELSE IF peer.bridged
             THEN IF peer.state \in {"RUN", "ERROR_WAIT"} THEN peer.state ELSE "CONNECTING"
        ELSE IF peer.client_index # NONE
             THEN IF peer.started /\ ~peer.reset_latched THEN "RUN" ELSE "CONNECTING"
        ELSE IF peer.ever_attached THEN "ERROR_WAIT" ELSE "CONNECTING"

\* Mutant: a link that is lost is not announced.
update_quiet(s, p) ==
    LET port == s.ports[p]
        next == vspwd_calculate_state(s, p)
        counted == IF next = "ERROR_WAIT" THEN count(s, p, "link_errors", 1) ELSE s
    IN  IF port.client_index = NONE /\ ~port.bridged
        THEN [s EXCEPT !.ports[p].state = "ERROR_RESET",
                       !.ports[p].state_event_pending = FALSE]
        ELSE IF next = port.state THEN s
        ELSE vspwd_mark_port_changed(
                [counted EXCEPT !.ports[p].state = next,
                                !.ports[p].state_event_pending = @ \/ next # "ERROR_WAIT"], p)

update_state(s, p) ==
    LET port == s.ports[p]
        next == vspwd_calculate_state(s, p)
        counted == IF next = "ERROR_WAIT" THEN count(s, p, "link_errors", 1) ELSE s
    IN  IF port.client_index = NONE /\ ~port.bridged
        THEN [s EXCEPT !.ports[p].state = "ERROR_RESET",
                       !.ports[p].state_event_pending = FALSE]
        ELSE IF next = port.state THEN s
        ELSE vspwd_mark_port_changed(
                [counted EXCEPT !.ports[p].state = next,
                                !.ports[p].state_event_pending = TRUE], p)

vspwd_update_states(s) == update_state(update_state(s, 0), 1)

vspwd_detach_client(s, i) ==
    LET p == s.clients[i].port_id
        freed == IF p # NONE /\ s.ports[p].client_index = i
                 THEN vspwd_mark_port_changed(vspwd_clear_port_queues(
                        [s EXCEPT !.ports[p].client_index = NONE,
                                  !.ports[p].started = FALSE,
                                  !.ports[p].reset_latched = FALSE,
                                  !.ports[p].state = "ERROR_RESET",
                                  !.ports[p].state_event_pending = FALSE], p), p)
                 ELSE s
    IN  vspwd_update_states(
            [freed EXCEPT !.clients[i].port_id = NONE,
                          !.clients[i].reassembly = NoReassembly])

\* close() of the server's end of connection k: unread requests turn into an
\* error at the other end.
server_end_closed(socks, k) ==
    IF ~socks[k].client THEN [j \in DOMAIN socks \ {k} |-> socks[j]]
    ELSE [socks EXCEPT ![k].server = "closed", ![k].in = <<>>,
                       ![k].reset = @ \/ socks[k].in # <<>>]

\* Mutant: the slot is cleared before the port is given up.
close_without_detach(s, i) ==
    [s EXCEPT !.clients[i] = NoClient, !.sock = server_end_closed(s.sock, s.clients[i].fd)]

vspwd_close_client(s, i) ==
    LET t == vspwd_detach_client(s, i)
    IN  [t EXCEPT !.clients[i] = NoClient,
                  !.sock = server_end_closed(t.sock, s.clients[i].fd)]

-----------------------------------------------------------------------------
(* Packets and time codes between the ports *)

slot_of(r, id) ==
    [length |-> r.total_size, offset |-> 0, message_id |-> id,
     terminator |-> r.terminator, data |-> r.data]

push_packet(s, p, r) ==
    LET id == vspwd_next_message_id(s.ports[p].next_message_id)
    IN  [s EXCEPT !.ports[p].packets = Append(@, slot_of(r, id.id)),
                  !.ports[p].next_message_id = id.next]

count_tx(s, p, r) ==
    count(count(count(s, p, "tx_packets", 1), p, "tx_bytes", r.total_size),
          p, "eep_packets", IF r.terminator = "EEP" THEN 1 ELSE 0)

mark_both(s) == vspwd_mark_port_changed(vspwd_mark_port_changed(s, 0), 1)

taken_over(s, r) == [s EXCEPT !.accepted = @ \cup {r.data[0]}]

\* vspwd_enqueue_packet once both ports are RUN and there is room.
vspwd_enqueue_packet(s, p, r) ==
    taken_over(mark_both(count_tx(push_packet(s, vspwd_peer_port(p), r), p, r)), r)

both_run(s) == \A p \in PortId : s.ports[p].state = "RUN"

dropped(s, p) == vspwd_mark_port_changed(count(s, p, "dropped_packets", 1), p)

\* What a completed reassembly r of the owner of port p comes to.
complete_packet(s, p, r) ==
    IF s.ports[p].state # "RUN" THEN [s |-> s, status |-> "LINK_UNAVAILABLE"]
    ELSE IF Len(s.ports[vspwd_peer_port(p)].packets) >= VSPWD_PACKET_QUEUE_DEPTH
         THEN [s |-> dropped(s, p), status |-> "RESOURCE_EXHAUSTED"]
    ELSE IF ~both_run(s) THEN [s |-> s, status |-> "LINK_UNAVAILABLE"]
    ELSE [s |-> vspwd_enqueue_packet(s, p, r), status |-> "OK"]

vspwd_accept_data_fragment(s, i, h) ==
    LET old == s.clients[i].reassembly
        fits == IF ~old.active THEN "FRAGMENT_START" \in h.flags /\ h.fragment_offset = 0
                ELSE /\ "FRAGMENT_START" \notin h.flags
                     /\ old.request_id = h.request_id /\ old.message_id = h.message_id
                     /\ old.total_size = h.total_size /\ old.next_offset = h.fragment_offset
        r == [active |-> TRUE, request_id |-> h.request_id, message_id |-> h.message_id,
              total_size |-> h.total_size,
              next_offset |-> h.fragment_offset + h.payload_size,
              terminator |-> IF "EEP" \in h.flags THEN "EEP" ELSE "EOP",
              data |-> (h.fragment_offset :> h.body[1]) @@ old.data]
    IN  IF ~fits THEN [s |-> s, status |-> "INVALID_PACKET"]
        ELSE IF "FRAGMENT_END" \notin h.flags
             THEN [s |-> [s EXCEPT !.clients[i].reassembly = r], status |-> "OK"]
        ELSE IF r.next_offset # r.total_size THEN [s |-> s, status |-> "INVALID_PACKET"]
        ELSE complete_packet(s, s.clients[i].port_id, r)

\* vspwd_enqueue_time_code once both ports are RUN and there is room.
vspwd_enqueue_time_code(s, p, code) ==
    mark_both(count([s EXCEPT !.ports[vspwd_peer_port(p)].time_codes = Append(@, code)],
                    p, "tx_time_codes", 1))

accept_time_code(s, p, code) ==
    IF s.ports[p].state # "RUN" THEN [s |-> s, status |-> "LINK_UNAVAILABLE"]
    ELSE IF Len(s.ports[vspwd_peer_port(p)].time_codes) >= VSPWD_TIME_CODE_QUEUE_DEPTH
         THEN [s |-> dropped(s, p), status |-> "RESOURCE_EXHAUSTED"]
    ELSE IF ~both_run(s) THEN [s |-> s, status |-> "LINK_UNAVAILABLE"]
    ELSE [s |-> vspwd_enqueue_time_code(s, p, code), status |-> "OK"]

-----------------------------------------------------------------------------
(* Requests.  vspwd_handle_request is one operator per message type. *)

port_info(port) ==
    [flags |-> {f \in {"ATTACHED", "STARTED", "RESET_LATCHED", "EVER_ATTACHED", "BRIDGED"} :
                  CASE f = "ATTACHED"      -> port.client_index # NONE
                    [] f = "STARTED"       -> port.started
                    [] f = "RESET_LATCHED" -> port.reset_latched
                    [] f = "EVER_ATTACHED" -> port.ever_attached
                    [] OTHER               -> port.bridged},
     link_state |-> port.state, packet_queue_count |-> Len(port.packets),
     time_code_queue_count |-> Len(port.time_codes)]

port_snapshot(port) == [info |-> port_info(port), statistics |-> port.statistics]

\* Only successful responses carry a payload.
vspwd_queue_response(s, i, h, status, body) ==
    [s EXCEPT !.clients[i].response =
        <<[HeaderOf(h.type) EXCEPT
              !.flags = {"RESPONSE"}, !.request_id = h.request_id, !.port_id = h.port_id,
              !.status = status,
              !.payload_size = IF status = "OK" THEN vspd_success_response_payload_size(h.type)
                               ELSE 0]
          @@ [body |-> IF status = "OK" THEN body ELSE <<>>]>>]

vspwd_validate_attached_request(client, h) ==
    IF ~client.hello_done \/ client.port_id = NONE THEN "INVALID_STATE"
    ELSE IF h.port_id # client.port_id THEN "INVALID_ARGUMENT" ELSE "OK"

vspwd_validate_management_request(client, h, requires_port) ==
    IF ~client.hello_done \/ client.port_id # NONE THEN "INVALID_STATE"
    ELSE IF requires_port /\ h.port_id \notin PortId THEN "INVALID_ARGUMENT" ELSE "OK"

hello(s, i, h) ==
    IF s.clients[i].port_id # NONE
    THEN vspwd_queue_response(s, i, h, "INVALID_STATE", <<>>)
    ELSE vspwd_queue_response([s EXCEPT !.clients[i].hello_done = TRUE], i, h, "OK",
                              <<VSPD_VERSION_MAJOR, VSPD_VERSION_MINOR>>)

attach_status(s, i, h) ==
    IF ~s.clients[i].hello_done \/ s.clients[i].port_id # NONE THEN "INVALID_STATE"
    ELSE IF h.port_id \notin PortId THEN "INVALID_ARGUMENT"
    ELSE IF s.ports[h.port_id].bridged \/ s.ports[h.port_id].client_index # NONE
         THEN "RESOURCE_EXHAUSTED"
    ELSE "OK"

attach(s, i, h) ==
    IF attach_status(s, i, h) # "OK"
    THEN vspwd_queue_response(s, i, h, attach_status(s, i, h), <<>>)
    ELSE vspwd_queue_response(
            vspwd_update_states([s EXCEPT
                !.clients[i].port_id = h.port_id,
                !.ports[h.port_id] =
                    [NoPort EXCEPT !.client_index = i, !.ever_attached = TRUE]]),
            i, h, "OK", <<>>)

\* DETACH answers first and then gives the port up.
detach(s, i, h) ==
    LET status == vspwd_validate_attached_request(s.clients[i], h)
        t == vspwd_queue_response(s, i, h, status, <<>>)
    IN  IF status = "OK" THEN vspwd_detach_client(t, i) ELSE t

\* The requests of a port's owner that only need validating first.
owner_request(s, i, h, done, body) ==
    LET status == vspwd_validate_attached_request(s.clients[i], h)
    IN  vspwd_queue_response(IF status = "OK" THEN done ELSE s, i, h, status, body)

start(s, i, h) ==
    LET p == s.clients[i].port_id
    IN  owner_request(s, i, h,
            vspwd_update_states([s EXCEPT !.ports[p].started = TRUE,
                                          !.ports[p].reset_latched = FALSE]), <<>>)
stop(s, i, h) ==
    LET p == s.clients[i].port_id
    IN  owner_request(s, i, h,
            vspwd_update_states([s EXCEPT !.ports[p].started = FALSE,
                                          !.ports[p].reset_latched = FALSE]), <<>>)

\* Mutant: RESET leaves what is queued for the port.
reset_keeps_queues(s, i, h) ==
    LET p == s.clients[i].port_id
    IN  owner_request(s, i, h,
            vspwd_update_states(
                [s EXCEPT !.ports[p].started = FALSE, !.ports[p].reset_latched = TRUE,
                          !.clients[i].reassembly = NoReassembly]), <<>>)

reset(s, i, h) ==
    LET p == s.clients[i].port_id
    IN  owner_request(s, i, h,
            vspwd_update_states(vspwd_clear_port_queues(
                [s EXCEPT !.ports[p].started = FALSE, !.ports[p].reset_latched = TRUE,
                          !.clients[i].reassembly = NoReassembly], p)), <<>>)

\* A fragment before the last is not answered; one that does not fit ends the
\* connection, and so does any refusal that has no response to go into.
data_tx(s, i, h) ==
    LET status == vspwd_validate_attached_request(s.clients[i], h)
        r == IF status = "OK" THEN vspwd_accept_data_fragment(s, i, h)
             ELSE [s |-> s, status |-> status]
        end == "FRAGMENT_END" \in h.flags
    IN  IF r.status = "INVALID_PACKET" THEN [r.s EXCEPT !.keep = FALSE]
        ELSE IF ~end THEN [r.s EXCEPT !.keep = r.status = "OK"]
        ELSE vspwd_queue_response([r.s EXCEPT !.clients[i].reassembly = NoReassembly],
                                  i, h, r.status, <<>>)

time_code_tx(s, i, h) ==
    LET status == vspwd_validate_attached_request(s.clients[i], h)
        r == IF status = "OK" THEN accept_time_code(s, s.clients[i].port_id, h.body)
             ELSE [s |-> s, status |-> status]
    IN  vspwd_queue_response(r.s, i, h, r.status, <<>>)

cleared(s, p) ==
    vspwd_mark_port_changed([s EXCEPT !.ports[p].statistics = NoStatistics], p)

capabilities ==
    [max_packet_size |-> VSPD_MAX_LOGICAL_PACKET, tx_queue_depth |-> VSPWD_PACKET_QUEUE_DEPTH,
     rx_queue_depth |-> VSPWD_PACKET_QUEUE_DEPTH, buffer_alignment |-> 1,
     bits |-> {"EEP", "TIME_CODE", "LINK_CONTROL", "STATISTICS"}]

owner_query(s, i, h) ==
    LET port == s.ports[IF s.clients[i].port_id = NONE THEN 0 ELSE s.clients[i].port_id]
    IN  owner_request(s, i, h, s,
            CASE h.type = "GET_LINK_STATE" -> <<port.state>>
              [] h.type = "GET_CAPABILITIES" -> <<capabilities>>
              [] OTHER -> <<port.statistics>>)

clear_statistics(s, i, h) == owner_request(s, i, h, cleared(s, s.clients[i].port_id), <<>>)

\* The requests of the HELLO-only management plane.
management_request(s, i, h, done, body) ==
    LET status == vspwd_validate_management_request(s.clients[i], h, h.type # "GET_SERVER_INFO")
    IN  vspwd_queue_response(IF status = "OK" THEN done ELSE s, i, h, status, body)

server_info ==
    [port_count |-> Cardinality(PortId), client_capacity |-> VSPWD_CLIENT_COUNT,
     packet_queue_depth |-> VSPWD_PACKET_QUEUE_DEPTH,
     time_code_queue_depth |-> VSPWD_TIME_CODE_QUEUE_DEPTH,
     max_logical_packet |-> VSPD_MAX_LOGICAL_PACKET]

management_query(s, i, h) ==
    management_request(s, i, h, s,
        CASE h.type = "GET_SERVER_INFO" -> <<server_info>>
          [] h.port_id \notin PortId -> <<>>
          [] h.type = "GET_PORT_INFO" -> <<port_info(s.ports[h.port_id])>>
          [] OTHER -> <<s.ports[h.port_id].statistics>>)

clear_port_statistics(s, i, h) == management_request(s, i, h, cleared(s, h.port_id), <<>>)

subscribe_port(s, i, h) ==
    management_request(s, i, h,
        [s EXCEPT !.clients[i].monitor_mask = @ \cup {h.port_id},
                  !.clients[i].monitor_pending_mask = @ \cup {h.port_id}], <<>>)

unsubscribe_port(s, i, h) ==
    management_request(s, i, h,
        [s EXCEPT !.clients[i].monitor_mask = @ \ {h.port_id},
                  !.clients[i].monitor_pending_mask = @ \ {h.port_id}], <<>>)

vspwd_handle_request(s, i, h) ==
    LET client == s.clients[i]
    IN  IF \/ client.response # <<>>
           \/ common_shape(h) # "OK" \/ ~header_shape(h)
           \/ "RESPONSE" \in h.flags \/ vspd_type_is_event(h.type)
           \/ ~client.hello_done /\ h.type # "HELLO"
        THEN [s EXCEPT !.keep = FALSE]
        ELSE CASE h.type = "HELLO"            -> hello(s, i, h)
               [] h.type = "ATTACH"           -> attach(s, i, h)
               [] h.type = "DETACH"           -> detach(s, i, h)
               [] h.type = "START"            -> start(s, i, h)
               [] h.type = "STOP"             -> stop(s, i, h)
               [] h.type = "RESET"            -> reset(s, i, h)
               [] h.type = "DATA_TX"          -> data_tx(s, i, h)
               [] h.type = "TIME_CODE_TX"     -> time_code_tx(s, i, h)
               [] h.type = "CLEAR_STATISTICS" -> clear_statistics(s, i, h)
               [] h.type = "CLEAR_PORT_STATISTICS" -> clear_port_statistics(s, i, h)
               [] h.type = "SUBSCRIBE_PORT"   -> subscribe_port(s, i, h)
               [] h.type = "UNSUBSCRIBE_PORT" -> unsubscribe_port(s, i, h)
               [] h.type \in {"GET_LINK_STATE", "GET_CAPABILITIES", "GET_STATISTICS"}
                                              -> owner_query(s, i, h)
               [] OTHER                       -> management_query(s, i, h)

-----------------------------------------------------------------------------
(* Output *)

\* send() with MSG_DONTWAIT.
vspwd_send_record(s, i, frame) ==
    LET k == s.clients[i].fd
    IN  IF ~s.sock[k].client THEN [s EXCEPT !.io = "EPIPE"]
        ELSE IF Len(s.sock[k].out) >= SOCKET_ROOM THEN [s EXCEPT !.io = "EAGAIN"]
        ELSE [s EXCEPT !.io = "OK", !.sock[k].out = Append(@, frame)]

vspwd_flush_response(s, i) ==
    LET t == vspwd_send_record(s, i, s.clients[i].response[1])
    IN  IF t.io = "OK" THEN [t EXCEPT !.clients[i].response = <<>>] ELSE t

event(type, p, size, body) ==
    [HeaderOf(type) EXCEPT !.port_id = p, !.payload_size = size] @@ [body |-> body]

vspwd_flush_state_event(s, i) ==
    LET p == s.clients[i].port_id
        t == vspwd_send_record(s, i, event("LINK_STATE_EVENT", p, VSPD_LINK_STATE_PAYLOAD_SIZE,
                                           <<s.ports[p].state>>))
    IN  IF ~s.ports[p].state_event_pending THEN [s EXCEPT !.io = "OK"]
        ELSE IF t.io = "OK" THEN [t EXCEPT !.ports[p].state_event_pending = FALSE] ELSE t

min(a, b) == IF a < b THEN a ELSE b

\* The flags of the fragment of a packet that covers [offset, offset + chunk).
fragment_flags(offset, chunk, length, terminator) ==
    (IF offset = 0 THEN {"FRAGMENT_START"} ELSE {})
        \cup (IF offset + chunk = length THEN {"FRAGMENT_END", terminator} ELSE {})

\* Mutant: the packet stays after its last fragment.
flush_packet_and_keep(s, i) ==
    LET p == s.clients[i].port_id
        slot == s.ports[p].packets[1]
        chunk == min(slot.length - slot.offset, VSPD_MAX_FRAME_PAYLOAD)
        t == vspwd_send_record(s, i,
                [HeaderOf("DATA_RX") EXCEPT
                    !.payload_size = chunk, !.port_id = p, !.message_id = slot.message_id,
                    !.fragment_offset = slot.offset, !.total_size = slot.length,
                    !.flags = fragment_flags(slot.offset, chunk, slot.length, slot.terminator)]
                @@ [body |-> <<slot.data[slot.offset]>>])
    IN  IF s.ports[p].packets = <<>> THEN [s EXCEPT !.io = "OK"]
        ELSE IF t.io # "OK" THEN t
        ELSE [t EXCEPT !.ports[p].packets[1].offset =
                            IF @ + chunk < slot.length THEN @ + chunk ELSE 0]

\* One fragment of the oldest packet; the packet leaves with its last.
vspwd_flush_packet_event(s, i) ==
    LET p == s.clients[i].port_id
        slot == s.ports[p].packets[1]
        chunk == min(slot.length - slot.offset, VSPD_MAX_FRAME_PAYLOAD)
        t == vspwd_send_record(s, i,
                [HeaderOf("DATA_RX") EXCEPT
                    !.payload_size = chunk, !.port_id = p, !.message_id = slot.message_id,
                    !.fragment_offset = slot.offset, !.total_size = slot.length,
                    !.flags = fragment_flags(slot.offset, chunk, slot.length, slot.terminator)]
                @@ [body |-> <<slot.data[slot.offset]>>])
    IN  IF s.ports[p].packets = <<>> THEN [s EXCEPT !.io = "OK"]
        ELSE IF t.io # "OK" THEN t
        ELSE IF slot.offset + chunk < slot.length
             THEN [t EXCEPT !.ports[p].packets[1].offset = @ + chunk]
        ELSE vspwd_mark_port_changed(
                count(count([t EXCEPT !.ports[p].packets = Tail(@)], p, "rx_packets", 1),
                      p, "rx_bytes", slot.length), p)

vspwd_flush_time_code_event(s, i) ==
    LET p == s.clients[i].port_id
        t == vspwd_send_record(s, i, event("TIME_CODE_RX", p, VSPD_TIME_CODE_PAYLOAD_SIZE,
                                           s.ports[p].time_codes[1]))
    IN  IF s.ports[p].time_codes = <<>> THEN [s EXCEPT !.io = "OK"]
        ELSE IF t.io # "OK" THEN t
        ELSE vspwd_mark_port_changed(
                count([t EXCEPT !.ports[p].time_codes = Tail(@)], p, "rx_time_codes", 1), p)

\* Mutant: one snapshot settles what is due for the other port too.
flush_monitor_and_forget(s, i) ==
    LET pending == s.clients[i].monitor_pending_mask
        p == IF 0 \in pending THEN 0 ELSE 1
        t == vspwd_send_record(s, i,
                event("PORT_SNAPSHOT_EVENT", p, VSPD_PORT_SNAPSHOT_PAYLOAD_SIZE,
                      <<port_snapshot(s.ports[p])>>))
    IN  IF pending = {} THEN [s EXCEPT !.io = "OK"]
        ELSE IF t.io = "OK" THEN [t EXCEPT !.clients[i].monitor_pending_mask = {}] ELSE t

\* The lowest pending port's snapshot, as the port is now.
vspwd_flush_monitor_event(s, i) ==
    LET pending == s.clients[i].monitor_pending_mask
        p == IF 0 \in pending THEN 0 ELSE 1
        t == vspwd_send_record(s, i,
                event("PORT_SNAPSHOT_EVENT", p, VSPD_PORT_SNAPSHOT_PAYLOAD_SIZE,
                      <<port_snapshot(s.ports[p])>>))
    IN  IF pending = {} THEN [s EXCEPT !.io = "OK"]
        ELSE IF t.io = "OK" THEN [t EXCEPT !.clients[i].monitor_pending_mask = @ \ {p}] ELSE t

\* Mutant: a waiting response is no reason to poll for output.
has_events(s, i) ==
    LET client == s.clients[i]
        port == s.ports[client.port_id]
    IN  IF client.port_id = NONE THEN client.monitor_pending_mask # {}
        ELSE port.state_event_pending \/ port.packets # <<>> \/ port.time_codes # <<>>

vspwd_client_has_output(s, i) ==
    LET client == s.clients[i]
        port == s.ports[client.port_id]
    IN  \/ client.response # <<>>
        \/ IF client.port_id = NONE THEN client.monitor_pending_mask # {}
           ELSE port.state_event_pending \/ port.packets # <<>> \/ port.time_codes # <<>>

\* A waiting response goes alone; otherwise a monitor gets one snapshot and an
\* owner a state, a fragment and a time code, in that order.
vspwd_flush_client(s, i) ==
    LET stated == vspwd_flush_state_event(s, i)
        packed == vspwd_flush_packet_event(stated, i)
    IN  IF s.clients[i].response # <<>> THEN vspwd_flush_response(s, i)
        ELSE IF s.clients[i].port_id = NONE THEN vspwd_flush_monitor_event(s, i)
        ELSE IF stated.io # "OK" THEN stated
        ELSE IF packed.io # "OK" THEN packed
        ELSE vspwd_flush_time_code_event(packed, i)

\* recvmsg() of one record, or of the end of the stream.
vspwd_receive_one(s, i) ==
    LET k == s.clients[i].fd
    IN  IF s.sock[k].in # <<>>
        THEN vspwd_handle_request([s EXCEPT !.sock[k].in = Tail(@)], i, s.sock[k].in[1])
        ELSE [s EXCEPT !.keep = s.sock[k].client]

\* One accept4 loop: every waiting connection gets the lowest free slot or is
\* closed.
vspwd_accept_clients(s, waiting) ==
    LET free(t) == {i \in ClientIndex : t.clients[i].fd = NONE}
        accept(t, k) ==
            IF free(t) = {} THEN [t EXCEPT !.sock = server_end_closed(@, k)]
            ELSE LET i == CHOOSE x \in free(t) : \A y \in free(t) : x <= y
                 IN  [t EXCEPT !.clients[i] = [NoClient EXCEPT !.fd = k],
                               !.sock[k].server = "open"]
    IN  FoldLeft(accept, s, waiting)

-----------------------------------------------------------------------------
(* The bridge.  s.udp is the UDP port behind it as the daemon sees it: what *)
(* it has received, what it has been given; an answer u says which states   *)
(* it reports and whether it takes what it is offered.                      *)

UdpState == {"CONNECTING", "RUN", "ERROR_WAIT"}
NoUdp == [rx_packets |-> <<>>, rx_codes |-> <<>>, tx_packets |-> <<>>, tx_codes |-> <<>>]
Answer ==
    {u \in [before : UdpState, after : UdpState, packet : BOOLEAN, code : BOOLEAN] :
        u.before # "RUN" => ~u.packet /\ ~u.code /\ u.after = u.before}

vspwd_bridge_refresh_state(s, state) ==
    LET p == s.bridge.port_id
        counted == IF state = "ERROR_WAIT" THEN count(s, p, "link_errors", 1) ELSE s
        published == IF s.ports[p].state = state THEN s
                     ELSE vspwd_mark_port_changed([counted EXCEPT !.ports[p].state = state], p)
    IN  IF state = s.bridge.state THEN s
        ELSE vspwd_update_states([published EXCEPT !.bridge.state = state])

\* Mutant: the packet leaves the queue before the UDP port has taken it.
pop_before_sending(s, taken) ==
    LET p == s.bridge.port_id
        slot == s.ports[p].packets[1]
    IN  IF s.ports[p].packets = <<>> \/ s.bridge.state # "RUN" THEN s
        ELSE [s EXCEPT !.ports[p].packets = Tail(@),
                       !.udp.tx_packets = IF taken THEN Append(@, slot.data) ELSE @]

vspwd_bridge_pop_packet(s, taken) ==
    LET p == s.bridge.port_id
        slot == s.ports[p].packets[1]
    IN  IF s.ports[p].packets = <<>> \/ s.bridge.state # "RUN" \/ ~taken THEN s
        ELSE vspwd_mark_port_changed(
                count(count([s EXCEPT !.ports[p].packets = Tail(@),
                                      !.udp.tx_packets = Append(@, slot.data)],
                            p, "rx_packets", 1), p, "rx_bytes", slot.length), p)

vspwd_bridge_pop_time_code(s, taken) ==
    LET p == s.bridge.port_id
    IN  IF s.ports[p].time_codes = <<>> \/ s.bridge.state # "RUN" \/ ~taken THEN s
        ELSE vspwd_mark_port_changed(
                count([s EXCEPT !.ports[p].time_codes = Tail(@),
                                !.udp.tx_codes = Append(@, s.ports[p].time_codes[1])],
                      p, "rx_time_codes", 1), p)

vspwd_bridge_push_packet(s) ==
    LET local == vspwd_peer_port(s.bridge.port_id)
        r == s.udp.rx_packets[1]
    IN  IF \/ s.bridge.state # "RUN" \/ s.ports[local].state # "RUN"
           \/ Len(s.ports[local].packets) >= VSPWD_PACKET_QUEUE_DEPTH
           \/ s.udp.rx_packets = <<>>
        THEN s
        ELSE taken_over(mark_both(count_tx(
                push_packet([s EXCEPT !.udp.rx_packets = Tail(@)], local, r),
                s.bridge.port_id, r)), r)

vspwd_bridge_push_time_code(s) ==
    LET local == vspwd_peer_port(s.bridge.port_id)
    IN  IF \/ s.bridge.state # "RUN" \/ s.ports[local].state # "RUN"
           \/ Len(s.ports[local].time_codes) >= VSPWD_TIME_CODE_QUEUE_DEPTH
           \/ s.udp.rx_codes = <<>>
        THEN s
        ELSE mark_both(count([s EXCEPT !.udp.rx_codes = Tail(@),
                                       !.ports[local].time_codes = Append(@, s.udp.rx_codes[1])],
                             s.bridge.port_id, "tx_time_codes", 1))

vspwd_service_bridge(s, u) ==
    LET r == vspwd_bridge_refresh_state(s, u.before)
        popped == vspwd_bridge_pop_time_code(vspwd_bridge_pop_packet(r, u.packet), u.code)
        pushed == vspwd_bridge_push_time_code(vspwd_bridge_push_packet(popped))
    IN  IF ~s.bridge.enabled THEN s
        ELSE IF r.bridge.state # "RUN" THEN r
        ELSE vspwd_bridge_refresh_state(pushed, u.after)

\* vspwd_open_bridge; its own refresh is the next pass's.
vspwd_open_bridge(s) ==
    IF BRIDGE = NONE THEN s
    ELSE [s EXCEPT !.bridge = [enabled |-> TRUE, port_id |-> BRIDGE, state |-> "CONNECTING"],
                   !.ports[BRIDGE] = [@ EXCEPT !.bridged = TRUE, !.started = TRUE,
                                               !.state = "CONNECTING"]]

-----------------------------------------------------------------------------
(* vspwd_run_config: one pass is a poll, an accept and the ready clients in *)
(* the order of their slots, each served once on what poll said.            *)

NoPass == [listener |-> FALSE, revents |-> <<>>]

Booted == vspwd_open_bridge(vspwd_init_server) @@ [up |-> TRUE, udp |-> NoUdp]
Local == server @@ [sock |-> sock, io |-> "OK", keep |-> TRUE]
Leave(s) ==
    /\ server' = [f \in DOMAIN server |-> s[f]]
    /\ sock' = s.sock

revents(s, i) ==
    LET q == s.sock[s.clients[i].fd]
    IN  [hup |-> ~q.client, in |-> q.in # <<>>,
         out |-> vspwd_client_has_output(s, i) /\ Len(q.out) < SOCKET_ROOM]

Ready(s) ==
    {i \in ClientIndex : s.clients[i].fd # NONE /\ \E f \in {"hup", "in", "out"} : revents(s, i)[f]}

Poll ==
    /\ server.up /\ polled = NoPass
    /\ \E s \in {vspwd_service_bridge(Local, u) : u \in Answer} :
        /\ Leave(s)
        /\ polled' = [listener |-> backlog # <<>>,
                      revents |-> [i \in Ready(s) |-> revents(s, i)]]
    /\ UNCHANGED backlog

Accept ==
    /\ server.up /\ polled.listener
    /\ Leave(vspwd_accept_clients(Local, backlog))
    /\ backlog' = <<>>
    /\ polled' = [polled EXCEPT !.listener = FALSE]

serve(s, i, r) ==
    LET a == IF r.hup THEN [s EXCEPT !.keep = FALSE]
             ELSE IF r.in THEN vspwd_receive_one(s, i) ELSE s
        b == IF a.keep /\ r.out THEN vspwd_flush_client(a, i) ELSE a
    IN  IF a.keep /\ b.io # "EPIPE" THEN b ELSE vspwd_close_client(b, i)

Serve ==
    /\ server.up /\ ~polled.listener /\ DOMAIN polled.revents # {}
    /\ LET left == DOMAIN polled.revents
           i == CHOOSE x \in left : \A y \in left : x <= y
       IN  /\ Leave(serve(Local, i, polled.revents[i]))
           /\ polled' = [polled EXCEPT !.revents = [j \in left \ {i} |-> @[j]]]
    /\ UNCHANGED backlog

\* The daemon ends, orderly or not: its ends of all connections close.
vspwd_cleanup ==
    /\ server.up
    /\ LET ended == {k \in DOMAIN sock : sock[k].client}
       IN  sock' = [k \in ended |->
                [sock[k] EXCEPT !.server = "closed", !.in = <<>>,
                    !.reset = @ \/ sock[k].in # <<>> \/ sock[k].server = "backlog"]]
    /\ server' = [Booted EXCEPT !.up = FALSE, !.accepted = server.accepted,
                                !.udp = server.udp]
    /\ backlog' = <<>> /\ polled' = NoPass

vspwd_run ==
    /\ ~server.up
    /\ server' = [Booted EXCEPT !.accepted = server.accepted, !.udp = server.udp]
    /\ UNCHANGED <<sock, backlog, polled>>

-----------------------------------------------------------------------------
(* Properties of the daemon alone *)

\* A port and its owner name each other: no client holds a port that lists
\* another, and no port lists a client that has gone (handle_request ATTACH
\* and DETACH, close_client).
OwnersAgree ==
    \A p \in PortId, i \in ClientIndex :
        server.ports[p].client_index = i <=> server.clients[i].port_id = p

\* RUN is mutual: without a bridge a port is RUN exactly when both ports have
\* an owner that started it and has not reset it since, and never alone
\* (vspwd_calculate_state, and vspwd_update_states after every change).
\* Opposite a bridge it is RUN exactly when its owner runs it and the UDP link
\* is RUN, in the very pass in which the link changes
\* (vspwd_bridge_refresh_state publishes the bridged port before it updates).
running(p) ==
    LET port == server.ports[p]
    IN  port.client_index # NONE /\ port.started /\ ~port.reset_latched
RunIsMutual ==
    server.up =>
        IF server.bridge.enabled
        THEN LET p == server.bridge.port_id
                 local == vspwd_peer_port(p)
             IN  /\ server.ports[p].state = server.bridge.state
                 /\ server.ports[local].state = "RUN"
                         <=> running(local) /\ server.bridge.state = "RUN"
        ELSE \A p \in PortId : server.ports[p].state = "RUN" <=> \A q \in PortId : running(q)

\* Every packet vspwd told a local owner it accepted for the bridge is queued
\* for it or was handed to the UDP port, once and in order, however often the
\* UDP port refuses it (vspwd_bridge_pop_packet keeps what is refused).
BridgeLosesNothing ==
    server.bridge.enabled =>
        LET p == server.bridge.port_id
            gone == server.udp.tx_packets \o [k \in DOMAIN server.ports[p].packets |->
                                                server.ports[p].packets[k].data]
            numbers == [k \in DOMAIN gone |-> gone[k][0][2]]
        IN  /\ \A j, k \in DOMAIN numbers : j < k => numbers[j] < numbers[k]
            /\ \A item \in server.accepted : \/ item[1] = "U"
                                             \/ item[2] \in ToSet(numbers)
=============================================================================
