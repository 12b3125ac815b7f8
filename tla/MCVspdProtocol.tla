--------------------------- MODULE MCVspdProtocol ---------------------------
(***************************************************************************)
(* One side lays a record out and the other judges it.  The header fields  *)
(* take the values at which a check changes its answer; the payload is one *)
(* of a few, right or wrong for the type.                                  *)
(***************************************************************************)
EXTENDS VspdProtocol

CONSTANTS
    Size,           \* values of fragment_offset and total_size
    PayloadSize,    \* values of payload_size
    Id              \* values of request_id and message_id

VARIABLES header, wire, decoded

vars == <<header, wire, decoded>>

FlagSets ==
    {{}, {"RESPONSE"}, {UNKNOWN}, {"RESPONSE", "EOP"}, {"FRAGMENT_START"},
     {"FRAGMENT_END", "EOP"}, {"FRAGMENT_END"}, {"FRAGMENT_START", "EEP"},
     {"FRAGMENT_START", "FRAGMENT_END", "EEP"},
     {"FRAGMENT_START", "FRAGMENT_END", "EOP", "EEP"}}

Wire(h) == [magic |-> VSPD_MAGIC, version_major |-> VSPD_VERSION_MAJOR,
            version_minor |-> VSPD_VERSION_MINOR, header_size |-> VSPD_HEADER_SIZE,
            reserved |-> 0] @@ h

\* Headers of DATA and of everything else, and one wrong in every fixed field.
Data ==
    {Wire([HeaderOf(t) EXCEPT !.flags = f, !.request_id = r, !.message_id = m,
                   !.payload_size = p, !.fragment_offset = o, !.total_size = n]) :
        t \in {"DATA_TX", "DATA_RX"}, f \in FlagSets, r \in Id, m \in Id,
        p \in PayloadSize, o \in Size, n \in Size}
Plain ==
    {Wire([HeaderOf(t) EXCEPT !.flags = f, !.request_id = r, !.message_id = m,
                   !.payload_size = p, !.status = s]) :
        t \in ToSet(VSPD_MSG) \cup {UNKNOWN}, r \in Id, m \in Id, p \in PayloadSize,
        f \in {{}, {"RESPONSE"}, {"RESPONSE", "EOP"}, {UNKNOWN}},
        s \in {"OK", "RESOURCE_EXHAUSTED", "BACKEND", UNKNOWN}}
Foreign ==
    LET h == Wire([HeaderOf("START") EXCEPT !.request_id = 1])
    IN  {[h EXCEPT !.magic = 1448300631], [h EXCEPT !.version_major = 2],
         [h EXCEPT !.version_minor = 2], [h EXCEPT !.header_size = 44],
         [h EXCEPT !.reserved = 256], h}

\* The payload octets: all zero, a HELLO, values without a name.
Payload(n) == {[i \in 1 .. n |-> 0],
               [i \in 1 .. n |-> IF i = 1 THEN VSPD_VERSION_MAJOR
                                 ELSE IF i = 2 THEN VSPD_VERSION_MINOR ELSE 0],
               [i \in 1 .. n |-> IF i % 4 = 0 THEN 33 ELSE 0],
               [i \in 1 .. n |-> IF i = 1 THEN 64 ELSE 0]}

Zeros(n) == [i \in 1 .. n |-> 0]

\* A payload that is too long to be legal is left off: the header decides.
Payloads == IF header.payload_size > VSPD_MAX_FRAME_PAYLOAD THEN {<<>>}
            ELSE IF header.type \in {"DATA_TX", "DATA_RX"} THEN {Zeros(header.payload_size)}
            ELSE Payload(header.payload_size)

Init ==
    /\ header \in Data \cup Plain \cup Foreign
    /\ wire = <<>> /\ decoded = "none"

\* The record arrives whole, one octet short or one octet long.
Send ==
    /\ wire = <<>>
    /\ \E p \in Payloads : LET record == vspd_encode_header(header) \o p
                          IN  wire' \in {record, Front(record), Append(record, 0)}
    /\ UNCHANGED <<header, decoded>>

Receive ==
    /\ wire # <<>> /\ decoded = "none"
    /\ decoded' = vspd_validate_frame(wire)
    /\ UNCHANGED <<header, wire>>

Spec == Init /\ [][Send \/ Receive]_vars

-----------------------------------------------------------------------------
(* What the protocol document asks of a record *)

FragmentRules ==
    LET end == header.fragment_offset + header.payload_size
    IN  /\ header.message_id # 0 /\ header.total_size <= VSPD_MAX_LOGICAL_PACKET
        /\ end <= header.total_size
        /\ "FRAGMENT_START" \in header.flags <=> header.fragment_offset = 0
        /\ "FRAGMENT_END" \in header.flags <=> end = header.total_size
        /\ header.payload_size = 0 => header.total_size = 0
        /\ IF end = header.total_size
           THEN header.flags \cap {"EOP", "EEP"} \in {{"EOP"}, {"EEP"}}
           ELSE header.flags \cap {"EOP", "EEP"} = {}

\* vspd_validate_frame accepts a DATA record exactly when it is a fragment by
\* the rules of the protocol: START at offset 0 only, END and one terminator
\* where the packet ends only, no empty fragment of a non-empty packet.
DataRecordsAreFragments ==
    decoded # "none" /\ header.type \in {"DATA_TX", "DATA_RX"} /\ "RESPONSE" \notin header.flags
    => (decoded = "OK" <=> /\ FragmentRules
                            /\ Len(wire) = VSPD_HEADER_SIZE + header.payload_size
                            /\ UNKNOWN \notin header.flags
                            /\ (header.request_id = 0) = (header.type = "DATA_RX"))

\* What one side writes is what the other reads: every header field, negative
\* statuses included.
RoundTrip ==
    Len(wire) >= VSPD_HEADER_SIZE /\ vspd_validate_common(header) = "OK"
    => read_header(wire) = header

Pair(n) == <<n, 65536 + n>>
Statistics == [c \in ToSet(Counter) |-> Pair(index_of(Counter, c))]
Info == [flags |-> 21, link_state |-> 5, packet_queue_count |-> 2, time_code_queue_count |-> 8]

\* The payload codecs read back what they write, wherever in the record the
\* payload lies, and their sizes are the ones the shape checks ask for.
\* (vspd_validate_frame leaves the record as it is: one look at it is enough.)
PayloadsComeBack ==
    LET info == [port_count |-> 2, client_capacity |-> 4, packet_queue_depth |-> 258,
                 time_code_queue_depth |-> 8, max_logical_packet |-> 1048576]
        caps == [bits |-> <<1, 15>>, max_packet_size |-> 1048576, tx_queue_depth |-> 2,
                 rx_queue_depth |-> 3, buffer_alignment |-> 64]
        snapshot == [info |-> Info, statistics |-> Statistics]
        back(p) == wire \o p
    IN  decoded = "none" =>
        /\ vspd_decode_server_info(back(vspd_encode_server_info(info)), Len(wire)) = info
        /\ vspd_decode_capabilities(back(vspd_encode_capabilities(caps)), Len(wire)) = caps
        /\ vspd_decode_port_snapshot(back(vspd_encode_port_snapshot(snapshot)), Len(wire))
             = snapshot
        /\ Len(vspd_encode_port_snapshot(snapshot)) = VSPD_PORT_SNAPSHOT_PAYLOAD_SIZE
        /\ Len(vspd_encode_capabilities(caps)) = VSPD_CAPABILITIES_PAYLOAD_SIZE
        /\ Len(vspd_encode_server_info(info)) = VSPD_SERVER_INFO_PAYLOAD_SIZE
=============================================================================
