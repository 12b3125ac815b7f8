---------------------------- MODULE VspdProtocol ----------------------------
(***************************************************************************)
(* VSPD, the protocol between the DEVICE backend and vspwd: which records  *)
(* are legal, in which order a record is rejected, and how headers and     *)
(* payloads are laid out.                                                  *)
(*   source: src/backends/device/vspw_device_protocol.c,                   *)
(*   vspw_device_protocol.h                                                *)
(*                                                                         *)
(* Types, flags, statuses and link states are names where a record is      *)
(* judged and numbers where it is on the wire.  A 64-bit value is the pair *)
(* of its 32-bit halves.                                                   *)
(***************************************************************************)
EXTENDS Integers, Sequences, SequencesExt

VSPD_MAGIC == 1448300612            \* 0x56535044
VSPD_VERSION_MAJOR == 1
VSPD_VERSION_MINOR == 3
VSPD_HEADER_SIZE == 40
VSPD_MAX_FRAME_PAYLOAD == 32 * 1024
VSPD_MAX_LOGICAL_PACKET == 1024 * 1024

VSPD_HELLO_PAYLOAD_SIZE == 4
VSPD_LINK_STATE_PAYLOAD_SIZE == 4
VSPD_CAPABILITIES_PAYLOAD_SIZE == 24
VSPD_TIME_CODE_PAYLOAD_SIZE == 2
VSPD_STATISTICS_PAYLOAD_SIZE == 72
VSPD_SERVER_INFO_PAYLOAD_SIZE == 20
VSPD_PORT_INFO_PAYLOAD_SIZE == 16
VSPD_PORT_SNAPSHOT_PAYLOAD_SIZE ==
    VSPD_PORT_INFO_PAYLOAD_SIZE + VSPD_STATISTICS_PAYLOAD_SIZE

\* The names in the order of their wire values: types from 1, flags from bit 0,
\* statuses from 0 downwards, link states from 0.
VSPD_MSG ==
    <<"HELLO", "ATTACH", "DETACH", "START", "STOP", "RESET", "GET_LINK_STATE",
      "GET_CAPABILITIES", "DATA_TX", "DATA_RX", "TIME_CODE_TX", "TIME_CODE_RX",
      "GET_STATISTICS", "CLEAR_STATISTICS", "LINK_STATE_EVENT",
      "GET_SERVER_INFO", "GET_PORT_INFO", "GET_PORT_STATISTICS",
      "CLEAR_PORT_STATISTICS", "SUBSCRIBE_PORT", "UNSUBSCRIBE_PORT",
      "PORT_SNAPSHOT_EVENT">>
VSPD_FLAG == <<"RESPONSE", "FRAGMENT_START", "FRAGMENT_END", "EOP", "EEP">>
VSPD_STATUS ==
    <<"OK", "INVALID_ARGUMENT", "INVALID_STATE", "TIMEOUT", "UNSUPPORTED",
      "RESOURCE_EXHAUSTED", "LINK_UNAVAILABLE", "BUFFER_TOO_SMALL",
      "INVALID_PACKET", "BACKEND">>
VSPD_LINK ==
    <<"ERROR_RESET", "ERROR_WAIT", "READY", "STARTED", "CONNECTING", "RUN">>
UNKNOWN == "UNKNOWN"                \* any value without a name

\* What send_request, queue_response and the flush functions have in common:
\* a zeroed header with the protocol's own fields filled in.
HeaderOf(type) ==
    [type |-> type, flags |-> {}, payload_size |-> 0, request_id |-> 0,
     port_id |-> 0, message_id |-> 0, fragment_offset |-> 0, total_size |-> 0,
     status |-> "OK"]

-----------------------------------------------------------------------------
(* Legal headers *)

vspd_type_valid(type) == type \in ToSet(VSPD_MSG)

vspd_type_is_event(type) ==
    type \in {"DATA_RX", "TIME_CODE_RX", "LINK_STATE_EVENT", "PORT_SNAPSHOT_EVENT"}

vspd_type_allows_response(type) == ~vspd_type_is_event(type)

vspd_status_valid(status) == status \in ToSet(VSPD_STATUS)

vspd_has_data_flags(flags) ==
    flags \cap {"FRAGMENT_START", "FRAGMENT_END", "EOP", "EEP"} # {}

vspd_success_response_payload_size(type) ==
    CASE type = "HELLO"            -> VSPD_HELLO_PAYLOAD_SIZE
      [] type = "GET_LINK_STATE"   -> VSPD_LINK_STATE_PAYLOAD_SIZE
      [] type = "GET_CAPABILITIES" -> VSPD_CAPABILITIES_PAYLOAD_SIZE
      [] type \in {"GET_STATISTICS", "GET_PORT_STATISTICS"}
                                   -> VSPD_STATISTICS_PAYLOAD_SIZE
      [] type = "GET_SERVER_INFO"  -> VSPD_SERVER_INFO_PAYLOAD_SIZE
      [] type = "GET_PORT_INFO"    -> VSPD_PORT_INFO_PAYLOAD_SIZE
      [] OTHER                     -> 0

\* The payload a request or an event that is not DATA must have.
record_payload_size(type) ==
    CASE type = "HELLO"                             -> VSPD_HELLO_PAYLOAD_SIZE
      [] type \in {"TIME_CODE_TX", "TIME_CODE_RX"} -> VSPD_TIME_CODE_PAYLOAD_SIZE
      [] type = "LINK_STATE_EVENT"                  -> VSPD_LINK_STATE_PAYLOAD_SIZE
      [] type = "PORT_SNAPSHOT_EVENT"               -> VSPD_PORT_SNAPSHOT_PAYLOAD_SIZE
      [] OTHER                                      -> 0

\* The part of vspd_validate_common about the fields a sender here sets itself.
common_shape(h) ==
    IF ~vspd_type_valid(h.type) THEN "INVALID_TYPE"
    ELSE IF UNKNOWN \in h.flags THEN "INVALID_FLAGS"
    ELSE IF h.payload_size > VSPD_MAX_FRAME_PAYLOAD THEN "INVALID_SIZE"
    ELSE "OK"

vspd_validate_common(h) ==
    IF h.magic # VSPD_MAGIC THEN "INVALID_MAGIC"
    ELSE IF \/ h.version_major # VSPD_VERSION_MAJOR
            \/ h.version_minor # VSPD_VERSION_MINOR THEN "UNSUPPORTED_VERSION"
    ELSE IF h.header_size # VSPD_HEADER_SIZE \/ h.reserved # 0 THEN "INVALID_HEADER"
    ELSE common_shape(h)

vspd_validate_data_shape(h) ==
    LET start == "FRAGMENT_START" \in h.flags
        end == "FRAGMENT_END" \in h.flags
        fragment_end == h.fragment_offset + h.payload_size
    IN  /\ h.message_id # 0
        /\ h.total_size <= VSPD_MAX_LOGICAL_PACKET
        /\ fragment_end <= h.total_size
        /\ IF h.total_size = 0
           THEN h.payload_size = 0 /\ h.fragment_offset = 0 /\ start /\ end
           ELSE /\ h.payload_size # 0
                /\ (h.fragment_offset = 0) = start
                /\ (fragment_end = h.total_size) = end
        /\ IF end THEN ("EOP" \in h.flags) # ("EEP" \in h.flags)
           ELSE h.flags \cap {"EOP", "EEP"} = {}

undivided(h) ==
    /\ ~vspd_has_data_flags(h.flags)
    /\ h.message_id = 0 /\ h.fragment_offset = 0 /\ h.total_size = 0

\* vspd_validate_payload_shape as far as it reads only the header.
header_shape(h) ==
    IF "RESPONSE" \in h.flags
    THEN /\ vspd_type_allows_response(h.type) /\ h.request_id # 0
         /\ undivided(h) /\ vspd_status_valid(h.status)
         /\ h.payload_size = IF h.status = "OK"
                             THEN vspd_success_response_payload_size(h.type) ELSE 0
    ELSE /\ h.status = "OK"
         /\ vspd_type_is_event(h.type) <=> h.request_id = 0
         /\ IF h.type \in {"DATA_TX", "DATA_RX"} THEN vspd_validate_data_shape(h)
            ELSE undivided(h) /\ h.payload_size = record_payload_size(h.type)

-----------------------------------------------------------------------------
(* The wire: octets, most significant first *)

vspd_write_be16(v) == <<(v \div 256) % 256, v % 256>>
vspd_write_be32(v) == vspd_write_be16(v \div 65536) \o vspd_write_be16(v % 65536)
vspd_write_be64(v) == vspd_write_be32(v[1]) \o vspd_write_be32(v[2])

vspd_read_be16(w, at) == w[at + 1] * 256 + w[at + 2]
vspd_read_be32(w, at) == vspd_read_be16(w, at) * 65536 + vspd_read_be16(w, at + 2)
vspd_read_be64(w, at) == <<vspd_read_be32(w, at), vspd_read_be32(w, at + 4)>>

\* (int32_t) of the 32 bits at an offset: the sign is the top bit.
read_s32(w, at) ==
    LET high == vspd_read_be16(w, at)
    IN  (IF high >= 32768 THEN high - 65536 ELSE high) * 65536
          + vspd_read_be16(w, at + 2)

index_of(names, name) ==
    IF \E i \in DOMAIN names : names[i] = name
    THEN CHOOSE i \in DOMAIN names : names[i] = name ELSE 0
name_at(names, i) == IF i \in DOMAIN names THEN names[i] ELSE UNKNOWN

flags_of(byte) ==
    {VSPD_FLAG[i] : i \in {j \in DOMAIN VSPD_FLAG : (byte \div 2 ^ (j - 1)) % 2 = 1}}
        \cup (IF byte >= 32 THEN {UNKNOWN} ELSE {})
byte_of(flags) == CHOOSE b \in 0 .. 63 : flags_of(b) = flags

status_value(status) == IF status = UNKNOWN THEN -10 ELSE 1 - index_of(VSPD_STATUS, status)
status_name(value) == name_at(VSPD_STATUS, 1 - value)

\* vspd_encode_header for a header that passes vspd_validate_common.
vspd_encode_header(h) ==
    vspd_write_be32(h.magic)
    \o <<h.version_major, h.version_minor, index_of(VSPD_MSG, h.type), byte_of(h.flags)>>
    \o vspd_write_be16(h.header_size) \o vspd_write_be16(h.reserved)
    \o vspd_write_be32(h.payload_size) \o vspd_write_be32(h.request_id)
    \o vspd_write_be32(h.port_id) \o vspd_write_be32(h.message_id)
    \o vspd_write_be32(h.fragment_offset) \o vspd_write_be32(h.total_size)
    \o vspd_write_be32(status_value(h.status))

\* The header the octets say, before anything about it is checked.
read_header(w) ==
    [magic |-> vspd_read_be32(w, 0), version_major |-> w[5], version_minor |-> w[6],
     type |-> name_at(VSPD_MSG, w[7]), flags |-> flags_of(w[8]),
     header_size |-> vspd_read_be16(w, 8), reserved |-> vspd_read_be16(w, 10),
     payload_size |-> vspd_read_be32(w, 12), request_id |-> vspd_read_be32(w, 16),
     port_id |-> vspd_read_be32(w, 20), message_id |-> vspd_read_be32(w, 24),
     fragment_offset |-> vspd_read_be32(w, 28), total_size |-> vspd_read_be32(w, 32),
     status |-> status_name(read_s32(w, 36))]

vspd_decode_header(w) ==
    IF Len(w) < VSPD_HEADER_SIZE THEN "TRUNCATED"
    ELSE vspd_validate_common(read_header(w))

link_state_known(value) == value + 1 \in DOMAIN VSPD_LINK
port_info_known(w, at) ==
    vspd_read_be32(w, at) < 32 /\ link_state_known(vspd_read_be32(w, at + 4))

\* vspd_validate_payload_shape where it reads the payload behind the header.
payload_shape(h, w) ==
    LET at == VSPD_HEADER_SIZE
        answered == "RESPONSE" \in h.flags /\ h.status = "OK"
    IN  IF h.payload_size = 0 THEN "OK"
        ELSE CASE h.type = "HELLO" /\ h.payload_size = 4 ->
                    IF SubSeq(w, at + 1, at + 4) = <<VSPD_VERSION_MAJOR, VSPD_VERSION_MINOR, 0, 0>>
                    THEN "OK" ELSE "UNSUPPORTED_VERSION"
               [] h.type \in {"TIME_CODE_TX", "TIME_CODE_RX"} ->
                    IF w[at + 1] <= 63 /\ w[at + 2] <= 3 THEN "OK" ELSE "INVALID_SHAPE"
               [] (h.type = "GET_LINK_STATE" /\ answered) \/ h.type = "LINK_STATE_EVENT" ->
                    IF link_state_known(vspd_read_be32(w, at)) THEN "OK" ELSE "INVALID_SHAPE"
               [] (h.type = "GET_PORT_INFO" /\ answered) \/ h.type = "PORT_SNAPSHOT_EVENT" ->
                    IF port_info_known(w, at) THEN "OK" ELSE "INVALID_SHAPE"
               [] OTHER -> "OK"

vspd_validate_payload_shape(h, w) ==
    IF ~header_shape(h) THEN "INVALID_SHAPE" ELSE payload_shape(h, w)

vspd_validate_frame(w) ==
    IF vspd_decode_header(w) # "OK" THEN vspd_decode_header(w)
    ELSE LET h == read_header(w) IN
         IF Len(w) < VSPD_HEADER_SIZE + h.payload_size THEN "TRUNCATED"
         ELSE IF Len(w) > VSPD_HEADER_SIZE + h.payload_size THEN "INVALID_SIZE"
         ELSE vspd_validate_payload_shape(h, w)

-----------------------------------------------------------------------------
(* Payloads: records laid out field by field *)

u32s(values) == FlattenSeq([i \in DOMAIN values |-> vspd_write_be32(values[i])])
u64s(values) == FlattenSeq([i \in DOMAIN values |-> vspd_write_be64(values[i])])

vspd_encode_server_info(v) ==
    u32s(<<v.port_count, v.client_capacity, v.packet_queue_depth,
           v.time_code_queue_depth, v.max_logical_packet>>)
vspd_decode_server_info(w, at) ==
    [port_count |-> vspd_read_be32(w, at), client_capacity |-> vspd_read_be32(w, at + 4),
     packet_queue_depth |-> vspd_read_be32(w, at + 8),
     time_code_queue_depth |-> vspd_read_be32(w, at + 12),
     max_logical_packet |-> vspd_read_be32(w, at + 16)]

vspd_encode_port_info(v) ==
    u32s(<<v.flags, v.link_state, v.packet_queue_count, v.time_code_queue_count>>)
vspd_decode_port_info(w, at) ==
    [flags |-> vspd_read_be32(w, at), link_state |-> vspd_read_be32(w, at + 4),
     packet_queue_count |-> vspd_read_be32(w, at + 8),
     time_code_queue_count |-> vspd_read_be32(w, at + 12)]

vspd_encode_capabilities(v) ==
    vspd_write_be64(v.bits)
    \o u32s(<<v.max_packet_size, v.tx_queue_depth, v.rx_queue_depth, v.buffer_alignment>>)
vspd_decode_capabilities(w, at) ==
    [bits |-> vspd_read_be64(w, at), max_packet_size |-> vspd_read_be32(w, at + 8),
     tx_queue_depth |-> vspd_read_be32(w, at + 12),
     rx_queue_depth |-> vspd_read_be32(w, at + 16),
     buffer_alignment |-> vspd_read_be32(w, at + 20)]

Counter == <<"tx_packets", "rx_packets", "tx_bytes", "rx_bytes", "tx_time_codes",
             "rx_time_codes", "eep_packets", "link_errors", "dropped_packets">>
vspd_encode_statistics(v) == u64s([i \in DOMAIN Counter |-> v[Counter[i]]])
vspd_decode_statistics(w, at) ==
    [c \in ToSet(Counter) |-> vspd_read_be64(w, at + 8 * (index_of(Counter, c) - 1))]

vspd_encode_port_snapshot(v) ==
    vspd_encode_port_info(v.info) \o vspd_encode_statistics(v.statistics)
vspd_decode_port_snapshot(w, at) ==
    [info |-> vspd_decode_port_info(w, at),
     statistics |-> vspd_decode_statistics(w, at + VSPD_PORT_INFO_PAYLOAD_SIZE)]
=============================================================================
