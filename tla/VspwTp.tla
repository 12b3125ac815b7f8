------------------------------- MODULE VspwTp -------------------------------
(***************************************************************************)
(* The VSPW-TP header: what makes one legal, how it is laid out on the     *)
(* wire, and in which order decoding rejects a datagram.                   *)
(*   source: src/backends/ethernet/vspw_tp.c, vspw_tp.h                    *)
(*                                                                         *)
(* Flags are sets of names where a header is judged and bytes where it is  *)
(* on the wire.  A 64-bit value is the pair of its 32-bit halves.          *)
(***************************************************************************)
EXTENDS Integers, Sequences

MAGIC == 1448300631                 \* 0x56535057
VERSION_MAJOR == 1
VERSION_MINOR == 0
HEADER_SIZE == 40
MAX_FRAGMENT_PAYLOAD == 65507 - HEADER_SIZE
SPW_VSPW_TP_MAX_PACKET_SIZE == 16 * 1024 * 1024
TIME_CODE_PAYLOAD_SIZE == 2
ACK_PAYLOAD_SIZE == 8

\* The message types and flags in the order of their wire values.
MessageType == <<"DATA", "TIME_CODE", "LINK_CONTROL", "KEEPALIVE", "ACK">>
Flag == <<"EOP", "EEP", "FRAGMENT_START", "FRAGMENT_END", "ACK_REQUIRED">>
UNKNOWN_FLAG == "UNKNOWN_FLAG"      \* any of the three bits v1 leaves unused

NO_SESSION == <<0, 0>>

HEADER_INITIALIZER ==
    [version_major |-> VERSION_MAJOR, version_minor |-> VERSION_MINOR,
     type |-> "DATA", flags |-> {}, header_size |-> HEADER_SIZE,
     payload_size |-> 0, link_id |-> 0, session_id |-> NO_SESSION,
     sequence |-> 0, message_id |-> 0, fragment_offset |-> 0, total_size |-> 0]

-----------------------------------------------------------------------------
(* Legal headers *)

spw_vspw_tp_is_known_type(type) == \E i \in DOMAIN MessageType : MessageType[i] = type

validate_flags(h) ==
    /\ UNKNOWN_FLAG \notin h.flags
    /\ ~({"EOP", "EEP"} \subseteq h.flags)
    /\ h.type # "DATA" => h.flags \cap {"EOP", "EEP"} = {}
    /\ "ACK_REQUIRED" \in h.flags => h.type \in {"DATA", "TIME_CODE"}

validate_fragment(h) ==
    LET start == "FRAGMENT_START" \in h.flags
        end == "FRAGMENT_END" \in h.flags
        whole == h.fragment_offset = 0 /\ ~start /\ ~end
    IN  /\ h.total_size <= SPW_VSPW_TP_MAX_PACKET_SIZE
        /\ h.payload_size <= MAX_FRAGMENT_PAYLOAD
        /\ h.fragment_offset + h.payload_size <= h.total_size
        /\ IF h.type # "DATA" \/ h.total_size = h.payload_size
           THEN h.total_size = h.payload_size /\ whole
           ELSE /\ start \/ end \/ h.payload_size # 0
                /\ start => h.fragment_offset = 0
                /\ end => h.fragment_offset + h.payload_size = h.total_size

validate_message_shape(h) ==
    LET sized(n) == h.payload_size = n /\ h.total_size = n
    IN  CASE h.type = "TIME_CODE" -> sized(TIME_CODE_PAYLOAD_SIZE)
          [] h.type = "KEEPALIVE" -> sized(0) /\ h.message_id = 0
          [] h.type = "ACK"       -> sized(ACK_PAYLOAD_SIZE) /\ h.message_id # 0
          [] OTHER                -> h.type \in {"DATA", "LINK_CONTROL"}

supported_version(h) ==
    h.version_major = VERSION_MAJOR /\ h.version_minor <= VERSION_MINOR

spw_vspw_tp_validate(h) ==
    /\ supported_version(h)
    /\ spw_vspw_tp_is_known_type(h.type)
    /\ h.header_size = HEADER_SIZE
    /\ h.session_id # NO_SESSION
    /\ validate_flags(h)
    /\ validate_fragment(h)
    /\ validate_message_shape(h)

-----------------------------------------------------------------------------
(* The wire: 40 octets, most significant first *)

write_u16(v) == <<(v \div 256) % 256, v % 256>>
write_u32(v) == write_u16(v \div 65536) \o write_u16(v % 65536)
write_u64(v) == write_u32(v[1]) \o write_u32(v[2])

read_u16(w, at) == w[at + 1] * 256 + w[at + 2]
read_u32(w, at) == read_u16(w, at) * 65536 + read_u16(w, at + 2)
read_u64(w, at) == <<read_u32(w, at), read_u32(w, at + 4)>>

\* The enumerators: types count from 1, flag i is bit i - 1, and one of the
\* bits above them stands for all unknown flags.
type_value(type) ==
    IF spw_vspw_tp_is_known_type(type)
    THEN CHOOSE i \in DOMAIN MessageType : MessageType[i] = type ELSE 0
bit_value(flag) ==
    CASE flag = UNKNOWN_FLAG -> 32
      [] OTHER -> 2 ^ ((CHOOSE i \in DOMAIN Flag : Flag[i] = flag) - 1)
has_flag(byte, flag) == (byte \div bit_value(flag)) % 2 = 1
AllFlags == {Flag[i] : i \in DOMAIN Flag} \cup {UNKNOWN_FLAG}
flags_of(byte) == {f \in AllFlags : has_flag(byte, f)}
byte_of(flags) == CHOOSE b \in 0 .. 63 : flags_of(b) = flags

\* Mutant: the session is written with its halves swapped.
encode_swapped_session(h) ==
    write_u32(MAGIC)
    \o <<h.version_major, h.version_minor, type_value(h.type), byte_of(h.flags)>>
    \o write_u16(h.header_size) \o write_u16(h.payload_size)
    \o write_u32(h.link_id)
    \o write_u64(<<h.session_id[2], h.session_id[1]>>)
    \o write_u32(h.sequence) \o write_u32(h.message_id)
    \o write_u32(h.fragment_offset) \o write_u32(h.total_size)

\* spw_vspw_tp_encode_header for a header that passed validation.
encode_header(h) ==
    write_u32(MAGIC)
    \o <<h.version_major, h.version_minor, type_value(h.type), byte_of(h.flags)>>
    \o write_u16(h.header_size) \o write_u16(h.payload_size)
    \o write_u32(h.link_id) \o write_u64(h.session_id)
    \o write_u32(h.sequence) \o write_u32(h.message_id)
    \o write_u32(h.fragment_offset) \o write_u32(h.total_size)

\* The header the octets say, before anything about it is checked.
read_header(w) ==
    [version_major |-> w[5], version_minor |-> w[6],
     type |-> IF w[7] \in DOMAIN MessageType THEN MessageType[w[7]] ELSE "UNKNOWN",
     flags |-> flags_of(w[8]), header_size |-> read_u16(w, 8),
     payload_size |-> read_u16(w, 10), link_id |-> read_u32(w, 12),
     session_id |-> read_u64(w, 16), sequence |-> read_u32(w, 24),
     message_id |-> read_u32(w, 28), fragment_offset |-> read_u32(w, 32),
     total_size |-> read_u32(w, 36)]

\* Mutant: the shape of the message is not looked at.
decode_shapeless(w, source_size) ==
    IF source_size < HEADER_SIZE THEN "BUFFER_TOO_SMALL"
    ELSE IF read_u32(w, 0) # MAGIC THEN "BAD_MAGIC"
    ELSE LET h == read_header(w) IN
      IF ~supported_version(h) THEN "UNSUPPORTED_VERSION"
      ELSE IF ~spw_vspw_tp_is_known_type(h.type) THEN "UNSUPPORTED_TYPE"
      ELSE IF h.header_size # HEADER_SIZE THEN "INVALID_HEADER_SIZE"
      ELSE IF \/ h.payload_size > MAX_FRAGMENT_PAYLOAD
              \/ source_size < HEADER_SIZE + h.payload_size
           THEN "INVALID_PAYLOAD_SIZE"
      ELSE IF h.session_id = NO_SESSION THEN "INVALID_SESSION"
      ELSE IF ~validate_flags(h) THEN "INVALID_FLAGS"
      ELSE IF ~validate_fragment(h) THEN "INVALID_FRAGMENT"
      ELSE "OK"

\* The verdict on a datagram of source_size octets that begins with w.
spw_vspw_tp_decode_header(w, source_size) ==
    IF source_size < HEADER_SIZE THEN "BUFFER_TOO_SMALL"
    ELSE IF read_u32(w, 0) # MAGIC THEN "BAD_MAGIC"
    ELSE LET h == read_header(w) IN
      IF ~supported_version(h) THEN "UNSUPPORTED_VERSION"
      ELSE IF ~spw_vspw_tp_is_known_type(h.type) THEN "UNSUPPORTED_TYPE"
      ELSE IF h.header_size # HEADER_SIZE THEN "INVALID_HEADER_SIZE"
      ELSE IF \/ h.payload_size > MAX_FRAGMENT_PAYLOAD
              \/ source_size < HEADER_SIZE + h.payload_size
           THEN "INVALID_PAYLOAD_SIZE"
      ELSE IF h.session_id = NO_SESSION THEN "INVALID_SESSION"
      ELSE IF ~validate_flags(h) THEN "INVALID_FLAGS"
      ELSE IF ~validate_fragment(h) \/ ~validate_message_shape(h)
           THEN "INVALID_FRAGMENT"
      ELSE "OK"

\* The acknowledged session in the payload of an ACK; no session is no ACK.
spw_vspw_tp_encode_ack_payload(session) == write_u64(session)
spw_vspw_tp_decode_ack_payload(payload) ==
    IF Len(payload) = ACK_PAYLOAD_SIZE THEN read_u64(payload, 0) ELSE NO_SESSION
=============================================================================
