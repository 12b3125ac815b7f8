------------------------------ MODULE MCVspwTp ------------------------------
(***************************************************************************)
(* A sender lays a header out on the wire and a receiver decodes a         *)
(* datagram of some length that begins with it.  The fields take the       *)
(* values at which a check or an octet boundary changes its answer.        *)
(***************************************************************************)
EXTENDS VspwTp

CONSTANTS
    Size,           \* values of fragment_offset and total_size
    PayloadSize,    \* values of the 16-bit payload_size
    Session,        \* session identifiers
    Id,             \* message identifiers
    Version         \* values of version_minor

VARIABLES header, wire, source_size, decoded

vars == <<header, wire, source_size, decoded>>

FlagSets == {{}, {"EOP"}, {"EEP"}, {"EOP", "EEP"}, {UNKNOWN_FLAG},
             {"ACK_REQUIRED"}, {"EOP", "ACK_REQUIRED"},
             {"EOP", "FRAGMENT_START"}, {"EEP", "FRAGMENT_END"},
             {"FRAGMENT_START", "FRAGMENT_END"}}

Header ==
    {[HEADER_INITIALIZER EXCEPT !.type = t, !.flags = f, !.session_id = s,
         !.message_id = i, !.payload_size = p, !.fragment_offset = o,
         !.total_size = n, !.version_minor = v] :
        t \in {"DATA", "TIME_CODE", "LINK_CONTROL", "KEEPALIVE", "ACK", "UNKNOWN"},
        f \in FlagSets, s \in Session, i \in Id, p \in PayloadSize, o \in Size,
        n \in Size, v \in Version}

Init ==
    /\ header \in Header
    /\ wire = <<>> /\ source_size = 0 /\ decoded = "none"

Encode ==
    /\ wire = <<>>
    /\ wire' = encode_header(header)
    /\ source_size' \in {HEADER_SIZE - 1, HEADER_SIZE,
                         HEADER_SIZE + header.payload_size}
    /\ UNCHANGED <<header, decoded>>

Decode ==
    /\ wire # <<>> /\ decoded = "none"
    /\ decoded' = spw_vspw_tp_decode_header(wire, source_size)
    /\ UNCHANGED <<header, wire, source_size>>

Spec == Init /\ [][Encode \/ Decode]_vars

\* What is written is what is read: every field of a header comes back from
\* the 40 octets spw_vspw_tp_encode_header writes.
RoundTrip ==
    wire # <<>> /\ spw_vspw_tp_validate(header) => read_header(wire) = header

\* spw_vspw_tp_decode_header and spw_vspw_tp_validate are two separately
\* written lists of checks; on a complete datagram they accept the same headers.
DecodeAgreesWithValidate ==
    decoded # "none" /\ source_size = HEADER_SIZE + header.payload_size =>
        (decoded = "OK" <=> spw_vspw_tp_validate(header))
=============================================================================
