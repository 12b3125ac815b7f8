------------------------- MODULE FragmentReassembly -------------------------
(***************************************************************************)
(* The reassembler alone: any fragment at any time, and a reset at any     *)
(* time, as its callers in udp_backend.c may produce them.                 *)
(***************************************************************************)
EXTENDS FragmentReassembler

CONSTANT Fragment       \* the fragments that may arrive

\* The fields of a decoded header are unsigned.
ASSUME FragmentAssumption ==
    \A h \in Fragment :
        h.total_size \in Nat /\ h.fragment_offset \in Nat /\ h.payload_size \in Nat

VARIABLES reassembler, result

rvars == <<reassembler, result>>

RInit == reassembler = spw_fragment_reassembler_init /\ result = "none"

Push(h) ==
    LET pushed == spw_fragment_reassembler_push(reassembler, h)
    IN  reassembler' = pushed.r /\ result' = pushed.result

Reset ==
    /\ reassembler' = spw_fragment_reassembler_reset(reassembler)
    /\ result' = "none"

RNext == Reset \/ \E h \in Fragment : Push(h)

RSpec == RInit /\ [][RNext]_rvars

Covered == {p \in Position : covered(reassembler, p)}

\* The count of received bytes kept by spw_fragment_reassembler_push is the
\* number of bits set, on the word path and on the byte path, and no bit lies
\* beyond the message: an idle reassembler has a clean map although reset
\* clears only the words of total_size.
CoverageMatchesCount ==
    /\ reassembler.covered_bytes = Cardinality(Covered)
    /\ \A p \in Covered : p < reassembler.total_size

\* What the abstraction is given: the same fragments (a definition, which TLC
\* evaluates only once).
Arriving == Fragment

Assembly == INSTANCE PacketAssembly WITH
    Fragment <- Arriving, Room <- capacity,
    message <- IF reassembler.active
               THEN <<reassembler.message_id, reassembler.total_size,
                      reassembler.terminator_flags, reassembler.ack_required>>
               ELSE <<>>,
    bytes <- [p \in Covered |-> reassembler.data[p]],
    ends <- (IF reassembler.seen_start THEN {"FRAGMENT_START"} ELSE {})
            \cup (IF reassembler.seen_end THEN {"FRAGMENT_END"} ELSE {}),
    outcome <- result

\* The word-wise bitmap, its fast path and its partial clearing implement
\* plain assembly of a set of bytes: whatever arrives, in whatever order,
\* spw_fragment_reassembler_push answers and keeps what PacketAssembly does.
ImplementsAssembly == Assembly!ASpec
=============================================================================
