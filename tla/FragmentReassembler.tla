------------------------ MODULE FragmentReassembler ------------------------
(***************************************************************************)
(* Reassembly of one fragmented DATA message: the bitmap of received bytes *)
(* kept in words, the fast path for a fragment that overlaps nothing, the  *)
(* byte-wise path for one that does, and a reset that clears only the      *)
(* words the message can have touched.                                     *)
(*   source: src/backends/ethernet/fragment_reassembler.c                  *)
(*                                                                         *)
(* The operators take a reassembler to the next one.  A fragment is a      *)
(* VSPW-TP header with one more field: content, the bytes of the whole     *)
(* logical packet by position, of which the fragment carries the stretch   *)
(* fragment_offset .. fragment_offset + payload_size - 1.                  *)
(***************************************************************************)
EXTENDS Integers, FiniteSets

CONSTANTS
    WORD,           \* bits of a coverage word (64)
    capacity        \* bytes of the reassembly buffer

ASSUME ReassemblerAssumption ==
    WORD \in Nat \ {0} /\ capacity \in Nat \ {0}

COVERAGE_WORDS(bytes) == (bytes + WORD - 1) \div WORD
coverage_words == COVERAGE_WORDS(capacity)

Position == 0 .. capacity - 1
Word == 0 .. coverage_words - 1

\* data holds 0 where nothing was written yet.
spw_fragment_reassembler_init ==
    [active |-> FALSE, message_id |-> 0, total_size |-> 0,
     terminator_flags |-> {}, ack_required |-> FALSE,
     seen_start |-> FALSE, seen_end |-> FALSE, covered_bytes |-> 0,
     coverage |-> [w \in Word |-> {}], data |-> [p \in Position |-> 0]]

-----------------------------------------------------------------------------
(* The coverage map: word w holds the bits of the bytes received *)

covered(r, position) == position % WORD \in r.coverage[position \div WORD]

coverage_mask(bit, count) == {b + bit : b \in 0 .. count - 1} \cap (0 .. WORD - 1)

\* The positions at which the word loop over offset .. end - 1 stops: the
\* first one and then the start of every further word.
word_steps(offset, end) ==
    {p \in offset .. end - 1 : p = offset \/ p % WORD = 0}

\* The bits the loop looks at, or sets, when it stops at a position.
step_mask(position, end) ==
    LET bit == position % WORD
        remaining == end - position
    IN  coverage_mask(bit, IF remaining < WORD - bit THEN remaining ELSE WORD - bit)

coverage_range_is_clear(r, offset, length) ==
    \A p \in word_steps(offset, offset + length) :
        r.coverage[p \div WORD] \cap step_mask(p, offset + length) = {}

mark_coverage_range(r, offset, length) ==
    [r EXCEPT !.coverage =
        [w \in Word |-> @[w] \cup
            UNION {step_mask(p, offset + length) :
                   p \in {q \in word_steps(offset, offset + length) :
                          q \div WORD = w}}]]

-----------------------------------------------------------------------------
(* Reset *)

\* Only the words of the active message are cleared; the data stay behind.
spw_fragment_reassembler_reset(r) ==
    LET words_to_clear == IF r.active /\ r.total_size <= capacity
                          THEN COVERAGE_WORDS(r.total_size)
                          ELSE coverage_words
    IN  [spw_fragment_reassembler_init EXCEPT
            !.coverage = [w \in Word |-> IF w < words_to_clear THEN {} ELSE r.coverage[w]],
            !.data = r.data]

-----------------------------------------------------------------------------
(* Push *)

invalid(h) ==
    \/ h.type # "DATA"
    \/ h.total_size = h.payload_size \/ h.total_size = 0
    \/ h.total_size > capacity
    \/ h.message_id = 0
    \/ h.fragment_offset + h.payload_size > h.total_size

terminator_flags(h) == h.flags \cap {"EOP", "EEP"}
ack_required(h) == "ACK_REQUIRED" \in h.flags

\* The reassembler taken over by the message of h if it is idle.
adopted(r, h) ==
    IF r.active THEN r
    ELSE [r EXCEPT !.active = TRUE, !.message_id = h.message_id,
                   !.total_size = h.total_size,
                   !.terminator_flags = terminator_flags(h),
                   !.ack_required = ack_required(h)]

same_message(r, h) ==
    /\ h.message_id = r.message_id /\ h.total_size = r.total_size
    /\ terminator_flags(h) = r.terminator_flags
    /\ ack_required(h) = r.ack_required

Carried(h) == h.fragment_offset .. h.fragment_offset + h.payload_size - 1

\* memcpy of the whole fragment, marked and counted as a range.
store_range(r, h) ==
    [mark_coverage_range(r, h.fragment_offset, h.payload_size) EXCEPT
        !.data = [p \in Position |-> IF p \in Carried(h) THEN h.content[p] ELSE @[p]],
        !.covered_bytes = @ + h.payload_size]

\* The byte loop: write, mark and count what is not covered yet.
store_bytes(r, h) ==
    LET missing == {p \in Carried(h) : ~covered(r, p)}
    IN  [r EXCEPT
            !.data = [p \in Position |-> IF p \in missing THEN h.content[p] ELSE @[p]],
            !.coverage = [w \in Word |->
                @[w] \cup {p % WORD : p \in {q \in missing : q \div WORD = w}}],
            !.covered_bytes = @ + Cardinality(missing)]

\* Mutant: only the first byte of a fragment is compared.
contradicts_first(r, h) ==
    LET p == h.fragment_offset
    IN  h.payload_size > 0 /\ covered(r, p) /\ r.data[p] # h.content[p]

contradicts(r, h) == \E p \in Carried(h) : covered(r, p) /\ r.data[p] # h.content[p]

fast(r, h) == /\ h.payload_size # 0
              /\ coverage_range_is_clear(r, h.fragment_offset, h.payload_size)

\* The result with which a push that stored `added` more bytes ends.
verdict(r, added) ==
    IF r.covered_bytes = r.total_size /\ r.seen_start /\ r.seen_end THEN "COMPLETE"
    ELSE IF added = 0 THEN "DUPLICATE" ELSE "ACCEPTED"

spw_fragment_reassembler_push(r, h) ==
    LET a == adopted(r, h)
        stored == IF fast(a, h) THEN store_range(a, h) ELSE store_bytes(a, h)
        seen == [stored EXCEPT !.seen_start = @ \/ "FRAGMENT_START" \in h.flags,
                               !.seen_end = @ \/ "FRAGMENT_END" \in h.flags]
    IN  IF invalid(h) THEN [r |-> r, result |-> "INVALID"]
        ELSE IF ~same_message(a, h) \/ (~fast(a, h) /\ contradicts(a, h))
             THEN [r |-> a, result |-> "CONFLICT"]
        ELSE [r |-> seen, result |-> verdict(seen, seen.covered_bytes - a.covered_bytes)]
=============================================================================
