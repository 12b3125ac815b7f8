--------------------- MODULE FragmentReassemblerProofs ---------------------
(***************************************************************************)
(* The reassembler is plain assembly of a set of bytes, for every word     *)
(* width, every buffer size and every set of fragments whose three size    *)
(* fields are natural numbers.                                             *)
(*                                                                         *)
(* The argument: the word loops of the coverage map look at, and set,      *)
(* exactly the bits of a range of bytes; no bit lies beyond the message in *)
(* progress, so clearing its words clears the map; and the count is the    *)
(* number of bits.                                                         *)
(***************************************************************************)
EXTENDS FragmentReassembly, FiniteSetTheorems, TLAPS

MessageId == {0} \cup {h.message_id : h \in Fragment}
Value == {0} \cup {h.content[p] : h \in Fragment, p \in Position}

Reassembler ==
    [active : BOOLEAN, message_id : MessageId,
     total_size : 0 .. capacity, terminator_flags : SUBSET {"EOP", "EEP"},
     ack_required : BOOLEAN, seen_start : BOOLEAN, seen_end : BOOLEAN,
     covered_bytes : Nat, coverage : [Word -> SUBSET (0 .. WORD - 1)],
     data : [Position -> Value]]

\* The byte whose bit is bit b of word w.
ByteOf(w, b) == w * WORD + b

CoveredBy(r) == {p \in Position : covered(r, p)}

\* No bit lies beyond the message in progress: an idle map is clean.
Tidy(r) == \A w \in Word : \A b \in r.coverage[w] : ByteOf(w, b) < r.total_size

\* What spw_fragment_reassembler_push and _reset preserve.
Sound(r) ==
    /\ r \in Reassembler
    /\ Tidy(r)
    /\ r.covered_bytes = Cardinality(CoveredBy(r))
    /\ IF r.active THEN r.total_size > 0
       ELSE r.total_size = 0 /\ ~r.seen_start /\ ~r.seen_end

IInv == Sound(reassembler)

-----------------------------------------------------------------------------
(* Bytes, words and bits *)

\* A byte is one bit of one word.
LEMMA Split ==
  ASSUME NEW p \in Nat
  PROVE  /\ p \div WORD \in Nat
         /\ p % WORD \in 0 .. WORD - 1
         /\ p = ByteOf(p \div WORD, p % WORD)
  BY ReassemblerAssumption DEF ByteOf

\* Words are disjoint stretches of bytes, in order.
LEMMA Ahead ==
  ASSUME NEW v \in Nat, NEW w \in Nat, v < w
  PROVE  v * WORD + WORD <= w * WORD
  <1>1. PICK d \in Nat : w = v + 1 + d
    <2>1. w - v - 1 \in Nat /\ w = v + 1 + (w - v - 1)
      OBVIOUS
    <2> QED
      BY <2>1, Zenon
  <1>2. w * WORD = v * WORD + WORD + d * WORD /\ d * WORD \in Nat
    BY <1>1, ReassemblerAssumption
  <1>3. v * WORD \in Nat /\ WORD \in Nat
    BY ReassemblerAssumption
  <1> QED
    BY <1>2, <1>3

\* A bit of a word is one byte.
LEMMA Join ==
  ASSUME NEW w \in Nat, NEW b \in 0 .. WORD - 1
  PROVE  /\ ByteOf(w, b) \in Nat
         /\ ByteOf(w, b) \div WORD = w
         /\ ByteOf(w, b) % WORD = b
  <1> DEFINE p == ByteOf(w, b)
             v == p \div WORD
             c == p % WORD
  <1>1. WORD \in Nat /\ w * WORD \in Nat /\ b \in Nat /\ b < WORD
    BY ReassemblerAssumption
  <1>2. p \in Nat /\ p = w * WORD + b
    BY <1>1 DEF ByteOf
  <1>3. v \in Nat /\ c \in 0 .. WORD - 1 /\ p = v * WORD + c /\ v * WORD \in Nat
    <2> HIDE DEF p
    <2>1. v \in Nat /\ c \in 0 .. WORD - 1 /\ p = v * WORD + c
      BY <1>2, Split DEF ByteOf
    <2> QED
      BY <2>1, ReassemblerAssumption
  <1> HIDE DEF p, v, c
  <1>4. ~ (v < w)
    <2> SUFFICES ASSUME v < w PROVE FALSE
      OBVIOUS
    <2>1. v * WORD + WORD <= w * WORD
      BY <1>3, Ahead
    <2> QED
      BY <2>1, <1>1, <1>2, <1>3
  <1>5. ~ (w < v)
    <2> SUFFICES ASSUME w < v PROVE FALSE
      OBVIOUS
    <2>1. w * WORD + WORD <= v * WORD
      BY <1>3, Ahead
    <2> QED
      BY <2>1, <1>1, <1>2, <1>3
  <1>6. v = w
    BY <1>3, <1>4, <1>5
  <1>7. c = b
    BY <1>1, <1>2, <1>3, <1>6
  <1> QED
    BY <1>2, <1>6, <1>7 DEF p, v, c

\* A message of t bytes has a word for each of its bytes, and
\* spw_fragment_reassembler_reset clears no fewer.
LEMMA WordsSuffice ==
  ASSUME NEW t \in Nat, NEW w \in Nat, NEW b \in 0 .. WORD - 1, ByteOf(w, b) < t
  PROVE  w < COVERAGE_WORDS(t)
  <1> DEFINE n == t + WORD - 1
             v == n \div WORD
             c == n % WORD
  <1>1. WORD \in Nat /\ w * WORD \in Nat /\ b \in Nat
    BY ReassemblerAssumption
  <1>2. n \in Nat /\ n >= w * WORD + WORD
    BY <1>1, ReassemblerAssumption DEF ByteOf
  <1>3. v \in Nat /\ c \in 0 .. WORD - 1 /\ n = v * WORD + c
    <2> HIDE DEF n
    <2> QED
      BY <1>2, Split DEF ByteOf
  <1> HIDE DEF n, v, c
  <1>4. v * WORD \in Nat /\ w + 1 \in Nat /\ (w + 1) * WORD = w * WORD + WORD
    BY <1>1, <1>3
  <1>5. ~ (v < w + 1)
    <2> SUFFICES ASSUME v < w + 1 PROVE FALSE
      OBVIOUS
    <2>1. v * WORD + WORD <= (w + 1) * WORD
      BY <1>3, <1>4, Ahead
    <2> QED
      BY <2>1, <1>1, <1>2, <1>3, <1>4
  <1>6. COVERAGE_WORDS(t) = v
    BY DEF COVERAGE_WORDS, v, n
  <1> QED
    BY <1>3, <1>5, <1>6

LEMMA WordOfPosition ==
  ASSUME NEW p \in Position
  PROVE  p \in Nat /\ p \div WORD \in Word /\ p \div WORD \in Nat
         /\ p % WORD \in 0 .. WORD - 1
  <1>1. p \in Nat /\ p < capacity /\ capacity \in Nat
    BY ReassemblerAssumption DEF Position
  <1>2. /\ p \div WORD \in Nat /\ p % WORD \in 0 .. WORD - 1
        /\ p = ByteOf(p \div WORD, p % WORD)
    BY <1>1, Split
  <1>3. p \div WORD < coverage_words
    BY <1>1, <1>2, WordsSuffice DEF coverage_words
  <1>4. coverage_words \in Int
    BY ReassemblerAssumption DEF coverage_words, COVERAGE_WORDS
  <1> QED
    BY <1>1, <1>2, <1>3, <1>4 DEF Word

-----------------------------------------------------------------------------
(* The word loop *)

LEMMA StepMask ==
  ASSUME NEW s \in Nat, NEW e \in Nat, s < e, NEW b
  PROVE  b \in step_mask(s, e) <=>
             b \in 0 .. WORD - 1 /\ s % WORD <= b /\ b - (s % WORD) < e - s
  <1> DEFINE c == s % WORD
             n == IF e - s < WORD - c THEN e - s ELSE WORD - c
  <1>1. WORD \in Nat /\ c \in Nat /\ c < WORD
    BY Split, ReassemblerAssumption
  <1>2. step_mask(s, e) = coverage_mask(c, n)
    BY DEF step_mask
  <1> HIDE DEF c
  <1>3. n \in Nat
    BY <1>1
  <1>4. b \in coverage_mask(c, n) <=> b \in 0 .. WORD - 1 /\ c <= b /\ b - c < n
    <2>1. ASSUME b \in coverage_mask(c, n)
          PROVE  b \in 0 .. WORD - 1 /\ c <= b /\ b - c < n
      <3> HIDE DEF n
      <3>1. b \in 0 .. WORD - 1 /\ \E i \in 0 .. n - 1 : b = i + c
        BY <2>1 DEF coverage_mask
      <3> QED
        BY <3>1, <1>1, <1>3
    <2>2. ASSUME b \in 0 .. WORD - 1, c <= b, b - c < n
          PROVE  b \in coverage_mask(c, n)
      <3> HIDE DEF n
      <3>1. b - c \in 0 .. n - 1 /\ b = (b - c) + c
        BY <2>2, <1>1, <1>3
      <3> QED
        BY <2>2, <3>1 DEF coverage_mask
    <2> QED
      BY <2>1, <2>2
  <1>5. ASSUME b \in 0 .. WORD - 1
        PROVE  b - c < n <=> b - c < e - s
    BY <1>1, <1>5
  <1> HIDE DEF n
  <1> QED
    BY <1>2, <1>4, <1>5, Zenon DEF c

\* Every bit the word loop touches is the bit of a byte of the range ...
LEMMA StepBits ==
  ASSUME NEW o \in Nat, NEW e \in Nat, NEW s \in word_steps(o, e),
         NEW b \in step_mask(s, e)
  PROVE  /\ s \in Nat /\ s \div WORD \in Nat /\ b \in 0 .. WORD - 1
         /\ ByteOf(s \div WORD, b) \in o .. e - 1
  <1>1. s \in Nat /\ o <= s /\ s < e
    BY DEF word_steps
  <1> DEFINE v == s \div WORD
             c == s % WORD
  <1>2. v \in Nat /\ c \in 0 .. WORD - 1 /\ s = v * WORD + c
    BY <1>1, Split DEF ByteOf
  <1>3. b \in 0 .. WORD - 1 /\ c <= b /\ b - c < e - s
    BY <1>1, StepMask, Zenon
  <1> HIDE DEF v, c
  <1>4. v * WORD \in Nat /\ WORD \in Nat
    BY <1>2, ReassemblerAssumption
  <1>5. v * WORD + b \in o .. e - 1
    BY <1>1, <1>2, <1>3, <1>4
  <1> QED
    BY <1>1, <1>2, <1>3, <1>5 DEF ByteOf, v

\* ... and the bit of every byte of the range is touched.
LEMMA StepOf ==
  ASSUME NEW o \in Nat, NEW e \in Nat, NEW p \in o .. e - 1
  PROVE  \E s \in word_steps(o, e) : s \div WORD = p \div WORD
                                     /\ p % WORD \in step_mask(s, e)
  <1> DEFINE v == p \div WORD
             c == p % WORD
             u == o \div WORD
             d == o % WORD
             s == v * WORD
  <1>1. WORD \in Nat /\ WORD > 0 /\ p \in Nat /\ o <= p /\ p < e
    BY ReassemblerAssumption
  <1>2. v \in Nat /\ c \in 0 .. WORD - 1 /\ p = v * WORD + c
    BY <1>1, Split DEF ByteOf
  <1>3. u \in Nat /\ d \in 0 .. WORD - 1 /\ o = u * WORD + d
    BY Split DEF ByteOf
  <1>4. s \in Nat /\ u * WORD \in Nat
    BY <1>1, <1>2, <1>3
  <1>5. CASE u = v
    <2>1. o \in word_steps(o, e)
      BY <1>1 DEF word_steps
    <2>2. d <= c /\ c - d < e - o /\ o < e
      <3> HIDE DEF u, v, c, d
      <3> QED
        BY <1>1, <1>2, <1>3, <1>4, <1>5
    <2>3. c \in step_mask(o, e)
      BY <1>2, <2>2, StepMask, Zenon
    <2> QED
      BY <1>5, <2>1, <2>3
  <1>6. CASE u # v
    <2>1. ~ (v < u)
      <3> SUFFICES ASSUME v < u PROVE FALSE
        OBVIOUS
      <3> HIDE DEF u, v, c, d
      <3>1. v * WORD + WORD <= u * WORD
        BY <1>2, <1>3, Ahead
      <3> QED
        BY <3>1, <1>1, <1>2, <1>3, <1>4
    <2>2. u * WORD + WORD <= s
      <3> HIDE DEF u, v, c, d
      <3>1. u < v
        BY <2>1, <1>6, <1>2, <1>3
      <3> QED
        BY <3>1, <1>2, <1>3, Ahead
    <2>3. s \in o .. e - 1 /\ s <= p
      <3> HIDE DEF u, v, c, d
      <3> QED
        BY <2>2, <1>1, <1>2, <1>3, <1>4
    <2>4. s % WORD = 0 /\ s \div WORD = v
      <3> HIDE DEF v, c, u, d
      <3>1. s = ByteOf(v, 0) /\ 0 \in 0 .. WORD - 1
        BY <1>1, <1>2, <1>4 DEF ByteOf
      <3> QED
        BY <3>1, <1>2, Join
    <2>5. s \in word_steps(o, e)
      BY <2>3, <2>4 DEF word_steps
    <2>6. c \in step_mask(s, e)
      <3>1. 0 <= c /\ c - 0 < e - s /\ s < e
        <4> HIDE DEF v, c, u, d
        <4> QED
          BY <1>1, <1>2, <1>4
      <3>2. s % WORD <= c /\ c - (s % WORD) < e - s
        BY <2>4, <3>1, Zenon
      <3> QED
        BY <3>1, <3>2, <1>2, <1>4, StepMask, Zenon
    <2> QED
      BY <2>4, <2>5, <2>6
  <1> QED
    BY <1>5, <1>6

\* coverage_range_is_clear says that no byte of the range was received.
LEMMA RangeClear ==
  ASSUME NEW r, Sound(r), NEW o \in Nat, NEW n \in Nat, o + n <= capacity
  PROVE  coverage_range_is_clear(r, o, n)
             <=> \A p \in o .. o + n - 1 : ~covered(r, p)
  <1>1. ASSUME coverage_range_is_clear(r, o, n), NEW p \in o .. o + n - 1
        PROVE  ~covered(r, p)
    <2>1. PICK s \in word_steps(o, o + n) : s \div WORD = p \div WORD
                                            /\ p % WORD \in step_mask(s, o + n)
      BY StepOf
    <2>2. r.coverage[s \div WORD] \cap step_mask(s, o + n) = {}
      BY <1>1 DEF coverage_range_is_clear
    <2> QED
      BY <2>1, <2>2 DEF covered
  <1>2. ASSUME \A p \in o .. o + n - 1 : ~covered(r, p),
               NEW s \in word_steps(o, o + n),
               NEW b \in r.coverage[s \div WORD] \cap step_mask(s, o + n)
        PROVE  FALSE
    <2> DEFINE p == ByteOf(s \div WORD, b)
    <2>1. s \div WORD \in Nat /\ b \in 0 .. WORD - 1 /\ p \in o .. o + n - 1
      <3>1. o + n \in Nat
        OBVIOUS
      <3> QED
        BY <3>1, StepBits
    <2>2. p \div WORD = s \div WORD /\ p % WORD = b
      BY <2>1, Join
    <2> QED
      BY <1>2, <2>1, <2>2 DEF covered
  <1> QED
    BY <1>1, <1>2 DEF coverage_range_is_clear

-----------------------------------------------------------------------------
(* Storing a fragment *)

\* The bits of the bytes of A in word w.
BitsIn(w, A) == {b \in 0 .. WORD - 1 : ByteOf(w, b) \in A}

\* The bytes h adds to what r has.
Missing(r, h) == Carried(h) \ CoveredBy(r)

\* What either path makes of r: the missing bytes written, marked and counted.
Fill(r, h) ==
    [r EXCEPT
        !.data = [p \in Position |-> IF p \in Missing(r, h) THEN h.content[p] ELSE @[p]],
        !.coverage = [w \in Word |-> @[w] \cup BitsIn(w, Missing(r, h))],
        !.covered_bytes = @ + Cardinality(Missing(r, h))]

LEMMA WordIsNat == Word \subseteq Nat
  BY DEF Word

\* The bits mark_coverage_range sets in a word.
LEMMA RangeBits ==
  ASSUME NEW o \in Nat, NEW n \in Nat, NEW w \in Word
  PROVE  UNION {step_mask(p, o + n) : p \in {q \in word_steps(o, o + n) : q \div WORD = w}}
             = BitsIn(w, o .. o + n - 1)
  <1> DEFINE steps == {q \in word_steps(o, o + n) : q \div WORD = w}
  <1>1. o + n \in Nat
    OBVIOUS
  <1>2. ASSUME NEW s \in steps, NEW b \in step_mask(s, o + n)
        PROVE  b \in BitsIn(w, o .. o + n - 1)
    <2>1. s \in word_steps(o, o + n) /\ s \div WORD = w
      OBVIOUS
    <2>2. b \in 0 .. WORD - 1 /\ ByteOf(s \div WORD, b) \in o .. o + n - 1
      BY <1>1, <2>1, StepBits
    <2> QED
      BY <2>1, <2>2 DEF BitsIn
  <1>3. ASSUME NEW b \in BitsIn(w, o .. o + n - 1)
        PROVE  \E s \in steps : b \in step_mask(s, o + n)
    <2> DEFINE p == ByteOf(w, b)
    <2>1. b \in 0 .. WORD - 1 /\ p \in o .. o + n - 1
      BY DEF BitsIn
    <2>2. p \div WORD = w /\ p % WORD = b
      BY <2>1, WordIsNat, Join
    <2>3. PICK s \in word_steps(o, o + n) : s \div WORD = p \div WORD
                                        /\ p % WORD \in step_mask(s, o + n)
      <3> HIDE DEF p
      <3> QED
        BY <1>1, <2>1, StepOf
    <2> QED
      BY <2>2, <2>3
  <1> QED
    BY <1>2, <1>3

\* The bits the byte loop sets in a word.
LEMMA ByteBits ==
  ASSUME NEW A, A \subseteq Nat, NEW w \in Word
  PROVE  {p % WORD : p \in {q \in A : q \div WORD = w}} = BitsIn(w, A)
  <1>1. ASSUME NEW p \in A, p \div WORD = w
        PROVE  p % WORD \in BitsIn(w, A)
    <2>1. p % WORD \in 0 .. WORD - 1 /\ p = ByteOf(p \div WORD, p % WORD)
      BY Split
    <2> QED
      BY <1>1, <2>1 DEF BitsIn
  <1>2. ASSUME NEW b \in BitsIn(w, A)
        PROVE  \E p \in A : p \div WORD = w /\ p % WORD = b
    <2>1. b \in 0 .. WORD - 1 /\ ByteOf(w, b) \in A
      BY DEF BitsIn
    <2>2. ByteOf(w, b) \div WORD = w /\ ByteOf(w, b) % WORD = b
      BY <2>1, WordIsNat, Join
    <2> QED
      BY <2>1, <2>2, Zenon
  <1> QED
    BY <1>1, <1>2

\* What holds of a fragment spw_fragment_reassembler_push stores.
Fitting(r, h) ==
    /\ h.fragment_offset \in Nat /\ h.payload_size \in Nat
    /\ h.fragment_offset + h.payload_size <= r.total_size

LEMMA CarriedInside ==
  ASSUME NEW r, r.total_size \in 0 .. capacity, NEW h, Fitting(r, h)
  PROVE  /\ Carried(h) \subseteq Position /\ Position \subseteq Nat
         /\ \A p \in Carried(h) : p < r.total_size
  BY ReassemblerAssumption DEF Carried, Position, Fitting

\* The byte loop fills in the missing bytes ...
LEMMA BytesFill ==
  ASSUME NEW r, Sound(r), NEW h, Fitting(r, h)
  PROVE  store_bytes(r, h) = Fill(r, h)
  <1>1. r.total_size \in 0 .. capacity
    BY DEF Sound, Reassembler
  <1>2. {p \in Carried(h) : ~covered(r, p)} = Missing(r, h)
    BY <1>1, CarriedInside DEF Missing, CoveredBy
  <1>3. Missing(r, h) \subseteq Nat
    BY <1>1, CarriedInside DEF Missing
  <1>4. \A w \in Word : {p % WORD : p \in {q \in Missing(r, h) : q \div WORD = w}}
                            = BitsIn(w, Missing(r, h))
    BY <1>3, ByteBits
  <1> QED
    BY <1>2, <1>4, Zenon DEF store_bytes, Fill

\* ... and so does the word loop, for a fragment that overlaps nothing.
LEMMA RangeFills ==
  ASSUME NEW r, Sound(r), NEW h, Fitting(r, h), fast(r, h)
  PROVE  store_range(r, h) = Fill(r, h)
  <1> DEFINE o == h.fragment_offset
             n == h.payload_size
  <1>1. r.total_size \in 0 .. capacity /\ o \in Nat /\ n \in Nat /\ o + n \in Nat
        /\ o + n <= capacity
    BY ReassemblerAssumption DEF Sound, Reassembler, Fitting
  <1>2. \A p \in o .. o + n - 1 : ~covered(r, p)
    BY <1>1, RangeClear DEF fast
  <1>3. Missing(r, h) = o .. o + n - 1 /\ Carried(h) = o .. o + n - 1
    BY <1>2 DEF Missing, CoveredBy, Carried
  <1>4. Cardinality(o .. o + n - 1) = n
    <2>1. o \in Int /\ o + n - 1 \in Int /\ (o <= o + n - 1 \/ n = 0)
      BY <1>1
    <2>2. Cardinality(o .. o + n - 1)
              = IF o > o + n - 1 THEN 0 ELSE (o + n - 1) - o + 1
      BY <2>1, FS_Interval, Zenon
    <2> QED
      BY <1>1, <2>1, <2>2
  <1>5. \A w \in Word :
            UNION {step_mask(p, o + n) :
                       p \in {q \in word_steps(o, o + n) : q \div WORD = w}}
                = BitsIn(w, o .. o + n - 1)
    BY <1>1, RangeBits, Zenon
  <1>6. mark_coverage_range(r, o, n) =
            [r EXCEPT !.coverage = [w \in Word |-> @[w] \cup BitsIn(w, o .. o + n - 1)]]
    BY <1>5, Zenon DEF mark_coverage_range
  <1> DEFINE C == [w \in Word |-> r.coverage[w] \cup BitsIn(w, o .. o + n - 1)]
             D == [p \in Position |-> IF p \in o .. o + n - 1 THEN h.content[p]
                                      ELSE r.data[p]]
  <1>7. r \in Reassembler
    BY DEF Sound
  <1>8. Fill(r, h) = [r EXCEPT !.data = D, !.coverage = C, !.covered_bytes = @ + n]
    BY <1>3, <1>4, Zenon DEF Fill
  <1>9. store_range(r, h) =
            [[r EXCEPT !.coverage = C] EXCEPT !.data = D, !.covered_bytes = @ + n]
    <2>1. [r EXCEPT !.coverage = C].data = r.data
      BY <1>7 DEF Reassembler
    <2> QED
      BY <1>3, <1>6, <2>1 DEF store_range
  <1> HIDE DEF C, D
  <1> QED
    BY <1>7, <1>8, <1>9, Zenon DEF Reassembler

LEMMA CoveredFinite ==
  ASSUME NEW r
  PROVE  IsFiniteSet(CoveredBy(r)) /\ Cardinality(CoveredBy(r)) \in Nat
  <1>1. IsFiniteSet(Position)
    <2>1. 0 \in Int /\ capacity - 1 \in Int
      BY ReassemblerAssumption
    <2> QED
      BY <2>1, FS_Interval, Zenon DEF Position
  <1>2. IsFiniteSet(CoveredBy(r))
    <2>1. CoveredBy(r) \in SUBSET Position
      BY DEF CoveredBy
    <2> QED
      BY <1>1, <2>1, FS_Subset, Zenon
  <1> QED
    BY <1>2, FS_CardinalityType

\* The bytes received are bytes of the message, and as many as its size only
\* when there is no gap.
LEMMA CoveredInside ==
  ASSUME NEW r, Sound(r)
  PROVE  /\ \A p \in CoveredBy(r) : p < r.total_size
         /\ r.covered_bytes = r.total_size <=> CoveredBy(r) = 0 .. r.total_size - 1
  <1> DEFINE t == r.total_size
  <1>1. t \in Nat
    BY ReassemblerAssumption DEF Sound, Reassembler
  <1>2. ASSUME NEW p \in CoveredBy(r)
        PROVE  p \in Nat /\ p < t
    <2>1. p \in Position /\ p % WORD \in r.coverage[p \div WORD]
      BY DEF CoveredBy, covered
    <2>2. p \in Nat /\ p \div WORD \in Word /\ p = ByteOf(p \div WORD, p % WORD)
      BY <2>1, WordOfPosition, Split
    <2> QED
      BY <2>1, <2>2 DEF Sound, Tidy
  <1>3. CoveredBy(r) \in SUBSET (0 .. t - 1)
    BY <1>1, <1>2
  <1>4. IsFiniteSet(0 .. t - 1) /\ Cardinality(0 .. t - 1) = t
    <2>1. 0 \in Int /\ t - 1 \in Int
      BY <1>1
    <2>2. /\ IsFiniteSet(0 .. t - 1)
          /\ Cardinality(0 .. t - 1) = IF 0 > t - 1 THEN 0 ELSE (t - 1) - 0 + 1
      BY <2>1, FS_Interval, Zenon
    <2> QED
      BY <1>1, <2>2
  <1>5. Cardinality(0 .. t - 1) = Cardinality(CoveredBy(r)) => 0 .. t - 1 = CoveredBy(r)
    BY <1>3, <1>4, FS_Subset, Zenon
  <1>6. r.covered_bytes = Cardinality(CoveredBy(r))
    BY DEF Sound
  <1>7. r.covered_bytes = t <=> CoveredBy(r) = 0 .. t - 1
    BY <1>4, <1>5, <1>6, Zenon
  <1> QED
    BY <1>2, <1>7

\* Storing a fragment adds its bytes and keeps the reassembler sound.
LEMMA FillStep ==
  ASSUME NEW r, Sound(r), r.active, NEW h \in Fragment, Fitting(r, h),
         NEW f, f = Fill(r, h)
  PROVE  /\ Sound(f)
         /\ CoveredBy(f) = CoveredBy(r) \cup Carried(h)
         /\ f.covered_bytes = r.covered_bytes + Cardinality(Missing(r, h))
         /\ IsFiniteSet(Missing(r, h))
         /\ \A p \in CoveredBy(f) :
                f.data[p] = IF p \in CoveredBy(r) THEN r.data[p] ELSE h.content[p]
         /\ f.active
         /\ f.message_id = r.message_id /\ f.total_size = r.total_size
         /\ f.terminator_flags = r.terminator_flags
         /\ f.ack_required = r.ack_required
         /\ f.seen_start = r.seen_start /\ f.seen_end = r.seen_end
  <1> DEFINE A == Missing(r, h)
             C == [w \in Word |-> r.coverage[w] \cup BitsIn(w, A)]
             D == [p \in Position |-> IF p \in A THEN h.content[p] ELSE r.data[p]]
             n == Cardinality(A)
  <1>1. r \in Reassembler /\ r.total_size \in 0 .. capacity
    BY DEF Sound, Reassembler
  <1>2. /\ Carried(h) \subseteq Position /\ A \subseteq Position
        /\ Position \subseteq Nat /\ \A p \in A : p < r.total_size
    BY <1>1, CarriedInside DEF Missing
  <1>3. IsFiniteSet(A) /\ n \in Nat
    <2>1. IsFiniteSet(Position)
      <3>1. 0 \in Int /\ capacity - 1 \in Int
        BY ReassemblerAssumption
      <3> QED
        BY <3>1, FS_Interval, Zenon DEF Position
    <2>2. A \in SUBSET Position
      BY <1>2
    <2>3. IsFiniteSet(A)
      BY <2>1, <2>2, FS_Subset, Zenon
    <2> QED
      BY <2>3, FS_CardinalityType
  <1>4. f = [r EXCEPT !.data = D, !.coverage = C, !.covered_bytes = @ + n]
    BY DEF Fill
  <1>5. C \in [Word -> SUBSET (0 .. WORD - 1)]
    BY <1>1 DEF Reassembler, BitsIn
  <1>6. D \in [Position -> Value]
    BY <1>1, <1>2 DEF Reassembler, Value
  <1>7. CoveredBy(r) \cup A = CoveredBy(r) \cup Carried(h) /\ CoveredBy(r) \cap A = {}
    BY DEF Missing
  <1>8. \A w \in Word : C[w] = r.coverage[w] \cup BitsIn(w, A)
    OBVIOUS
  <1>9. \A p \in Position : D[p] = IF p \in A THEN h.content[p] ELSE r.data[p]
    OBVIOUS
  <1> HIDE DEF A, C, D, n
  <1>10. /\ f \in Reassembler
         /\ f.coverage = C /\ f.data = D /\ f.covered_bytes = r.covered_bytes + n
         /\ f.active /\ f.message_id = r.message_id /\ f.total_size = r.total_size
         /\ f.terminator_flags = r.terminator_flags
         /\ f.ack_required = r.ack_required
         /\ f.seen_start = r.seen_start /\ f.seen_end = r.seen_end
    <2> DEFINE m == r.covered_bytes + n
    <2>1. m \in Nat
      BY <1>1, <1>3 DEF Reassembler
    <2>2. f = [r EXCEPT !.data = D, !.coverage = C, !.covered_bytes = m]
      BY <1>4
    <2> HIDE DEF m
    <2>3. f \in Reassembler
      BY <1>1, <1>5, <1>6, <2>1, <2>2, Zenon DEF Reassembler
    <2> QED
      BY <1>1, <2>2, <2>3 DEF Reassembler, m
  <1>11. CoveredBy(f) = CoveredBy(r) \cup A
    <2> SUFFICES ASSUME NEW p \in Position
                 PROVE  covered(f, p) <=> covered(r, p) \/ p \in A
      BY <1>2, Zenon DEF CoveredBy
    <2>1. /\ p \in Nat /\ p \div WORD \in Word /\ p % WORD \in 0 .. WORD - 1
          /\ p = ByteOf(p \div WORD, p % WORD)
      BY WordOfPosition, Split
    <2>2. p % WORD \in BitsIn(p \div WORD, A) <=> p \in A
      BY <2>1 DEF BitsIn
    <2> QED
      BY <1>8, <1>10, <2>1, <2>2 DEF covered
  <1>12. Tidy(f)
    <2> SUFFICES ASSUME NEW w \in Word, NEW b \in C[w]
                 PROVE  ByteOf(w, b) < r.total_size
      BY <1>10 DEF Tidy
    <2>1. CASE b \in r.coverage[w]
      BY <2>1 DEF Sound, Tidy
    <2>2. CASE b \in BitsIn(w, A)
      BY <1>2, <2>2, Zenon DEF BitsIn
    <2> QED
      BY <1>8, <2>1, <2>2
  <1>13. f.covered_bytes = Cardinality(CoveredBy(f))
    <2>1. Cardinality(CoveredBy(r) \cup A) =
              Cardinality(CoveredBy(r)) + n - Cardinality(CoveredBy(r) \cap A)
      BY <1>3, CoveredFinite, FS_Union DEF n
    <2>2. Cardinality(CoveredBy(r) \cap A) = 0
      BY <1>7, FS_EmptySet
    <2>3. Cardinality(CoveredBy(r)) \in Nat /\ r.covered_bytes = Cardinality(CoveredBy(r))
      BY CoveredFinite DEF Sound
    <2> QED
      BY <1>3, <1>10, <1>11, <2>1, <2>2, <2>3
  <1>14. Sound(f)
    <2>1. r.total_size > 0
      BY DEF Sound
    <2> QED
      BY <1>10, <1>12, <1>13, <2>1 DEF Sound
  <1>15. ASSUME NEW p \in CoveredBy(f)
         PROVE  f.data[p] = IF p \in CoveredBy(r) THEN r.data[p] ELSE h.content[p]
    <2>1. p \in Position /\ (p \in CoveredBy(r) \/ p \in A)
      BY <1>11 DEF CoveredBy
    <2> QED
      BY <1>7, <1>9, <1>10, <2>1
  <1> QED
    BY <1>3, <1>7, <1>10, <1>11, <1>14, <1>15 DEF A, n

-----------------------------------------------------------------------------
(* Adopting a message, and reset *)

\* The map of an idle reassembler is clean.
LEMMA IdleClean ==
  ASSUME NEW r, Sound(r), ~r.active
  PROVE  CoveredBy(r) = {} /\ \A w \in Word : r.coverage[w] = {}
  <1>1. \A w \in Word : r.coverage[w] = {}
    <2> SUFFICES ASSUME NEW w \in Word, NEW b \in r.coverage[w]
                 PROVE  FALSE
      OBVIOUS
    <2>1. b \in 0 .. WORD - 1 /\ w \in Nat /\ ByteOf(w, b) < 0
      BY WordIsNat DEF Sound, Tidy, Reassembler
    <2>2. ByteOf(w, b) \in Nat
      BY <2>1, Join
    <2> QED
      BY <2>1, <2>2
  <1> QED
    BY <1>1, WordOfPosition DEF CoveredBy, covered

LEMMA Adopt ==
  ASSUME NEW r, Sound(r), NEW h \in Fragment, ~invalid(h),
         NEW a, a = adopted(r, h)
  PROVE  /\ Sound(a) /\ a.active
         /\ CoveredBy(a) = CoveredBy(r) /\ a.covered_bytes = r.covered_bytes
         /\ a.data = r.data
         /\ a.seen_start = r.seen_start /\ a.seen_end = r.seen_end
         /\ r.active => a = r
         /\ ~r.active => same_message(a, h) /\ CoveredBy(r) = {}
  <1>1. CASE r.active
    BY <1>1 DEF adopted
  <1>2. CASE ~r.active
    <2>1. h.total_size \in Nat /\ h.total_size > 0 /\ h.total_size <= capacity
      BY ReassemblerAssumption, FragmentAssumption DEF invalid
    <2>2. r \in Reassembler
      BY DEF Sound
    <2>3. /\ terminator_flags(h) \in SUBSET {"EOP", "EEP"}
          /\ ack_required(h) \in BOOLEAN
      BY DEF terminator_flags, ack_required
    <2>4. /\ a \in Reassembler
          /\ a.active /\ a.message_id = h.message_id /\ a.total_size = h.total_size
          /\ a.terminator_flags = terminator_flags(h)
          /\ a.ack_required = ack_required(h)
          /\ a.covered_bytes = r.covered_bytes /\ a.data = r.data
          /\ a.coverage = r.coverage
          /\ a.seen_start = r.seen_start /\ a.seen_end = r.seen_end
      <3>1. h.message_id \in MessageId /\ h.total_size \in 0 .. capacity
        BY <2>1, ReassemblerAssumption DEF MessageId
      <3> QED
        BY <1>2, <2>2, <2>3, <3>1, Zenon DEF adopted, Reassembler
    <2>5. CoveredBy(a) = CoveredBy(r)
      BY <2>4 DEF CoveredBy, covered
    <2>6. Tidy(a)
      BY <1>2, <2>4, IdleClean DEF Tidy
    <2> QED
      BY <1>2, <2>1, <2>4, <2>5, <2>6, IdleClean DEF Sound, same_message
  <1> QED
    BY <1>1, <1>2

\* Clearing the words of total_size clears the map.
LEMMA ResetStep ==
  ASSUME NEW r, Sound(r), NEW f, f = spw_fragment_reassembler_reset(r)
  PROVE  Sound(f) /\ ~f.active /\ ~f.seen_start /\ ~f.seen_end /\ CoveredBy(f) = {}
  <1> DEFINE words == IF r.active /\ r.total_size <= capacity
                      THEN COVERAGE_WORDS(r.total_size) ELSE coverage_words
             C == [w \in Word |-> IF w < words THEN {} ELSE r.coverage[w]]
  <1>1. r \in Reassembler
    BY DEF Sound
  <1>2. f = [spw_fragment_reassembler_init EXCEPT !.coverage = C, !.data = r.data]
    BY DEF spw_fragment_reassembler_reset
  <1>3. C = [w \in Word |-> {}]
    <2> SUFFICES ASSUME NEW w \in Word, ~(w < words)
                 PROVE  r.coverage[w] = {}
      OBVIOUS
    <2> SUFFICES ASSUME NEW b \in r.coverage[w]
                 PROVE  FALSE
      OBVIOUS
    <2>1. /\ b \in 0 .. WORD - 1 /\ w \in Nat /\ ByteOf(w, b) < r.total_size
          /\ r.total_size \in Nat
      BY <1>1, WordIsNat DEF Sound, Tidy, Reassembler
    <2>2. w < COVERAGE_WORDS(r.total_size)
      BY <2>1, WordsSuffice
    <2>3. w < coverage_words
      BY ReassemblerAssumption DEF Word, coverage_words, COVERAGE_WORDS
    <2> QED
      BY <2>2, <2>3
  <1> HIDE DEF C, words
  <1>4. /\ f \in Reassembler /\ ~f.active /\ f.total_size = 0 /\ f.covered_bytes = 0
        /\ ~f.seen_start /\ ~f.seen_end /\ f.coverage = [w \in Word |-> {}]
    <2>1. /\ 0 \in MessageId /\ 0 \in 0 .. capacity
          /\ [w \in Word |-> {}] \in [Word -> SUBSET (0 .. WORD - 1)]
      BY ReassemblerAssumption DEF MessageId
    <2> DEFINE Z == [w \in Word |-> {}]
               d == r.data
    <2>2. d \in [Position -> Value]
      BY <1>1 DEF Reassembler
    <2> HIDE DEF Z, d
    <2>3. f = [active |-> FALSE, message_id |-> 0, total_size |-> 0,
               terminator_flags |-> {}, ack_required |-> FALSE,
               seen_start |-> FALSE, seen_end |-> FALSE, covered_bytes |-> 0,
               coverage |-> Z, data |-> d]
      BY <1>2, <1>3, Zenon DEF spw_fragment_reassembler_init, Z, d
    <2>4. Z \in [Word -> SUBSET (0 .. WORD - 1)]
      BY <2>1 DEF Z
    <2>5. f \in Reassembler
      BY <2>1, <2>2, <2>3, <2>4 DEF Reassembler
    <2> QED
      BY <2>3, <2>5 DEF Z
  <1>5. CoveredBy(f) = {}
    BY <1>4, WordOfPosition DEF CoveredBy, covered
  <1>6. Tidy(f)
    BY <1>4 DEF Tidy
  <1> QED
    BY <1>4, <1>5, <1>6, FS_EmptySet DEF Sound

-----------------------------------------------------------------------------
(* The three ways spw_fragment_reassembler_push can end *)

Ignored(r, h, out) == invalid(h) /\ out.r = r /\ out.result = "INVALID"

Refused(r, h, out) ==
    /\ ~invalid(h) /\ r.active /\ out.r = r /\ out.result = "CONFLICT"
    /\ \/ ~same_message(r, h)
       \/ \E p \in Carried(h) \cap CoveredBy(r) : r.data[p] # h.content[p]

Taken(r, h, out) ==
    /\ ~invalid(h)
    /\ r.active => same_message(r, h)
    /\ \A p \in Carried(h) \cap CoveredBy(r) : r.data[p] = h.content[p]
    /\ out.r.active /\ same_message(out.r, h)
    /\ CoveredBy(out.r) = CoveredBy(r) \cup Carried(h)
    /\ \A p \in CoveredBy(out.r) :
           out.r.data[p] = IF p \in CoveredBy(r) THEN r.data[p] ELSE h.content[p]
    /\ out.r.seen_start = (r.seen_start \/ "FRAGMENT_START" \in h.flags)
    /\ out.r.seen_end = (r.seen_end \/ "FRAGMENT_END" \in h.flags)
    /\ out.result =
         IF /\ CoveredBy(out.r) = 0 .. h.total_size - 1
            /\ out.r.seen_start /\ out.r.seen_end
         THEN "COMPLETE"
         ELSE IF CoveredBy(out.r) = CoveredBy(r) THEN "DUPLICATE" ELSE "ACCEPTED"

\* A fragment that is stored: by either path, the same.
LEMMA StoreStep ==
  ASSUME NEW r, Sound(r), NEW h \in Fragment, ~invalid(h),
         NEW a, a = adopted(r, h), same_message(a, h),
         fast(a, h) \/ ~contradicts(a, h),
         NEW out, out = spw_fragment_reassembler_push(r, h)
  PROVE  Sound(out.r) /\ Taken(r, h, out)
  <1> DEFINE stored == IF fast(a, h) THEN store_range(a, h) ELSE store_bytes(a, h)
             start == stored.seen_start \/ "FRAGMENT_START" \in h.flags
             end == stored.seen_end \/ "FRAGMENT_END" \in h.flags
             f == [stored EXCEPT !.seen_start = start, !.seen_end = end]
  <1>1. /\ Sound(a) /\ a.active /\ CoveredBy(a) = CoveredBy(r) /\ a.data = r.data
        /\ a.covered_bytes = r.covered_bytes
        /\ a.seen_start = r.seen_start /\ a.seen_end = r.seen_end
        /\ r.active => a = r
    BY Adopt
  <1>2. Fitting(a, h) /\ a.total_size = h.total_size
    BY FragmentAssumption DEF Fitting, invalid, same_message
  <1>3. stored = Fill(a, h)
    BY <1>1, <1>2, BytesFill, RangeFills
  <1>4. out = [r |-> f, result |-> verdict(f, f.covered_bytes - a.covered_bytes)]
    BY DEF spw_fragment_reassembler_push
  <1> HIDE DEF stored
  <1>5. /\ Sound(stored)
        /\ CoveredBy(stored) = CoveredBy(a) \cup Carried(h)
        /\ stored.covered_bytes = a.covered_bytes + Cardinality(Missing(a, h))
        /\ IsFiniteSet(Missing(a, h))
        /\ \A p \in CoveredBy(stored) :
               stored.data[p] = IF p \in CoveredBy(a) THEN a.data[p] ELSE h.content[p]
        /\ stored.active
        /\ stored.message_id = a.message_id /\ stored.total_size = a.total_size
        /\ stored.terminator_flags = a.terminator_flags
        /\ stored.ack_required = a.ack_required
        /\ stored.seen_start = a.seen_start /\ stored.seen_end = a.seen_end
    BY <1>1, <1>2, <1>3, FillStep
  <1>6. /\ stored \in Reassembler /\ start \in BOOLEAN /\ end \in BOOLEAN
    BY <1>5 DEF Sound, Reassembler
  <1> HIDE DEF start, end
  <1>7. /\ f \in Reassembler
        /\ f.active = stored.active /\ f.message_id = stored.message_id
        /\ f.total_size = stored.total_size
        /\ f.terminator_flags = stored.terminator_flags
        /\ f.ack_required = stored.ack_required
        /\ f.seen_start = start /\ f.seen_end = end
        /\ f.covered_bytes = stored.covered_bytes
        /\ f.coverage = stored.coverage /\ f.data = stored.data
    BY <1>6, Zenon DEF Reassembler
  <1> HIDE DEF f
  <1>8. CoveredBy(f) = CoveredBy(stored)
    BY <1>7 DEF CoveredBy, covered
  <1>9. Sound(f)
    <2>1. Tidy(f)
      BY <1>5, <1>7 DEF Sound, Tidy
    <2> QED
      BY <1>5, <1>7, <1>8, <2>1 DEF Sound
  <1>10. \A p \in Carried(h) \cap CoveredBy(r) : r.data[p] = h.content[p]
    <2>1. CASE fast(a, h)
      <3>1. /\ h.fragment_offset \in Nat /\ h.payload_size \in Nat
            /\ h.fragment_offset + h.payload_size <= capacity
        BY <1>1, <1>2, ReassemblerAssumption DEF Fitting, Sound, Reassembler
      <3>2. coverage_range_is_clear(a, h.fragment_offset, h.payload_size)
        BY <2>1 DEF fast
      <3>3. \A p \in Carried(h) : ~covered(a, p)
        BY <1>1, <3>1, <3>2, RangeClear DEF Carried
      <3> QED
        BY <1>1, <3>3 DEF CoveredBy
    <2>2. CASE ~contradicts(a, h)
      BY <1>1, <2>2 DEF contradicts, CoveredBy
    <2> QED
      BY <2>1, <2>2
  <1>11. f.covered_bytes - a.covered_bytes = 0 <=> CoveredBy(f) = CoveredBy(r)
    <2>1. a.covered_bytes \in Nat /\ Cardinality(Missing(a, h)) \in Nat
      BY <1>1, <1>5, FS_CardinalityType DEF Sound, Reassembler
    <2>2. f.covered_bytes - a.covered_bytes = Cardinality(Missing(a, h))
      BY <1>5, <1>7, <2>1
    <2>3. Cardinality(Missing(a, h)) = 0 <=> Missing(a, h) = {}
      BY <1>5, FS_EmptySet
    <2>4. Missing(a, h) = {} <=> CoveredBy(f) = CoveredBy(r)
      BY <1>1, <1>5, <1>8 DEF Missing
    <2> QED
      BY <2>2, <2>3, <2>4
  <1>12. out.result =
           IF CoveredBy(f) = 0 .. h.total_size - 1 /\ f.seen_start /\ f.seen_end
           THEN "COMPLETE"
           ELSE IF CoveredBy(f) = CoveredBy(r) THEN "DUPLICATE" ELSE "ACCEPTED"
    <2>1. /\ f.covered_bytes = f.total_size <=> CoveredBy(f) = 0 .. f.total_size - 1
          /\ f.total_size = h.total_size
      BY <1>2, <1>5, <1>7, <1>9, CoveredInside
    <2> QED
      BY <1>4, <1>11, <2>1 DEF verdict
  <1>13. out.r = f
    BY <1>4
  <1>14. same_message(f, h)
    BY <1>5, <1>7 DEF same_message
  <1>15. \A p \in CoveredBy(f) :
             f.data[p] = IF p \in CoveredBy(r) THEN r.data[p] ELSE h.content[p]
    BY <1>1, <1>5, <1>7, <1>8
  <1>16. /\ f.seen_start = (r.seen_start \/ "FRAGMENT_START" \in h.flags)
         /\ f.seen_end = (r.seen_end \/ "FRAGMENT_END" \in h.flags)
    BY <1>1, <1>5, <1>7 DEF start, end
  <1>17. CoveredBy(f) = CoveredBy(r) \cup Carried(h) /\ f.active
    BY <1>1, <1>5, <1>7, <1>8
  <1>18. r.active => same_message(r, h)
    BY <1>1
  <1> QED
    BY <1>9, <1>10, <1>12, <1>13, <1>14, <1>15, <1>16, <1>17, <1>18 DEF Taken

LEMMA PushStep ==
  ASSUME NEW r, Sound(r), NEW h \in Fragment,
         NEW out, out = spw_fragment_reassembler_push(r, h)
  PROVE  /\ Sound(out.r)
         /\ Ignored(r, h, out) \/ Refused(r, h, out) \/ Taken(r, h, out)
  <1> DEFINE a == adopted(r, h)
  <1>1. CASE invalid(h)
    BY <1>1 DEF spw_fragment_reassembler_push, Ignored
  <1>2. CASE ~invalid(h) /\ same_message(a, h) /\ (fast(a, h) \/ ~contradicts(a, h))
    BY <1>2, StoreStep
  <1>3. CASE ~invalid(h) /\ (~same_message(a, h) \/ (~fast(a, h) /\ contradicts(a, h)))
    <2>1. out.r = a /\ out.result = "CONFLICT"
      BY <1>3 DEF spw_fragment_reassembler_push
    <2>2. /\ Sound(a) /\ CoveredBy(a) = CoveredBy(r) /\ a.data = r.data
          /\ r.active => a = r
          /\ ~r.active => same_message(a, h) /\ CoveredBy(r) = {}
      BY <1>3, Adopt
    <2>3. a.total_size = h.total_size => Carried(h) \subseteq Position
      <3>1. a.total_size = h.total_size => Fitting(a, h)
        BY <1>3, FragmentAssumption DEF Fitting, invalid
      <3>2. a.total_size \in 0 .. capacity
        BY <2>2 DEF Sound, Reassembler
      <3> QED
        BY <3>1, <3>2, CarriedInside
    <2>4. \/ ~same_message(a, h)
          \/ \E p \in Carried(h) \cap CoveredBy(r) : r.data[p] # h.content[p]
      <3> SUFFICES ASSUME same_message(a, h)
                   PROVE  \E p \in Carried(h) \cap CoveredBy(r) : r.data[p] # h.content[p]
        OBVIOUS
      <3>1. PICK p \in Carried(h) : covered(a, p) /\ a.data[p] # h.content[p]
        BY <1>3 DEF contradicts
      <3>2. p \in CoveredBy(a)
        BY <2>3, <3>1 DEF CoveredBy, same_message
      <3> QED
        BY <2>2, <3>1, <3>2
    <2>5. r.active
      BY <2>2, <2>4
    <2> HIDE DEF a
    <2> QED
      BY <1>3, <2>1, <2>2, <2>4, <2>5 DEF Refused
  <1> HIDE DEF a
  <1> QED
    BY <1>1, <1>2, <1>3

-----------------------------------------------------------------------------
(* The specification *)

LEMMA InitStep == RInit => IInv
  <1> SUFFICES ASSUME RInit PROVE IInv
    OBVIOUS
  <1> DEFINE r == spw_fragment_reassembler_init
             Z == [w \in Word |-> {}]
             d == [p \in Position |-> 0]
  <1>1. /\ 0 \in MessageId /\ 0 \in 0 .. capacity
        /\ Z \in [Word -> SUBSET (0 .. WORD - 1)] /\ d \in [Position -> Value]
    BY ReassemblerAssumption DEF MessageId, Value
  <1>2. r = [active |-> FALSE, message_id |-> 0, total_size |-> 0,
             terminator_flags |-> {}, ack_required |-> FALSE,
             seen_start |-> FALSE, seen_end |-> FALSE, covered_bytes |-> 0,
             coverage |-> Z, data |-> d]
    BY DEF spw_fragment_reassembler_init
  <1>3. \A w \in Word : Z[w] = {}
    OBVIOUS
  <1> HIDE DEF r, Z, d
  <1>4. r \in Reassembler
    BY <1>1, <1>2 DEF Reassembler
  <1>5. CoveredBy(r) = {}
    BY <1>2, <1>3, WordOfPosition DEF CoveredBy, covered
  <1>6. Tidy(r)
    BY <1>2, <1>3 DEF Tidy
  <1>7. Sound(r)
    BY <1>2, <1>4, <1>5, <1>6, FS_EmptySet, Zenon DEF Sound
  <1> QED
    BY <1>7 DEF RInit, IInv, r

LEMMA InvariantStep ==
  ASSUME IInv, [RNext]_rvars
  PROVE  IInv'
  <1>1. CASE Reset
    BY <1>1, ResetStep DEF Reset, IInv
  <1>2. CASE \E h \in Fragment : Push(h)
    BY <1>2, PushStep DEF Push, IInv
  <1>3. CASE UNCHANGED rvars
    BY <1>3 DEF rvars, IInv
  <1> QED
    BY <1>1, <1>2, <1>3 DEF RNext

\* The count of received bytes kept by spw_fragment_reassembler_push is the
\* number of bits set, and no bit lies beyond the message in progress, for
\* every word width and buffer size.
THEOREM CountIsCoverage == RSpec => []CoverageMatchesCount
  <1>1. IInv /\ [RNext]_rvars => IInv'
    BY InvariantStep
  <1>2. IInv => CoverageMatchesCount
    BY CoveredInside DEF IInv, Sound, CoverageMatchesCount, Covered, CoveredBy
  <1> QED
    BY <1>1, <1>2, InitStep, PTL DEF RSpec

\* What the abstraction makes of a reassembler.
MessageOf(r) ==
    IF r.active
    THEN <<r.message_id, r.total_size, r.terminator_flags, r.ack_required>>
    ELSE <<>>
BytesOf(r) == [p \in CoveredBy(r) |-> r.data[p]]
EndsOf(r) ==
    (IF r.seen_start THEN {"FRAGMENT_START"} ELSE {})
    \cup (IF r.seen_end THEN {"FRAGMENT_END"} ELSE {})

LEMMA WellFormedIsValid ==
  ASSUME NEW h \in Fragment
  PROVE  Assembly!WellFormed(h) <=> ~invalid(h)
  BY ReassemblerAssumption, FragmentAssumption DEF Assembly!WellFormed, invalid

LEMMA FitsMeans ==
  ASSUME NEW h
  PROVE  Assembly!Fits(h) <=>
           /\ reassembler.active => same_message(reassembler, h)
           /\ \A p \in Carried(h) \cap CoveredBy(reassembler) :
                  reassembler.data[p] = h.content[p]
  <1>1. /\ DOMAIN BytesOf(reassembler) = CoveredBy(reassembler)
        /\ \A p \in CoveredBy(reassembler) : BytesOf(reassembler)[p] = reassembler.data[p]
    BY DEF BytesOf
  <1>2. MessageOf(reassembler) \in {<<>>, Assembly!Identity(h)} <=>
            (reassembler.active => same_message(reassembler, h))
    <2>1. <<h.message_id, h.total_size, terminator_flags(h), ack_required(h)>> # <<>>
      OBVIOUS
    <2> QED
      BY <2>1 DEF MessageOf, Assembly!Identity, same_message, terminator_flags,
                  ack_required
  <1>3. Assembly!Fits(h) <=>
          /\ MessageOf(reassembler) \in {<<>>, Assembly!Identity(h)}
          /\ \A p \in Carried(h) \cap DOMAIN BytesOf(reassembler) :
                 BytesOf(reassembler)[p] = h.content[p]
    BY DEF Assembly!Fits, Assembly!NoMessage, Assembly!Places, Carried, MessageOf,
           BytesOf, Covered, CoveredBy
  <1> QED
    BY <1>1, <1>2, <1>3

\* Storing a fragment is taking it.
LEMMA TakenIsTake ==
  ASSUME IInv, NEW h \in Fragment, NEW out,
         Taken(reassembler, h, out), reassembler' = out.r, result' = out.result
  PROVE  Assembly!Take(h)
  <1> DEFINE r == reassembler
             f == out.r
  <1>1. Assembly!WellFormed(h) /\ Assembly!Fits(h)
    BY WellFormedIsValid, FitsMeans DEF Taken
  <1>2. MessageOf(f) = Assembly!Identity(h)
    BY DEF Taken, MessageOf, same_message, Assembly!Identity, terminator_flags,
           ack_required
  <1>3. /\ DOMAIN BytesOf(r) = CoveredBy(r) /\ DOMAIN BytesOf(f) = CoveredBy(f)
        /\ \A p \in CoveredBy(r) : BytesOf(r)[p] = r.data[p]
    BY DEF BytesOf
  <1>4. BytesOf(f) = [p \in DOMAIN BytesOf(r) \cup Assembly!Places(h) |->
                         IF p \in DOMAIN BytesOf(r) THEN BytesOf(r)[p] ELSE h.content[p]]
    <2>1. CoveredBy(f) = DOMAIN BytesOf(r) \cup Assembly!Places(h)
      BY <1>3 DEF Taken, Assembly!Places, Carried
    <2>2. \A p \in CoveredBy(f) :
              f.data[p] = IF p \in DOMAIN BytesOf(r) THEN BytesOf(r)[p] ELSE h.content[p]
      BY <1>3 DEF Taken
    <2> QED
      BY <2>1, <2>2 DEF BytesOf
  <1>5. EndsOf(f) = EndsOf(r) \cup (h.flags \cap Assembly!Both)
    BY Zenon DEF Taken, EndsOf, Assembly!Both
  <1>6. EndsOf(f) = {"FRAGMENT_START", "FRAGMENT_END"} <=> f.seen_start /\ f.seen_end
    BY DEF EndsOf
  <1>7. out.result =
          IF DOMAIN BytesOf(f) = 0 .. h.total_size - 1 /\ EndsOf(f) = Assembly!Both
          THEN "COMPLETE"
          ELSE IF DOMAIN BytesOf(f) = DOMAIN BytesOf(r) THEN "DUPLICATE" ELSE "ACCEPTED"
    BY <1>3, <1>6 DEF Taken, Assembly!Both
  <1> DEFINE g == reassembler'
  <1>8. /\ MessageOf(g) = Assembly!Identity(h)
        /\ BytesOf(g) =
             [p \in DOMAIN BytesOf(r) \cup Assembly!Places(h) |->
                 IF p \in DOMAIN BytesOf(r) THEN BytesOf(r)[p] ELSE h.content[p]]
        /\ EndsOf(g) = EndsOf(r) \cup (h.flags \cap Assembly!Both)
        /\ result' =
             IF DOMAIN BytesOf(g) = 0 .. h.total_size - 1 /\ EndsOf(g) = Assembly!Both
             THEN "COMPLETE"
             ELSE IF DOMAIN BytesOf(g) = DOMAIN BytesOf(r) THEN "DUPLICATE" ELSE "ACCEPTED"
    BY <1>2, <1>4, <1>5, <1>7, Zenon
  <1> QED
    BY <1>1, <1>8, Zenon DEF Assembly!Take, MessageOf, BytesOf, EndsOf, Covered, CoveredBy

\* The word-wise bitmap, its fast path and its partial clearing are plain
\* assembly of a set of bytes: whatever arrives, in whatever order,
\* spw_fragment_reassembler_push answers and keeps what PacketAssembly does,
\* for every word width, buffer size and set of fragments.
THEOREM ReassemblyIsAssembly == RSpec => ImplementsAssembly
  <1>1. RInit => Assembly!AInit
    <2> SUFFICES ASSUME RInit PROVE Assembly!AInit
      OBVIOUS
    <2>1. Sound(reassembler) /\ ~reassembler.active
      BY InitStep DEF RInit, IInv, spw_fragment_reassembler_init
    <2>2. CoveredBy(reassembler) = {}
      BY <2>1, IdleClean
    <2> QED
      BY <2>1, <2>2 DEF RInit, Sound, Assembly!AInit, Assembly!NoMessage, Assembly!Empty,
                        Covered, CoveredBy
  <1>2. IInv /\ [RNext]_rvars => IInv'
    BY InvariantStep
  <1>3. IInv /\ [RNext]_rvars => [Assembly!ANext]_(Assembly!avars)
    <2> SUFFICES ASSUME IInv, [RNext]_rvars
                 PROVE  [Assembly!ANext]_(Assembly!avars)
      OBVIOUS
    <2>1. CASE Reset
      <3>1. /\ ~reassembler'.active /\ CoveredBy(reassembler') = {}
            /\ ~reassembler'.seen_start /\ ~reassembler'.seen_end /\ result' = "none"
        BY <2>1, ResetStep DEF Reset, IInv
      <3>2. Assembly!Forget
        BY <3>1 DEF Assembly!Forget, Assembly!NoMessage, Assembly!Empty, Covered, CoveredBy
      <3> QED
        BY <3>2 DEF Assembly!ANext, Arriving
    <2>2. ASSUME NEW h \in Fragment, Push(h)
          PROVE  Assembly!ANext
      <3>1. PICK out : out = spw_fragment_reassembler_push(reassembler, h)
        OBVIOUS
      <3>2. reassembler' = out.r /\ result' = out.result
        BY <2>2, <3>1 DEF Push
      <3>3. CASE Ignored(reassembler, h, out)
        <4>1. Assembly!Ignore(h)
          BY <3>2, <3>3, WellFormedIsValid DEF Ignored, Assembly!Ignore, Covered
        <4> QED
          BY <4>1 DEF Assembly!ANext, Arriving
      <3>4. CASE Refused(reassembler, h, out)
        <4>1. Assembly!WellFormed(h) /\ ~Assembly!Fits(h)
          BY <3>4, WellFormedIsValid, FitsMeans DEF Refused
        <4>2. Assembly!Reject(h)
          BY <3>2, <3>4, <4>1 DEF Refused, Assembly!Reject, Covered
        <4> QED
          BY <4>2 DEF Assembly!ANext, Arriving
      <3>5. CASE Taken(reassembler, h, out)
        BY <3>2, <3>5, TakenIsTake DEF Assembly!ANext, Arriving
      <3> QED
        BY <3>1, <3>3, <3>4, <3>5, PushStep DEF IInv
    <2>3. CASE UNCHANGED rvars
      BY <2>3 DEF rvars, Assembly!avars, Covered
    <2> QED
      BY <2>1, <2>2, <2>3 DEF RNext
  <1> QED
    BY <1>1, <1>2, <1>3, InitStep, PTL DEF RSpec, ImplementsAssembly, Assembly!ASpec
=============================================================================
