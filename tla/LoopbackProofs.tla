--------------------------- MODULE LoopbackProofs ---------------------------
(***************************************************************************)
(* The loopback rings are bounded FIFO queues, whatever their depths, their *)
(* items and the bound of the counters.  The inductive invariant is         *)
(* RingsConsistent, ring by ring; three lemmas say what put, take and empty *)
(* do to a consistent ring and to the sequence it stands for.               *)
(***************************************************************************)
EXTENDS Loopback, SequenceTheorems, TLAPS

\* Indices that have run at most once past the end of an array come back by
\* one subtraction.
LEMMA Wrap ==
    ASSUME NEW d \in Nat \ {0}, NEW x \in 0 .. 2 * d - 1
    PROVE  wrap(x, d) = IF x < d THEN x ELSE x - d
  BY DEF wrap

\* RingsConsistent for one ring.
Consistent(q, Item, d) ==
    /\ q \in Ring(Item, d)
    /\ q.tail = wrap(q.head + q.count, d)
    /\ \A i \in 1 .. q.count : Contents(q, d)[i] \in Item

\* A consistent ring stands for a sequence of items, no longer than the ring.
LEMMA ContentsType ==
    ASSUME NEW d \in Nat \ {0}, NEW Item, NEW q, Consistent(q, Item, d)
    PROVE  /\ Contents(q, d) \in Seq(Item)
           /\ Len(Contents(q, d)) = q.count
           /\ q.count \in 0 .. d
  <1>1. q.count \in 0 .. d
    BY DEF Consistent, Ring
  <1>2. Contents(q, d) \in [1 .. q.count -> Item]
    BY <1>1, Zenon DEF Consistent, Contents
  <1>3. QED
    BY <1>1, <1>2

\* An empty ring is consistent and stands for the empty sequence: what
\* clear_queues and loopback_construct leave.
LEMMA EmptyRing ==
    ASSUME NEW d \in Nat \ {0}, NEW Item
    PROVE  /\ Consistent(empty(d), Item, d)
           /\ Contents(empty(d), d) = <<>>
  <1>1. empty(d) \in Ring(Item, d)
    BY DEF empty, Ring
  <1>2. wrap(0 + 0, d) = 0
    BY Wrap
  <1>3. Contents(empty(d), d) = <<>>
    BY DEF Contents, empty
  <1>4. QED
    BY <1>1, <1>2, <1>3 DEF Consistent, empty

\* A consistent ring, field by field, with its tail where the wrap puts it.
LEMMA RingFields ==
    ASSUME NEW d \in Nat \ {0}, NEW Item, NEW q, Consistent(q, Item, d)
    PROVE  \E s \in [0 .. d - 1 -> Item \cup {Zero}],
              h \in 0 .. d - 1, t \in 0 .. d - 1, n \in 0 .. d :
              /\ q = [slots |-> s, head |-> h, tail |-> t, count |-> n]
              /\ t = IF h + n < d THEN h + n ELSE h + n - d
              /\ \A i \in 1 .. n : Contents(q, d)[i] \in Item
  <1>1. PICK s \in [0 .. d - 1 -> Item \cup {Zero}],
             h \in 0 .. d - 1, t \in 0 .. d - 1, n \in 0 .. d :
             q = [slots |-> s, head |-> h, tail |-> t, count |-> n]
    BY DEF Consistent, Ring
  <1>2. t = wrap(h + n, d)
    BY <1>1 DEF Consistent
  <1>3. wrap(h + n, d) = IF h + n < d THEN h + n ELSE h + n - d
    BY Wrap
  <1>4. \A i \in 1 .. n : Contents(q, d)[i] \in Item
    BY <1>1 DEF Consistent
  <1>5. QED
    BY <1>1, <1>2, <1>3, <1>4, Zenon

\* Putting an item into a ring that is not full appends it to the sequence.
LEMMA PutRing ==
    ASSUME NEW d \in Nat \ {0}, NEW Item, NEW q, Consistent(q, Item, d),
           q.count # d, NEW x \in Item
    PROVE  /\ Consistent(put(q, x, d), Item, d)
           /\ Contents(put(q, x, d), d) = Append(Contents(q, d), x)
           /\ Len(Contents(q, d)) < d
  <1> DEFINE r == put(q, x, d)
  <1>1. PICK s \in [0 .. d - 1 -> Item \cup {Zero}],
             h \in 0 .. d - 1, t \in 0 .. d - 1, n \in 0 .. d :
             /\ q = [slots |-> s, head |-> h, tail |-> t, count |-> n]
             /\ t = IF h + n < d THEN h + n ELSE h + n - d
             /\ \A i \in 1 .. n : Contents(q, d)[i] \in Item
    BY RingFields
  <1>2. n \in 0 .. d - 1
    BY <1>1
  <1>3. wrap(t + 1, d) = IF t + 1 < d THEN t + 1 ELSE t + 1 - d
    <2>1. t + 1 \in 0 .. 2 * d - 1
      OBVIOUS
    <2>2. QED
      BY <2>1, Wrap
  <1>4. r = [slots |-> [s EXCEPT ![t] = x], head |-> h,
             tail |-> wrap(t + 1, d), count |-> n + 1]
    BY <1>1 DEF put
  <1> HIDE DEF r
  <1>5. r \in Ring(Item, d)
    <2>1. wrap(t + 1, d) \in 0 .. d - 1
      BY <1>1, <1>3
    <2>2. [s EXCEPT ![t] = x] \in [0 .. d - 1 -> Item \cup {Zero}]
      BY <1>1
    <2>3. n + 1 \in 0 .. d
      BY <1>2
    <2>4. QED
      BY <2>1, <2>2, <2>3, <1>4 DEF Ring
  <1>6. r.tail = wrap(r.head + r.count, d)
    <2>1. wrap(h + (n + 1), d)
            = IF h + (n + 1) < d THEN h + (n + 1) ELSE h + (n + 1) - d
      <3>1. h + (n + 1) \in 0 .. 2 * d - 1
        BY <1>2
      <3>2. QED
        BY <3>1, Wrap
    <2>2. wrap(h + (n + 1), d) = wrap(t + 1, d)
      BY <2>1, <1>1, <1>2, <1>3
    <2>3. QED
      BY <2>2, <1>4
  <1>7. ASSUME NEW i \in 1 .. n + 1
        PROVE  Contents(r, d)[i] = IF i = n + 1 THEN x ELSE Contents(q, d)[i]
    <2>1. h + i - 1 \in 0 .. 2 * d - 1
      BY <1>2
    <2>2. wrap(h + i - 1, d) = IF h + i - 1 < d THEN h + i - 1 ELSE h + i - 1 - d
      BY <2>1, Wrap
    <2>3. wrap(h + i - 1, d) \in 0 .. d - 1
      BY <2>1, <2>2
    <2>4. wrap(h + i - 1, d) = t <=> i = n + 1
      BY <2>2, <1>1, <1>2
    <2>5. Contents(r, d)[i] = [s EXCEPT ![t] = x][wrap(h + i - 1, d)]
      BY <1>2, <1>4 DEF Contents
    <2>6. i # n + 1 => Contents(q, d)[i] = s[wrap(h + i - 1, d)]
      BY <1>1, <1>2 DEF Contents
    <2>7. QED
      BY <2>3, <2>4, <2>5, <2>6
  <1>8. /\ Contents(q, d) \in Seq(Item)
        /\ Len(Contents(q, d)) = n
    BY <1>1, ContentsType
  <1>9. \A i \in 1 .. r.count : Contents(r, d)[i] \in Item
    <2>1. \A i \in 1 .. n : Contents(q, d)[i] \in Item
      BY <1>1
    <2>2. ASSUME NEW i \in 1 .. n + 1
          PROVE  Contents(r, d)[i] \in Item
      <3>1. i = n + 1 \/ i \in 1 .. n
        BY <1>2
      <3>2. QED
        BY <3>1, <2>1, <1>7
    <2>3. r.count = n + 1
      BY <1>4
    <2>4. QED
      BY <2>2, <2>3
  <1>10. Consistent(r, Item, d)
    BY <1>5, <1>6, <1>9 DEF Consistent
  <1>11. Contents(r, d) = Append(Contents(q, d), x)
    <2>1. /\ Contents(r, d) \in Seq(Item)
          /\ Len(Contents(r, d)) = n + 1
      BY <1>4, <1>10, ContentsType
    <2>2. /\ Append(Contents(q, d), x) \in Seq(Item)
          /\ Len(Append(Contents(q, d), x)) = n + 1
          /\ \A i \in 1 .. n : Append(Contents(q, d), x)[i] = Contents(q, d)[i]
          /\ Append(Contents(q, d), x)[n + 1] = x
      BY <1>8, AppendProperties
    <2>3. \A i \in 1 .. n + 1 : Contents(r, d)[i] = Append(Contents(q, d), x)[i]
      BY <1>2, <1>7, <2>2
    <2>4. QED
      BY <2>1, <2>2, <2>3, SeqEqual
  <1>12. QED
    BY <1>2, <1>8, <1>10, <1>11 DEF r

\* Taking from a ring that is not empty gives out the first item of the
\* sequence, which loses it.
LEMMA TakeRing ==
    ASSUME NEW d \in Nat \ {0}, NEW Item, NEW q, Consistent(q, Item, d),
           q.count # 0
    PROVE  /\ Consistent(take(q, d), Item, d)
           /\ Contents(q, d) # <<>>
           /\ Contents(take(q, d), d) = Tail(Contents(q, d))
           /\ q.slots[q.head] = Head(Contents(q, d))
  <1> DEFINE r == take(q, d)
  <1>1. PICK s \in [0 .. d - 1 -> Item \cup {Zero}],
             h \in 0 .. d - 1, t \in 0 .. d - 1, n \in 0 .. d :
             /\ q = [slots |-> s, head |-> h, tail |-> t, count |-> n]
             /\ t = IF h + n < d THEN h + n ELSE h + n - d
             /\ \A i \in 1 .. n : Contents(q, d)[i] \in Item
    BY RingFields
  <1>2. n \in 1 .. d
    BY <1>1
  <1>3. PICK g \in 0 .. d - 1 :
             /\ g = wrap(h + 1, d)
             /\ g = IF h + 1 < d THEN h + 1 ELSE h + 1 - d
    <2>1. h + 1 \in 0 .. 2 * d - 1
      OBVIOUS
    <2>2. wrap(h + 1, d) = IF h + 1 < d THEN h + 1 ELSE h + 1 - d
      BY <2>1, Wrap
    <2>3. QED
      BY <2>2
  <1>4. r = [slots |-> s, head |-> g, tail |-> t, count |-> n - 1]
    BY <1>1, <1>3 DEF take
  <1> HIDE DEF r
  <1>5. r \in Ring(Item, d)
    BY <1>1, <1>2, <1>4 DEF Ring
  <1>6. r.tail = wrap(r.head + r.count, d)
    <2>1. wrap(g + (n - 1), d)
            = IF g + (n - 1) < d THEN g + (n - 1) ELSE g + (n - 1) - d
      <3>1. g + (n - 1) \in 0 .. 2 * d - 1
        BY <1>2
      <3>2. QED
        BY <3>1, Wrap
    <2>2. wrap(g + (n - 1), d) = t
      <3>1. t = IF h + n < d THEN h + n ELSE h + n - d
        BY <1>1
      <3>2. CASE h + 1 < d
        <4>1. g + (n - 1) = h + n
          BY <1>2, <1>3, <3>2
        <4>2. QED
          BY <2>1, <3>1, <4>1
      <3>3. CASE ~(h + 1 < d)
        <4>1. h = d - 1 /\ g = 0
          BY <1>3, <3>3
        <4>2. t = n - 1 /\ n - 1 < d
          BY <1>2, <3>1, <4>1
        <4>3. QED
          BY <1>2, <2>1, <4>1, <4>2
      <3>4. QED
        BY <3>2, <3>3
    <2>3. QED
      BY <2>2, <1>4
  <1>7. ASSUME NEW i \in 1 .. n - 1
        PROVE  Contents(r, d)[i] = Contents(q, d)[i + 1]
    <2>1. /\ h + (i + 1) - 1 \in 0 .. 2 * d - 1
          /\ g + i - 1 \in 0 .. 2 * d - 1
      BY <1>2, <1>3
    <2>2. wrap(h + (i + 1) - 1, d)
            = IF h + (i + 1) - 1 < d THEN h + (i + 1) - 1 ELSE h + (i + 1) - 1 - d
      BY <2>1, Wrap
    <2>3. wrap(g + i - 1, d) = IF g + i - 1 < d THEN g + i - 1 ELSE g + i - 1 - d
      BY <2>1, Wrap
    <2>4. wrap(g + i - 1, d) = wrap(h + (i + 1) - 1, d)
      BY <2>1, <2>2, <2>3, <1>2, <1>3
    <2>5. Contents(r, d)[i] = s[wrap(g + i - 1, d)]
      BY <1>2, <1>4 DEF Contents
    <2>6. Contents(q, d)[i + 1] = s[wrap(h + (i + 1) - 1, d)]
      BY <1>1, <1>2 DEF Contents
    <2>7. QED
      BY <2>4, <2>5, <2>6
  <1>8. /\ Contents(q, d) \in Seq(Item)
        /\ Len(Contents(q, d)) = n
        /\ Contents(q, d) # <<>>
    BY <1>1, <1>2, ContentsType
  <1>9. \A i \in 1 .. r.count : Contents(r, d)[i] \in Item
    <2>1. \A i \in 1 .. n : Contents(q, d)[i] \in Item
      BY <1>1
    <2>2. ASSUME NEW i \in 1 .. n - 1
          PROVE  Contents(r, d)[i] \in Item
      <3>1. i + 1 \in 1 .. n
        BY <1>2
      <3>2. QED
        BY <3>1, <2>1, <1>7
    <2>3. r.count = n - 1
      BY <1>4
    <2>4. QED
      BY <2>2, <2>3
  <1>10. Consistent(r, Item, d)
    BY <1>5, <1>6, <1>9 DEF Consistent
  <1>11. Contents(r, d) = Tail(Contents(q, d))
    <2>1. /\ Contents(r, d) \in Seq(Item)
          /\ Len(Contents(r, d)) = n - 1
      BY <1>4, <1>10, ContentsType
    <2>2. /\ Tail(Contents(q, d)) \in Seq(Item)
          /\ Len(Tail(Contents(q, d))) = n - 1
          /\ \A i \in 1 .. n - 1 : Tail(Contents(q, d))[i] = Contents(q, d)[i + 1]
      BY <1>2, <1>8, HeadTailProperties
    <2>3. \A i \in 1 .. n - 1 : Contents(r, d)[i] = Tail(Contents(q, d))[i]
      BY <1>7, <2>2
    <2>4. QED
      BY <2>1, <2>2, <2>3, SeqEqual
  <1>12. q.slots[q.head] = Head(Contents(q, d))
    <2>1. wrap(h + 1 - 1, d) = h
      BY <1>1, Wrap
    <2>2. Contents(q, d)[1] = s[wrap(h + 1 - 1, d)]
      BY <1>1, <1>2 DEF Contents
    <2>3. QED
      BY <2>1, <2>2, <1>1, <1>8
  <1>13. QED
    BY <1>8, <1>10, <1>11, <1>12 DEF r

-----------------------------------------------------------------------------
(* The rings of the backend                                                 *)

\* RingsConsistent is Consistent of each ring.
LEMMA RingByRing ==
    RingsConsistent <=> /\ Consistent(packets, Packet, PACKET_QUEUE_DEPTH)
                        /\ Consistent(time_codes, TimeCode, TIME_CODE_QUEUE_DEPTH)
  BY DEF RingsConsistent, Consistent

\* Every call leaves the packet ring as it was, clears it, puts a packet into
\* it or takes one out, as BoundedFifo allows.
LEMMA PacketStep ==
    ASSUME RingsConsistent, [Next]_vars
    PROVE  /\ Consistent(packets', Packet, PACKET_QUEUE_DEPTH)
           /\ [PacketFifo!FNext]_(PacketFifo!fvars)
  <1> DEFINE D == PACKET_QUEUE_DEPTH
  <1>1. D \in Nat \ {0} /\ Consistent(packets, Packet, D)
    BY LoopbackAssumption, RingByRing
  <1>2. CASE /\ UNCHANGED <<packets, packet>>
    BY <1>1, <1>2 DEF PacketFifo!fvars
  <1>3. CASE packets' = empty(D) /\ UNCHANGED packet
    BY <1>1, <1>3, EmptyRing DEF PacketFifo!FNext, PacketFifo!Clear
  <1>4. ASSUME NEW p \in Packet, loopback_send(p)
        PROVE  /\ Consistent(packets', Packet, D)
               /\ PacketFifo!Put
    BY <1>1, <1>4, PutRing DEF loopback_send, PacketFifo!Put
  <1>5. ASSUME NEW c \in Capacity, loopback_receive(c)
        PROVE  /\ Consistent(packets', Packet, D)
               /\ PacketFifo!Take
    BY <1>1, <1>5, TakeRing DEF loopback_receive, PacketFifo!Take
  <1>6. QED
    BY <1>2, <1>3, <1>4, <1>5
       DEF Next, vars, loopback_construct, loopback_destroy, loopback_start,
           loopback_stop, loopback_reset, loopback_send_time_code,
           loopback_receive_time_code, loopback_clear_statistics,
           PacketFifo!FNext

\* The same for the time codes.
LEMMA TimeCodeStep ==
    ASSUME RingsConsistent, [Next]_vars
    PROVE  /\ Consistent(time_codes', TimeCode, TIME_CODE_QUEUE_DEPTH)
           /\ [TimeCodeFifo!FNext]_(TimeCodeFifo!fvars)
  <1> DEFINE D == TIME_CODE_QUEUE_DEPTH
  <1>1. D \in Nat \ {0} /\ Consistent(time_codes, TimeCode, D)
    BY LoopbackAssumption, RingByRing
  <1>2. CASE UNCHANGED <<time_codes, time_code>>
    BY <1>1, <1>2 DEF TimeCodeFifo!fvars
  <1>3. CASE time_codes' = empty(D) /\ UNCHANGED time_code
    BY <1>1, <1>3, EmptyRing DEF TimeCodeFifo!FNext, TimeCodeFifo!Clear
  <1>4. ASSUME NEW t \in TimeCode, loopback_send_time_code(t)
        PROVE  /\ Consistent(time_codes', TimeCode, D)
               /\ TimeCodeFifo!Put
    BY <1>1, <1>4, PutRing DEF loopback_send_time_code, TimeCodeFifo!Put
  <1>5. ASSUME loopback_receive_time_code
        PROVE  /\ Consistent(time_codes', TimeCode, D)
               /\ TimeCodeFifo!Take
    BY <1>1, <1>5, TakeRing DEF loopback_receive_time_code, TimeCodeFifo!Take
  <1>6. QED
    BY <1>2, <1>3, <1>4, <1>5
       DEF Next, vars, loopback_construct, loopback_destroy, loopback_start,
           loopback_stop, loopback_reset, loopback_send, loopback_receive,
           loopback_clear_statistics, TimeCodeFifo!FNext

\* head, tail and count of both rings always agree.
THEOREM RingsStayConsistent == Spec => []RingsConsistent
  <1>1. Init => RingsConsistent
    BY LoopbackAssumption, EmptyRing, RingByRing DEF Init
  <1>2. RingsConsistent /\ [Next]_vars => RingsConsistent'
    <2> SUFFICES ASSUME RingsConsistent, [Next]_vars
                 PROVE  RingsConsistent'
      OBVIOUS
    <2>1. /\ Consistent(packets', Packet, PACKET_QUEUE_DEPTH)
          /\ Consistent(time_codes', TimeCode, TIME_CODE_QUEUE_DEPTH)
      BY PacketStep, TimeCodeStep
    <2>2. QED
      BY <2>1 DEF RingsConsistent, Consistent
  <1>3. QED
    BY <1>1, <1>2, PTL DEF Spec

\* What loopback_receive gives out is what loopback_send accepted, in order
\* and once, for every depth of the ring.
THEOREM PacketRingIsFifo == Spec => ImplementsPacketFifo
  <1>1. Init => PacketFifo!FInit
    BY LoopbackAssumption, EmptyRing DEF Init, PacketFifo!FInit
  <1>2. RingsConsistent /\ [Next]_vars => [PacketFifo!FNext]_(PacketFifo!fvars)
    BY PacketStep
  <1>3. QED
    BY <1>1, <1>2, RingsStayConsistent, PTL
       DEF Spec, ImplementsPacketFifo, PacketFifo!FSpec

\* The same for loopback_send_time_code and loopback_receive_time_code.
THEOREM TimeCodeRingIsFifo == Spec => ImplementsTimeCodeFifo
  <1>1. Init => TimeCodeFifo!FInit
    BY LoopbackAssumption, EmptyRing DEF Init, TimeCodeFifo!FInit
  <1>2. RingsConsistent /\ [Next]_vars => [TimeCodeFifo!FNext]_(TimeCodeFifo!fvars)
    BY TimeCodeStep
  <1>3. QED
    BY <1>1, <1>2, RingsStayConsistent, PTL
       DEF Spec, ImplementsTimeCodeFifo, TimeCodeFifo!FSpec

\* Both rings at once: across stops, restarts, resets and any number of wraps,
\* every packet and time code comes back once and in the order it was sent.
THEOREM RingsAreFifos == Spec => ImplementsFifos
  BY PacketRingIsFifo, TimeCodeRingIsFifo, PTL DEF ImplementsFifos
=============================================================================
