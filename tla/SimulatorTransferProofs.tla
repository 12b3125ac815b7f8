---------------------- MODULE SimulatorTransferProofs ----------------------
(* What a step of SimulatorLink may do to the items and the packet         *)
(* counters of the two endpoints, for every number of ports and links,     *)
(* every queue depth and every counter width.                              *)
EXTENDS SimulatorLinkProofs

\* An endpoint nobody is attached to is not started and holds nothing:
\* detach_backend leaves it reset, and nothing is sent to it.
DetachedEmpty ==
    \A e \in Endpoint : ~ep[e].attached => ~ep[e].started /\ ep[e].queue = NoItems

\* What a step does to the queue of endpoint x: nothing, empty it, add an item
\* or take the oldest one.
QueueKept(x) == ep'[x].queue = ep[x].queue
Added(x) == \E k \in Kind, i \in Nat : ep'[x].queue = [ep[x].queue EXCEPT ![k] = Append(@, i)]
Removed(x) ==
    \E k \in Kind : /\ Len(ep[x].queue[k]) # 0
                    /\ ep'[x].queue = [ep[x].queue EXCEPT ![k] = Tail(@)]

\* A transfer that ends adds an item at an available peer, or takes one from
\* the port's own queue, or touches no endpoint.
LEMMA FinishMoves ==
  ASSUME TypeOK, NEW p \in Port, Open(p), NEW c \in Call, Finish(p, c)
  PROVE  /\ \A x \in Endpoint : /\ ep'[x].attached = ep[x].attached
                                /\ ep'[x].started = ep[x].started
         /\ \A x \in Endpoint : x # local(p) /\ x # peer(local(p)) => QueueKept(x)
         /\ QueueKept(local(p)) \/ (Removed(local(p)) /\ QueueKept(peer(local(p))))
         /\ \/ QueueKept(peer(local(p)))
            \/ (Added(peer(local(p))) /\ ep[peer(local(p))].attached)
  <1>0. local(p) \in Endpoint /\ peer(local(p)) \in Endpoint /\ peer(local(p)) # local(p)
    BY LocalFacts, PeerFacts, Zenon
  <1>1. CASE Enqueue(p, c) /\ ep[peer(local(p))].attached
    <2>1. \A x \in Endpoint :
             /\ ep'[x].attached = ep[x].attached
             /\ ep'[x].started = ep[x].started
             /\ ep'[x].queue = IF x = peer(local(p))
                               THEN [ep[x].queue EXCEPT ![c.kind] = Append(@, c.item)]
                               ELSE ep[x].queue
      BY <1>1, EnqueueEffect, Zenon
    <2>2. c.kind \in Kind /\ c.item \in Nat
      BY DEF Call
    <2>3. Added(peer(local(p)))
      BY <1>0, <2>1, <2>2, Zenon DEF Added
    <2> QED
      BY <1>0, <1>1, <2>1, <2>3, Zenon DEF QueueKept
  <1>2. CASE Dequeue(p, c) /\ Len(ep[local(p)].queue[c.kind]) # 0
    <2>1. \A x \in Endpoint :
             /\ ep'[x].attached = ep[x].attached
             /\ ep'[x].started = ep[x].started
             /\ ep'[x].queue = IF x = local(p)
                               THEN [ep[x].queue EXCEPT ![c.kind] = Tail(@)]
                               ELSE ep[x].queue
      BY <1>2, DequeueEffect, Zenon
    <2>2. c.kind \in Kind
      BY DEF Call
    <2>3. Removed(local(p))
      BY <1>0, <1>2, <2>1, <2>2, Zenon DEF Removed
    <2> QED
      BY <1>0, <2>1, <2>3, Zenon DEF QueueKept
  <1>3. CASE ep' = ep
    BY <1>0, <1>3, Zenon DEF QueueKept
  <1> QED
    BY <1>1, <1>2, <1>3
      DEF Finish, simulator_send, simulator_receive, send_outcome, receive_outcome,
          Local, Peer, peer_available

\* Every step keeps endpoints without a port empty.
LEMMA DetachedStep ==
  ASSUME Inv, DetachedEmpty, LinkStep
  PROVE  DetachedEmpty'
  <1>0. TypeOK
    BY DEF Inv
  <1>1. \A x \in Endpoint : ep[x].attached \in BOOLEAN /\ ep[x].started \in BOOLEAN
    BY <1>0 DEF TypeOK, EndpointState
  <1> SUFFICES ASSUME NEW x \in Endpoint, ~ep'[x].attached
               PROVE  ~ep'[x].started /\ ep'[x].queue = NoItems
    BY DEF DetachedEmpty
  <1>2. ~ep[x].attached => ~ep[x].started /\ ep[x].queue = NoItems
    BY DEF DetachedEmpty
  <1>3. CASE UNCHANGED vars \/ Nothing
    BY <1>2, <1>3 DEF vars, Nothing
  <1>4. ASSUME NEW p \in Port, OpenStep(p)
        PROVE  ~ep'[x].started /\ ep'[x].queue = NoItems
    <2>1. OpenedAt(p, x)
      BY <1>0, <1>4, OpenEffect, Zenon DEF OpenStep
    <2> QED
      BY <1>1, <1>2, <2>1 DEF OpenedAt
  <1>5. ASSUME NEW p \in Port, spw_port_close(p)
        PROVE  ~ep'[x].started /\ ep'[x].queue = NoItems
    <2>1. /\ ep'[x].attached = (~CloseResets(p, x) /\ ep[x].attached)
          /\ ep'[x].started = (~CloseResets(p, x) /\ ep[x].started)
          /\ ep'[x].queue = IF CloseResets(p, x) THEN NoItems ELSE ep[x].queue
      BY <1>0, <1>5, CloseEffect, Zenon DEF spw_port_close
    <2> QED
      BY <1>1, <1>2, <2>1
  <1>6. ASSUME NEW p \in Port, spw_port_start(p)
        PROVE  ~ep'[x].started /\ ep'[x].queue = NoItems
    <2>1. Open(p) /\ simulator_start(p) /\ ep[local(p)].attached
      BY <1>6 DEF spw_port_start, Inv, RegistryCorrect
    <2>2. /\ ep'[x].attached = ep[x].attached
          /\ ep'[x].started = (ep[x].started \/ x = local(p))
          /\ ep'[x].queue = ep[x].queue
      BY <1>0, <2>1, StartEffect, Zenon
    <2> QED
      BY <1>2, <2>1, <2>2, Zenon
  <1>7. ASSUME NEW p \in Port, spw_port_stop(p) \/ spw_port_reset(p)
        PROVE  ~ep'[x].started /\ ep'[x].queue = NoItems
    <2>1. /\ ep'[x].attached = ep[x].attached
          /\ ep'[x].started = (ep[x].started /\ x # local(p))
          /\ ep'[x].queue = ep[x].queue \/ ep'[x].queue = NoItems
      BY <1>0, <1>7, StopEffect, ResetEffect, Zenon DEF spw_port_stop, spw_port_reset
    <2> QED
      BY <1>2, <2>1, Zenon
  <1>8. ASSUME NEW p \in Port, spw_port_clear_statistics(p)
        PROVE  ~ep'[x].started /\ ep'[x].queue = NoItems
    BY <1>0, <1>2, <1>8, ClearStatisticsEffect DEF spw_port_clear_statistics
  <1>9. ASSUME NEW p \in Port, TransferStep(p)
        PROVE  ~ep'[x].started /\ ep'[x].queue = NoItems
    <2>1. PICK c \in Call : Finish(p, c) \/ UNCHANGED ep
      BY <1>9 DEF TransferStep
    <2>2. CASE UNCHANGED ep
      BY <1>2, <2>2
    <2>3. CASE Finish(p, c)
      <3>0. Open(p)
        BY <1>9 DEF TransferStep
      <3>1. /\ ep'[x].attached = ep[x].attached
            /\ ep'[x].started = ep[x].started
            /\ x # local(p) /\ x # peer(local(p)) => QueueKept(x)
            /\ QueueKept(local(p)) \/ Removed(local(p))
            /\ QueueKept(peer(local(p))) \/ ep[peer(local(p))].attached
        BY <1>0, <2>3, <3>0, FinishMoves
      <3>2. x = local(p) => ep[x].attached
        BY <3>0 DEF Inv, RegistryCorrect
      <3> QED
        BY <1>2, <3>1, <3>2 DEF QueueKept
    <2> QED
      BY <2>1, <2>2, <2>3
  <1> QED
    BY <1>3, <1>4, <1>5, <1>6, <1>7, <1>8, <1>9, Zenon DEF LinkStep

\* Initially nobody is attached.
LEMMA InitDetached ==
  ASSUME Init
  PROVE  DetachedEmpty
  BY DEF Init, DetachedEmpty, reset_endpoint

\* Where a queue gets shorter, the other end of the link keeps its attachment,
\* its start and its queue.
LEMMA OwnerStep ==
  ASSUME Inv, DetachedEmpty, LinkStep, NEW e \in Endpoint, NEW k \in Kind,
         Len(ep'[e].queue[k]) < Len(ep[e].queue[k])
  PROVE  Same(peer(e))
  <1>0. TypeOK /\ peer(e) \in Endpoint /\ peer(peer(e)) = e /\ peer(e) # e
    BY PeerFacts DEF Inv
  <1>1. /\ \A x \in Endpoint : ep[x].attached \in BOOLEAN /\ ep[x].started \in BOOLEAN
        /\ ep[e].queue \in [Kind -> Seq(Nat)]
    BY <1>0 DEF TypeOK, EndpointState
  <1>2. ~QueueKept(e) /\ ep[e].queue # NoItems
    <2>1. ASSUME QueueKept(e)
          PROVE  FALSE
      <3>1. Len(ep[e].queue[k]) < Len(ep[e].queue[k])
        BY <2>1 DEF QueueKept
      <3> QED
        BY <1>1, <3>1
    <2>2. ASSUME ep[e].queue = NoItems
          PROVE  FALSE
      <3>1. Len(ep[e].queue[k]) = 0
        BY <2>2 DEF NoItems
      <3>2. ep'[e].queue[k] \in Seq(Nat)
        BY TypeStep DEF Inv, TypeOK, EndpointState
      <3> QED
        BY <3>1, <3>2
    <2> QED
      BY <2>1, <2>2
  <1>3. CASE UNCHANGED vars \/ Nothing
    BY <1>2, <1>3 DEF vars, Nothing, QueueKept
  <1>4. ASSUME NEW p \in Port, OpenStep(p)
        PROVE  FALSE
    <2>1. OpenedAt(p, e) /\ Target(p) \in Endpoint /\ attach_target(p) \in Slot
          /\ (REGISTRY[attach_target(p)].allocated => ~ep[Target(p)].attached)
      BY <1>0, <1>4, OpenEffect, Zenon DEF OpenStep
    <2>2. ~REGISTRY[attach_target(p)].allocated =>
             \A x \in Endpoint : x[1] = attach_target(p) => ~ep[x].attached
      BY <1>0, <1>4, OpenPlace DEF Inv
    <2>3. OpenResets(p, e)
      BY <1>2, <2>1 DEF OpenedAt, QueueKept
    <2>4. Target(p)[1] = attach_target(p) /\ peer(Target(p))[1] = attach_target(p)
      BY DEF Target, peer
    <2>5. ~ep[e].attached
      BY <2>1, <2>2, <2>3, <2>4 DEF OpenResets
    <2> QED
      BY <1>2, <2>5 DEF DetachedEmpty
  <1>5. ASSUME NEW p \in Port, spw_port_close(p)
        PROVE  Same(peer(e))
    <2>1. \A x \in Endpoint :
             /\ ep'[x].attached = (~CloseResets(p, x) /\ ep[x].attached)
             /\ ep'[x].started = (~CloseResets(p, x) /\ ep[x].started)
             /\ ep'[x].queue = IF CloseResets(p, x) THEN NoItems ELSE ep[x].queue
      BY <1>0, <1>5, CloseEffect, Zenon DEF spw_port_close
    <2>2. CloseResets(p, e) /\ ep[e].attached
      BY <1>2, <2>1 DEF QueueKept, DetachedEmpty
    <2>3. e = local(p)
      BY <2>2 DEF CloseResets
    <2>4. CASE ep[peer(e)].attached
      <3>1. ~CloseResets(p, peer(e))
        BY <1>0, <2>3, <2>4 DEF CloseResets
      <3> QED
        BY <1>0, <1>1, <2>1, <3>1, Zenon DEF Same
    <2>5. CASE ~ep[peer(e)].attached
      <3>1. CloseResets(p, peer(e))
        BY <2>3, <2>5 DEF CloseResets
      <3>2. ~ep[peer(e)].started /\ ep[peer(e)].queue = NoItems
        BY <1>0, <2>5 DEF DetachedEmpty
      <3> QED
        BY <1>0, <1>1, <2>1, <2>5, <3>1, <3>2 DEF Same
    <2> QED
      BY <2>4, <2>5
  <1>6. ASSUME NEW p \in Port, spw_port_start(p) \/ spw_port_stop(p) \/ spw_port_reset(p)
        PROVE  Same(peer(e))
    <2>1. \A x \in Endpoint : x # local(p) => Same(x)
      BY <1>0, <1>6, StartSame
    <2> QED
      BY <1>0, <1>2, <2>1 DEF Same, QueueKept
  <1>7. ASSUME NEW p \in Port, spw_port_clear_statistics(p)
        PROVE  FALSE
    BY <1>0, <1>2, <1>7, ClearStatisticsEffect DEF spw_port_clear_statistics, QueueKept
  <1>8. ASSUME NEW p \in Port, TransferStep(p)
        PROVE  Same(peer(e))
    <2>0. Open(p)
      BY <1>8 DEF TransferStep
    <2>1. PICK c \in Call : Finish(p, c) \/ UNCHANGED ep
      BY <1>8 DEF TransferStep
    <2>2. Finish(p, c)
      BY <1>2, <2>1 DEF QueueKept
    <2>3. /\ \A x \in Endpoint : /\ ep'[x].attached = ep[x].attached
                                 /\ ep'[x].started = ep[x].started
          /\ \A x \in Endpoint : x # local(p) /\ x # peer(local(p)) => QueueKept(x)
          /\ QueueKept(local(p)) \/ (Removed(local(p)) /\ QueueKept(peer(local(p))))
          /\ QueueKept(peer(local(p))) \/ Added(peer(local(p)))
      BY <1>0, <2>0, <2>2, FinishMoves
    <2>4. ~Added(e)
      <3> SUFFICES ASSUME NEW j \in Kind, NEW i \in Nat,
                          ep'[e].queue = [ep[e].queue EXCEPT ![j] = Append(@, i)]
                   PROVE  FALSE
        BY Zenon DEF Added
      <3>1. Len(Append(ep[e].queue[j], i)) = Len(ep[e].queue[j]) + 1
        BY <1>1
      <3> QED
        BY <1>1, <3>1
    <2>5. e = local(p) /\ QueueKept(peer(e))
      BY <1>2, <2>3, <2>4
    <2> QED
      BY <1>0, <2>3, <2>5 DEF Same, QueueKept
  <1> QED
    BY <1>3, <1>4, <1>5, <1>6, <1>7, <1>8 DEF LinkStep

\* The invariant and its supplement hold in every reachable state.
LEMMA DetachedAlways == Spec => [](Inv /\ DetachedEmpty)
  <1>1. Init => DetachedEmpty
    BY InitDetached
  <1>2. Inv /\ DetachedEmpty /\ [Next]_vars => DetachedEmpty'
    BY NextCases, DetachedStep
  <1> QED
    BY <1>1, <1>2, Invariance, PTL DEF Spec

\* Nothing that waits at one end of a link is lost by what the other end does:
\* stop, reset, close, open or send there (lose_peer keeps the queues, and
\* detach_backend and attach_backend only clear endpoints that hold nothing).
THEOREM NothingTakenFromAfar == Spec => OnlyOwnerRemoves
  <1> DEFINE Kept == \A e \in Endpoint : \A k \in Kind :
                        Len(ep'[e].queue[k]) < Len(ep[e].queue[k]) =>
                            LET other == peer(e) IN
                            /\ ep'[other].started = ep[other].started
                            /\ ep'[other].attached = ep[other].attached
                            /\ ep'[other].queue = ep[other].queue
  <1>1. Inv /\ DetachedEmpty /\ [Next]_vars => Kept
    BY NextCases, OwnerStep DEF Same
  <1>2. Spec => [][Kept]_vars
    BY <1>1, DetachedAlways, PTL DEF Spec
  <1> QED
    BY <1>2 DEF OnlyOwnerRemoves
-----------------------------------------------------------------------------
(* The packet counters *)

\* Division with remainder, for a modulus that is not a number.
LEMMA Division ==
  ASSUME NEW M \in Nat \ {0}, NEW z \in Int
  PROVE  /\ z % M \in 0 .. M - 1
         /\ \E q \in Int : z = q * M + (z % M)
  <1>1. /\ z = (z \div M) * M + (z % M)
        /\ z \div M \in Int
        /\ z % M \in 0 .. M - 1
    OBVIOUS
  <1> QED
    BY <1>1, Zenon

\* The remainder is unique.
LEMMA Remainder ==
  ASSUME NEW M \in Nat \ {0}, NEW z \in Int, NEW q \in Int, NEW r \in 0 .. M - 1,
         z = q * M + r
  PROVE  z % M = r
  <1> DEFINE s == z % M
  <1>1. PICK k \in Int : z = k * M + s
    BY Division, Zenon
  <1>2. s \in 0 .. M - 1
    BY Division
  <1> DEFINE d == q - k
  <1>3. d \in Int /\ d * M = s - r /\ d * M < M /\ d * M > -M
    BY <1>1, <1>2
  <1>4. d = 0
    <2> HIDE DEF d
    <2>1. ASSUME d >= 1
          PROVE  FALSE
      <3>1. d * M >= 1 * M
        BY <1>3, <2>1
      <3> QED
        BY <1>3, <3>1
    <2>2. ASSUME d <= -1
          PROVE  FALSE
      <3>1. d * M <= (-1) * M
        BY <1>3, <2>2
      <3> QED
        BY <1>3, <3>1
    <2> QED
      BY <1>3, <2>1, <2>2
  <1> QED
    BY <1>1, <1>2, <1>4

\* Multiples of the modulus do not change the remainder.
LEMMA Shift ==
  ASSUME NEW M \in Nat \ {0}, NEW z \in Int, NEW q \in Int
  PROVE  (z + q * M) % M = z % M
  <1>1. PICK k \in Int : z = k * M + (z % M)
    BY Division, Zenon
  <1>2. z + q * M = (k + q) * M + (z % M) /\ k + q \in Int /\ z + q * M \in Int
    BY <1>1
  <1>3. z % M \in 0 .. M - 1
    BY Division
  <1> QED
    BY <1>2, <1>3, Remainder, Zenon

\* A counter that wraps may stand for one that does not wherever only the
\* remainder of a sum matters.
LEMMA Wraps ==
  ASSUME NEW M \in Nat \ {0}, NEW a \in Int, NEW b \in Int
  PROVE  /\ ((a % M) + b) % M = (a + b) % M
         /\ (b - (a % M)) % M = (b - a) % M
  <1> DEFINE r == a % M
  <1>1. PICK q \in Int : a = q * M + r
    BY Division, Zenon
  <1>2. r \in Int
    BY Division
  <1> HIDE DEF r
  <1> DEFINE x == r + b
             y == b - r
  <1>3. /\ x \in Int /\ y \in Int /\ -q \in Int
        /\ a + b = x + q * M /\ b - a = y + (-q) * M
    BY <1>1, <1>2
  <1> HIDE DEF x, y
  <1>4. (x + q * M) % M = x % M /\ (y + (-q) * M) % M = y % M
    BY <1>3, Shift, Zenon
  <1> QED
    BY <1>3, <1>4, Zenon DEF r, x, y

\* The balance of counts t (sent), r (received), d (dropped) and n (queued).
BalanceOf(M, t, r, d, n) == (t - r - d - n) % M

\* Sending, receiving and dropping leave the balance of an endpoint alone.
LEMMA BalanceKept ==
  ASSUME NEW M \in Nat \ {0}, NEW t \in Nat, NEW r \in Nat, NEW d \in Nat, NEW n \in Nat
  PROVE  /\ BalanceOf(M, (t + 1) % M, r, d, n + 1) = BalanceOf(M, t, r, d, n)
         /\ BalanceOf(M, t, (r + 1) % M, d, n - 1) = BalanceOf(M, t, r, d, n)
         /\ BalanceOf(M, t, r, (d + n) % M, 0) = BalanceOf(M, t, r, d, n)
  <1>1. (((t + 1) % M) - r - d - (n + 1)) % M = (t - r - d - n) % M
    <2> DEFINE b == - r - d - (n + 1)
               a == t + 1
               w == a % M
    <2>1. w \in Int /\ a \in Int /\ b \in Int
      BY Division
    <2>2. (w + b) % M = (a + b) % M
      <3> HIDE DEF a, b
      <3> QED
        BY <2>1, Wraps, Zenon
    <2>3. a + b = t - r - d - n /\ w + b = w - r - d - (n + 1)
      BY <2>1
    <2> QED
      BY <2>2, <2>3
  <1>2. (t - ((r + 1) % M) - d - (n - 1)) % M = (t - r - d - n) % M
    <2> DEFINE b == t - d - (n - 1)
               a == r + 1
               w == a % M
    <2>1. w \in Int /\ a \in Int /\ b \in Int
      BY Division
    <2>2. (b - w) % M = (b - a) % M
      <3> HIDE DEF a, b
      <3> QED
        BY <2>1, Wraps, Zenon
    <2>3. b - a = t - r - d - n /\ b - w = t - w - d - (n - 1)
      BY <2>1
    <2> QED
      BY <2>2, <2>3
  <1>3. (t - r - ((d + n) % M) - 0) % M = (t - r - d - n) % M
    <2> DEFINE b == t - r
               a == d + n
               w == a % M
    <2>1. w \in Int /\ a \in Int /\ b \in Int
      BY Division
    <2>2. (b - w) % M = (b - a) % M
      <3> HIDE DEF a, b
      <3> QED
        BY <2>1, Wraps, Zenon
    <2>3. b - a = t - r - d - n /\ b - w = t - r - w - 0
      BY <2>1
    <2> QED
      BY <2>2, <2>3
  <1> QED
    BY <1>1, <1>2, <1>3 DEF BalanceOf

\* What count does to each counter.
LEMMA CountedFacts ==
  ASSUME NEW x \in EndpointState, NEW c \in Counter, NEW n \in Nat, NEW d \in Counter
  PROVE  count(x, c, n).statistics[d] =
            IF d = c THEN (x.statistics[c] + n) % MODULUS[c] ELSE x.statistics[d]
  BY DEF count, EndpointState, Statistics

\* The packets of endpoint x: its counters of them and its queue.
PacketCounter == {"tx_packets", "rx_packets", "dropped_packets"}
SamePackets(y, x) ==
    /\ \A c \in PacketCounter : y.statistics[c] = x.statistics[c]
    /\ y.queue["packet"] = x.queue["packet"]

\* The other end of the link loses no packet and counts none when its peer
\* goes away; a refresh of the link states touches none.
LEMMA LosePeerPackets ==
  ASSUME NEW x \in EndpointState, NEW n \in {0, 1}
  PROVE  SamePackets(lose_peer(x, n), x)
  <1>0. n \in Nat /\ "link_errors" \in Counter
        /\ PacketCounter \subseteq Counter \ {"link_errors"}
    BY DEF Counter, PacketCounter
  <1>1. count(x, "link_errors", n) \in EndpointState
        /\ count(x, "link_errors", n).queue = x.queue
    BY <1>0, CountFacts
  <1>2. \A d \in PacketCounter :
           count(x, "link_errors", n).statistics[d] = x.statistics[d]
    BY <1>0, CountedFacts
  <1> QED
    BY <1>1, <1>2 DEF lose_peer, SamePackets, EndpointState

\* A refresh of the link states touches no packet.
LEMMA RefreshPackets ==
  ASSUME NEW f \in [Endpoint -> EndpointState], NEW s, NEW e \in Endpoint
  PROVE  SamePackets(refresh_link_states(f, s)[e], f[e])
  BY DEF refresh_link_states, SamePackets, EndpointState

\* Where both ends of a link keep their packets, the balance stays.
LEMMA SameBalance ==
  ASSUME NEW e \in Endpoint, SamePackets(ep'[e], ep[e]),
         SamePackets(ep'[peer(e)], ep[peer(e)])
  PROVE  Balance(e)' = Balance(e)
  BY DEF SamePackets, Balance, PacketCounter, peer

\* start and stop touch no packet at either end.
LEMMA StartPackets ==
  ASSUME TypeOK, NEW p \in Port, Open(p), simulator_start(p) \/ simulator_stop(p),
         NEW x \in Endpoint
  PROVE  SamePackets(ep'[x], ep[x])
  <1>0. /\ local(p) \in Endpoint /\ peer(local(p)) \in Endpoint /\ peer(local(p)) # local(p)
        /\ ep \in [Endpoint -> EndpointState]
    BY LocalFacts, PeerFacts, Zenon DEF TypeOK
  <1>1. CASE simulator_start(p)
    <2> DEFINE f == [ep EXCEPT ![local(p)].started = TRUE, ![local(p)].state = "CONNECTING"]
    <2>1. f \in [Endpoint -> EndpointState] /\ SamePackets(f[x], ep[x])
      BY <1>0, Zenon DEF SamePackets, EndpointState, LinkState
    <2>2. SamePackets(refresh_link_states(f, link[p])[x], f[x])
      BY <2>1, RefreshPackets, Zenon
    <2>3. ep'[x] = refresh_link_states(f, link[p])[x]
      BY <1>1 DEF simulator_start
    <2> QED
      BY <2>1, <2>2, <2>3, Zenon DEF SamePackets
  <1>2. CASE simulator_stop(p)
    <2>1. SamePackets(lose_peer(ep[peer(local(p))], 0), ep[peer(local(p))])
      BY <1>0, LosePeerPackets
    <2>2. CASE x = peer(local(p))
      <3>1. ep'[x] = lose_peer(ep[peer(local(p))], 0)
        BY <1>0, <1>2, <2>2 DEF simulator_stop
      <3> QED
        BY <2>1, <2>2, <3>1
    <2>3. CASE x # peer(local(p))
      BY <1>0, <1>2, <2>3, Zenon DEF simulator_stop, SamePackets, EndpointState
    <2> QED
      BY <2>2, <2>3
  <1> QED
    BY <1>1, <1>2

\* reset counts the packets it drops, and touches none at the other end.
LEMMA ResetPackets ==
  ASSUME TypeOK, NEW p \in Port, Open(p), simulator_reset(p), NEW x \in Endpoint
  PROVE  /\ x # local(p) => SamePackets(ep'[x], ep[x])
         /\ x = local(p) =>
              /\ ep'[x].queue["packet"] = << >>
              /\ ep'[x].statistics["tx_packets"] = ep[x].statistics["tx_packets"]
              /\ ep'[x].statistics["rx_packets"] = ep[x].statistics["rx_packets"]
              /\ ep'[x].statistics["dropped_packets"] =
                    (ep[x].statistics["dropped_packets"] + Len(ep[x].queue["packet"]))
                        % MODULUS["dropped_packets"]
  <1>0. /\ local(p) \in Endpoint /\ peer(local(p)) \in Endpoint /\ peer(local(p)) # local(p)
        /\ ep \in [Endpoint -> EndpointState]
    BY LocalFacts, PeerFacts, Zenon DEF TypeOK
  <1>1. CASE x = peer(local(p))
    <2>1. ep'[x] = lose_peer(ep[x], 1)
      BY <1>0, <1>1 DEF simulator_reset
    <2> QED
      BY <1>0, <1>1, <2>1, LosePeerPackets
  <1>2. CASE x # peer(local(p)) /\ x # local(p)
    BY <1>0, <1>2 DEF simulator_reset, SamePackets
  <1>3. CASE x = local(p)
    <2> DEFINE n == Len(ep[x].queue["packet"])
               y == count(ep[x], "dropped_packets", n)
    <2>0. n \in Nat /\ PacketCounter \subseteq Counter
      BY <1>0 DEF EndpointState, Kind, PacketCounter, Counter
    <2>1. y \in EndpointState
      BY <1>0, <2>0, CountFacts DEF PacketCounter
    <2>2. \A d \in Counter : y.statistics[d] =
             IF d = "dropped_packets"
             THEN (ep[x].statistics["dropped_packets"] + n) % MODULUS["dropped_packets"]
             ELSE ep[x].statistics[d]
      BY <1>0, <2>0, CountedFacts DEF PacketCounter
    <2>3. ep'[x] = [[y EXCEPT !.queue = NoItems]
                        EXCEPT !.started = FALSE, !.state = "ERROR_RESET"]
      BY <1>0, <1>3 DEF simulator_reset, clear_receive_queues
    <2> HIDE DEF y
    <2>4. ep'[x].statistics = y.statistics /\ ep'[x].queue = NoItems
      BY <2>1, <2>3 DEF EndpointState
    <2> QED
      BY <1>3, <2>0, <2>2, <2>4 DEF NoItems, Kind, PacketCounter
  <1> QED
    BY <1>0, <1>1, <1>2, <1>3

\* open touches no packet of another link.
LEMMA OpenPackets ==
  ASSUME TypeOK, NEW p \in Port, OpenStep(p), NEW x \in Endpoint,
         x # Target(p), x # peer(Target(p))
  PROVE  SamePackets(ep'[x], ep[x])
  <1> DEFINE s == attach_target(p)
             fresh == IF REGISTRY[s].allocated THEN ep
                      ELSE [ep EXCEPT ![<<s, 0>>] = reset_endpoint,
                                      ![<<s, 1>>] = reset_endpoint]
             f == [fresh EXCEPT ![Target(p)] = [reset_endpoint EXCEPT !.attached = TRUE]]
  <1>0. Target(p) \in Endpoint /\ s \in Slot /\ ep \in [Endpoint -> EndpointState]
    BY OpenEffect DEF OpenStep, TypeOK
  <1>1. x # <<s, 0>> /\ x # <<s, 1>>
    BY <1>0, ConfigAssumption DEF Target, peer, Endpoint
  <1>2. f \in [Endpoint -> EndpointState] /\ f[x] = ep[x]
    BY <1>0, <1>1, ResetFacts
  <1>3. ep' = refresh_link_states(f, s)
    BY DEF OpenStep, attach_backend, Target
  <1> HIDE DEF f
  <1> QED
    BY <1>2, <1>3, RefreshPackets

\* close leaves the endpoints of other links alone.
LEMMA ClosePackets ==
  ASSUME TypeOK, NEW p \in Port, spw_port_close(p), NEW x \in Endpoint,
         x # local(p), x # peer(local(p))
  PROVE  ep'[x] = ep[x]
  BY DEF spw_port_close, detach_backend, TypeOK

\* A transfer that succeeds counts the packet once, at the end that made the
\* call; a time code changes no packet counter.
LEMMA TransferPackets ==
  ASSUME TypeOK, NEW p \in Port, Open(p), NEW c \in Call, NEW x \in Endpoint
  PROVE  /\ Enqueue(p, c) =>
              IF c.kind # "packet" THEN SamePackets(ep'[x], ep[x]) ELSE
              /\ Len(ep'[x].queue["packet"]) =
                    Len(ep[x].queue["packet"]) + (IF x = peer(local(p)) THEN 1 ELSE 0)
              /\ ep'[x].statistics["rx_packets"] = ep[x].statistics["rx_packets"]
              /\ ep'[x].statistics["dropped_packets"] = ep[x].statistics["dropped_packets"]
              /\ ep'[x].statistics["tx_packets"] =
                    IF x = local(p)
                    THEN (ep[x].statistics["tx_packets"] + 1) % MODULUS["tx_packets"]
                    ELSE ep[x].statistics["tx_packets"]
         /\ Dequeue(p, c) /\ Len(ep[local(p)].queue[c.kind]) # 0 =>
              IF c.kind # "packet" \/ x # local(p) THEN SamePackets(ep'[x], ep[x]) ELSE
              /\ Len(ep'[x].queue["packet"]) = Len(ep[x].queue["packet"]) - 1
              /\ ep'[x].statistics["tx_packets"] = ep[x].statistics["tx_packets"]
              /\ ep'[x].statistics["dropped_packets"] = ep[x].statistics["dropped_packets"]
              /\ ep'[x].statistics["rx_packets"] =
                    (ep[x].statistics["rx_packets"] + 1) % MODULUS["rx_packets"]
  <1> DEFINE l == local(p)
             m == peer(l)
             k == c.kind
  <1>0. /\ l \in Endpoint /\ m \in Endpoint /\ m # l
        /\ ep \in [Endpoint -> EndpointState]
        /\ k \in Kind /\ c.item \in Nat
        /\ ep[x].queue \in [Kind -> Seq(Nat)]
    BY LocalFacts, PeerFacts DEF TypeOK, Call, EndpointState
  <1>1. /\ Sent[k] \in Counter /\ Received[k] \in Counter
        /\ k = "packet" => Sent[k] = "tx_packets" /\ Received[k] = "rx_packets"
        /\ k # "packet" => Sent[k] \notin PacketCounter /\ Received[k] \notin PacketCounter
        /\ PacketCounter \subseteq Counter
    BY <1>0 DEF Sent, Received, Counter, Kind, PacketCounter
  <1>2. \A d \in Counter, b \in Counter :
           /\ count(ep[l], b, 1) \in EndpointState
           /\ count(ep[l], b, 1).queue = ep[l].queue
           /\ count(ep[l], b, 1).statistics[d] =
                 IF d = b THEN (ep[l].statistics[b] + 1) % MODULUS[b] ELSE ep[l].statistics[d]
    BY <1>0, CountFacts, CountedFacts
  <1> HIDE DEF k
  <1>3. ASSUME Enqueue(p, c)
        PROVE  IF k # "packet" THEN SamePackets(ep'[x], ep[x]) ELSE
               /\ Len(ep'[x].queue["packet"]) =
                     Len(ep[x].queue["packet"]) + (IF x = m THEN 1 ELSE 0)
               /\ ep'[x].statistics["rx_packets"] = ep[x].statistics["rx_packets"]
               /\ ep'[x].statistics["dropped_packets"] = ep[x].statistics["dropped_packets"]
               /\ ep'[x].statistics["tx_packets"] =
                     IF x = l THEN (ep[x].statistics["tx_packets"] + 1) % MODULUS["tx_packets"]
                     ELSE ep[x].statistics["tx_packets"]
    <2>1. ep' = [ep EXCEPT ![m].queue[k] = Append(@, c.item), ![l] = count(@, Sent[k], 1)]
      BY <1>3 DEF Enqueue, k
    <2>2. CASE x = l
      <3>1. ep'[x] = count(ep[l], Sent[k], 1)
        BY <1>0, <2>1, <2>2
      <3>2. \A d \in PacketCounter : ep'[x].statistics[d] =
               IF d = Sent[k] THEN (ep[x].statistics[d] + 1) % MODULUS[d]
               ELSE ep[x].statistics[d]
        BY <1>1, <1>2, <2>2, <3>1
      <3>3. ep'[x].queue = ep[x].queue /\ Len(ep[x].queue["packet"]) \in Nat
        BY <1>0, <1>1, <1>2, <2>2, <3>1 DEF Kind
      <3>4. CASE k # "packet"
        BY <1>1, <3>2, <3>3, <3>4 DEF SamePackets
      <3>5. CASE k = "packet"
        <4>1. Sent[k] = "tx_packets" /\ x # m
          BY <1>0, <1>1, <2>2, <3>5
        <4>2. Len(ep'[x].queue["packet"]) = Len(ep[x].queue["packet"]) + 0
          BY <3>3
        <4> QED
          BY <2>2, <3>2, <3>5, <4>1, <4>2 DEF PacketCounter
      <3> QED
        BY <3>4, <3>5, Zenon
    <2>3. CASE x = m
      <3>1. ep'[x].statistics = ep[x].statistics
            /\ ep'[x].queue = [ep[x].queue EXCEPT ![k] = Append(@, c.item)]
        BY <1>0, <2>1, <2>3, Zenon DEF EndpointState
      <3>2. Len(Append(ep[x].queue[k], c.item)) = Len(ep[x].queue[k]) + 1
        BY <1>0
      <3> QED
        BY <1>0, <2>3, <3>1, <3>2 DEF SamePackets, PacketCounter, Kind
    <2>4. CASE x # l /\ x # m
      <3>1. ep'[x] = ep[x]
        BY <1>0, <2>1, <2>4
      <3>2. Len(ep[x].queue["packet"]) \in Nat
        BY <1>0 DEF Kind
      <3> QED
        BY <2>4, <3>1, <3>2 DEF SamePackets
    <2> QED
      BY <2>2, <2>3, <2>4, Zenon
  <1>4. ASSUME Dequeue(p, c), Len(ep[l].queue[k]) # 0
        PROVE  IF k # "packet" \/ x # l THEN SamePackets(ep'[x], ep[x]) ELSE
               /\ Len(ep'[x].queue["packet"]) = Len(ep[x].queue["packet"]) - 1
               /\ ep'[x].statistics["tx_packets"] = ep[x].statistics["tx_packets"]
               /\ ep'[x].statistics["dropped_packets"] = ep[x].statistics["dropped_packets"]
               /\ ep'[x].statistics["rx_packets"] =
                     (ep[x].statistics["rx_packets"] + 1) % MODULUS["rx_packets"]
    <2>1. ep' = [ep EXCEPT ![l] = Taken(@, k)]
      BY <1>4 DEF Dequeue, k
    <2>2. CASE x # l
      BY <1>0, <2>1, <2>2 DEF SamePackets
    <2>3. CASE x = l
      <3> DEFINE y == count(ep[l], Received[k], 1)
      <3>1. ep'[x] = [y EXCEPT !.queue[k] = Tail(@)]
        BY <1>0, <2>1, <2>3 DEF Taken
      <3>2. y \in EndpointState /\ y.queue = ep[x].queue
            /\ \A d \in Counter : y.statistics[d] =
                  IF d = Received[k]
                  THEN (ep[x].statistics[Received[k]] + 1) % MODULUS[Received[k]]
                  ELSE ep[x].statistics[d]
        BY <1>1, <1>2, <2>3
      <3> HIDE DEF y
      <3>3. ep'[x].statistics = y.statistics
            /\ ep'[x].queue = [ep[x].queue EXCEPT ![k] = Tail(@)]
        BY <3>1, <3>2 DEF EndpointState
      <3>4. Len(Tail(ep[x].queue[k])) = Len(ep[x].queue[k]) - 1
        BY <1>0, <1>4, <2>3
      <3> QED
        BY <1>0, <1>1, <2>3, <3>2, <3>3, <3>4 DEF SamePackets, PacketCounter, Kind
    <2> QED
      BY <2>2, <2>3
  <1> QED
    BY <1>3, <1>4, Zenon DEF k

\* Every step that clears no counter, opens and closes neither end keeps the
\* balance of an endpoint.
LEMMA AccountStep ==
  ASSUME Inv, LinkStep, \A p \in Port : ~spw_port_clear_statistics(p),
         NEW e \in Endpoint,
         \A x \in {e, peer(e)} : ep[x].attached <=> ep'[x].attached
  PROVE  Balance(e)' = Balance(e)
  <1> DEFINE o == peer(e)
             M == MODULUS["tx_packets"]
             t == ep[o].statistics["tx_packets"]
             r == ep[e].statistics["rx_packets"]
             d == ep[e].statistics["dropped_packets"]
             n == Len(ep[e].queue["packet"])
  <1>0. TypeOK /\ RegistryCorrect /\ o \in Endpoint /\ peer(o) = e /\ o # e
    BY PeerFacts DEF Inv
  <1>1. M \in Nat \ {0} /\ t \in Nat /\ r \in Nat /\ d \in Nat /\ n \in Nat
        /\ \A x \in Endpoint : ep[x].attached \in BOOLEAN
    <2>1. \A x \in Endpoint : /\ ep[x].attached \in BOOLEAN
                              /\ ep[x].statistics \in [Counter -> Nat]
                              /\ ep[x].queue \in [Kind -> Seq(Nat)]
      BY <1>0 DEF TypeOK, EndpointState, Statistics
    <2>2. M \in Nat \ {0}
      BY ConfigAssumption DEF Counter
    <2>3. t \in Nat /\ r \in Nat /\ d \in Nat
      BY <1>0, <2>1 DEF Counter
    <2>4. n \in Nat
      BY <2>1 DEF Kind
    <2> QED
      BY <2>1, <2>2, <2>3, <2>4
  <1>2. /\ Balance(e)' = BalanceOf(M, ep'[o].statistics["tx_packets"],
                                   ep'[e].statistics["rx_packets"],
                                   ep'[e].statistics["dropped_packets"],
                                   Len(ep'[e].queue["packet"]))
        /\ Balance(e) = BalanceOf(M, t, r, d, n)
    BY DEF Balance, BalanceOf, peer
  <1>a. /\ BalanceOf(M, (t + 1) % M, r, d, n + 1) = BalanceOf(M, t, r, d, n)
        /\ BalanceOf(M, t, (r + 1) % M, d, n - 1) = BalanceOf(M, t, r, d, n)
        /\ BalanceOf(M, t, r, (d + n) % M, 0) = BalanceOf(M, t, r, d, n)
    <2>1. M \in Nat \ {0} /\ t \in Nat /\ r \in Nat /\ d \in Nat /\ n \in Nat
      BY <1>1
    <2> HIDE DEF M, t, r, d, n
    <2>2. BalanceOf(M, (t + 1) % M, r, d, n + 1) = BalanceOf(M, t, r, d, n)
      BY ONLY <2>1, BalanceKept, SMT
    <2>3. BalanceOf(M, t, (r + 1) % M, d, n - 1) = BalanceOf(M, t, r, d, n)
      BY ONLY <2>1, BalanceKept, SMT
    <2>4. BalanceOf(M, t, r, (d + n) % M, 0) = BalanceOf(M, t, r, d, n)
      BY ONLY <2>1, BalanceKept, SMT
    <2> QED
      BY <2>2, <2>3, <2>4
  <1>3. CASE UNCHANGED vars \/ Nothing
    BY <1>3 DEF vars, Nothing, Balance
  <1>4. ASSUME NEW p \in Port, OpenStep(p)
        PROVE  Balance(e)' = Balance(e)
    <2>1. /\ OpenedAt(p, Target(p)) /\ Target(p) \in Endpoint
          /\ REGISTRY[attach_target(p)].allocated => ~ep[Target(p)].attached
      BY <1>0, <1>4, OpenEffect, Zenon DEF OpenStep
    <2>2. ~REGISTRY[attach_target(p)].allocated => ~ep[Target(p)].attached
      BY <1>0, <1>4, <2>1, OpenPlace DEF Target
    <2>3. Target(p) # e /\ Target(p) # o
      BY <1>0, <1>1, <2>1, <2>2, Zenon DEF OpenedAt
    <2>4. peer(Target(p)) # e /\ peer(Target(p)) # o
      BY <1>0, <2>1, <2>3, PeerFacts
    <2> QED
      BY <1>0, <1>4, <2>3, <2>4, OpenPackets, SameBalance
  <1>5. ASSUME NEW p \in Port, spw_port_close(p)
        PROVE  Balance(e)' = Balance(e)
    <2>1. local(p) \in Endpoint /\ ep[local(p)].attached
      BY <1>0, <1>5, LocalFacts DEF spw_port_close, RegistryCorrect
    <2>2. ~ep'[local(p)].attached
      BY <1>0, <1>5, <2>1, CloseEffect, Zenon DEF spw_port_close, CloseResets
    <2>3. local(p) # e /\ local(p) # o /\ peer(local(p)) # e /\ peer(local(p)) # o
      BY <1>0, <2>1, <2>2, PeerFacts
    <2> QED
      BY <1>0, <1>5, <2>3, ClosePackets, SameBalance DEF SamePackets
  <1>6. ASSUME NEW p \in Port, spw_port_start(p) \/ spw_port_stop(p)
        PROVE  Balance(e)' = Balance(e)
    BY <1>0, <1>6, StartPackets, SameBalance DEF spw_port_start, spw_port_stop
  <1>7. ASSUME NEW p \in Port, spw_port_reset(p)
        PROVE  Balance(e)' = Balance(e)
    <2>1. Open(p) /\ simulator_reset(p)
      BY <1>7 DEF spw_port_reset
    <2>2. CASE e = local(p)
      <3>1. /\ Len(ep'[e].queue["packet"]) = 0
            /\ ep'[e].statistics["rx_packets"] = ep[e].statistics["rx_packets"]
            /\ ep'[e].statistics["dropped_packets"] =
                  (ep[e].statistics["dropped_packets"] + Len(ep[e].queue["packet"])) % M
        BY <1>0, <2>1, <2>2, ResetPackets, WidthAssumption
      <3>2. ep'[o].statistics["tx_packets"] = ep[o].statistics["tx_packets"]
        BY <1>0, <2>1, <2>2, ResetPackets DEF SamePackets, PacketCounter
      <3> QED
        BY <1>2, <1>a, <3>1, <3>2, Zenon
    <2>3. CASE e # local(p)
      <3>1. SamePackets(ep'[e], ep[e])
        BY <2>1, <2>3, <1>0, ResetPackets
      <3>2. ep'[o].statistics["tx_packets"] = ep[o].statistics["tx_packets"]
        BY <1>0, <2>1, ResetPackets DEF SamePackets, PacketCounter
      <3> QED
        BY <1>2, <3>1, <3>2 DEF Balance, SamePackets, PacketCounter
    <2> QED
      BY <2>2, <2>3
  <1>8. ASSUME NEW p \in Port, TransferStep(p)
        PROVE  Balance(e)' = Balance(e)
    <2>0. Open(p)
      BY <1>8 DEF TransferStep
    <2>1. PICK c \in Call : Finish(p, c) \/ UNCHANGED ep
      BY <1>8 DEF TransferStep
    <2>2. \/ Enqueue(p, c) \/ UNCHANGED ep
          \/ (Dequeue(p, c) /\ Len(ep[local(p)].queue[c.kind]) # 0)
      BY <2>1 DEF Finish, simulator_send, simulator_receive, receive_outcome, Local
    <2>3. CASE UNCHANGED ep
      BY <2>3 DEF Balance
    <2>4. CASE Enqueue(p, c)
      <3>1. CASE c.kind # "packet"
        BY <1>0, <2>0, <2>4, <3>1, TransferPackets, SameBalance, Zenon
      <3>2. CASE c.kind = "packet"
        <4>1. /\ Len(ep'[e].queue["packet"]) =
                    Len(ep[e].queue["packet"]) + (IF o = local(p) THEN 1 ELSE 0)
              /\ ep'[e].statistics["rx_packets"] = ep[e].statistics["rx_packets"]
              /\ ep'[e].statistics["dropped_packets"] = ep[e].statistics["dropped_packets"]
          <5>1. e = peer(local(p)) <=> o = local(p)
            BY <1>0, <2>0, LocalFacts, PeerFacts
          <5> QED
            BY <1>0, <2>0, <2>4, <3>2, <5>1, TransferPackets, Zenon
        <4>2. ep'[o].statistics["tx_packets"] =
                 IF o = local(p) THEN (ep[o].statistics["tx_packets"] + 1) % M
                 ELSE ep[o].statistics["tx_packets"]
          BY <1>0, <2>0, <2>4, <3>2, TransferPackets, Zenon
        <4>3. CASE o = local(p)
          BY <1>2, <1>a, <4>1, <4>2, <4>3, Zenon
        <4>4. CASE o # local(p)
          BY <1>1, <1>2, <4>1, <4>2, <4>4
        <4> QED
          BY <4>3, <4>4
      <3> QED
        BY <3>1, <3>2
    <2>5. CASE Dequeue(p, c) /\ Len(ep[local(p)].queue[c.kind]) # 0
      <3>1. ep'[o].statistics["tx_packets"] = ep[o].statistics["tx_packets"]
        BY <1>0, <2>0, <2>5, TransferPackets, Zenon DEF SamePackets, PacketCounter
      <3>2. CASE c.kind # "packet" \/ e # local(p)
        <4>1. SamePackets(ep'[e], ep[e])
          BY <1>0, <2>0, <2>5, <3>2, TransferPackets, Zenon
        <4> QED
          BY <1>2, <3>1, <4>1 DEF Balance, SamePackets, PacketCounter
      <3>3. CASE c.kind = "packet" /\ e = local(p)
        <4>1. /\ Len(ep'[e].queue["packet"]) = Len(ep[e].queue["packet"]) - 1
              /\ ep'[e].statistics["dropped_packets"] = ep[e].statistics["dropped_packets"]
              /\ ep'[e].statistics["rx_packets"] = (ep[e].statistics["rx_packets"] + 1) % M
          BY <1>0, <2>0, <2>5, <3>3, TransferPackets, WidthAssumption, Zenon
        <4> QED
          BY <1>2, <1>a, <3>1, <4>1, Zenon
      <3> QED
        BY <3>2, <3>3
    <2> QED
      BY <2>2, <2>3, <2>4, <2>5
  <1> QED
    BY <1>3, <1>4, <1>5, <1>6, <1>7, <1>8 DEF LinkStep

\* Packets are accounted for: over any step but a clear of the statistics, and
\* while neither end of a link is opened or closed, what one end counts as sent
\* is what the other end counts as received or dropped, or still queues.
THEOREM CountersBalance == Spec => PacketsAccountedFor
  <1> DEFINE Kept == (\A p \in Port : ~spw_port_clear_statistics(p)) =>
                        \A e \in Endpoint :
                            (\A x \in {e, peer(e)} : ep[x].attached <=> ep'[x].attached)
                            => Balance(e)' = Balance(e)
  <1>1. Inv /\ [Next]_vars => Kept
    BY NextCases, AccountStep
  <1>2. Spec => [][Kept]_vars
    BY <1>1, Invariance, PTL DEF Spec
  <1> QED
    BY <1>2 DEF PacketsAccountedFor
=============================================================================
