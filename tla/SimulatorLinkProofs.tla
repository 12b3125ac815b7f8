------------------------ MODULE SimulatorLinkProofs ------------------------
(* Proofs about SimulatorLink, for every number of ports, links, queue     *)
(* depths and counter widths.                                              *)
EXTENDS SimulatorLink, TLAPS, WellFoundedInduction

\* The two endpoints of a slot are each other's peer (1 - endpoint_index).
LEMMA PeerFacts ==
  \A e \in Endpoint : /\ peer(e) \in Endpoint
                      /\ peer(peer(e)) = e
                      /\ peer(e) # e
                      /\ peer(e)[1] = e[1]
  BY DEF Endpoint, peer

\* An open port has a slot and an endpoint on it.
LEMMA LocalFacts ==
  ASSUME TypeOK, NEW p \in Port, Open(p)
  PROVE  /\ link[p] \in Slot
         /\ local(p) \in Endpoint
         /\ local(p)[1] = link[p]
  BY ConfigAssumption DEF TypeOK, Open, local, Endpoint

\* Adding to a counter, with its wrap, keeps the record well typed and
\* touches nothing but the counter.
LEMMA CountFacts ==
  ASSUME NEW x \in EndpointState, NEW c \in Counter, NEW n \in Nat
  PROVE  /\ count(x, c, n) \in EndpointState
         /\ count(x, c, n).attached = x.attached
         /\ count(x, c, n).started = x.started
         /\ count(x, c, n).state = x.state
         /\ count(x, c, n).queue = x.queue
  <1>1. MODULUS[c] \in Nat \ {0}
    BY ConfigAssumption
  <1>2. x.statistics[c] \in Nat
    BY DEF EndpointState, Statistics
  <1>3. (x.statistics[c] + n) % MODULUS[c] \in 0 .. MODULUS[c] - 1
    BY <1>1, <1>2
  <1>4. [x.statistics EXCEPT ![c] = (@ + n) % MODULUS[c]] \in Statistics
    BY <1>1, <1>2, <1>3 DEF EndpointState, Statistics
  <1> QED
    BY <1>4, Zenon DEF count, EndpointState

\* Single-field updates keep an endpoint record well typed.
LEMMA EndpointUpdates ==
  ASSUME NEW x \in EndpointState
  PROVE  /\ reset_endpoint \in EndpointState
         /\ \A st \in LinkState, b \in BOOLEAN :
               /\ [x EXCEPT !.state = st] \in EndpointState
               /\ [x EXCEPT !.started = b, !.state = st] \in EndpointState
         /\ [x EXCEPT !.queue = NoItems] \in EndpointState
         /\ [x EXCEPT !.statistics = NoStatistics] \in EndpointState
  <1>1. NoStatistics \in Statistics
    BY ConfigAssumption DEF NoStatistics, Statistics, Counter
  <1>2. NoItems \in [Kind -> Seq(Nat)]
    BY DEF NoItems
  <1> QED
    BY <1>1, <1>2, Zenon DEF EndpointState, reset_endpoint, LinkState

\* reset_endpoint yields a well-typed endpoint, attached or not.
LEMMA ResetFacts ==
  /\ reset_endpoint \in EndpointState
  /\ [reset_endpoint EXCEPT !.attached = TRUE] \in EndpointState
  <1>1. NoStatistics \in Statistics
    BY ConfigAssumption DEF NoStatistics, Statistics, Counter
  <1>2. NoItems \in [Kind -> Seq(Nat)]
    BY DEF NoItems
  <1> QED
    BY <1>1, <1>2, Zenon DEF EndpointState, reset_endpoint, LinkState

\* What setting started and state together leaves of a record.
LEMMA StartedFacts ==
  ASSUME NEW x \in EndpointState, NEW b \in BOOLEAN, NEW st \in LinkState
  PROVE  LET y == [x EXCEPT !.started = b, !.state = st]
         IN  /\ y \in EndpointState
             /\ y.attached = x.attached
             /\ y.started = b
             /\ y.queue = x.queue
             /\ y.state = st
  BY Zenon DEF EndpointState

\* What losing the peer does to a started endpoint: CONNECTING, queues kept.
LEMMA LosePeerFacts ==
  ASSUME NEW x \in EndpointState, NEW n \in {0, 1}
  PROVE  LET y == lose_peer(x, n)
         IN  /\ y \in EndpointState
             /\ y.attached = x.attached
             /\ y.started = x.started
             /\ y.queue = x.queue
             /\ y.state = IF x.attached /\ x.started THEN "CONNECTING" ELSE x.state
  <1>1. "link_errors" \in Counter
    BY DEF Counter
  <1>2. PICK z \in EndpointState : /\ z = count(x, "link_errors", n)
                                   /\ z.attached = x.attached
                                   /\ z.started = x.started
                                   /\ z.queue = x.queue
    BY <1>1, CountFacts
  <1>3. [z EXCEPT !.state = "CONNECTING"] \in EndpointState
    BY EndpointUpdates, Zenon DEF LinkState
  <1> QED
    BY <1>2, <1>3 DEF lose_peer, peer_available, EndpointState

\* clear_receive_queues empties both queues and keeps the attachment.
LEMMA ClearFacts ==
  ASSUME NEW x \in EndpointState
  PROVE  LET y == clear_receive_queues(x)
         IN  /\ y \in EndpointState
             /\ y.attached = x.attached
             /\ y.queue = NoItems
  <1>1. "dropped_packets" \in Counter /\ Len(x.queue["packet"]) \in Nat
    BY DEF Counter, EndpointState, Kind
  <1>2. PICK z \in EndpointState :
           /\ z = count(x, "dropped_packets", Len(x.queue["packet"]))
           /\ z.attached = x.attached
    BY <1>1, CountFacts
  <1> QED
    BY <1>2, EndpointUpdates, Zenon DEF clear_receive_queues, EndpointState

\* refresh_link_states changes only the states of slot s, to RUN or
\* CONNECTING by whether the peer is available.
LEMMA RefreshFacts ==
  ASSUME NEW f \in [Endpoint -> EndpointState], NEW s \in Slot
  PROVE  /\ refresh_link_states(f, s) \in [Endpoint -> EndpointState]
         /\ \A e \in Endpoint :
              LET y == refresh_link_states(f, s)[e]
              IN  /\ y.attached = f[e].attached
                  /\ y.started = f[e].started
                  /\ y.queue = f[e].queue
                  /\ y.state =
                       IF e[1] = s /\ f[e].attached /\ f[e].started
                       THEN IF f[peer(e)].attached /\ f[peer(e)].started
                            THEN "RUN" ELSE "CONNECTING"
                       ELSE f[e].state
  <1>1. \A e \in Endpoint : \A st \in LinkState :
           LET y == [f[e] EXCEPT !.state = st]
           IN  /\ y \in EndpointState
               /\ y.attached = f[e].attached
               /\ y.started = f[e].started
               /\ y.queue = f[e].queue
               /\ y.state = st
    BY EndpointUpdates, Zenon DEF EndpointState
  <1>2. {"RUN", "CONNECTING"} \subseteq LinkState
    BY DEF LinkState
  <1> QED
    BY <1>1, <1>2, PeerFacts DEF refresh_link_states, peer_available

\* A broadcast sets woken on every blocked call of the link, nothing else.
LEMMA BroadcastFacts ==
  ASSUME NEW c \in [Port -> Call], NEW s
  PROVE  /\ broadcast(c, s) \in [Port -> Call]
         /\ \A q \in Port :
              LET d == broadcast(c, s)[q]
              IN  /\ d.op = c[q].op /\ d.kind = c[q].kind
                  /\ d.item = c[q].item /\ d.timeout = c[q].timeout
                  /\ d.woken = IF c[q].op # "none" /\ link[q] = s
                               THEN TRUE ELSE c[q].woken
  BY Zenon DEF broadcast, Call

(***************************************************************************)
(* The least element of a set of slots exists: < is well-founded on Nat.   *)
(***************************************************************************)
LEMMA FirstFacts ==
  ASSUME NEW S, S \subseteq Nat, S # {}
  PROVE  first(S) \in S
  <1> DEFINE R == {ss \in Nat \X Nat : ss[1] < ss[2]}
  <1>1. R = OpToRel(<, Nat)
    BY Zenon DEF OpToRel
  <1>2. \A x, y \in Nat : <<y, x>> \notin R => x <= y
    OBVIOUS
  <1>3. IsWellFoundedOn(R, Nat)
    BY ONLY <1>1, NatLessThanWellFounded, Zenon
  <1> HIDE DEF R
  <1>4. \E x \in S : \A y \in S : ~(<<y, x>> \in R)
    BY <1>3, WFMin, Zenon
  <1>5. \E x \in S : \A y \in S : x <= y
    BY <1>2, <1>4, Zenon
  <1> QED
    BY <1>5, Zenon DEF first

-----------------------------------------------------------------------------
(* What each lifecycle call does to every endpoint. *)

\* simulator_start: the endpoint is started and both states recomputed.
LEMMA StartEffect ==
  ASSUME TypeOK, NEW p \in Port, Open(p), simulator_start(p)
  PROVE  /\ ep' \in [Endpoint -> EndpointState]
         /\ \A e \in Endpoint :
              /\ ep'[e].attached = ep[e].attached
              /\ ep'[e].started = (ep[e].started \/ e = local(p))
              /\ ep'[e].queue = ep[e].queue
              /\ ep'[e].state =
                   IF e[1] = link[p] /\ ep'[e].attached /\ ep'[e].started
                   THEN IF ep'[peer(e)].attached /\ ep'[peer(e)].started
                        THEN "RUN" ELSE "CONNECTING"
                   ELSE IF e = local(p) THEN "CONNECTING" ELSE ep[e].state
  <1> DEFINE l == local(p)
             f == [ep EXCEPT ![l].started = TRUE, ![l].state = "CONNECTING"]
  <1>1. l \in Endpoint /\ link[p] \in Slot
    BY LocalFacts
  <1>2. ep \in [Endpoint -> EndpointState]
    BY DEF TypeOK
  <1>3. [ep[l] EXCEPT !.started = TRUE, !.state = "CONNECTING"] \in EndpointState
    BY <1>1, <1>2, EndpointUpdates, Zenon DEF LinkState
  <1>4. /\ f \in [Endpoint -> EndpointState]
        /\ \A e \in Endpoint :
              /\ f[e].attached = ep[e].attached
              /\ f[e].started = (ep[e].started \/ e = l)
              /\ f[e].queue = ep[e].queue
              /\ f[e].state = IF e = l THEN "CONNECTING" ELSE ep[e].state
    BY <1>1, <1>2, <1>3, Zenon DEF EndpointState
  <1>5. ep' = refresh_link_states(f, link[p])
    BY DEF simulator_start
  <1> HIDE DEF f, l
  <1>6. \A e \in Endpoint : peer(e) \in Endpoint
    BY PeerFacts
  <1>7. /\ ep' \in [Endpoint -> EndpointState]
        /\ \A e \in Endpoint :
              /\ ep'[e].attached = f[e].attached
              /\ ep'[e].started = f[e].started
              /\ ep'[e].queue = f[e].queue
              /\ ep'[e].state =
                   IF e[1] = link[p] /\ f[e].attached /\ f[e].started
                   THEN IF f[peer(e)].attached /\ f[peer(e)].started
                        THEN "RUN" ELSE "CONNECTING"
                   ELSE f[e].state
    BY <1>1, <1>4, <1>5, RefreshFacts
  <1> QED
    BY <1>4, <1>6, <1>7 DEF l

\* simulator_stop: the endpoint is READY, a started peer CONNECTING.
LEMMA StopEffect ==
  ASSUME TypeOK, NEW p \in Port, Open(p), simulator_stop(p)
  PROVE  /\ ep' \in [Endpoint -> EndpointState]
         /\ \A e \in Endpoint :
              /\ ep'[e].attached = ep[e].attached
              /\ ep'[e].started = (ep[e].started /\ e # local(p))
              /\ ep'[e].queue = ep[e].queue
              /\ ep'[e].state =
                   IF e = local(p) THEN "READY"
                   ELSE IF e = peer(local(p)) /\ ep[e].attached /\ ep[e].started
                        THEN "CONNECTING" ELSE ep[e].state
  <1> DEFINE l == local(p)
             m == peer(l)
             x == [ep[l] EXCEPT !.started = FALSE, !.state = "READY"]
             y == lose_peer(ep[m], 0)
  <1>1. l \in Endpoint /\ m \in Endpoint /\ l # m
    BY LocalFacts, PeerFacts
  <1>2. ep \in [Endpoint -> EndpointState]
    BY DEF TypeOK
  <1>3. x \in EndpointState /\ x.attached = ep[l].attached /\ x.queue = ep[l].queue
        /\ x.started = FALSE /\ x.state = "READY"
    <2>1. "READY" \in LinkState /\ FALSE \in BOOLEAN /\ ep[l] \in EndpointState
      BY <1>1, <1>2 DEF LinkState
    <2> QED
      BY <2>1, StartedFacts, Zenon
  <1>4. /\ y \in EndpointState /\ y.attached = ep[m].attached
        /\ y.started = ep[m].started /\ y.queue = ep[m].queue
        /\ y.state = IF ep[m].attached /\ ep[m].started THEN "CONNECTING"
                     ELSE ep[m].state
    BY <1>1, <1>2, LosePeerFacts
  <1>5. ep' = [ep EXCEPT ![l] = x, ![m] = y]
    BY <1>1, <1>2, Zenon DEF simulator_stop
  <1>6. \A e \in Endpoint : ep[e].started \in BOOLEAN
    BY <1>2 DEF EndpointState
  <1> HIDE DEF x, y, l, m
  <1> QED
    BY <1>1, <1>2, <1>3, <1>4, <1>5, <1>6, Zenon DEF l, m

\* simulator_reset: the endpoint is in ERROR_RESET with empty queues, a
\* started peer CONNECTING with its queues.
LEMMA ResetEffect ==
  ASSUME TypeOK, NEW p \in Port, Open(p), simulator_reset(p)
  PROVE  /\ ep' \in [Endpoint -> EndpointState]
         /\ \A e \in Endpoint :
              /\ ep'[e].attached = ep[e].attached
              /\ ep'[e].started = (ep[e].started /\ e # local(p))
              /\ ep'[e].queue = IF e = local(p) THEN NoItems ELSE ep[e].queue
              /\ ep'[e].state =
                   IF e = local(p) THEN "ERROR_RESET"
                   ELSE IF e = peer(local(p)) /\ ep[e].attached /\ ep[e].started
                        THEN "CONNECTING" ELSE ep[e].state
  <1> DEFINE l == local(p)
             m == peer(l)
             c == clear_receive_queues(ep[l])
             x == [c EXCEPT !.started = FALSE, !.state = "ERROR_RESET"]
             y == lose_peer(ep[m], 1)
  <1>1. l \in Endpoint /\ m \in Endpoint /\ l # m
    BY LocalFacts, PeerFacts
  <1>2. ep \in [Endpoint -> EndpointState]
    BY DEF TypeOK
  <1>3. c \in EndpointState /\ c.attached = ep[l].attached /\ c.queue = NoItems
    BY <1>1, <1>2, ClearFacts
  <1>4. ep' = [ep EXCEPT ![l] = x, ![m] = y]
    BY <1>1, <1>2 DEF simulator_reset
  <1> HIDE DEF c
  <1>5. x \in EndpointState /\ x.attached = ep[l].attached /\ x.queue = NoItems
        /\ x.started = FALSE /\ x.state = "ERROR_RESET"
    BY <1>3, Zenon DEF LinkState, EndpointState
  <1>6. /\ y \in EndpointState /\ y.attached = ep[m].attached
        /\ y.started = ep[m].started /\ y.queue = ep[m].queue
        /\ y.state = IF ep[m].attached /\ ep[m].started THEN "CONNECTING"
                     ELSE ep[m].state
    BY <1>1, <1>2, LosePeerFacts
  <1>7. \A e \in Endpoint : ep[e].started \in BOOLEAN
    BY <1>2 DEF EndpointState
  <1> HIDE DEF x, y, l, m
  <1> QED
    BY <1>1, <1>2, <1>4, <1>5, <1>6, <1>7, Zenon DEF l, m

\* The endpoint an open attaches, and the endpoints it resets.
Target(p) == <<attach_target(p), endpoint_index[p]>>
OpenResets(p, x) ==
    \/ x = Target(p)
    \/ x = peer(Target(p)) /\ ~REGISTRY[attach_target(p)].allocated

\* The endpoints a close resets.
CloseResets(p, x) ==
    \/ x = local(p)
    \/ x = peer(local(p)) /\ ~ep[peer(local(p))].attached

\* What an open makes of endpoint x.
OpenedAt(p, x) ==
    /\ ep'[x].attached = (x = Target(p)
                          \/ (~OpenResets(p, x) /\ ep[x].attached))
    /\ ep'[x].started = (~OpenResets(p, x) /\ ep[x].started)
    /\ ep'[x].queue = IF OpenResets(p, x) THEN NoItems ELSE ep[x].queue
    /\ ep'[x].state =
         IF x[1] = attach_target(p) /\ ep'[x].attached /\ ep'[x].started
         THEN IF ep'[peer(x)].attached /\ ep'[peer(x)].started
              THEN "RUN" ELSE "CONNECTING"
         ELSE IF OpenResets(p, x) THEN "ERROR_RESET" ELSE ep[x].state

\* attach_backend: which slot is chosen and what each endpoint of it becomes.
LEMMA OpenEffect ==
  ASSUME TypeOK, NEW p \in Port, ~AttachRefused(p), attach_backend(p)
  PROVE  /\ attach_target(p) \in Slot /\ Target(p) \in Endpoint
         /\ REGISTRY[attach_target(p)].allocated =>
               /\ ~ep[Target(p)].attached
               /\ REGISTRY[attach_target(p)].link_id = link_id[p]
         /\ REGISTRY[attach_target(p)].allocated \/ \A t \in Slot :
               REGISTRY[t].allocated => REGISTRY[t].link_id # link_id[p]
         /\ ep' \in [Endpoint -> EndpointState]
         /\ \A x \in Endpoint : OpenedAt(p, x)
  <1> DEFINE s == attach_target(p)
             e == <<s, endpoint_index[p]>>
             fresh == IF REGISTRY[s].allocated THEN ep
                      ELSE [ep EXCEPT ![<<s, 0>>] = reset_endpoint,
                                      ![<<s, 1>>] = reset_endpoint]
             new == [reset_endpoint EXCEPT !.attached = TRUE]
             f == [fresh EXCEPT ![e] = new]
             reset(x) == x = e \/ (x = peer(e) /\ ~REGISTRY[s].allocated)
  <1>1. Slot \subseteq Nat /\ Matching(p) \subseteq Slot /\ Free \subseteq Slot
    BY ConfigAssumption DEF Slot, Matching, Free
  <1>2. Matching(p) # {} => first(Matching(p)) \in Matching(p)
    BY <1>1, FirstFacts, Zenon
  <1>3. Matching(p) = {} => first(Free) \in Free
    BY <1>1, FirstFacts, Zenon DEF AttachRefused
  <1>4. /\ s \in Slot
        /\ REGISTRY[s].allocated => ~ep[e].attached
        /\ REGISTRY[s].allocated => REGISTRY[s].link_id = link_id[p]
        /\ REGISTRY[s].allocated \/ \A t \in Slot :
               REGISTRY[t].allocated => REGISTRY[t].link_id # link_id[p]
    BY <1>1, <1>2, <1>3 DEF attach_target, AttachRefused, Matching, Free
  <1>5. ep' = refresh_link_states(f, s)
    BY DEF attach_backend
  <1> HIDE DEF s
  <1>6. /\ e \in Endpoint /\ peer(e) \in Endpoint /\ peer(e) # e
        /\ {<<s, 0>>, <<s, 1>>} = {e, peer(e)}
    BY <1>4, ConfigAssumption DEF Endpoint, peer
  <1>7. /\ reset_endpoint \in EndpointState /\ new \in EndpointState
        /\ reset_endpoint.attached = FALSE /\ new.attached = TRUE
        /\ reset_endpoint.started = FALSE /\ new.started = FALSE
        /\ reset_endpoint.queue = NoItems /\ new.queue = NoItems
        /\ reset_endpoint.state = "ERROR_RESET" /\ new.state = "ERROR_RESET"
    BY ResetFacts DEF reset_endpoint, EndpointState
  <1>8. ep \in [Endpoint -> EndpointState]
    BY DEF TypeOK
  <1>9. /\ fresh \in [Endpoint -> EndpointState]
        /\ \A x \in Endpoint : x # e =>
              fresh[x] = IF reset(x) THEN reset_endpoint ELSE ep[x]
    BY <1>6, <1>7, <1>8
  <1> HIDE DEF e, fresh, new
  <1>10. \A x \in Endpoint : f[x] \in EndpointState
            /\ f[x] = IF x = e THEN new ELSE IF reset(x) THEN reset_endpoint ELSE ep[x]
    BY <1>6, <1>7, <1>8, <1>9
  <1>11. f \in [Endpoint -> EndpointState]
    BY <1>9, <1>10, Zenon
  <1>12. \A x \in Endpoint : ep[x].attached \in BOOLEAN /\ ep[x].started \in BOOLEAN
    BY <1>8 DEF EndpointState
  <1>13. \A x \in Endpoint :
              /\ f[x].attached = (x = e \/ (~reset(x) /\ ep[x].attached))
              /\ f[x].started = (~reset(x) /\ ep[x].started)
              /\ f[x].queue = IF reset(x) THEN NoItems ELSE ep[x].queue
              /\ f[x].state = IF reset(x) THEN "ERROR_RESET" ELSE ep[x].state
    <2> HIDE DEF f
    <2> TAKE x \in Endpoint
    <2>1. CASE x = e
      BY <1>7, <1>10, <2>1, Zenon
    <2>2. CASE x # e /\ reset(x)
      BY <1>7, <1>10, <2>2, Zenon
    <2>3. CASE ~reset(x)
      BY <1>10, <1>12, <2>3
    <2> QED
      BY <2>1, <2>2, <2>3
  <1> HIDE DEF f, reset
  <1>14. \A x \in Endpoint : peer(x) \in Endpoint
    BY PeerFacts
  <1>15. /\ ep' \in [Endpoint -> EndpointState]
         /\ \A x \in Endpoint :
              /\ ep'[x].attached = f[x].attached
              /\ ep'[x].started = f[x].started
              /\ ep'[x].queue = f[x].queue
              /\ ep'[x].state =
                   IF x[1] = s /\ f[x].attached /\ f[x].started
                   THEN IF f[peer(x)].attached /\ f[peer(x)].started
                        THEN "RUN" ELSE "CONNECTING"
                   ELSE f[x].state
    BY <1>4, <1>5, <1>11, RefreshFacts
  <1>16. \A x \in Endpoint :
              /\ ep'[x].attached = (x = e \/ (~reset(x) /\ ep[x].attached))
              /\ ep'[x].started = (~reset(x) /\ ep[x].started)
              /\ ep'[x].queue = IF reset(x) THEN NoItems ELSE ep[x].queue
              /\ ep'[x].state =
                   IF x[1] = s /\ ep'[x].attached /\ ep'[x].started
                   THEN IF ep'[peer(x)].attached /\ ep'[peer(x)].started
                        THEN "RUN" ELSE "CONNECTING"
                   ELSE IF reset(x) THEN "ERROR_RESET" ELSE ep[x].state
    BY <1>13, <1>14, <1>15
  <1>17. e = Target(p) /\ \A x : reset(x) <=> OpenResets(p, x)
    BY DEF Target, OpenResets, reset, e, s
  <1>18. \A x \in Endpoint : OpenedAt(p, x)
    BY <1>16, <1>17 DEF OpenedAt, s
  <1> QED
    BY <1>4, <1>6, <1>15, <1>17, <1>18 DEF s

\* detach_backend: the endpoint is reset, and so is the peer's record when the
\* last endpoint leaves.
LEMMA CloseEffect ==
  ASSUME TypeOK, NEW p \in Port, Open(p), detach_backend(p)
  PROVE  /\ ep' \in [Endpoint -> EndpointState]
         /\ \A x \in Endpoint :
              /\ ep'[x].attached = (~CloseResets(p, x) /\ ep[x].attached)
              /\ ep'[x].started = (~CloseResets(p, x) /\ ep[x].started)
              /\ ep'[x].queue = IF CloseResets(p, x) THEN NoItems ELSE ep[x].queue
              /\ ep'[x].state =
                   IF CloseResets(p, x) THEN "ERROR_RESET"
                   ELSE IF x = peer(local(p)) /\ ep[x].attached /\ ep[x].started
                        THEN "CONNECTING" ELSE ep[x].state
  <1> DEFINE l == local(p)
             m == peer(l)
             y == lose_peer(ep[m], 1)
             gone == [ep EXCEPT ![l] = reset_endpoint, ![m] = y]
             reset(x) == x = l \/ (x = m /\ ~ep[m].attached)
  <1>1. l \in Endpoint /\ m \in Endpoint /\ l # m
    BY LocalFacts, PeerFacts
  <1>2. ep \in [Endpoint -> EndpointState]
    BY DEF TypeOK
  <1>3. ep' = IF ~ep[m].attached THEN [gone EXCEPT ![m] = reset_endpoint] ELSE gone
    BY <1>1, <1>2 DEF detach_backend
  <1>4. /\ y \in EndpointState /\ y.attached = ep[m].attached
        /\ y.started = ep[m].started /\ y.queue = ep[m].queue
        /\ y.state = IF ep[m].attached /\ ep[m].started THEN "CONNECTING"
                     ELSE ep[m].state
    BY <1>1, <1>2, LosePeerFacts
  <1>5. /\ reset_endpoint \in EndpointState
        /\ reset_endpoint.attached = FALSE /\ reset_endpoint.started = FALSE
        /\ reset_endpoint.queue = NoItems /\ reset_endpoint.state = "ERROR_RESET"
    BY ResetFacts DEF reset_endpoint
  <1>6. \A x \in Endpoint : ep[x].attached \in BOOLEAN /\ ep[x].started \in BOOLEAN
    BY <1>2 DEF EndpointState
  <1> HIDE DEF y, l, m
  <1>7. /\ ep' \in [Endpoint -> EndpointState]
        /\ \A x \in Endpoint : ep'[x] = IF reset(x) THEN reset_endpoint
                                        ELSE IF x = m THEN y ELSE ep[x]
    BY <1>1, <1>2, <1>3, <1>4, <1>5
  <1>8. \A x \in Endpoint :
                  /\ ep'[x].attached = (~reset(x) /\ ep[x].attached)
                  /\ ep'[x].started = (~reset(x) /\ ep[x].started)
                  /\ ep'[x].queue = IF reset(x) THEN NoItems ELSE ep[x].queue
                  /\ ep'[x].state =
                       IF reset(x) THEN "ERROR_RESET"
                       ELSE IF x = m /\ ep[x].attached /\ ep[x].started
                            THEN "CONNECTING" ELSE ep[x].state
    BY <1>4, <1>5, <1>6, <1>7, Zenon
  <1>9. \A x : reset(x) <=> CloseResets(p, x)
    BY DEF CloseResets, l, m
  <1> HIDE DEF reset
  <1> QED
    BY <1>7, <1>8, <1>9 DEF l, m

-----------------------------------------------------------------------------
(* What the end of a transfer does to every endpoint. *)

\* A successful send appends one item to the peer's queue.
LEMMA EnqueueEffect ==
  ASSUME TypeOK, NEW p \in Port, Open(p), NEW c \in Call, Enqueue(p, c)
  PROVE  LET m == peer(local(p))
         IN  /\ ep' \in [Endpoint -> EndpointState]
             /\ \A x \in Endpoint :
                  /\ ep'[x].attached = ep[x].attached
                  /\ ep'[x].started = ep[x].started
                  /\ ep'[x].state = ep[x].state
                  /\ ep'[x].queue =
                       IF x = m
                       THEN [ep[x].queue EXCEPT ![c.kind] = Append(@, c.item)]
                       ELSE ep[x].queue
  <1> DEFINE l == local(p)
             m == peer(l)
             q == [ep[m].queue EXCEPT ![c.kind] = Append(@, c.item)]
             y == [ep[m] EXCEPT !.queue = q]
             z == count(ep[l], Sent[c.kind], 1)
  <1>1. l \in Endpoint /\ m \in Endpoint /\ l # m
    BY LocalFacts, PeerFacts
  <1>2. ep \in [Endpoint -> EndpointState]
    BY DEF TypeOK
  <1>3. ep' = [ep EXCEPT ![m] = y, ![l] = z]
    BY <1>1, <1>2 DEF Enqueue
  <1>4. ep[m].queue \in [Kind -> Seq(Nat)] /\ c.kind \in Kind /\ c.item \in Nat
    BY <1>1, <1>2 DEF EndpointState, Call
  <1>5. q \in [Kind -> Seq(Nat)]
    BY <1>4
  <1> HIDE DEF l, m, q
  <1>6. /\ y \in EndpointState /\ y.attached = ep[m].attached
        /\ y.started = ep[m].started /\ y.state = ep[m].state /\ y.queue = q
    BY <1>1, <1>2, <1>5, Zenon DEF EndpointState
  <1>7. Sent[c.kind] \in Counter
    BY <1>4 DEF Sent, Counter, Kind
  <1>8. /\ z \in EndpointState /\ z.attached = ep[l].attached
        /\ z.started = ep[l].started /\ z.state = ep[l].state
        /\ z.queue = ep[l].queue
    BY <1>1, <1>2, <1>7, CountFacts
  <1> HIDE DEF y, z
  <1> QED
    BY <1>1, <1>2, <1>3, <1>6, <1>8 DEF l, m, q

\* A successful receive takes the head of the port's own queue.
LEMMA DequeueEffect ==
  ASSUME TypeOK, NEW p \in Port, Open(p), NEW c \in Call,
         Len(ep[local(p)].queue[c.kind]) # 0, Dequeue(p, c)
  PROVE  /\ ep' \in [Endpoint -> EndpointState]
         /\ \A x \in Endpoint :
              /\ ep'[x].attached = ep[x].attached
              /\ ep'[x].started = ep[x].started
              /\ ep'[x].state = ep[x].state
              /\ ep'[x].queue =
                   IF x = local(p)
                   THEN [ep[x].queue EXCEPT ![c.kind] = Tail(@)]
                   ELSE ep[x].queue
  <1> DEFINE l == local(p)
             z == count(ep[l], Received[c.kind], 1)
             q == [ep[l].queue EXCEPT ![c.kind] = Tail(@)]
             y == Taken(ep[l], c.kind)
  <1>1. l \in Endpoint
    BY LocalFacts
  <1>2. ep \in [Endpoint -> EndpointState]
    BY DEF TypeOK
  <1>3. ep' = [ep EXCEPT ![l] = y]
    BY <1>1, <1>2 DEF Dequeue
  <1>4. ep[l].queue \in [Kind -> Seq(Nat)] /\ c.kind \in Kind
    BY <1>1, <1>2 DEF EndpointState, Call
  <1>5. Tail(ep[l].queue[c.kind]) \in Seq(Nat)
    BY <1>4
  <1>6. q \in [Kind -> Seq(Nat)]
    BY <1>4, <1>5
  <1>7. Received[c.kind] \in Counter
    BY <1>4 DEF Received, Counter, Kind
  <1> HIDE DEF l
  <1>8. /\ z \in EndpointState /\ z.attached = ep[l].attached
        /\ z.started = ep[l].started /\ z.state = ep[l].state
        /\ z.queue = ep[l].queue
    BY <1>1, <1>2, <1>7, CountFacts
  <1>9. y = [z EXCEPT !.queue = q]
    BY <1>8 DEF Taken, z
  <1> HIDE DEF y, z, q
  <1>10. /\ y \in EndpointState /\ y.attached = ep[l].attached
         /\ y.started = ep[l].started /\ y.state = ep[l].state /\ y.queue = q
    BY <1>6, <1>8, <1>9, Zenon DEF EndpointState
  <1> QED
    BY <1>1, <1>2, <1>3, <1>10 DEF l, q

\* An endpoint step of a transfer: it touches only queues and counters.
QuietStep ==
    /\ ep' \in [Endpoint -> EndpointState]
    /\ \A x \in Endpoint : /\ ep'[x].attached = ep[x].attached
                           /\ ep'[x].started = ep[x].started
                           /\ ep'[x].state = ep[x].state
    /\ call' \in [Port -> Call]
    /\ result' \in [Port -> Result]

\* The end of a transfer changes no attachment, no start and no state.
LEMMA FinishEffect ==
  ASSUME TypeOK, NEW p \in Port, Open(p), NEW c \in Call, Finish(p, c)
  PROVE  QuietStep
  <1>1. ep \in [Endpoint -> EndpointState] /\ call \in [Port -> Call]
        /\ result \in [Port -> Result]
    BY DEF TypeOK
  <1>2. NoCall \in Call
    BY DEF NoCall, Call, Kind
  <1>3. Done(p) \in [Port -> Call]
    BY <1>1, <1>2 DEF Done
  <1>4. broadcast(Done(p), link[p]) \in [Port -> Call]
    BY <1>3, BroadcastFacts, Zenon
  <1>5. send_outcome(p, c) \in Result /\ receive_outcome(p, c) \in Result
    BY DEF send_outcome, receive_outcome, Result
  <1>6. result' \in [Port -> Result] /\ call' \in [Port -> Call]
    BY <1>1, <1>3, <1>4, <1>5 DEF Finish, simulator_send, simulator_receive, Return
  <1>7. \/ Enqueue(p, c)
        \/ Dequeue(p, c) /\ Len(ep[local(p)].queue[c.kind]) # 0
        \/ ep' = ep
    BY DEF Finish, simulator_send, simulator_receive, receive_outcome, Local
  <1> QED
    BY <1>1, <1>6, <1>7, EnqueueEffect, DequeueEffect, Zenon DEF QuietStep

-----------------------------------------------------------------------------
(* The steps of the specification, sorted by what they may disturb. *)

\* The inductive invariant.
Inv == /\ TypeOK /\ LinkStateCorrect /\ RegistryCorrect
       /\ StartedFlagsAgree /\ QueuesBounded /\ NoLostWakeup

\* A step that leaves everything but results as it was.
Nothing == /\ UNCHANGED <<REGISTRY, ep, link, locally_started, call>>
           /\ result' \in [Port -> Result]

\* A step of a transfer call c of port p.
TransferStep(p) ==
    /\ Open(p)
    /\ UNCHANGED <<REGISTRY, link, locally_started>>
    /\ \E c \in Call :
          \/ Ready(p, c) /\ Finish(p, c)
          \/ UNCHANGED ep /\ call' = Done(p) /\ result' \in [Port -> Result]
          \/ /\ c.op # "none" /\ (c.woken \/ ~Ready(p, c))
             /\ call' = [call EXCEPT ![p] = c]
             /\ UNCHANGED <<ep, result>>

\* The successful part of spw_port_open.
OpenStep(p) == /\ ~Open(p) /\ ~AttachRefused(p) /\ attach_backend(p)
               /\ locally_started' = [locally_started EXCEPT ![p] = FALSE]
               /\ Return(p, "OK")

\* Recording a result keeps the results well typed.
LEMMA ReturnFacts ==
  ASSUME TypeOK, NEW p \in Port, NEW r \in Result, Return(p, r)
  PROVE  result' \in [Port -> Result]
  BY DEF TypeOK, Return

\* Every code a call returns early with is a result.
LEMMA OutcomeFacts ==
  ASSUME NEW p, NEW c
  PROVE  Refusal(p, c) \in Result /\ Expired(c) \in Result
         /\ "OK" \in Result /\ "RESOURCE_EXHAUSTED" \in Result
  BY DEF Refusal, Expired, Result

\* A transfer call either returns at once or is a TransferStep.
LEMMA TransferCases ==
  ASSUME TypeOK, NEW p \in Port, NEW c \in Call, c.op # "none", Transfer(p, c)
  PROVE  Nothing \/ TransferStep(p)
  <1>1. CASE Refusal(p, c) # "OK" /\ Return(p, Refusal(p, c)) /\ UNCHANGED <<ep, call>>
    BY <1>1, ReturnFacts, OutcomeFacts DEF Transfer, Nothing
  <1>2. CASE Refusal(p, c) = "OK" /\ Ready(p, c) /\ Finish(p, c)
    BY <1>2 DEF Transfer, TransferStep
  <1>3. CASE Return(p, Expired(c)) /\ UNCHANGED <<ep, call>>
    BY <1>3, ReturnFacts, OutcomeFacts DEF Transfer, Nothing
  <1>4. CASE /\ ~Ready(p, c)
             /\ call' = [call EXCEPT ![p] = c] /\ UNCHANGED <<ep, result>>
    BY <1>4, Zenon DEF Transfer, TransferStep
  <1> QED
    BY <1>1, <1>2, <1>3, <1>4 DEF Transfer

\* A wake-up, an expiry and a spurious wake-up are TransferSteps of an open
\* port.
LEMMA WakeCases ==
  ASSUME TypeOK, NoLostWakeup, NEW p \in Port,
         Resume(p) \/ Expire(p) \/ SpuriousWakeup(p)
  PROVE  TransferStep(p)
  <1>1. Open(p) /\ call[p] \in Call /\ call[p].op # "none"
    BY DEF NoLostWakeup, TypeOK, Resume, Expire, SpuriousWakeup, Idle
  <1>2. CASE /\ Ready(p, call[p]) /\ Finish(p, call[p])
             /\ UNCHANGED <<REGISTRY, link, locally_started>>
    BY <1>1, <1>2 DEF TransferStep
  <1>3. CASE /\ ~Ready(p, call[p])
             /\ call' = [call EXCEPT ![p].woken = FALSE] /\ UNCHANGED <<ep, result>>
             /\ UNCHANGED <<REGISTRY, link, locally_started>>
    <2> DEFINE c == [call[p] EXCEPT !.woken = FALSE]
    <2>1. /\ c \in Call /\ c.op = call[p].op /\ c.kind = call[p].kind
          /\ call' = [call EXCEPT ![p] = c]
      BY <1>1, <1>3, Zenon DEF Call, TypeOK
    <2>2. ~Ready(p, c)
      BY <1>3, <2>1 DEF Ready
    <2> HIDE DEF c
    <2> QED
      BY <1>1, <1>3, <2>1, <2>2, Zenon DEF TransferStep
  <1>4. CASE /\ Return(p, Expired(call[p])) /\ call' = Done(p) /\ UNCHANGED ep
             /\ UNCHANGED <<REGISTRY, link, locally_started>>
    BY <1>1, <1>4, ReturnFacts, OutcomeFacts DEF TransferStep
  <1>5. CASE SpuriousWakeup(p)
    <2> DEFINE c == [call[p] EXCEPT !.woken = TRUE]
    <2>1. /\ c \in Call /\ c.op = call[p].op /\ c.woken = TRUE
          /\ call' = [call EXCEPT ![p] = c]
      BY <1>1, <1>5, Zenon DEF Call, TypeOK, SpuriousWakeup
    <2> HIDE DEF c
    <2> QED
      BY <1>1, <1>5, <2>1, Zenon DEF TransferStep, SpuriousWakeup
  <1> QED
    BY <1>2, <1>3, <1>4, <1>5 DEF Resume, Expire

\* The calls applications make are calls.
LEMMA RequestFacts ==
  ASSUME NEW op \in {"send", "receive"}, NEW k \in Kind, NEW n \in Nat,
         NEW t \in Timeout
  PROVE  Request(op, k, n, t) \in Call /\ Request(op, k, n, t).op # "none"
  BY ConfigAssumption DEF Request, Call

\* The kinds of step that the invariant is preserved by.
LinkStep ==
    \/ UNCHANGED vars \/ Nothing
    \/ \E p \in Port :
         \/ OpenStep(p) \/ spw_port_close(p) \/ spw_port_start(p)
         \/ spw_port_stop(p) \/ spw_port_reset(p)
         \/ spw_port_clear_statistics(p) \/ TransferStep(p)

\* A lifecycle call is one of these steps.
LEMMA LifecycleCases ==
  ASSUME TypeOK, NEW p \in Port, Lifecycle(p)
  PROVE  LinkStep
  <1>1. spw_port_open(p) => OpenStep(p) \/ Nothing
    BY ReturnFacts, OutcomeFacts DEF spw_port_open, OpenStep, Nothing
  <1> QED
    BY <1>1 DEF Lifecycle, LinkStep

\* A copied transfer is a transfer of some call.
LEMMA TransfersCall ==
  ASSUME NEW p \in Port, Transfers(p)
  PROVE  \E c \in Call : c.op # "none" /\ Transfer(p, c)
  <1>1. PICK t \in Timeout :
           \/ \E n \in Length : spw_port_send(p, n, t)
           \/ \E n \in Capacity : spw_port_receive(p, n, t)
           \/ spw_port_send_time_code(p, t) \/ spw_port_receive_time_code(p, t)
    BY DEF Transfers
  <1>2. /\ Length \subseteq Nat /\ Capacity \subseteq Nat /\ TimeCode \in Nat
        /\ "packet" \in Kind /\ "time_code" \in Kind
    BY ConfigAssumption DEF TimeCode, Kind
  <1> QED
    BY <1>1, <1>2, RequestFacts
      DEF spw_port_send, spw_port_receive, spw_port_send_time_code,
          spw_port_receive_time_code

\* So is a copied transfer up to its return or its wait.
LEMMA TransfersCases ==
  ASSUME TypeOK, NEW p \in Port, Transfers(p)
  PROVE  LinkStep
  BY TransfersCall, TransferCases DEF LinkStep

\* Every step of the specification is.
LEMMA NextCases ==
  ASSUME Inv, [Next]_vars
  PROVE  LinkStep
  <1>1. TypeOK /\ NoLostWakeup
    BY DEF Inv
  <1>2. CASE UNCHANGED vars
    BY <1>2 DEF LinkStep
  <1>3. CASE Next
    <2>1. PICK p \in Port : \/ Lifecycle(p) \/ Transfers(p)
                            \/ Resume(p) \/ Expire(p) \/ SpuriousWakeup(p)
      BY <1>3 DEF Next
    <2> QED
      BY <1>1, <2>1, LifecycleCases, TransfersCases, WakeCases DEF LinkStep
  <1> QED
    BY <1>2, <1>3

-----------------------------------------------------------------------------
(* Type correctness. *)

\* Ending a call and broadcasting keep the calls well typed.
LEMMA CallFacts ==
  ASSUME TypeOK, NEW p \in Port
  PROVE  Done(p) \in [Port -> Call]
         /\ \A s : broadcast(call, s) \in [Port -> Call]
  BY BroadcastFacts, Zenon DEF TypeOK, Done, NoCall, Call, Kind

\* simulator_clear_statistics touches only counters.
LEMMA ClearStatisticsEffect ==
  ASSUME TypeOK, NEW p \in Port, Open(p), simulator_clear_statistics(p)
  PROVE  /\ ep' \in [Endpoint -> EndpointState]
         /\ \A x \in Endpoint : /\ ep'[x].attached = ep[x].attached
                                /\ ep'[x].started = ep[x].started
                                /\ ep'[x].state = ep[x].state
                                /\ ep'[x].queue = ep[x].queue
  <1>1. local(p) \in Endpoint
    BY LocalFacts
  <1>2. [ep[local(p)] EXCEPT !.statistics = NoStatistics] \in EndpointState
    BY <1>1, EndpointUpdates, Zenon DEF TypeOK
  <1> QED
    BY <1>1, <1>2, Zenon DEF TypeOK, simulator_clear_statistics, EndpointState

\* Every step keeps the types.
LEMMA TypeStep ==
  ASSUME Inv, LinkStep
  PROVE  TypeOK'
  <1>0. TypeOK
    BY DEF Inv
  <1>1. CASE UNCHANGED vars
    BY <1>0, <1>1 DEF TypeOK, vars
  <1>2. CASE Nothing
    BY <1>0, <1>2 DEF TypeOK, Nothing
  <1>3. ASSUME NEW p \in Port, OpenStep(p)
        PROVE  TypeOK'
    <2> DEFINE s == attach_target(p)
    <2>1. s \in Slot /\ ep' \in [Endpoint -> EndpointState]
      BY <1>0, <1>3, OpenEffect DEF OpenStep
    <2> HIDE DEF s
    <2>2. [allocated |-> TRUE, link_id |-> link_id[p]]
             \in [allocated : BOOLEAN, link_id : Nat]
      BY ConfigAssumption
    <2>3. REGISTRY' \in [Slot -> [allocated : BOOLEAN, link_id : Nat]]
      BY <1>0, <1>3, <2>1, <2>2 DEF TypeOK, OpenStep, attach_backend, s
    <2>4. call' \in [Port -> Call]
      BY <1>0, <1>3, CallFacts DEF OpenStep, attach_backend
    <2>5. link' \in [Port -> Slot \cup {NULL}]
      BY <1>0, <1>3, <2>1 DEF TypeOK, OpenStep, attach_backend, s
    <2>6. result' \in [Port -> Result]
      BY <1>0, <1>3, ReturnFacts, OutcomeFacts DEF OpenStep
    <2> QED
      BY <1>0, <1>3, <2>1, <2>3, <2>4, <2>5, <2>6, Zenon DEF TypeOK, OpenStep
  <1>4. ASSUME NEW p \in Port, spw_port_close(p)
        PROVE  TypeOK'
    <2>1. ep' \in [Endpoint -> EndpointState]
      BY <1>0, <1>4, CloseEffect DEF spw_port_close
    <2>2. link[p] \in Slot
      BY <1>0, <1>4, LocalFacts DEF spw_port_close
    <2>3. REGISTRY' \in [Slot -> [allocated : BOOLEAN, link_id : Nat]]
      <3>1. [allocated |-> FALSE, link_id |-> 0] \in [allocated : BOOLEAN, link_id : Nat]
        OBVIOUS
      <3> QED
        BY <1>0, <1>4, <2>2, <3>1 DEF TypeOK, spw_port_close, detach_backend
    <2>4. call' \in [Port -> Call]
      BY <1>0, <1>4, CallFacts DEF spw_port_close, detach_backend
    <2>5. link' \in [Port -> Slot \cup {NULL}]
      BY <1>0, <1>4 DEF TypeOK, spw_port_close, detach_backend
    <2>6. result' \in [Port -> Result]
      BY <1>0, <1>4, ReturnFacts, OutcomeFacts DEF spw_port_close
    <2> QED
      BY <1>0, <1>4, <2>1, <2>3, <2>4, <2>5, <2>6, Zenon DEF TypeOK, spw_port_close
  <1>5. ASSUME NEW p \in Port,
               spw_port_start(p) \/ spw_port_stop(p) \/ spw_port_reset(p)
        PROVE  TypeOK'
    <2>1. ep' \in [Endpoint -> EndpointState]
      BY <1>0, <1>5, StartEffect, StopEffect, ResetEffect
        DEF spw_port_start, spw_port_stop, spw_port_reset
    <2>2. call' \in [Port -> Call]
      BY <1>0, <1>5, CallFacts
        DEF spw_port_start, spw_port_stop, spw_port_reset,
            simulator_start, simulator_stop, simulator_reset
    <2>3. result' \in [Port -> Result]
      BY <1>0, <1>5, ReturnFacts, OutcomeFacts
        DEF spw_port_start, spw_port_stop, spw_port_reset
    <2>4. /\ UNCHANGED <<REGISTRY, link>>
          /\ \E b \in BOOLEAN : locally_started' = [locally_started EXCEPT ![p] = b]
      BY <1>5, Zenon DEF spw_port_start, spw_port_stop, spw_port_reset
    <2> QED
      BY <1>0, <2>1, <2>2, <2>3, <2>4, SMTT(30) DEF TypeOK
  <1>6. ASSUME NEW p \in Port, spw_port_clear_statistics(p)
        PROVE  TypeOK'
    <2>1. ep' \in [Endpoint -> EndpointState]
      BY <1>0, <1>6, ClearStatisticsEffect DEF spw_port_clear_statistics
    <2>2. result' \in [Port -> Result]
      BY <1>0, <1>6, ReturnFacts, OutcomeFacts DEF spw_port_clear_statistics
    <2> QED
      BY <1>0, <1>6, <2>1, <2>2 DEF TypeOK, spw_port_clear_statistics
  <1>7. ASSUME NEW p \in Port, TransferStep(p)
        PROVE  TypeOK'
    <2>1. PICK c \in Call :
             \/ Ready(p, c) /\ Finish(p, c)
             \/ UNCHANGED ep /\ call' = Done(p) /\ result' \in [Port -> Result]
             \/ call' = [call EXCEPT ![p] = c] /\ UNCHANGED <<ep, result>>
      BY <1>7 DEF TransferStep
    <2>2. CASE Finish(p, c)
      BY <1>0, <1>7, <2>2, FinishEffect DEF TypeOK, TransferStep, QuietStep
    <2>3. CASE UNCHANGED ep /\ call' = Done(p) /\ result' \in [Port -> Result]
      BY <1>0, <1>7, <2>3, CallFacts DEF TypeOK, TransferStep
    <2>4. CASE call' = [call EXCEPT ![p] = c] /\ UNCHANGED <<ep, result>>
      BY <1>0, <1>7, <2>4 DEF TypeOK, TransferStep
    <2> QED
      BY <2>1, <2>2, <2>3, <2>4
  <1> QED
    BY <1>1, <1>2, <1>3, <1>4, <1>5, <1>6, <1>7 DEF LinkStep

-----------------------------------------------------------------------------
(* The registry, the link states and the two started flags. *)

\* No endpoint is attached, started or given a new state.
SameEndpoints ==
    \A x \in Endpoint : /\ ep'[x].attached = ep[x].attached
                        /\ ep'[x].started = ep[x].started
                        /\ ep'[x].state = ep[x].state

\* Transfers and counter resets leave attachments, starts and states alone.
LEMMA QuietCases ==
  ASSUME TypeOK,
         \/ UNCHANGED vars \/ Nothing
         \/ \E p \in Port : spw_port_clear_statistics(p) \/ TransferStep(p)
  PROVE  SameEndpoints /\ UNCHANGED <<REGISTRY, link, locally_started>>
  <1>1. CASE UNCHANGED vars \/ Nothing
    BY <1>1 DEF vars, Nothing, SameEndpoints
  <1>2. ASSUME NEW p \in Port, spw_port_clear_statistics(p)
        PROVE  SameEndpoints /\ UNCHANGED <<REGISTRY, link, locally_started>>
    BY <1>2, ClearStatisticsEffect DEF spw_port_clear_statistics, SameEndpoints
  <1>3. ASSUME NEW p \in Port, TransferStep(p)
        PROVE  SameEndpoints /\ UNCHANGED <<REGISTRY, link, locally_started>>
    BY <1>3, FinishEffect DEF TransferStep, QuietStep, SameEndpoints
  <1> QED
    BY <1>1, <1>2, <1>3

\* Where an open leaves the port: on a slot of its link id, at an endpoint no
\* other open port holds.
LEMMA OpenPlace ==
  ASSUME TypeOK, RegistryCorrect, NEW p \in Port, OpenStep(p)
  PROVE  /\ link' = [link EXCEPT ![p] = attach_target(p)]
         /\ \A q \in Port : Open(q) => local(q) # Target(p)
         /\ ~REGISTRY[attach_target(p)].allocated =>
               /\ \A q \in Port : link[q] # attach_target(p)
               /\ \A x \in Endpoint : x[1] = attach_target(p) => ~ep[x].attached
  <1> DEFINE s == attach_target(p)
             e == Target(p)
  <1>1. /\ s \in Slot /\ e \in Endpoint
        /\ REGISTRY[s].allocated => ~ep[e].attached
    BY OpenEffect DEF OpenStep
  <1>2. link' = [link EXCEPT ![p] = s]
    BY DEF OpenStep, attach_backend
  <1> HIDE DEF s
  <1>3. ~REGISTRY[s].allocated =>  /\ \A q \in Port : link[q] # s
                                   /\ \A x \in Endpoint : x[1] = s => ~ep[x].attached
    <2> SUFFICES ASSUME ~REGISTRY[s].allocated
                 PROVE  /\ \A q \in Port : link[q] # s
                        /\ \A x \in Endpoint : x[1] = s => ~ep[x].attached
      OBVIOUS
    <2>1. \A q \in Port : link[q] # s
      BY <1>1, ConfigAssumption DEF RegistryCorrect, Open, NULL, Slot
    <2>2. \A x \in Endpoint : ep[x].attached => \E q \in Port : link[q] = x[1]
      BY DEF RegistryCorrect, local
    <2> QED
      BY <2>1, <2>2
  <1>4. \A q \in Port : Open(q) => local(q) # e
    BY <1>1, <1>3 DEF RegistryCorrect, local, Target, s
  <1> QED
    BY <1>1, <1>2, <1>3, <1>4, SMTT(30) DEF s

\* Every step keeps the registry correct.  Opening in a free slot needs that
\* no open port and no attached endpoint is on it; closing the last endpoint
\* needs that any other port of the slot would be attached at the peer.
LEMMA RegistryStep ==
  ASSUME Inv, LinkStep
  PROVE  RegistryCorrect'
  <1>0. TypeOK /\ RegistryCorrect
    BY DEF Inv
  <1>1. ASSUME SameEndpoints, UNCHANGED <<REGISTRY, link>>
        PROVE  RegistryCorrect'
    <2>1. \A q \in Port : (Open(q)' <=> Open(q)) /\ local(q)' = local(q)
      BY <1>1 DEF Open, local
    <2>2. \A q \in Port : Open(q) => local(q) \in Endpoint
      BY <1>0, LocalFacts
    <2>3. \A t \in Slot : <<t, 0>> \in Endpoint /\ <<t, 1>> \in Endpoint
      BY DEF Endpoint
    <2> QED
      BY <1>0, <1>1, <2>1, <2>2, <2>3 DEF RegistryCorrect, SameEndpoints
  <1>2. ASSUME NEW p \in Port, OpenStep(p)
        PROVE  RegistryCorrect'
    <2> DEFINE s == attach_target(p)
               e == Target(p)
    <2>1. /\ s \in Slot
          /\ link' = [link EXCEPT ![p] = s]
          /\ \A q \in Port : Open(q) => local(q) # e
          /\ ~REGISTRY[s].allocated => \A x \in Endpoint : x[1] = s => ~ep[x].attached
      BY <1>0, <1>2, OpenPlace, OpenEffect, Zenon DEF OpenStep
    <2>2. /\ e \in Endpoint
          /\ REGISTRY[s].allocated => REGISTRY[s].link_id = link_id[p]
          /\ REGISTRY[s].allocated \/ \A t \in Slot :
                 REGISTRY[t].allocated => REGISTRY[t].link_id # link_id[p]
          /\ \A x \in Endpoint : ep'[x].attached =
                (x = e \/ (~OpenResets(p, x) /\ ep[x].attached))
      BY <1>0, <1>2, OpenEffect DEF OpenStep, OpenedAt
    <2>3. REGISTRY' = [REGISTRY EXCEPT ![s] =
                          [allocated |-> TRUE, link_id |-> link_id[p]]]
      BY <1>2 DEF OpenStep, attach_backend
    <2>4. ~Open(p)
      BY <1>2 DEF OpenStep
    <2>5. REGISTRY \in [Slot -> [allocated : BOOLEAN, link_id : Nat]]
          /\ link \in [Port -> Slot \cup {NULL}]
          /\ ep \in [Endpoint -> EndpointState]
      BY <1>0 DEF TypeOK
    <2>6. e = <<s, endpoint_index[p]>> /\ e[1] = s /\ peer(e)[1] = s
      BY DEF peer, Target
    <2>7. \A x \in Endpoint : ep'[x].attached <=> x = e \/ ep[x].attached
      <3>1. \A x \in Endpoint : ep[x].attached \in BOOLEAN
        BY <2>5 DEF EndpointState
      <3>2. ~REGISTRY[s].allocated => ~ep[peer(e)].attached
        BY <2>1, <2>2, <2>6, PeerFacts
      <3> QED
        BY <2>2, <3>1, <3>2, Zenon DEF OpenResets
    <2> HIDE DEF s, e
    <2>8. /\ Open(p)' /\ local(p)' = e
          /\ \A q \in Port : q # p => (Open(q)' <=> Open(q)) /\ local(q)' = local(q)
                                      /\ link'[q] = link[q]
      BY <2>1, <2>5, <2>6, ConfigAssumption DEF Open, local, NULL, Slot
    <2>9. \A t \in Slot : /\ REGISTRY'[t].allocated <=> t = s \/ REGISTRY[t].allocated
                          /\ REGISTRY'[t].link_id = IF t = s THEN link_id[p]
                                                    ELSE REGISTRY[t].link_id
      BY <2>1, <2>3, <2>5
    <2>10. \A q \in Port : Open(q) => local(q) \in Endpoint /\ link[q] \in Slot
      BY <1>0, LocalFacts, SMTT(30)
    <2>11. (\A t, u \in Slot : /\ REGISTRY[t].allocated /\ REGISTRY[u].allocated
                               /\ REGISTRY[t].link_id = REGISTRY[u].link_id
                               => t = u)'
      BY <1>0, <2>1, <2>2, <2>9, SMTT(30) DEF RegistryCorrect
    <2>12. (\A q \in Port : Open(q) => /\ REGISTRY[link[q]].allocated
                                       /\ REGISTRY[link[q]].link_id = link_id[q]
                                       /\ ep[local(q)].attached)'
      <3> SUFFICES ASSUME NEW q \in Port, Open(q)'
                   PROVE  /\ REGISTRY'[link'[q]].allocated
                          /\ REGISTRY'[link'[q]].link_id = link_id[q]
                          /\ ep'[local(q)'].attached
        OBVIOUS
      <3>1. CASE q = p
        BY <2>1, <2>2, <2>5, <2>7, <2>8, <2>9, <3>1, SMTT(30)
      <3>2. CASE q # p
        BY <1>0, <2>1, <2>2, <2>7, <2>8, <2>9, <2>10, <3>2, SMTT(30) DEF RegistryCorrect
      <3> QED
        BY <3>1, <3>2
    <2>13. (\A q, r \in Port : Open(q) /\ Open(r) /\ local(q) = local(r) => q = r)'
      BY <1>0, <2>1, <2>8 DEF RegistryCorrect
    <2>14. (\A x \in Endpoint : ep[x].attached => \E q \in Port : Open(q) /\ local(q) = x)'
      <3> SUFFICES ASSUME NEW x \in Endpoint, ep'[x].attached
                   PROVE  \E q \in Port : Open(q)' /\ local(q)' = x
        OBVIOUS
      <3>1. CASE x = e
        BY <2>8, <3>1
      <3>2. CASE x # e
        BY <1>0, <2>4, <2>7, <2>8, <3>2, SMTT(30) DEF RegistryCorrect
      <3> QED
        BY <3>1, <3>2
    <2>15. (\A t \in Slot : REGISTRY[t].allocated
                => ep[<<t, 0>>].attached \/ ep[<<t, 1>>].attached)'
      <3>1. \A t \in Slot : <<t, 0>> \in Endpoint /\ <<t, 1>> \in Endpoint
        BY DEF Endpoint
      <3>2. e = <<s, 0>> \/ e = <<s, 1>>
        BY <2>6, ConfigAssumption, SMTT(30)
      <3> QED
        BY <1>0, <2>7, <2>9, <3>1, <3>2 DEF RegistryCorrect
    <2> QED
      BY <2>11, <2>12, <2>13, <2>14, <2>15 DEF RegistryCorrect
  <1>3. ASSUME NEW p \in Port, spw_port_close(p)
        PROVE  RegistryCorrect'
    <2> DEFINE s == link[p]
               l == local(p)
               m == peer(l)
               last == ~ep[m].attached
    <2>1. /\ s \in Slot /\ l \in Endpoint /\ l[1] = s /\ Open(p)
          /\ m \in Endpoint /\ m # l /\ m[1] = s
      BY <1>0, <1>3, LocalFacts, PeerFacts, SMTT(30) DEF spw_port_close
    <2>2. REGISTRY \in [Slot -> [allocated : BOOLEAN, link_id : Nat]]
          /\ link \in [Port -> Slot \cup {NULL}]
          /\ ep \in [Endpoint -> EndpointState]
      BY <1>0 DEF TypeOK
    <2>3. /\ REGISTRY' = [REGISTRY EXCEPT ![s] =
                             IF last THEN [allocated |-> FALSE, link_id |-> 0]
                                     ELSE REGISTRY[s]]
          /\ link' = [link EXCEPT ![p] = NULL]
      BY <1>3, <2>1, <2>2 DEF spw_port_close, detach_backend
    <2>4. \A x \in Endpoint : ep'[x].attached = (~CloseResets(p, x) /\ ep[x].attached)
      BY <1>0, <1>3, CloseEffect DEF spw_port_close
    <2>5. \A x \in Endpoint : x[1] = s => x = l \/ x = m
      BY <2>1 DEF Endpoint, peer
    <2>6. {<<s, 0>>, <<s, 1>>} = {l, m}
      BY ConfigAssumption DEF local, peer
    <2>7. \A x \in Endpoint : ep'[x].attached <=> x # l /\ ep[x].attached
      BY <2>1, <2>4, Zenon DEF CloseResets
    <2> HIDE DEF l, m
    <2>8. \A t \in Slot : /\ REGISTRY'[t].allocated <=>
                                 (t # s \/ ~last) /\ REGISTRY[t].allocated
                          /\ REGISTRY'[t].allocated =>
                                 REGISTRY'[t].link_id = REGISTRY[t].link_id
      BY <2>1, <2>2, <2>3
    <2>9. /\ ~Open(p)'
          /\ \A q \in Port : q # p => (Open(q)' <=> Open(q)) /\ local(q)' = local(q)
                                      /\ link'[q] = link[q]
      BY <2>2, <2>3 DEF Open, local
    <2>10. \A q \in Port : Open(q) => /\ local(q) \in Endpoint /\ link[q] \in Slot
                                      /\ local(q)[1] = link[q]
      BY <1>0, LocalFacts
    <2>11. \A q \in Port : Open(q) /\ q # p => local(q) # l
      BY <1>0, <2>1 DEF RegistryCorrect, l
    <2>12. (\A t, u \in Slot : /\ REGISTRY[t].allocated /\ REGISTRY[u].allocated
                               /\ REGISTRY[t].link_id = REGISTRY[u].link_id
                               => t = u)'
      BY <1>0, <2>8, SMTT(30) DEF RegistryCorrect
    <2>13. (\A q \in Port : Open(q) => /\ REGISTRY[link[q]].allocated
                                       /\ REGISTRY[link[q]].link_id = link_id[q]
                                       /\ ep[local(q)].attached)'
      <3> SUFFICES ASSUME NEW q \in Port, Open(q)'
                   PROVE  /\ REGISTRY'[link'[q]].allocated
                          /\ REGISTRY'[link'[q]].link_id = link_id[q]
                          /\ ep'[local(q)'].attached
        OBVIOUS
      <3>1. q # p /\ Open(q) /\ local(q)' = local(q) /\ link'[q] = link[q]
        BY <2>9
      <3>2. /\ REGISTRY[link[q]].allocated /\ REGISTRY[link[q]].link_id = link_id[q]
            /\ ep[local(q)].attached
        BY <1>0, <3>1 DEF RegistryCorrect
      <3>3. link[q] = s => ~last
        BY <2>5, <2>10, <2>11, <3>1, <3>2, SMTT(30)
      <3> QED
        BY <2>7, <2>8, <2>10, <2>11, <3>1, <3>2, <3>3
    <2>14. (\A q, r \in Port : Open(q) /\ Open(r) /\ local(q) = local(r) => q = r)'
      BY <1>0, <2>9 DEF RegistryCorrect
    <2>15. (\A x \in Endpoint : ep[x].attached => \E q \in Port : Open(q) /\ local(q) = x)'
      <3> SUFFICES ASSUME NEW x \in Endpoint, ep'[x].attached
                   PROVE  \E q \in Port : Open(q)' /\ local(q)' = x
        OBVIOUS
      <3>1. PICK q \in Port : Open(q) /\ local(q) = x
        BY <1>0, <2>7 DEF RegistryCorrect
      <3> QED
        BY <2>7, <2>9, <3>1 DEF l
    <2>16. (\A t \in Slot : REGISTRY[t].allocated
                => ep[<<t, 0>>].attached \/ ep[<<t, 1>>].attached)'
      <3> SUFFICES ASSUME NEW t \in Slot, REGISTRY'[t].allocated
                   PROVE  ep'[<<t, 0>>].attached \/ ep'[<<t, 1>>].attached
        OBVIOUS
      <3>1. CASE t = s
        BY <2>1, <2>6, <2>7, <2>8, <3>1, SMTT(30)
      <3>2. CASE t # s
        <4>1. <<t, 0>> \in Endpoint /\ <<t, 1>> \in Endpoint
              /\ <<t, 0>> # l /\ <<t, 1>> # l
          BY <2>1, <3>2, SMTT(30) DEF Endpoint
        <4> QED
          BY <1>0, <2>7, <2>8, <3>2, <4>1 DEF RegistryCorrect
      <3> QED
        BY <3>1, <3>2
    <2> QED
      BY <2>12, <2>13, <2>14, <2>15, <2>16 DEF RegistryCorrect
  <1>4. ASSUME NEW p \in Port,
               spw_port_start(p) \/ spw_port_stop(p) \/ spw_port_reset(p)
        PROVE  RegistryCorrect'
    <2>1. UNCHANGED <<REGISTRY, link>> /\ Open(p)
          /\ \A x \in Endpoint : ep'[x].attached = ep[x].attached
      BY <1>0, <1>4, StartEffect, StopEffect, ResetEffect, SMTT(30)
        DEF spw_port_start, spw_port_stop, spw_port_reset
    <2>2. \A q \in Port : (Open(q)' <=> Open(q)) /\ local(q)' = local(q)
      BY <2>1 DEF Open, local
    <2>3. \A q \in Port : Open(q) => local(q) \in Endpoint
      BY <1>0, LocalFacts
    <2>4. \A t \in Slot : <<t, 0>> \in Endpoint /\ <<t, 1>> \in Endpoint
      BY DEF Endpoint
    <2> QED
      BY <1>0, <2>1, <2>2, <2>3, <2>4, SMTT(30) DEF RegistryCorrect
  <1> QED
    BY <1>0, <1>1, <1>2, <1>3, <1>4, QuietCases DEF LinkStep

\* Every step keeps the link states right, at both ends.  Start needs the
\* registry's fact that an open port's endpoint is attached.
LEMMA LinkStateStep ==
  ASSUME Inv, LinkStep
  PROVE  LinkStateCorrect'
  <1>0. TypeOK /\ LinkStateCorrect /\ RegistryCorrect
    BY DEF Inv
  <1>1. /\ \A x \in Endpoint : ep[x].attached \in BOOLEAN /\ ep[x].started \in BOOLEAN
        /\ \A x \in Endpoint : /\ peer(x) \in Endpoint /\ peer(peer(x)) = x
                               /\ peer(x) # x /\ peer(x)[1] = x[1]
    BY <1>0, PeerFacts DEF TypeOK, EndpointState
  <1>2. \A x, y \in Endpoint : x[1] = y[1] => x = y \/ x = peer(y)
    BY DEF Endpoint, peer
  <1>3. ASSUME SameEndpoints
        PROVE  LinkStateCorrect'
    BY <1>0, <1>1, <1>3 DEF LinkStateCorrect, SameEndpoints, Up, peer_available
  <1>4. ASSUME NEW p \in Port, OpenStep(p)
        PROVE  LinkStateCorrect'
    <2> DEFINE s == attach_target(p)
               e == Target(p)
    <2>1. /\ e \in Endpoint
          /\ REGISTRY[s].allocated => ~ep[e].attached
          /\ \A x \in Endpoint :
               /\ ep'[x].attached = (x = e \/ (~OpenResets(p, x) /\ ep[x].attached))
               /\ ep'[x].started = (~OpenResets(p, x) /\ ep[x].started)
               /\ ep'[x].state =
                    IF x[1] = s /\ ep'[x].attached /\ ep'[x].started
                    THEN IF ep'[peer(x)].attached /\ ep'[peer(x)].started
                         THEN "RUN" ELSE "CONNECTING"
                    ELSE IF OpenResets(p, x) THEN "ERROR_RESET" ELSE ep[x].state
      BY <1>0, <1>4, OpenEffect DEF OpenStep, OpenedAt
    <2>a. \A x \in Endpoint :
             OpenResets(p, x) <=> x = e \/ (x = peer(e) /\ ~REGISTRY[s].allocated)
      BY DEF OpenResets
    <2>2. e[1] = s
      BY SMTT(30) DEF Target
    <2> HIDE DEF e, s
    <2>3. ASSUME NEW x \in Endpoint, x[1] = s
          PROVE  /\ ep'[x].started => ep'[x].attached
                 /\ ep'[x].state = "RUN" <=> Up(x)' /\ Up(peer(x))'
                 /\ ep'[x].state = "CONNECTING" <=> Up(x)' /\ ~Up(peer(x))'
      BY <1>0, <1>1, <1>2, <2>1, <2>a, <2>2, <2>3, SMTT(30)
        DEF LinkStateCorrect, Up, peer_available
    <2>4. ASSUME NEW x \in Endpoint, x[1] # s
          PROVE  /\ ep'[x].started => ep'[x].attached
                 /\ ep'[x].state = "RUN" <=> Up(x)' /\ Up(peer(x))'
                 /\ ep'[x].state = "CONNECTING" <=> Up(x)' /\ ~Up(peer(x))'
      <3>1. /\ x # e /\ x # peer(e) /\ peer(x) # e /\ peer(x) # peer(e)
            /\ peer(x) \in Endpoint
        BY <1>1, <2>1, <2>2, <2>4, SMTT(30)
      <3> QED
        BY <1>0, <1>1, <2>1, <2>a, <2>4, <3>1, SMTT(30) DEF LinkStateCorrect, Up, peer_available
    <2> QED
      BY <2>3, <2>4, SMTT(30) DEF LinkStateCorrect
  <1>5. ASSUME NEW p \in Port, spw_port_close(p)
        PROVE  LinkStateCorrect'
    <2> DEFINE l == local(p)
               m == peer(l)
    <2>1. l \in Endpoint /\ m \in Endpoint /\ m # l /\ peer(m) = l
          /\ \A x \in Endpoint : CloseResets(p, x) <=> x = l \/ (x = m /\ ~ep[m].attached)
      BY <1>0, <1>5, LocalFacts, PeerFacts, SMTT(30) DEF spw_port_close, CloseResets
    <2>2. \A x \in Endpoint :
             /\ ep'[x].attached = (~CloseResets(p, x) /\ ep[x].attached)
             /\ ep'[x].started = (~CloseResets(p, x) /\ ep[x].started)
             /\ ep'[x].state =
                  IF CloseResets(p, x) THEN "ERROR_RESET"
                  ELSE IF x = m /\ ep[x].attached /\ ep[x].started
                       THEN "CONNECTING" ELSE ep[x].state
      BY <1>0, <1>5, CloseEffect DEF spw_port_close
    <2> HIDE DEF l
    <2> SUFFICES ASSUME NEW x \in Endpoint
                 PROVE  /\ ep'[x].started => ep'[x].attached
                        /\ ep'[x].state = "RUN" <=> Up(x)' /\ Up(peer(x))'
                        /\ ep'[x].state = "CONNECTING" <=> Up(x)' /\ ~Up(peer(x))'
      BY DEF LinkStateCorrect
    <2>3. CASE x = l
      BY <1>0, <1>1, <2>1, <2>2, <2>3, Zenon DEF LinkStateCorrect, Up, peer_available
    <2>4. CASE x = peer(l)
      <3>1. peer(x) = l /\ ~ep'[peer(x)].attached
        BY <2>1, <2>2, <2>4, Zenon
      <3>2. CASE ep[m].attached
        BY <1>0, <1>1, <2>1, <2>2, <2>4, <3>1, <3>2
          DEF LinkStateCorrect, Up, peer_available
      <3>3. CASE ~ep[m].attached
        BY <2>1, <2>2, <2>4, <3>3, Zenon DEF Up, peer_available
      <3> QED
        BY <3>2, <3>3
    <2>5. CASE x # l /\ x # peer(l)
      <3>1. peer(x) # l /\ peer(x) # peer(l) /\ peer(x) \in Endpoint
        BY <1>1, <2>1, <2>5, SMTT(30)
      <3> QED
        BY <1>0, <1>1, <2>1, <2>2, <2>5, <3>1, SMTT(30)
          DEF LinkStateCorrect, Up, peer_available
    <2> QED
      BY <2>3, <2>4, <2>5, SMTT(30)
  <1>6. ASSUME NEW p \in Port, spw_port_start(p)
        PROVE  LinkStateCorrect'
    <2> DEFINE l == local(p)
    <2>1. l \in Endpoint /\ l[1] = link[p] /\ ep[l].attached
      BY <1>0, <1>6, LocalFacts, ZenonT(40) DEF spw_port_start, RegistryCorrect
    <2>2. \A x \in Endpoint :
              /\ ep'[x].attached = ep[x].attached
              /\ ep'[x].started = (ep[x].started \/ x = l)
              /\ ep'[x].state =
                   IF x[1] = link[p] /\ ep'[x].attached /\ ep'[x].started
                   THEN IF ep'[peer(x)].attached /\ ep'[peer(x)].started
                        THEN "RUN" ELSE "CONNECTING"
                   ELSE IF x = l THEN "CONNECTING" ELSE ep[x].state
      BY <1>0, <1>6, StartEffect, ZenonT(30), SMTT(30) DEF spw_port_start
    <2> HIDE DEF l
    <2> QED
      BY <1>0, <1>1, <1>2, <2>1, <2>2 DEF LinkStateCorrect, Up, peer_available
  <1>7. ASSUME NEW p \in Port, spw_port_stop(p) \/ spw_port_reset(p)
        PROVE  LinkStateCorrect'
    <2> DEFINE l == local(p)
    <2>1. l \in Endpoint
      BY <1>0, <1>7, LocalFacts, SMTT(30) DEF spw_port_stop, spw_port_reset
    <2>2. PICK st \in {"READY", "ERROR_RESET"} : \A x \in Endpoint :
              /\ ep'[x].attached = ep[x].attached
              /\ ep'[x].started = (ep[x].started /\ x # l)
              /\ ep'[x].state =
                   IF x = l THEN st
                   ELSE IF x = peer(l) /\ ep[x].attached /\ ep[x].started
                        THEN "CONNECTING" ELSE ep[x].state
      BY <1>0, <1>7, StopEffect, ResetEffect, SMTT(30) DEF spw_port_stop, spw_port_reset
    <2> HIDE DEF l
    <2> SUFFICES ASSUME NEW x \in Endpoint
                 PROVE  /\ ep'[x].started => ep'[x].attached
                        /\ ep'[x].state = "RUN" <=> Up(x)' /\ Up(peer(x))'
                        /\ ep'[x].state = "CONNECTING" <=> Up(x)' /\ ~Up(peer(x))'
      BY DEF LinkStateCorrect
    <2>3. CASE x = l
      BY <1>0, <1>1, <2>1, <2>2, <2>3, Zenon DEF LinkStateCorrect, Up, peer_available
    <2>4. CASE x = peer(l)
      BY <1>0, <1>1, <2>1, <2>2, <2>4, ZenonT(40) DEF LinkStateCorrect, Up, peer_available
    <2>5. CASE x # l /\ x # peer(l)
      <3>1. peer(x) # l /\ peer(x) # peer(l) /\ peer(x) \in Endpoint
        BY <1>1, <2>1, <2>5
      <3> QED
        BY <1>0, <1>1, <2>1, <2>2, <2>5, <3>1
          DEF LinkStateCorrect, Up, peer_available
    <2> QED
      BY <2>3, <2>4, <2>5, SMTT(30)
  <1> QED
    BY <1>0, <1>3, <1>4, <1>5, <1>6, <1>7, QuietCases DEF LinkStep

\* Every step keeps the two started flags equal.  It needs that no two ports
\* share an endpoint.
LEMMA StartedFlagsStep ==
  ASSUME Inv, LinkStep
  PROVE  StartedFlagsAgree'
  <1>0. TypeOK /\ RegistryCorrect /\ StartedFlagsAgree
    BY DEF Inv
  <1>1. /\ \A q \in Port : Open(q) => local(q) \in Endpoint
        /\ \A q, r \in Port : Open(q) /\ Open(r) /\ q # r => local(q) # local(r)
        /\ \A q \in Port : Open(q) => ep[local(q)].attached
        /\ \A q \in Port : locally_started[q] \in BOOLEAN
        /\ \A x \in Endpoint : ep[x].started \in BOOLEAN
    BY <1>0, LocalFacts, Zenon DEF RegistryCorrect, TypeOK, EndpointState
  <1>2. locally_started \in [Port -> BOOLEAN] /\ link \in [Port -> Slot \cup {NULL}]
    BY <1>0 DEF TypeOK
  <1>3. ASSUME SameEndpoints, UNCHANGED <<link, locally_started>>
        PROVE  StartedFlagsAgree'
    <2>1. \A q \in Port : (Open(q)' <=> Open(q)) /\ local(q)' = local(q)
      BY <1>3 DEF Open, local
    <2> QED
      BY <1>0, <1>1, <1>3, <2>1 DEF StartedFlagsAgree, SameEndpoints
  <1>4. ASSUME NEW p \in Port, OpenStep(p)
        PROVE  StartedFlagsAgree'
    <2> DEFINE s == attach_target(p)
               e == Target(p)
    <2>1. /\ s \in Slot
          /\ link' = [link EXCEPT ![p] = s]
          /\ \A q \in Port : Open(q) => local(q) # e
          /\ ~REGISTRY[s].allocated => \A q \in Port : link[q] # s
      BY <1>0, <1>4, OpenPlace, OpenEffect, Zenon DEF OpenStep
    <2>2. /\ e \in Endpoint
          /\ \A x \in Endpoint : ep'[x].started = (~OpenResets(p, x) /\ ep[x].started)
      BY <1>0, <1>4, OpenEffect DEF OpenStep, OpenedAt
    <2>a. \A x \in Endpoint :
             OpenResets(p, x) <=> x = e \/ (x = peer(e) /\ ~REGISTRY[s].allocated)
      BY DEF OpenResets
    <2>b. e = <<s, endpoint_index[p]>>
      BY DEF Target
    <2> HIDE DEF e
    <2>3. locally_started' = [locally_started EXCEPT ![p] = FALSE]
      BY <1>4 DEF OpenStep
    <2> HIDE DEF s
    <2>4. /\ Open(p)' /\ local(p)' = e
          /\ \A q \in Port : q # p => (Open(q)' <=> Open(q)) /\ local(q)' = local(q)
      BY <1>2, <2>1, <2>b, ConfigAssumption DEF Open, local, NULL, Slot
    <2>5. peer(e)[1] = s /\ \A q \in Port : local(q)[1] = link[q]
      BY <2>b DEF peer, local
    <2> SUFFICES ASSUME NEW q \in Port
                 PROVE  locally_started'[q] <=> Open(q)' /\ ep'[local(q)'].started
      BY DEF StartedFlagsAgree
    <2>6. CASE q = p
      BY <1>2, <2>2, <2>a, <2>3, <2>4, <2>6, Zenon
    <2>7. CASE q # p
      BY <1>0, <1>1, <1>2, <2>1, <2>2, <2>a, <2>3, <2>4, <2>5,
         <2>7, SMTT(30) DEF StartedFlagsAgree
    <2> QED
      BY <2>6, <2>7
  <1>5. ASSUME NEW p \in Port, spw_port_close(p)
        PROVE  StartedFlagsAgree'
    <2> DEFINE l == local(p)
               m == peer(l)
    <2>1. l \in Endpoint /\ m \in Endpoint /\ m # l /\ Open(p)
      BY <1>0, <1>5, LocalFacts, PeerFacts, SMTT(30) DEF spw_port_close
    <2>2. \A x \in Endpoint : ep'[x].started = (~CloseResets(p, x) /\ ep[x].started)
      BY <1>0, <1>5, CloseEffect DEF spw_port_close
    <2>a. \A x \in Endpoint : CloseResets(p, x) <=> x = l \/ (x = m /\ ~ep[m].attached)
      BY DEF CloseResets
    <2>3. /\ locally_started' = [locally_started EXCEPT ![p] = FALSE]
          /\ link' = [link EXCEPT ![p] = NULL]
      BY <1>5 DEF spw_port_close, detach_backend
    <2>4. /\ ~Open(p)'
          /\ \A q \in Port : q # p => (Open(q)' <=> Open(q)) /\ local(q)' = local(q)
      BY <1>2, <2>3 DEF Open, local
    <2>5. \A q \in Port : Open(q) /\ q # p => local(q) # l
      BY <1>1, <2>1, SMTT(30)
    <2> HIDE DEF l, m
    <2> QED
      BY <1>0, <1>1, <1>2, <2>1, <2>2, <2>a, <2>3, <2>4, <2>5, SMTT(30)
        DEF StartedFlagsAgree
  <1>6. ASSUME NEW p \in Port,
               spw_port_start(p) \/ spw_port_stop(p) \/ spw_port_reset(p)
        PROVE  StartedFlagsAgree'
    <2> DEFINE l == local(p)
    <2>1. PICK b \in BOOLEAN :
             /\ locally_started' = [locally_started EXCEPT ![p] = b]
             /\ \A x \in Endpoint : ep'[x].started =
                   IF x = l THEN b ELSE ep[x].started
             /\ UNCHANGED link /\ Open(p)
      <3>1. CASE spw_port_start(p)
        <4>1. \A x \in Endpoint : ep'[x].started = (ep[x].started \/ x = l)
          BY <1>0, <3>1, StartEffect DEF spw_port_start
        <4>2. \A x \in Endpoint : ep'[x].started = IF x = l THEN TRUE ELSE ep[x].started
          BY <1>1, <4>1, Zenon
        <4> QED
          BY <3>1, <4>2, Zenon DEF spw_port_start
      <3>2. CASE spw_port_stop(p)
        BY <1>0, <1>1, <3>2, StopEffect, ZenonT(40) DEF spw_port_stop
      <3>3. CASE spw_port_reset(p)
        BY <1>0, <1>1, <3>3, ResetEffect, ZenonT(40) DEF spw_port_reset
      <3> QED
        BY <1>6, <3>1, <3>2, <3>3
    <2>2. \A q \in Port : (Open(q)' <=> Open(q)) /\ local(q)' = local(q)
      BY <2>1, SMTT(30) DEF Open, local
    <2>3. \A q \in Port : Open(q) /\ q # p => local(q) # l
      BY <1>1, <2>1
    <2> HIDE DEF l
    <2> QED
      BY <1>0, <1>1, <1>2, <2>1, <2>2, <2>3, SMTT(30) DEF StartedFlagsAgree, l
  <1> QED
    BY <1>0, <1>3, <1>4, <1>5, <1>6, QuietCases DEF LinkStep

-----------------------------------------------------------------------------
(* The receive queues. *)

\* The end of a transfer overfills no queue: a packet send tests the queue
\* again, a time-code send relies on the predicate it waited for.
LEMMA FinishQueues ==
  ASSUME TypeOK, QueuesBounded, NEW p \in Port, Open(p), NEW c \in Call,
         Ready(p, c), Finish(p, c)
  PROVE  QueuesBounded'
  <1> DEFINE l == local(p)
             m == peer(l)
             k == c.kind
  <1>1. l \in Endpoint /\ m \in Endpoint /\ m # l
    BY LocalFacts, PeerFacts
  <1>2. k \in Kind /\ Depth[k] \in Nat
    BY ConfigAssumption DEF Call
  <1>3. \A x \in Endpoint : ep[x].queue \in [Kind -> Seq(Nat)]
    BY DEF TypeOK, EndpointState
  <1>4. CASE c.op = "send" /\ send_outcome(p, c) = "OK" /\ Enqueue(p, c)
    <2>1. Len(ep[m].queue[k]) < Depth[k]
      BY <1>4 DEF Ready, space_ready, send_outcome, Peer, Local
    <2>2. \A x \in Endpoint : ep'[x].queue =
              IF x = m THEN [ep[x].queue EXCEPT ![k] = Append(@, c.item)]
                       ELSE ep[x].queue
      BY <1>4, EnqueueEffect, Zenon
    <2>3. c.item \in Nat
      BY DEF Call
    <2>4. Len(Append(ep[m].queue[k], c.item)) <= Depth[k]
      BY <1>1, <1>2, <1>3, <2>1, <2>3
    <2> HIDE DEF l, m, k
    <2>5. ASSUME NEW x \in Endpoint, NEW j \in Kind
          PROVE  Len(ep'[x].queue[j]) <= Depth[j]
      <3>1. CASE x = m /\ j = k
        BY <1>1, <1>2, <1>3, <2>2, <2>4, <3>1, Zenon
      <3>2. CASE x # m \/ j # k
        BY <1>1, <1>2, <1>3, <2>2, <3>2, Zenon DEF QueuesBounded
      <3> QED
        BY <3>1, <3>2
    <2> QED
      BY <2>5 DEF QueuesBounded
  <1>5. CASE receive_outcome(p, c) = "OK" /\ Dequeue(p, c)
    <2>1. Len(ep[l].queue[k]) # 0
      BY <1>5, SMTT(30) DEF receive_outcome, Local
    <2>2. \A x \in Endpoint : ep'[x].queue =
              IF x = l THEN [ep[x].queue EXCEPT ![k] = Tail(@)] ELSE ep[x].queue
      BY <1>5, <2>1, DequeueEffect, SMTT(30)
    <2>3. ep[l].queue[k] \in Seq(Nat) /\ Len(ep[l].queue[k]) <= Depth[k]
      BY <1>1, <1>2, <1>3, SMTT(30) DEF QueuesBounded
    <2> HIDE DEF l, m, k
    <2>4. Len(Tail(ep[l].queue[k])) <= Depth[k]
      BY <1>2, <2>1, <2>3
    <2>5. ASSUME NEW x \in Endpoint, NEW j \in Kind
          PROVE  Len(ep'[x].queue[j]) <= Depth[j]
      <3>1. CASE x = l /\ j = k
        BY <1>1, <1>2, <1>3, <2>2, <2>4, <3>1, Zenon
      <3>2. CASE x # l \/ j # k
        BY <1>1, <1>2, <1>3, <2>2, <3>2, Zenon DEF QueuesBounded
      <3> QED
        BY <3>1, <3>2
    <2> QED
      BY <2>5 DEF QueuesBounded
  <1>6. CASE ep' = ep
    BY <1>6 DEF QueuesBounded
  <1> QED
    BY <1>4, <1>5, <1>6, SMTT(30) DEF Finish, simulator_send, simulator_receive

\* Every step keeps the queues within their depth.
LEMMA QueuesStep ==
  ASSUME Inv, LinkStep
  PROVE  QueuesBounded'
  <1>0. TypeOK /\ QueuesBounded
    BY DEF Inv
  <1>1. \A k \in Kind : Len(NoItems[k]) <= Depth[k]
    BY ConfigAssumption DEF NoItems
  <1>2. ASSUME \A x \in Endpoint : ep'[x].queue = ep[x].queue \/ ep'[x].queue = NoItems
        PROVE  QueuesBounded'
    BY <1>0, <1>1, <1>2 DEF QueuesBounded
  <1>3. CASE UNCHANGED vars \/ Nothing
    BY <1>2, <1>3 DEF vars, Nothing
  <1>4. ASSUME NEW p \in Port,
               \/ OpenStep(p) \/ spw_port_close(p) \/ spw_port_start(p)
               \/ spw_port_stop(p) \/ spw_port_reset(p)
               \/ spw_port_clear_statistics(p)
        PROVE  QueuesBounded'
    <2> SUFFICES ASSUME NEW x \in Endpoint
                 PROVE  ep'[x].queue = ep[x].queue \/ ep'[x].queue = NoItems
      BY <1>2
    <2>1. CASE OpenStep(p)
      <3>1. ~AttachRefused(p) /\ attach_backend(p)
        BY <2>1, SMTT(30) DEF OpenStep
      <3>2. OpenedAt(p, x)
        BY <1>0, <3>1, OpenEffect
      <3> QED
        BY <3>2 DEF OpenedAt
    <2>2. CASE spw_port_close(p)
      <3>1. ep'[x].queue = IF CloseResets(p, x) THEN NoItems ELSE ep[x].queue
        BY <1>0, <2>2, CloseEffect, Zenon DEF spw_port_close
      <3> QED
        BY <3>1
    <2>3. CASE spw_port_start(p)
      BY <1>0, <2>3, StartEffect, Zenon DEF spw_port_start
    <2>4. CASE spw_port_stop(p)
      BY <1>0, <2>4, StopEffect, Zenon DEF spw_port_stop
    <2>5. CASE spw_port_reset(p)
      BY <1>0, <2>5, ResetEffect, Zenon DEF spw_port_reset
    <2>6. CASE spw_port_clear_statistics(p)
      BY <1>0, <2>6, ClearStatisticsEffect, Zenon DEF spw_port_clear_statistics
    <2> QED
      BY <1>4, <2>1, <2>2, <2>3, <2>4, <2>5, <2>6
  <1>5. ASSUME NEW p \in Port, TransferStep(p)
        PROVE  QueuesBounded'
    <2>1. PICK c \in Call : (Ready(p, c) /\ Finish(p, c)) \/ UNCHANGED ep
      BY <1>5 DEF TransferStep
    <2> QED
      BY <1>0, <1>2, <1>5, <2>1, FinishQueues DEF TransferStep
  <1> QED
    BY <1>3, <1>4, <1>5 DEF LinkStep

-----------------------------------------------------------------------------
(* Waiting calls. *)

\* Nothing a predicate of link s reads has changed at endpoint x.
Same(x) == /\ ep'[x].attached = ep[x].attached
           /\ ep'[x].started = ep[x].started
           /\ ep'[x].queue = ep[x].queue

\* A predicate reads only the endpoints of its own link.
LEMMA ReadyFrame ==
  ASSUME TypeOK, NEW q \in Port, Open(q), NEW c, link'[q] = link[q],
         call'[q].op = c.op, call'[q].kind = c.kind,
         \A x \in Endpoint : x[1] = link[q] => Same(x)
  PROVE  Ready(q, call[q])' <=> Ready(q, c)
  <1>1. local(q) \in Endpoint /\ peer(local(q)) \in Endpoint
        /\ local(q)[1] = link[q] /\ peer(local(q))[1] = link[q]
    BY LocalFacts, PeerFacts, Zenon
  <1>2. local(q)' = local(q) /\ peer(local(q))' = peer(local(q))
    BY DEF local, peer
  <1>3. Same(local(q)) /\ Same(peer(local(q)))
    BY <1>1
  <1> QED
    BY <1>2, <1>3, Zenon
      DEF Same, Ready, space_ready, receive_ready, Local, Peer, peer_available

\* An open changes the endpoints of one slot only.
LEMMA OpenSame ==
  ASSUME TypeOK, NEW p \in Port, OpenStep(p)
  PROVE  \A x \in Endpoint : x # Target(p) /\ x # peer(Target(p)) => Same(x)
  <1> SUFFICES ASSUME NEW x \in Endpoint, x # Target(p), x # peer(Target(p))
               PROVE  Same(x)
    OBVIOUS
  <1>1. ~AttachRefused(p) /\ attach_backend(p)
    BY DEF OpenStep
  <1>2. ~OpenResets(p, x)
    BY SMTT(30) DEF OpenResets
  <1>3. OpenedAt(p, x)
    BY <1>1, OpenEffect
  <1>4. ep[x].attached \in BOOLEAN /\ ep[x].started \in BOOLEAN
    BY DEF TypeOK, EndpointState
  <1> QED
    BY <1>2, <1>3, <1>4 DEF OpenedAt, Same

\* A close changes the endpoints of one slot only.
LEMMA CloseSame ==
  ASSUME TypeOK, NEW p \in Port, spw_port_close(p)
  PROVE  \A x \in Endpoint : x # local(p) /\ x # peer(local(p)) => Same(x)
  <1>1. \A x \in Endpoint :
           /\ ep'[x].attached = (~CloseResets(p, x) /\ ep[x].attached)
           /\ ep'[x].started = (~CloseResets(p, x) /\ ep[x].started)
           /\ ep'[x].queue = IF CloseResets(p, x) THEN NoItems ELSE ep[x].queue
    BY CloseEffect, Zenon DEF spw_port_close
  <1>2. \A x \in Endpoint : ep[x].attached \in BOOLEAN /\ ep[x].started \in BOOLEAN
    BY DEF TypeOK, EndpointState
  <1>3. \A x : x # local(p) /\ x # peer(local(p)) => ~CloseResets(p, x)
    BY DEF CloseResets
  <1> QED
    BY <1>1, <1>2, <1>3 DEF Same

\* Start, stop and reset change, of what predicates read, the port's own
\* endpoint only.
LEMMA StartSame ==
  ASSUME TypeOK, NEW p \in Port,
         spw_port_start(p) \/ spw_port_stop(p) \/ spw_port_reset(p)
  PROVE  \A x \in Endpoint : x # local(p) => Same(x)
  <1>1. \A x \in Endpoint : ep[x].started \in BOOLEAN
    BY DEF TypeOK, EndpointState
  <1>2. CASE spw_port_start(p)
    BY <1>1, <1>2, StartEffect, Zenon DEF spw_port_start, Same
  <1>3. CASE spw_port_stop(p)
    BY <1>1, <1>3, StopEffect, Zenon DEF spw_port_stop, Same
  <1>4. CASE spw_port_reset(p)
    BY <1>1, <1>4, ResetEffect, Zenon DEF spw_port_reset, Same
  <1> QED
    BY <1>2, <1>3, <1>4

\* The end of a transfer changes the endpoints of one slot only.
LEMMA FinishSame ==
  ASSUME TypeOK, NEW p \in Port, Open(p), NEW c \in Call, Finish(p, c)
  PROVE  \A x \in Endpoint : x # local(p) /\ x # peer(local(p)) => Same(x)
  <1>1. \/ Enqueue(p, c)
        \/ Dequeue(p, c) /\ Len(ep[local(p)].queue[c.kind]) # 0
        \/ ep' = ep
    BY DEF Finish, simulator_send, simulator_receive, receive_outcome, Local
  <1> QED
    BY <1>1, EnqueueEffect, DequeueEffect, Zenon DEF Same

\* A step that broadcasts on the one link whose endpoints it changes loses no
\* wake-up.
LEMMA BroadcastStep ==
  ASSUME TypeOK, NoLostWakeup, NEW s, NEW c \in [Port -> Call],
         \A q \in Port : c[q] = call[q] \/ c[q].op = "none",
         \A q \in Port : c[q].op # "none" => link'[q] = link[q],
         call' = broadcast(c, s),
         \A x \in Endpoint : x[1] # s => Same(x)
  PROVE  NoLostWakeup'
  <1> SUFFICES ASSUME NEW q \in Port, ~Idle(q)'
               PROVE  Open(q)' /\ (call'[q].woken \/ ~Ready(q, call[q])')
    BY Zenon DEF NoLostWakeup
  <1>1. /\ call'[q].op = c[q].op /\ call'[q].kind = c[q].kind
        /\ call'[q].woken = IF c[q].op # "none" /\ link[q] = s
                            THEN TRUE ELSE c[q].woken
    <2>1. c[q] \in Call
      OBVIOUS
    <2>2. call'[q] = IF c[q].op # "none" /\ link[q] = s
                     THEN [c[q] EXCEPT !.woken = TRUE] ELSE c[q]
      BY DEF broadcast
    <2> QED
      BY <2>1, <2>2 DEF Call
  <1>2. c[q].op # "none" /\ c[q] = call[q] /\ ~Idle(q) /\ link'[q] = link[q]
    BY <1>1, SMTT(30) DEF Idle
  <1>3. Open(q) /\ Open(q)'
    <2>1. Open(q)
      BY <1>2, SMTT(30) DEF NoLostWakeup
    <2> QED
      BY <1>2, <2>1 DEF Open
  <1>4. CASE link[q] = s
    BY <1>1, <1>2, <1>3, <1>4, SMTT(30)
  <1>5. CASE link[q] # s
    <2>1. Ready(q, call[q])' <=> Ready(q, c[q])
      BY <1>1, <1>2, <1>3, <1>5, ReadyFrame
    <2> QED
      BY <1>1, <1>2, <1>3, <1>5, <2>1, SMTT(30) DEF NoLostWakeup
  <1> QED
    BY <1>4, <1>5, Zenon

\* Every step keeps the wake-ups: it broadcasts on the link it changes, or
\* changes nothing a predicate reads.
LEMMA WakeupStep ==
  ASSUME Inv, LinkStep
  PROVE  NoLostWakeup'
  <1>0. TypeOK /\ NoLostWakeup /\ RegistryCorrect
    BY DEF Inv
  <1>1. call \in [Port -> Call] /\ link \in [Port -> Slot \cup {NULL}]
    BY <1>0 DEF TypeOK
  <1>2. ASSUME UNCHANGED <<link, call>>, \A x \in Endpoint : Same(x)
        PROVE  NoLostWakeup'
    <2> SUFFICES ASSUME NEW q \in Port, ~Idle(q)'
                 PROVE  Open(q)' /\ (call'[q].woken \/ ~Ready(q, call[q])')
      BY DEF NoLostWakeup
    <2>1. ~Idle(q) /\ Open(q) /\ Open(q)'
      BY <1>0, <1>2 DEF Idle, NoLostWakeup, Open
    <2>2. Ready(q, call[q])' <=> Ready(q, call[q])
      BY <1>0, <1>2, <2>1, ReadyFrame
    <2> QED
      BY <1>0, <1>2, <2>1, <2>2 DEF NoLostWakeup
  <1>3. CASE UNCHANGED vars \/ Nothing
    BY <1>2, <1>3, SMTT(30) DEF vars, Nothing, Same
  <1>4. ASSUME NEW p \in Port, spw_port_clear_statistics(p)
        PROVE  NoLostWakeup'
    BY <1>0, <1>2, <1>4, ClearStatisticsEffect DEF spw_port_clear_statistics, Same
  <1>5. ASSUME NEW p \in Port, OpenStep(p)
        PROVE  NoLostWakeup'
    <2> DEFINE s == attach_target(p)
               e == Target(p)
    <2>1. call' = broadcast(call, s) /\ link' = [link EXCEPT ![p] = s]
      BY <1>5 DEF OpenStep, attach_backend
    <2>2. call[p].op = "none"
      BY <1>0, <1>5 DEF OpenStep, NoLostWakeup, Idle
    <2>3. \A x \in Endpoint : x # e /\ x # peer(e) => Same(x)
      BY <1>0, <1>5, OpenSame
    <2>4. e[1] = s /\ peer(e)[1] = s
      BY DEF peer, Target
    <2> HIDE DEF s, e
    <2>5. \A x \in Endpoint : x[1] # s => Same(x)
      BY <2>3, <2>4
    <2> QED
      BY <1>0, <1>1, <2>1, <2>2, <2>5, BroadcastStep
  <1>6. ASSUME NEW p \in Port, spw_port_close(p)
        PROVE  NoLostWakeup'
    <2> DEFINE s == link[p]
    <2>1. call' = broadcast(call, s) /\ link' = [link EXCEPT ![p] = NULL]
      BY <1>6 DEF spw_port_close, detach_backend
    <2>2. call[p].op = "none"
      BY <1>6 DEF spw_port_close, Idle
    <2>3. \A x \in Endpoint : x # local(p) /\ x # peer(local(p)) => Same(x)
      BY <1>0, <1>6, CloseSame
    <2>4. local(p)[1] = s /\ peer(local(p))[1] = s
      BY DEF peer, local
    <2> HIDE DEF s
    <2>5. \A x \in Endpoint : x[1] # s => Same(x)
      BY <2>3, <2>4
    <2> QED
      BY <1>0, <1>1, <2>1, <2>2, <2>5, BroadcastStep, SMTT(30)
  <1>7. ASSUME NEW p \in Port,
               spw_port_start(p) \/ spw_port_stop(p) \/ spw_port_reset(p)
        PROVE  NoLostWakeup'
    <2> DEFINE s == link[p]
    <2>1. call' = broadcast(call, s) /\ link' = link
      BY <1>7 DEF spw_port_start, spw_port_stop, spw_port_reset,
                  simulator_start, simulator_stop, simulator_reset
    <2>2. \A x \in Endpoint : x # local(p) => Same(x)
      BY <1>0, <1>7, StartSame
    <2>3. local(p)[1] = s
      BY DEF local
    <2> HIDE DEF s
    <2>4. \A x \in Endpoint : x[1] # s => Same(x)
      BY <2>2, <2>3
    <2> QED
      BY <1>0, <1>1, <2>1, <2>4, BroadcastStep
  <1>8. ASSUME NEW p \in Port, TransferStep(p)
        PROVE  NoLostWakeup'
    <2>0. Open(p) /\ UNCHANGED link
      BY <1>8 DEF TransferStep
    <2>1. PICK c \in Call :
             \/ Ready(p, c) /\ Finish(p, c)
             \/ UNCHANGED ep /\ call' = Done(p)
             \/ /\ c.op # "none" /\ (c.woken \/ ~Ready(p, c))
                /\ call' = [call EXCEPT ![p] = c] /\ UNCHANGED ep
      BY <1>8 DEF TransferStep
    <2>2. /\ Done(p) \in [Port -> Call] /\ Done(p)[p].op = "none"
          /\ \A q \in Port : q # p => Done(p)[q] = call[q]
      BY <1>0, <1>1, CallFacts, SMTT(30) DEF Done, NoCall
    <2>3. CASE call' = broadcast(Done(p), link[p]) /\ Finish(p, c)
      <3> DEFINE s == link[p]
                 d == Done(p)
      <3>1. \A x \in Endpoint : x # local(p) /\ x # peer(local(p)) => Same(x)
        BY <1>0, <2>0, <2>3, FinishSame, SMTT(30)
      <3>2. local(p)[1] = s /\ peer(local(p))[1] = s
        BY DEF peer, local
      <3> HIDE DEF s
      <3>3. \A x \in Endpoint : x[1] # s => Same(x)
        BY <3>1, <3>2
      <3>4. call' = broadcast(d, s)
        BY <2>3 DEF s
      <3>5. /\ d \in [Port -> Call]
            /\ \A q \in Port : d[q] = call[q] \/ d[q].op = "none"
            /\ \A q \in Port : d[q].op # "none" => link'[q] = link[q]
        BY <2>0, <2>2, SMTT(30)
      <3> HIDE DEF d
      <3> QED
        BY <1>0, <3>3, <3>4, <3>5, BroadcastStep, SMTT(30)
    <2>4. CASE call' = Done(p) /\ UNCHANGED ep
      <3> SUFFICES ASSUME NEW q \in Port, ~Idle(q)'
                   PROVE  Open(q)' /\ (call'[q].woken \/ ~Ready(q, call[q])')
        BY DEF NoLostWakeup
      <3>1. call'[q] = call[q] /\ ~Idle(q)
        BY <2>2, <2>4, SMTT(30) DEF Idle
      <3>2. Open(q) /\ (call[q].woken \/ ~Ready(q, call[q]))
        BY <1>0, <3>1, SMTT(30) DEF NoLostWakeup
      <3>3. Open(q)' /\ link'[q] = link[q] /\ \A x \in Endpoint : Same(x)
        BY <2>0, <2>4, <3>2, SMTT(30) DEF Open, Same
      <3>4. Ready(q, call[q])' <=> Ready(q, call[q])
        BY <1>0, <3>1, <3>2, <3>3, ReadyFrame, ZenonT(40)
      <3> QED
        BY <3>1, <3>2, <3>3, <3>4
    <2>5. CASE /\ c.woken \/ ~Ready(p, c)
               /\ call' = [call EXCEPT ![p] = c] /\ UNCHANGED ep
      <3> SUFFICES ASSUME NEW q \in Port, ~Idle(q)'
                   PROVE  Open(q)' /\ (call'[q].woken \/ ~Ready(q, call[q])')
        BY DEF NoLostWakeup
      <3>1. PICK d : d = IF q = p THEN c ELSE call[q]
        OBVIOUS
      <3>2. call'[q] = d
        BY <1>1, <2>5, <3>1, SMTT(30)
      <3>3. Open(q) /\ (d.woken \/ ~Ready(q, d))
        BY <1>0, <2>0, <2>5, <3>1, <3>2, SMTT(30) DEF NoLostWakeup, Idle
      <3>4. Open(q)' /\ link'[q] = link[q] /\ \A x \in Endpoint : Same(x)
        BY <2>0, <2>5, <3>3, SMTT(30) DEF Open, Same
      <3>5. Ready(q, call[q])' <=> Ready(q, d)
        BY <1>0, <3>2, <3>3, <3>4, ReadyFrame, SMTT(30)
      <3> QED
        BY <3>2, <3>3, <3>4, <3>5
    <2>6. Finish(p, c) => \/ call' = broadcast(Done(p), link[p])
                          \/ call' = Done(p) /\ UNCHANGED ep
      BY DEF Finish, simulator_send, simulator_receive
    <2> QED
      BY <2>1, <2>3, <2>4, <2>5, <2>6, SMTT(30)
  <1> QED
    BY <1>3, <1>4, <1>5, <1>6, <1>7, <1>8 DEF LinkStep

-----------------------------------------------------------------------------
(* The theorems. *)

\* The initial state satisfies the inductive invariant.
LEMMA InitInv ==
  ASSUME Init
  PROVE  Inv
  <1>1. TypeOK
    <2>1. reset_endpoint \in EndpointState /\ NoCall \in Call /\ "OK" \in Result
      BY ResetFacts DEF NoCall, Call, Kind, Result
    <2> QED
      BY <2>1 DEF Init, TypeOK
  <1>2. \A e \in Endpoint : /\ ep[e].attached = FALSE /\ ep[e].started = FALSE
                            /\ ep[e].state = "ERROR_RESET" /\ ep[e].queue = NoItems
    BY DEF Init, reset_endpoint
  <1>3. LinkStateCorrect
    BY <1>2, SMTT(30) DEF LinkStateCorrect, Up, peer_available
  <1>4. RegistryCorrect
    BY <1>2 DEF Init, RegistryCorrect, Open
  <1>5. StartedFlagsAgree
    BY SMTT(30) DEF Init, StartedFlagsAgree, Open
  <1>6. QueuesBounded
    BY <1>2, ConfigAssumption, SMTT(30) DEF QueuesBounded, NoItems
  <1>7. NoLostWakeup
    BY DEF Init, NoLostWakeup, Idle, NoCall
  <1> QED
    BY <1>1, <1>3, <1>4, <1>5, <1>6, <1>7, SMTT(30) DEF Inv

\* Every step keeps the invariant.
LEMMA InvStep ==
  ASSUME Inv, LinkStep
  PROVE  Inv'
  BY TypeStep, LinkStateStep, RegistryStep, StartedFlagsStep, QueuesStep, WakeupStep
    DEF Inv

\* The inductive invariant holds in every reachable state: its conjuncts are
\* proved together because start needs the registry, the flags need the
\* registry, and blocked calls need their port open.
THEOREM Invariance == Spec => []Inv
  <1>1. Init => Inv
    BY InitInv
  <1>2. Inv /\ [Next]_vars => Inv'
    BY NextCases, InvStep
  <1> QED
    BY <1>1, <1>2, PTL DEF Spec

\* Every variable keeps its type, the counters below their modulus, under
\* every interleaving of calls.
THEOREM TypeCorrect == Spec => []TypeOK
  BY Invariance, PTL DEF Inv

\* RUN and CONNECTING always say what both ends of the link are doing
\* (refresh_link_states, simulator_stop, simulator_reset, detach_backend).
THEOREM LinkStatesNeverStale == Spec => []LinkStateCorrect
  BY Invariance, PTL DEF Inv

\* attach_backend and detach_backend pair ports correctly for any number of
\* ports, link ids and slots.
THEOREM RegistryPairsPorts == Spec => []RegistryCorrect
  BY Invariance, PTL DEF Inv

\* The port layer's locally_started and the backend's started never disagree.
THEOREM FlagsAgree == Spec => []StartedFlagsAgree
  BY Invariance, PTL DEF Inv

\* No receive ring of the simulator ever holds more than its depth.
THEOREM QueuesNeverOverflow == Spec => []QueuesBounded
  BY Invariance, PTL DEF Inv

\* A call asleep in wait_condition without a pending signal has a false
\* predicate: every change of a predicate is followed by a broadcast.
THEOREM NoWakeupIsLost == Spec => []NoLostWakeup
  BY Invariance, PTL DEF Inv
=============================================================================
