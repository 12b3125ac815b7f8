--------------------------- MODULE SimulatorLink ---------------------------
(***************************************************************************)
(* The process-local simulator backend behind the public port API: the     *)
(* registry of virtual links, the two endpoints of a link, the lifecycle   *)
(* of a port, and copied packet and time-code transfer with calls that     *)
(* block on the link's condition variable.                                 *)
(*   source: src/backends/virtual/simulator_backend.c, the lifecycle and   *)
(*   copied-I/O part of src/core/port.c, src/platform/host_sync.c          *)
(*                                                                         *)
(* Every public call runs under the link mutex from its first look at the  *)
(* link until it returns or waits, so a call is one step, or, when it      *)
(* waits, one step up to the wait and one step for each wake-up.  Calls on *)
(* one port are serialised by the application (docs/runtime-contract.md),  *)
(* so a port has at most one call in flight.                               *)
(***************************************************************************)
EXTENDS Integers, Sequences, FiniteSets

CONSTANTS
    Port,               \* spw_port_t objects the application may have open
    link_id,            \* [Port -> Nat], from the port's configuration
    endpoint_index,     \* [Port -> {0, 1}], from the port's configuration
    MAX_LOCAL_LINKS,    \* number of registry slots
    Depth,              \* [Kind -> Nat], depth of the two receive queues
    Length,             \* packet lengths an application sends
    Capacity,           \* buffer capacities an application receives into
    MAX_PACKET_SIZE,
    Timeout,            \* the timeout classes applications use
    Traffic,            \* the kinds of item applications transfer
    MODULUS             \* [Counter -> Nat]: where each counter wraps (2^64)

Kind == {"packet", "time_code"}
Slot == 0 .. MAX_LOCAL_LINKS - 1
Endpoint == Slot \X {0, 1}
NULL == -1
Counter == {"tx_packets", "rx_packets", "tx_time_codes", "rx_time_codes",
            "dropped_packets", "link_errors"}
TimeCode == 0           \* all valid time codes behave alike

ASSUME ConfigAssumption ==
    /\ link_id \in [Port -> Nat]
    /\ endpoint_index \in [Port -> {0, 1}]
    /\ MAX_LOCAL_LINKS \in Nat \ {0}
    /\ Depth \in [Kind -> Nat \ {0}]
    /\ Length \subseteq Nat /\ Capacity \subseteq Nat
    /\ MAX_PACKET_SIZE \in Nat
    /\ Timeout \subseteq {"immediate", "finite", "infinite"}
    /\ Traffic \subseteq Kind
    /\ MODULUS \in [Counter -> Nat \ {0}]

\* The counters of packets have one width (uint64_t in spw_statistics_t).
ASSUME WidthAssumption ==
    /\ MODULUS["rx_packets"] = MODULUS["tx_packets"]
    /\ MODULUS["dropped_packets"] = MODULUS["tx_packets"]

VARIABLES
    REGISTRY,           \* [Slot -> [allocated, link_id]]
    ep,                 \* [Endpoint -> spw_simulator_endpoint_state_t]
    link,               \* [Port -> Slot or NULL]: backend->link
    locally_started,    \* [Port -> BOOLEAN]: the port layer's own flag
    call,               \* [Port -> the blocked call of the port, or NoCall]
    result              \* [Port -> result of the port's last completed call]

vars == <<REGISTRY, ep, link, locally_started, call, result>>

NoItems == [k \in Kind |-> <<>>]
NoStatistics == [c \in Counter |-> 0]
NoCall == [op |-> "none", kind |-> "packet", item |-> 0,
           timeout |-> "immediate", woken |-> FALSE]

LinkState == {"ERROR_RESET", "READY", "CONNECTING", "RUN"}
Result == {"OK", "INVALID_STATE", "TIMEOUT", "RESOURCE_EXHAUSTED",
           "LINK_UNAVAILABLE", "BUFFER_TOO_SMALL", "INVALID_PACKET"}

reset_endpoint ==
    [attached |-> FALSE, started |-> FALSE, state |-> "ERROR_RESET",
     queue |-> NoItems, statistics |-> NoStatistics]

Init ==
    /\ REGISTRY = [s \in Slot |-> [allocated |-> FALSE, link_id |-> 0]]
    /\ ep = [e \in Endpoint |-> reset_endpoint]
    /\ link = [p \in Port |-> NULL]
    /\ locally_started = [p \in Port |-> FALSE]
    /\ call = [p \in Port |-> NoCall]
    /\ result = [p \in Port |-> "OK"]

-----------------------------------------------------------------------------
(* Helpers of the backend *)

local(p) == <<link[p], endpoint_index[p]>>
peer(e) == <<e[1], 1 - e[2]>>

peer_available(x) == x.attached /\ x.started

\* Endpoint x with n added to one of its statistics counters.
count(x, c, n) ==
    [x EXCEPT !.statistics[c] = (@ + n) % MODULUS[c]]

\* Mutant: the packets thrown away are not counted.
clear_uncounted(x) == [x EXCEPT !.queue = NoItems]

clear_receive_queues(x) ==
    [count(x, "dropped_packets", Len(x.queue["packet"]))
        EXCEPT !.queue = NoItems]

\* Both endpoints RUN when both are attached and started, else the started
\* one is CONNECTING and the other keeps its state.
refresh_link_states(f, s) ==
    [e \in Endpoint |->
        IF e[1] = s /\ peer_available(f[e])
        THEN [f[e] EXCEPT !.state =
                 IF peer_available(f[peer(e)]) THEN "RUN" ELSE "CONNECTING"]
        ELSE f[e]]

\* Mutants: the other end stays in RUN; the other end loses its queues.
lose_peer_in_run(x, errors) ==
    IF peer_available(x) THEN count(x, "link_errors", errors) ELSE x
lose_peer_and_queues(x, errors) ==
    IF peer_available(x)
    THEN [clear_receive_queues(x) EXCEPT !.state = "CONNECTING"] ELSE x

\* What stop (errors = 0), reset and close (errors = 1) do to the other end.
lose_peer(x, errors) ==
    IF peer_available(x)
    THEN [count(x, "link_errors", errors) EXCEPT !.state = "CONNECTING"]
    ELSE x

\* spw_host_condition_broadcast: every call waiting on link s runs again.
broadcast(calls, s) ==
    [q \in Port |-> IF calls[q].op # "none" /\ link[q] = s
                    THEN [calls[q] EXCEPT !.woken = TRUE]
                    ELSE calls[q]]

Open(p) == link[p] # NULL
Idle(p) == call[p].op = "none"
Return(p, r) == result' = [result EXCEPT ![p] = r]

-----------------------------------------------------------------------------
(* Opening, closing, starting, stopping and resetting a port *)

Matching(p) == {s \in Slot : REGISTRY[s].allocated
                             /\ REGISTRY[s].link_id = link_id[p]}
Free == {s \in Slot : ~REGISTRY[s].allocated}
first(S) == CHOOSE s \in S : \A t \in S : s <= t

\* Mutant: the scan stops at a free slot.
attach_target_early(p) == first(Matching(p) \cup Free)

\* The link the port's configuration names, else the first free slot.
attach_target(p) == IF Matching(p) # {} THEN first(Matching(p)) ELSE first(Free)

attach_backend(p) ==
    LET s == attach_target(p)
        e == <<s, endpoint_index[p]>>
        fresh == IF REGISTRY[s].allocated THEN ep
                 ELSE [ep EXCEPT ![<<s, 0>>] = reset_endpoint,
                                 ![<<s, 1>>] = reset_endpoint]
    IN  /\ REGISTRY' = [REGISTRY EXCEPT ![s] =
                           [allocated |-> TRUE, link_id |-> link_id[p]]]
        /\ ep' = refresh_link_states(
                    [fresh EXCEPT ![e] =
                        [reset_endpoint EXCEPT !.attached = TRUE]], s)
        /\ link' = [link EXCEPT ![p] = s]
        /\ call' = broadcast(call, s)

\* No slot left, or the endpoint of the link is taken.
AttachRefused(p) ==
    IF Matching(p) # {}
    THEN ep[<<first(Matching(p)), endpoint_index[p]>>].attached
    ELSE Free = {}

spw_port_open(p) ==
    /\ ~Open(p)
    /\ \/ /\ AttachRefused(p)
          /\ Return(p, "RESOURCE_EXHAUSTED")
          /\ UNCHANGED <<REGISTRY, ep, link, locally_started, call>>
       \/ /\ ~AttachRefused(p)
          /\ attach_backend(p)
          /\ locally_started' = [locally_started EXCEPT ![p] = FALSE]
          /\ Return(p, "OK")

\* The slot is freed when the last endpoint of the link leaves.
detach_backend(p) ==
    LET s == link[p]
        e == local(p)
        gone == [ep EXCEPT ![e] = reset_endpoint,
                           ![peer(e)] = lose_peer(@, 1)]
        last == ~ep[peer(e)].attached
    IN  /\ REGISTRY' = [REGISTRY EXCEPT ![s] =
                           IF last THEN [allocated |-> FALSE, link_id |-> 0]
                                   ELSE @]
        /\ ep' = IF last THEN [gone EXCEPT ![peer(e)] = reset_endpoint] ELSE gone
        /\ call' = broadcast(call, s)
        /\ link' = [link EXCEPT ![p] = NULL]

spw_port_close(p) ==
    /\ Open(p) /\ Idle(p)
    /\ locally_started' = [locally_started EXCEPT ![p] = FALSE]
    /\ detach_backend(p)
    /\ Return(p, "OK")

simulator_start(p) ==
    /\ ep' = refresh_link_states(
                [ep EXCEPT ![local(p)].started = TRUE,
                           ![local(p)].state = "CONNECTING"], link[p])
    /\ call' = broadcast(call, link[p])

spw_port_start(p) ==
    /\ Open(p) /\ Idle(p)
    /\ simulator_start(p)
    /\ locally_started' = [locally_started EXCEPT ![p] = TRUE]
    /\ Return(p, "OK")
    /\ UNCHANGED <<REGISTRY, link>>

simulator_stop(p) ==
    /\ ep' = [ep EXCEPT ![local(p)].started = FALSE,
                        ![local(p)].state = "READY",
                        ![peer(local(p))] = lose_peer(@, 0)]
    /\ call' = broadcast(call, link[p])

spw_port_stop(p) ==
    /\ Open(p) /\ Idle(p)
    /\ simulator_stop(p)
    /\ locally_started' = [locally_started EXCEPT ![p] = FALSE]
    /\ Return(p, "OK")
    /\ UNCHANGED <<REGISTRY, link>>

simulator_reset(p) ==
    /\ ep' = [ep EXCEPT ![local(p)] =
                  [clear_receive_queues(@) EXCEPT !.started = FALSE,
                                                  !.state = "ERROR_RESET"],
                        ![peer(local(p))] = lose_peer(@, 1)]
    /\ call' = broadcast(call, link[p])

spw_port_reset(p) ==
    /\ Open(p) /\ Idle(p)
    /\ simulator_reset(p)
    /\ locally_started' = [locally_started EXCEPT ![p] = FALSE]
    /\ Return(p, "OK")
    /\ UNCHANGED <<REGISTRY, link>>

simulator_clear_statistics(p) ==
    ep' = [ep EXCEPT ![local(p)].statistics = NoStatistics]

spw_port_clear_statistics(p) ==
    /\ Open(p) /\ Idle(p)
    /\ simulator_clear_statistics(p)
    /\ Return(p, "OK")
    /\ UNCHANGED <<REGISTRY, link, locally_started, call>>

-----------------------------------------------------------------------------
(* Transfers.  c is the call: its operation, its kind of item, the item    *)
(* sent or the capacity offered, and its timeout.                          *)

Local(p) == ep[local(p)]
Peer(p) == ep[peer(local(p))]

space_ready(p, k) ==
    \/ ~Local(p).started
    \/ ~peer_available(Peer(p))
    \/ Len(Peer(p).queue[k]) < Depth[k]

receive_ready(p, k) ==
    \/ Len(Local(p).queue[k]) > 0
    \/ ~Local(p).started
    \/ ~peer_available(Peer(p))

Ready(p, c) == IF c.op = "send" THEN space_ready(p, c.kind)
                                ELSE receive_ready(p, c.kind)

\* Why the call ends before it looks at a queue ("OK": it goes on).
Refusal(p, c) ==
    IF ~locally_started[p] THEN "INVALID_STATE"
    ELSE IF c.op = "send" /\ c.item > MAX_PACKET_SIZE THEN "INVALID_PACKET"
    ELSE IF ~Local(p).attached \/ ~Local(p).started THEN "INVALID_STATE"
    ELSE IF c.op = "send" /\ ~peer_available(Peer(p)) THEN "LINK_UNAVAILABLE"
    ELSE "OK"

\* How a send ends once the wait is over.
send_outcome(p, c) ==
    IF ~Local(p).started THEN "INVALID_STATE"
    ELSE IF ~peer_available(Peer(p)) THEN "LINK_UNAVAILABLE"
    ELSE IF c.kind = "packet" /\ Len(Peer(p).queue[c.kind]) = Depth[c.kind]
         THEN "TIMEOUT"
    ELSE "OK"

receive_outcome(p, c) ==
    IF ~Local(p).started THEN "INVALID_STATE"
    ELSE IF Len(Local(p).queue[c.kind]) = 0
         THEN IF peer_available(Peer(p)) THEN "TIMEOUT" ELSE "LINK_UNAVAILABLE"
    ELSE IF Head(Local(p).queue[c.kind]) > c.item THEN "BUFFER_TOO_SMALL"
    ELSE "OK"

Sent == [packet |-> "tx_packets", time_code |-> "tx_time_codes"]
Received == [packet |-> "rx_packets", time_code |-> "rx_time_codes"]

Enqueue(p, c) ==
    ep' = [ep EXCEPT ![peer(local(p))].queue[c.kind] = Append(@, c.item),
                     ![local(p)] = count(@, Sent[c.kind], 1)]

\* Endpoint x after its oldest item of kind k has been read.
Taken(x, k) == [count(x, Received[k], 1) EXCEPT !.queue[k] = Tail(@)]

Dequeue(p, c) == ep' = [ep EXCEPT ![local(p)] = Taken(@, c.kind)]

Done(p) == [call EXCEPT ![p] = NoCall]

\* The part of a transfer after the wait: only a success touches the link,
\* and it wakes whoever waits on it.
simulator_send(p, c) ==
    /\ Return(p, send_outcome(p, c))
    /\ IF send_outcome(p, c) = "OK"
       THEN Enqueue(p, c) /\ call' = broadcast(Done(p), link[p])
       ELSE UNCHANGED ep /\ call' = Done(p)

\* Mutant: taking an item does not signal the space it frees.
simulator_receive_silent(p, c) ==
    /\ Return(p, receive_outcome(p, c))
    /\ IF receive_outcome(p, c) = "OK" THEN Dequeue(p, c) ELSE UNCHANGED ep
    /\ call' = Done(p)

simulator_receive(p, c) ==
    /\ Return(p, receive_outcome(p, c))
    /\ IF receive_outcome(p, c) = "OK"
       THEN Dequeue(p, c) /\ call' = broadcast(Done(p), link[p])
       ELSE UNCHANGED ep /\ call' = Done(p)

Finish(p, c) == IF c.op = "send" THEN simulator_send(p, c)
                                 ELSE simulator_receive(p, c)

Expired(c) == IF c.op = "send" /\ c.timeout = "immediate"
              THEN "RESOURCE_EXHAUSTED" ELSE "TIMEOUT"

\* A transfer call up to its return or its wait.
Transfer(p, c) ==
    /\ Open(p) /\ Idle(p)
    /\ \/ /\ Refusal(p, c) # "OK"
          /\ Return(p, Refusal(p, c))
          /\ UNCHANGED <<ep, call>>
       \/ /\ Refusal(p, c) = "OK" /\ Ready(p, c)
          /\ Finish(p, c)
       \/ /\ Refusal(p, c) = "OK" /\ ~Ready(p, c) /\ c.timeout = "immediate"
          /\ Return(p, Expired(c))
          /\ UNCHANGED <<ep, call>>
       \/ /\ Refusal(p, c) = "OK" /\ ~Ready(p, c) /\ c.timeout # "immediate"
          /\ call' = [call EXCEPT ![p] = c]
          /\ UNCHANGED <<ep, result>>
    /\ UNCHANGED <<REGISTRY, link, locally_started>>

Request(op, k, item, t) ==
    [op |-> op, kind |-> k, item |-> item, timeout |-> t, woken |-> FALSE]

spw_port_send(p, n, t) == Transfer(p, Request("send", "packet", n, t))
spw_port_receive(p, n, t) == Transfer(p, Request("receive", "packet", n, t))
spw_port_send_time_code(p, t) ==
    Transfer(p, Request("send", "time_code", TimeCode, t))
spw_port_receive_time_code(p, t) ==
    Transfer(p, Request("receive", "time_code", TimeCode, t))

\* Mutant: a woken call leaves the wait only when its time runs out.
Resume_never(p) ==
    /\ ~Idle(p) /\ call[p].woken /\ ~Ready(p, call[p])
    /\ call' = [call EXCEPT ![p].woken = FALSE]
    /\ UNCHANGED <<REGISTRY, ep, link, locally_started, result>>

\* wait_condition's loop after a wake-up: test again, go on or wait again.
Resume(p) ==
    /\ ~Idle(p) /\ call[p].woken
    /\ \/ /\ Ready(p, call[p])
          /\ Finish(p, call[p])
       \/ /\ ~Ready(p, call[p])
          /\ call' = [call EXCEPT ![p].woken = FALSE]
          /\ UNCHANGED <<ep, result>>
    /\ UNCHANGED <<REGISTRY, link, locally_started>>

\* The wait runs out: the predicate is tested one last time.
Expire(p) ==
    /\ ~Idle(p) /\ call[p].timeout = "finite"
    /\ \/ /\ Ready(p, call[p])
          /\ Finish(p, call[p])
       \/ /\ ~Ready(p, call[p])
          /\ Return(p, Expired(call[p]))
          /\ call' = Done(p)
          /\ UNCHANGED ep
    /\ UNCHANGED <<REGISTRY, link, locally_started>>

\* A condition wait may return without a broadcast.
SpuriousWakeup(p) ==
    /\ ~Idle(p) /\ ~call[p].woken
    /\ call' = [call EXCEPT ![p].woken = TRUE]
    /\ UNCHANGED <<REGISTRY, ep, link, locally_started, result>>

Lifecycle(p) ==
    \/ spw_port_open(p) \/ spw_port_close(p)
    \/ spw_port_start(p) \/ spw_port_stop(p) \/ spw_port_reset(p)
    \/ spw_port_clear_statistics(p)

Transfers(p) ==
    \E t \in Timeout :
        \/ "packet" \in Traffic /\ \E n \in Length : spw_port_send(p, n, t)
        \/ "packet" \in Traffic /\ \E n \in Capacity : spw_port_receive(p, n, t)
        \/ "time_code" \in Traffic /\ spw_port_send_time_code(p, t)
        \/ "time_code" \in Traffic /\ spw_port_receive_time_code(p, t)

Next == \E p \in Port : \/ Lifecycle(p) \/ Transfers(p)
                        \/ Resume(p) \/ Expire(p) \/ SpuriousWakeup(p)

\* A thread that was woken is eventually scheduled and gets the mutex.
Fairness == \A p \in Port : WF_vars(Resume(p))

Spec == Init /\ [][Next]_vars

-----------------------------------------------------------------------------
(* Properties *)

Statistics == {f \in [Counter -> Nat] : \A c \in Counter : f[c] < MODULUS[c]}
EndpointState ==
    [attached : BOOLEAN, started : BOOLEAN, state : LinkState,
     queue : [Kind -> Seq(Nat)], statistics : Statistics]
Call == [op : {"none", "send", "receive"}, kind : Kind, item : Nat,
         timeout : {"immediate", "finite", "infinite"}, woken : BOOLEAN]

TypeOK ==
    /\ REGISTRY \in [Slot -> [allocated : BOOLEAN, link_id : Nat]]
    /\ ep \in [Endpoint -> EndpointState]
    /\ link \in [Port -> Slot \cup {NULL}]
    /\ locally_started \in [Port -> BOOLEAN]
    /\ call \in [Port -> Call]
    /\ result \in [Port -> Result]

Up(e) == peer_available(ep[e])

\* An endpoint is in RUN exactly while both ends of its link are attached and
\* started, and in CONNECTING exactly while it alone is: the state that start,
\* stop, reset, open and close of EITHER end leave behind never goes stale.
LinkStateCorrect ==
    \A e \in Endpoint :
        /\ ep[e].started => ep[e].attached
        /\ ep[e].state = "RUN" <=> Up(e) /\ Up(peer(e))
        /\ ep[e].state = "CONNECTING" <=> Up(e) /\ ~Up(peer(e))

\* The registry pairs ports correctly under any order of opens and closes: a
\* link id has one slot, an open port sits on the slot with its id, no two open
\* ports share an endpoint, every attached endpoint belongs to an open port,
\* and a slot is allocated only while one of its endpoints is attached.
RegistryCorrect ==
    /\ \A s, t \in Slot : /\ REGISTRY[s].allocated /\ REGISTRY[t].allocated
                          /\ REGISTRY[s].link_id = REGISTRY[t].link_id
                          => s = t
    /\ \A p \in Port : Open(p) => /\ REGISTRY[link[p]].allocated
                                  /\ REGISTRY[link[p]].link_id = link_id[p]
                                  /\ ep[local(p)].attached
    /\ \A p, q \in Port : Open(p) /\ Open(q) /\ local(p) = local(q) => p = q
    /\ \A e \in Endpoint : ep[e].attached => \E p \in Port : Open(p) /\ local(p) = e
    /\ \A s \in Slot : REGISTRY[s].allocated
                       => ep[<<s, 0>>].attached \/ ep[<<s, 1>>].attached

\* The port layer's locally_started flag and the backend's started flag are
\* kept by different modules and never disagree; a closed port is not started.
StartedFlagsAgree ==
    \A p \in Port : locally_started[p] <=> Open(p) /\ ep[local(p)].started

\* No wake-up is lost: a blocked call keeps its port open, and while it sleeps
\* on the condition variable unsignalled its predicate is false, whatever the
\* other end did since (send, receive, start, stop, reset, close, reopen).
NoLostWakeup ==
    \A p \in Port : ~Idle(p) => Open(p) /\ (call[p].woken \/ ~Ready(p, call[p]))

\* No receive queue grows past its ring, whichever call is resumed last.
QueuesBounded ==
    \A e \in Endpoint : \A k \in Kind : Len(ep[e].queue[k]) <= Depth[k]

\* Packets an endpoint was sent, less those it received, dropped or still
\* queues (the counters wrap).
Balance(e) ==
    (ep[peer(e)].statistics["tx_packets"]
       - ep[e].statistics["rx_packets"] - ep[e].statistics["dropped_packets"]
       - Len(ep[e].queue["packet"])) % MODULUS["tx_packets"]

\* The counters account for every packet: while no counter is cleared and
\* neither end is opened or closed, each packet counted as sent is in the
\* peer's queue, or counted there as received or as dropped, over every step
\* including reset and stop.
PacketsAccountedFor ==
    [][(\A p \in Port : ~spw_port_clear_statistics(p)) =>
          \A e \in Endpoint :
              (\A x \in {e, peer(e)} : ep[x].attached <=> ep'[x].attached)
              => Balance(e)' = Balance(e)]_vars

\* An item accepted by an endpoint is taken from its queue only by that
\* endpoint: a step that starts, stops, resets, opens or closes one end, or
\* sends from it, loses nothing that waits at the other end.
OnlyOwnerRemoves ==
    [][\A e \in Endpoint : \A k \in Kind :
          Len(ep'[e].queue[k]) < Len(ep[e].queue[k]) =>
              LET other == peer(e) IN
              /\ ep'[other].started = ep[other].started
              /\ ep'[other].attached = ep[other].attached
              /\ ep'[other].queue = ep[other].queue]_vars

\* A call does not sleep for ever on a condition that stays true: if the queue
\* it waits for stays ready (or the peer stays away), it returns.
WaiterReturns ==
    \A p \in Port : []<>Idle(p) \/ []<>~(~Idle(p) /\ Ready(p, call[p]))

\* docs/simulator.md: "Link error counters increase when a running peer
\* disappears or resets": the counter of an endpoint grows only in a step that
\* takes the endpoint out of RUN.
LinkErrorsOnlyFromRun ==
    [][\A e \in Endpoint :
          ep'[e].statistics["link_errors"] > ep[e].statistics["link_errors"]
          => ep[e].state = "RUN"]_vars

=============================================================================
