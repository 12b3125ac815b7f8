----------------------------- MODULE UdpFaults -----------------------------
(***************************************************************************)
(* Deterministic fault injection in the UDP backend: the rules and their   *)
(* per-rule generators, the one datagram that may be held back, and what   *)
(* of a datagram reaches the socket.                                       *)
(*   source: src/backends/ethernet/deterministic_faults.c, send_datagram   *)
(*   and the EEP injection of udp_send in udp_backend.c                    *)
(*                                                                         *)
(* A generator is the cyclic sequence of its draws, each of which is below *)
(* the rule's probability or not.  A datagram is its number in the order   *)
(* they are handed to send_datagram.                                       *)
(***************************************************************************)
EXTENDS Integers, Sequences, FiniteSets, SequencesExt

CONSTANTS
    rules,          \* sequence of [action, target, always, max_events]
    COUNTER_MODULUS,\* where a statistics counter wraps (2^64)
    Period,         \* length of a generator's cycle
    Types,          \* message types sent
    MaxHanded,      \* datagrams handed to send_datagram between two starts
    MaxEpochs       \* starts

Rule == DOMAIN rules
Transport == {"DROP", "DUPLICATE", "REORDER", "DELAY"}

VARIABLES
    draws,          \* [Rule -> [0 .. Period - 1 -> BOOLEAN]]: what the seed gives
    injector,       \* states: draws made by each rule; injected_counts
    active,         \* BOOLEAN: the port is started
    held,           \* the reordered datagram, 0 when there is none
    statistics,     \* injections of each action since they were cleared
    handed,         \* [1 .. n -> what send_datagram did with it]
    wire,           \* the datagrams the socket took since the start, in order
    log, before,    \* injector decisions since this start, and since the last
    epochs

vars == <<draws, injector, active, held, statistics, handed, wire, log, before, epochs>>

-----------------------------------------------------------------------------
(* The injector *)

target_for(type) == IF type = "LINK_CONTROL" THEN "KEEPALIVE" ELSE type
target_matches(configured, actual) == configured \in {"ANY", actual}

\* Mutant: the firings of a rule survive the reset.
reset_states_only(j) == [j EXCEPT !.states = [i \in Rule |-> 0]]

spw_fault_injector_reset(j) ==
    [states |-> [i \in Rule |-> 0], injected_counts |-> [i \in Rule |-> 0]]

exhausted(j, i) ==
    rules[i].max_events # 0 /\ j.injected_counts[i] >= rules[i].max_events

fires(j, i) == rules[i].always \/ draws[i][j.states[i] % Period]
Draw(j, i) == [j EXCEPT !.states[i] = @ + 1]

\* The rules of `matching` are tried in order until one fires; every one that
\* is tried draws.
Try(j, matching) ==
    FoldLeft(LAMBDA d, i :
                IF d.rule # 0 \/ i \notin matching \/ exhausted(d.j, i) THEN d
                ELSE IF fires(d.j, i)
                     THEN [j |-> [Draw(d.j, i) EXCEPT !.injected_counts[i] = @ + 1], rule |-> i]
                ELSE [d EXCEPT !.j = Draw(d.j, i)],
             [j |-> j, rule |-> 0], [i \in Rule |-> i])

spw_fault_inject_transport(j, type) ==
    Try(j, {i \in Rule : /\ rules[i].action \in Transport
                         /\ target_matches(rules[i].target, target_for(type))})

spw_fault_inject_spacewire_eep(j) ==
    Try(j, {i \in Rule : rules[i].action = "EEP" /\ target_matches(rules[i].target, "DATA")})

Action(rule) == IF rule = 0 THEN "NONE" ELSE rules[rule].action

-----------------------------------------------------------------------------
(* The backend *)

Init ==
    /\ draws \in [Rule -> [0 .. Period - 1 -> BOOLEAN]]
    /\ \A i \in Rule : rules[i].always => draws[i] = [k \in 0 .. Period - 1 |-> TRUE]
    /\ injector = [states |-> [i \in Rule |-> 0], injected_counts |-> [i \in Rule |-> 0]]
    /\ active = FALSE /\ held = 0 /\ handed = <<>> /\ wire = <<>>
    /\ statistics = [a \in Transport \cup {"EEP"} |-> 0]
    /\ log = <<>> /\ before = <<>> /\ epochs = 0

Decided(event, d) ==
    /\ injector' = d.j
    /\ log' = Append(log, [event |-> event, rule |-> d.rule])
    /\ statistics' = IF d.rule = 0 THEN statistics
                     ELSE [statistics EXCEPT ![Action(d.rule)] = (@ + 1) % COUNTER_MODULUS]

\* What the raw sends of one send_datagram do: copies is what they are given,
\* and the socket takes the first n of them; a refusal ends the call with an
\* error.
Raw(copies, n) == wire' = wire \o SubSeq(copies, 1, n)
Result(copies, n) == IF n = Len(copies) THEN "OK" ELSE "ERROR"
Hand(type, result, fate) == handed' = Append(handed, [type |-> type, result |-> result, fate |-> fate])
This == Len(handed) + 1

\* Mutant: the rules are asked about the datagram that follows a held one, and
\* may hold it back as well.
send_by_any_rule(type) ==
    /\ held # 0
    /\ LET d == spw_fault_inject_transport(injector, type)
       IN  /\ Decided(type, d)
           /\ IF Action(d.rule) = "REORDER"
              THEN held' = This /\ Hand(type, "OK", "HELD") /\ UNCHANGED wire
              ELSE held' = 0 /\ Raw(<<This, held>>, 2) /\ Hand(type, "OK", "SENT")

\* A held datagram follows the next one, which no rule is asked about.  It is
\* forgotten even when its own turn fails.
send_after_held(type) ==
    /\ held # 0
    /\ \E n \in 0 .. 2 :
         /\ Raw(<<This, held>>, n)
         /\ Hand(type, Result(<<This, held>>, n), "SENT")
         /\ held' = IF n = 0 THEN held ELSE 0
    /\ UNCHANGED <<injector, log, statistics>>

\* fits: the call's timeout is no shorter than the delay.
wait_transport_fault_delay(action, fits) ==
    IF action = "DELAY" /\ ~fits THEN "TIMEOUT" ELSE "OK"

send_by_rule(type) ==
    /\ held = 0
    /\ LET d == spw_fault_inject_transport(injector, type)
           action == Action(d.rule)
           copies == IF action = "DUPLICATE" THEN <<This, This>> ELSE <<This>>
       IN  /\ Decided(type, d)
           /\ \/ /\ action = "DROP"
                 /\ Hand(type, "OK", "DROPPED") /\ UNCHANGED <<held, wire>>
              \/ /\ action = "REORDER"
                 /\ held' = This /\ Hand(type, "OK", "HELD") /\ UNCHANGED wire
              \/ /\ wait_transport_fault_delay(action, FALSE) = "TIMEOUT"
                 /\ Hand(type, "ERROR", "LATE") /\ UNCHANGED <<held, wire>>
              \/ /\ action \in {"NONE", "DUPLICATE", "DELAY"}
                 /\ wait_transport_fault_delay(action, TRUE) = "OK"
                 /\ \E n \in 0 .. Len(copies) :
                      /\ Raw(copies, n)
                      /\ Hand(type, Result(copies, n),
                              IF action = "DUPLICATE" THEN "TWICE" ELSE "SENT")
                 /\ UNCHANGED held

send_datagram(type) ==
    /\ active /\ Len(handed) < MaxHanded
    /\ send_after_held(type) \/ send_by_rule(type)
    /\ UNCHANGED <<draws, active, before, epochs>>

\* The part of udp_send that may turn an EOP into an EEP.
inject_eep ==
    /\ active /\ Len(log) < MaxHanded
    /\ LET d == spw_fault_inject_spacewire_eep(injector) IN Decided("EOP packet", d)
    /\ UNCHANGED <<draws, active, held, handed, wire, before, epochs>>

\* Start and reset restart the injector; all three throw the held one away.
udp_start ==
    /\ epochs < MaxEpochs
    /\ epochs' = epochs + 1 /\ active' = TRUE
    /\ injector' = spw_fault_injector_reset(injector)
    /\ held' = 0 /\ handed' = <<>> /\ wire' = <<>>
    /\ before' = log /\ log' = <<>>
    /\ UNCHANGED <<draws, statistics>>

Halt(j) ==
    /\ active /\ active' = FALSE /\ injector' = j /\ held' = 0
    /\ handed' = <<>> /\ wire' = <<>>
    /\ UNCHANGED <<draws, statistics, log, before, epochs>>
udp_stop == Halt(injector)
udp_reset == Halt(spw_fault_injector_reset(injector))

udp_clear_fault_statistics ==
    /\ statistics' = [a \in DOMAIN statistics |-> 0]
    /\ UNCHANGED <<draws, injector, active, held, handed, wire, log, before, epochs>>

Next ==
    \/ \E type \in Types : send_datagram(type)
    \/ inject_eep
    \/ udp_start \/ udp_stop \/ udp_reset \/ udp_clear_fault_statistics

Spec == Init /\ [][Next]_vars

-----------------------------------------------------------------------------
(* Properties *)

\* A start replays the schedule: as long as the same events follow in the same
\* order as after the start before, every decision is the same ("Identical
\* configuration plus identical event order reproduces the same decisions",
\* docs/fault-injection.md), whatever happened to the counters in between.
Replay ==
    \A k \in DOMAIN log \cap DOMAIN before :
        (\A j \in 1 .. k : log[j].event = before[j].event) => log[k] = before[k]

Copies(k) == Cardinality({n \in DOMAIN wire : wire[n] = k})

\* A datagram that send_datagram answered OK is on the wire, or was dropped or
\* thrown away by a rule, or is the held one, and it is on the wire twice only
\* by a DUPLICATE rule.  A held one may be lost with the error the next
\* datagram gets.
OkAccountedFor ==
    \A k \in DOMAIN handed :
        LET h == handed[k]
        IN  /\ h.result = "OK" /\ h.fate = "SENT" => Copies(k) = 1
            /\ h.result = "OK" /\ h.fate = "TWICE" => Copies(k) = 2
            /\ h.fate \in {"DROPPED", "LATE"} => Copies(k) = 0
            /\ h.fate = "HELD" /\ held # k
               => \/ Copies(k) = 1
                  \/ Copies(k) = 0 /\ \E m \in DOMAIN handed : m > k /\ handed[m].result = "ERROR"

=============================================================================
