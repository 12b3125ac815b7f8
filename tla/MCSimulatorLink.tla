-------------------------- MODULE MCSimulatorLink --------------------------
(* Instances of SimulatorLink for TLC. *)
EXTENDS SimulatorLink

\* Five ports, three links: two ports compete for one end of link 1, and on a
\* registry of two slots the third link fits only when another one is freed.
LinkId == [A1 |-> 1, A1bis |-> 1, B1 |-> 1, A2 |-> 2, B3 |-> 3]
Side == [A1 |-> 0, A1bis |-> 0, B1 |-> 1, A2 |-> 0, B3 |-> 1]
PortLinkId == [p \in Port |-> LinkId[p]]
PortSide == [p \in Port |-> Side[p]]

\* One of two scenes: the two ends of link 1 with all their calls, or all ports
\* with opens, closes and the other calls that never wait.
CONSTANT Scenes
VARIABLE scene
scene_vars == <<REGISTRY, ep, link, locally_started, call, result, scene>>

Ends == {"A1", "B1"}
BothEnds ==
    /\ scene = "pair"
    /\ \E p \in Ends : \/ Lifecycle(p) \/ Transfers(p)
                       \/ Resume(p) \/ Expire(p) \/ SpuriousWakeup(p)
AllPorts == scene = "registry" /\ \E p \in Port : Lifecycle(p)

SceneInit == Init /\ scene \in Scenes
SceneNext == (BothEnds \/ AllPorts) /\ UNCHANGED scene

\* Fairness: see SimulatorLink.
SceneSpec == SceneInit /\ [][SceneNext]_scene_vars /\ Fairness

MCDepth == [packet |-> 2, time_code |-> 1]

\* A counter that wraps at 1 is not part of the state space.
NotCounted == [c \in Counter |-> 1]
PacketsCounted ==
    [c \in Counter |->
        IF c \in {"tx_packets", "rx_packets", "dropped_packets"} THEN 2 ELSE 1]
ErrorsCounted == [c \in Counter |-> IF c = "link_errors" THEN 2 ELSE 1]
=============================================================================
