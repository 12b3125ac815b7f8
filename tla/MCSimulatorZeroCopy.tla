------------------------ MODULE MCSimulatorZeroCopy ------------------------
(* Instances of SimulatorZeroCopy for TLC: port A uses buffers, port B at   *)
(* the other end of the link copies.                                       *)
EXTENDS SimulatorZeroCopy

PairLinkId == [A |-> 1, B |-> 1]
PairEndpoint == [A |-> 0, B |-> 1]
MCDepth == [packet |-> 1, time_code |-> 1]
NotCounted == [c \in Counter |-> 1]
=============================================================================
