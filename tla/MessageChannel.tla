--------------------------- MODULE MessageChannel ---------------------------
(***************************************************************************)
(* What one direction of a reliable link promises its applications.        *)
(* Messages are numbered in the order in which they are offered.  Between  *)
(* two starts the receiver gets each at most once and in that order;       *)
(* messages may be missing, and a restart of the receiver begins afresh.   *)
(***************************************************************************)
EXTENDS Naturals, Sequences

VARIABLES offered,      \* number of messages offered so far
          received      \* messages received since the receiver's last start

cvars == <<offered, received>>

CInit == offered = 0 /\ received = <<>>

Offer == offered' = offered + 1 /\ UNCHANGED received

Later(i) == received = <<>> \/ i > received[Len(received)]

Deliver ==
    /\ \E i \in 1 .. offered : Later(i) /\ received' = Append(received, i)
    /\ UNCHANGED offered

Restart == received' = <<>> /\ UNCHANGED offered

CNext == Offer \/ Deliver \/ Restart

CSpec == CInit /\ [][CNext]_cvars
=============================================================================
