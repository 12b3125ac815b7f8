---------------------------- MODULE BoundedFifo ----------------------------
(***************************************************************************)
(* What a loopback queue promises: at most Depth items are held, they are  *)
(* given out in the order they were put in, each once and unchanged, and   *)
(* they leave otherwise only when the whole queue is cleared.              *)
(***************************************************************************)
EXTENDS Naturals, Sequences

CONSTANTS Item, Depth, NoItem

VARIABLES queue,    \* the items held, oldest first
          given     \* the item given out last

fvars == <<queue, given>>

FInit == queue = <<>> /\ given = NoItem

Put ==
    /\ Len(queue) < Depth
    /\ \E x \in Item : queue' = Append(queue, x)
    /\ UNCHANGED given

Take ==
    /\ queue # <<>>
    /\ given' = Head(queue)
    /\ queue' = Tail(queue)

Clear == queue' = <<>> /\ UNCHANGED given

FNext == Put \/ Take \/ Clear

FSpec == FInit /\ [][FNext]_fvars
=============================================================================
