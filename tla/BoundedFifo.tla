---------------------------- MODULE BoundedFifo ----------------------------
(***************************************************************************)
(* What each of the UART's two FIFOs promises: a queue of at most Depth    *)
(* items that gives them back in order, loses nothing it has taken, and    *)
(* can take one and give one at the same time, even when it is full.       *)
(***************************************************************************)
EXTENDS Naturals, Sequences

CONSTANTS Items, Depth

VARIABLES queue, given        \* given: the item handed out last

QueueInit == queue = <<>> /\ given \in Items

Push(item) == Len(queue) < Depth /\ queue' = Append(queue, item) /\ UNCHANGED given
Pop == queue # <<>> /\ given' = Head(queue) /\ queue' = Tail(queue)
PushAndPop(item) ==
    queue # <<>> /\ given' = Head(queue) /\ queue' = Append(Tail(queue), item)
Clear ==
    /\ queue' = <<>>
    /\ \/ UNCHANGED given
       \/ queue # <<>> /\ given' = Head(queue)

QueueNext ==
    \/ \E item \in Items : Push(item) \/ PushAndPop(item)
    \/ Pop
    \/ Clear
QueueSpec == QueueInit /\ [][QueueNext]_<<queue, given>>
=============================================================================
