---------------------------- MODULE BoundedFifo ----------------------------
(***************************************************************************)
(* What the connection queue of master.c promises its callers, as a state  *)
(* machine: any sequence of calls of the operations of QueueOps.  The ring *)
(* of module ConnQueue is shown to refine this specification.              *)
(***************************************************************************)
EXTENDS QueueOps

CONSTANTS
  Elements,     \* the values that can be queued
  Nothing       \* what the caller's variable holds before the first dequeue

VARIABLES
  ret,    \* the value returned by the last call
  out     \* the caller's variable that dequeue fills in

vars == <<fifo, ret, out>>

Init ==
  /\ fifo = <<>>
  /\ ret = 0
  /\ out = Nothing

Next ==
  \/ \E e \in Elements : Enqueue(e, ret') /\ UNCHANGED out
  \/ Dequeue(out, out', ret')
  \/ Count(ret') /\ UNCHANGED <<fifo, out>>

Spec == Init /\ [][Next]_vars
=============================================================================
