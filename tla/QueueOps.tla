------------------------------ MODULE QueueOps ------------------------------
(***************************************************************************)
(* The operations of a bounded first-in first-out queue, with the Result   *)
(* (0 for success, 1 for failure) that each returns.  This is what the     *)
(* callers of conn_queue_enqueue and conn_queue_dequeue may rely on: the   *)
(* master service (module Master) calls these operations, and the ring of  *)
(* module ConnQueue implements them (BoundedFifo, ConnQueueProofs).        *)
(*                                                                         *)
(* MutexFaults names the pthread calls the code is prepared to see fail.   *)
(* A failed lock leaves the queue alone.  A failed unlock comes after the  *)
(* queue was changed, and the call reports failure all the same.           *)
(***************************************************************************)
EXTENDS Naturals, Sequences

CONSTANTS
  Capacity,     \* CONNECTION_QUEUE_CAPACITY
  MutexFaults   \* which of "lock" and "unlock" may fail

VARIABLE fifo   \* the queued elements, oldest first

\* The Results a call may return once it has done its work.
UnlockResults == IF "unlock" \in MutexFaults THEN {0, 1} ELSE {0}

\* Mutant: one element too many is let in.
EnqueueOneMore(e, r) ==
  \/ /\ Len(fifo) <= Capacity
     /\ fifo' = Append(fifo, e)
     /\ r \in UnlockResults
  \/ /\ Len(fifo) = Capacity + 1 \/ "lock" \in MutexFaults
     /\ fifo' = fifo
     /\ r = 1

\* Enqueue e and return r.
Enqueue(e, r) ==
  \/ /\ Len(fifo) < Capacity
     /\ fifo' = Append(fifo, e)
     /\ r \in UnlockResults
  \/ /\ Len(fifo) = Capacity \/ "lock" \in MutexFaults
     /\ fifo' = fifo
     /\ r = 1

\* Mutant: the youngest element is taken.
DequeueYoungest(old, new, r) ==
  \/ /\ fifo # <<>>
     /\ new = fifo[Len(fifo)]
     /\ fifo' = SubSeq(fifo, 1, Len(fifo) - 1)
     /\ r \in UnlockResults
  \/ /\ fifo = <<>> \/ "lock" \in MutexFaults
     /\ new = old
     /\ fifo' = fifo
     /\ r = 1

\* Dequeue into the caller's variable, which goes from old to new; return r.
Dequeue(old, new, r) ==
  \/ /\ fifo # <<>>
     /\ new = Head(fifo)
     /\ fifo' = Tail(fifo)
     /\ r \in UnlockResults
  \/ /\ fifo = <<>> \/ "lock" \in MutexFaults
     /\ new = old
     /\ fifo' = fifo
     /\ r = 1

\* The number of queued elements, or 0 when a pthread call failed.
Count(r) == r = Len(fifo) \/ (MutexFaults # {} /\ r = 0)
=============================================================================
