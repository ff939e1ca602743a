----------------------------- MODULE ConnQueue -----------------------------
(***************************************************************************)
(* The ConnectionQueue of master.h and master.c: a ring of                 *)
(* CONNECTION_QUEUE_CAPACITY slots with a head (where the next element     *)
(* goes), a tail (where the oldest element is) and a count.  Elements are  *)
(* copied in and out by value.  The mutex makes each call atomic, so each  *)
(* call is one action; what a caller sees of it is the returned Result     *)
(* (ret) and, for a dequeue, the variable it passed (out).                 *)
(***************************************************************************)
EXTENDS Naturals, Sequences

CONSTANTS
  Conns,                       \* the Connection values callers enqueue
  Zeroed,                      \* the all-zero Connection of memset and {0}
  CONNECTION_QUEUE_CAPACITY,
  MutexFaults                  \* which of "lock" and "unlock" may fail

ASSUME CapacityAssumption == CONNECTION_QUEUE_CAPACITY \in Nat \ {0}
ASSUME FaultsAssumption   == MutexFaults \subseteq {"lock", "unlock"}

VARIABLES count, head, tail, data, ret, out

queue == <<count, head, tail, data>>
vars  == <<count, head, tail, data, ret, out>>

Slots == 0 .. CONNECTION_QUEUE_CAPACITY - 1

\* Mutant: the ring wraps one slot early.
NextSlotShort(i) == (i + 1) % (CONNECTION_QUEUE_CAPACITY - 1)

\* The slot after i.
NextSlot(i) == (i + 1) % CONNECTION_QUEUE_CAPACITY

UnlockResults == IF "unlock" \in MutexFaults THEN {0, 1} ELSE {0}

\* pthread_mutex_lock failed: every call returns at once.
LockFails == "lock" \in MutexFaults

conn_queue_init ==
  /\ count = 0
  /\ head = 0
  /\ tail = 0
  /\ data = [i \in Slots |-> Zeroed]

\* Mutant: the ring is taken for full only once it has overrun by one.
EnqueueOverrun(conn) ==
  \/ /\ count # CONNECTION_QUEUE_CAPACITY + 1
     /\ data' = [data EXCEPT ![head] = conn]
     /\ head' = NextSlot(head)
     /\ count' = count + 1
     /\ ret' \in UnlockResults
     /\ UNCHANGED <<tail, out>>
  \/ /\ count = CONNECTION_QUEUE_CAPACITY + 1
     /\ ret' = 1
     /\ UNCHANGED <<queue, out>>

conn_queue_enqueue(conn) ==
  \/ /\ LockFails \/ count = CONNECTION_QUEUE_CAPACITY
     /\ ret' = 1
     /\ UNCHANGED <<queue, out>>
  \/ /\ count # CONNECTION_QUEUE_CAPACITY
     /\ data' = [data EXCEPT ![head] = conn]
     /\ head' = NextSlot(head)
     /\ count' = count + 1
     /\ ret' \in UnlockResults
     /\ UNCHANGED <<tail, out>>

\* Mutant: the oldest element is read from the slot after the tail.
DequeueAfterTail ==
  /\ count # 0
  /\ tail' = NextSlot(tail)
  /\ out' = data[tail']
  /\ count' = count - 1
  /\ ret' \in UnlockResults
  /\ UNCHANGED <<head, data>>

conn_queue_dequeue ==
  \/ /\ LockFails \/ count = 0
     /\ ret' = 1
     /\ UNCHANGED <<queue, out>>
  \/ /\ count # 0
     /\ out' = data[tail]
     /\ tail' = NextSlot(tail)
     /\ count' = count - 1
     /\ ret' \in UnlockResults
     /\ UNCHANGED <<head, data>>

conn_queue_count ==
  /\ ret' \in {count} \cup (IF MutexFaults # {} THEN {0} ELSE {})
  /\ UNCHANGED <<queue, out>>

Init == conn_queue_init /\ ret = 0 /\ out = Zeroed

Next ==
  \/ \E conn \in Conns : conn_queue_enqueue(conn)
  \/ conn_queue_dequeue
  \/ conn_queue_count

Spec == Init /\ [][Next]_vars
-----------------------------------------------------------------------------
(* Properties. *)

\* Types: indices stay inside the ring and the count within the capacity
\* (data[queue->head] of master.c:117 is never out of bounds).
TypeOK ==
  /\ count \in 0 .. CONNECTION_QUEUE_CAPACITY
  /\ head \in Slots
  /\ tail \in Slots
  /\ data \in [Slots -> Conns \cup {Zeroed}]
  /\ ret \in Nat
  /\ out \in Conns \cup {Zeroed}

\* The three indices of the ring never disagree: going count slots on from
\* the tail leads to the head, whatever calls and mutex failures came before.
RingConsistent == head = (tail + count) % CONNECTION_QUEUE_CAPACITY

\* The queued connections, oldest first, as the ring holds them.
Contents ==
  [i \in 1 .. count |-> data[(tail + i - 1) % CONNECTION_QUEUE_CAPACITY]]

Fifo == INSTANCE BoundedFifo WITH
  Elements <- Conns, Nothing <- Zeroed,
  Capacity <- CONNECTION_QUEUE_CAPACITY, fifo <- Contents

\* The ring of master.c:102-148 is a bounded FIFO queue: no element is lost,
\* duplicated, overwritten or reordered, across any wrap-around, and the
\* returned Results are those of the abstract queue.
RefinesFifo == Fifo!Spec
=============================================================================
