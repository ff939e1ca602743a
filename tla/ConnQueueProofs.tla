-------------------------- MODULE ConnQueueProofs --------------------------
(***************************************************************************)
(* Machine-checked proofs about the ring of module ConnQueue, for every    *)
(* capacity, every set of connections and every choice of mutex faults.    *)
(***************************************************************************)
EXTENDS ConnQueue, Integers, SequenceTheorems, TLAPS

Cap == CONNECTION_QUEUE_CAPACITY

\* Reducing an index that has not wrapped leaves it alone.
LEMMA ModLow == \A x \in 0 .. Cap - 1 : x % Cap = x
  BY CapacityAssumption DEF Cap

\* Reducing an index that has wrapped once subtracts the capacity.
LEMMA ModHigh == \A x \in Cap .. 2 * Cap - 1 : x % Cap = x - Cap
  BY CapacityAssumption DEF Cap

\* The inductive invariant.  RingConsistent alone is not inductive: without
\* the bounds of TypeOK an enqueue could go past the capacity.
IInv == TypeOK /\ RingConsistent

\* conn_queue_init establishes the inductive invariant.
LEMMA InitIInv == Init => IInv
  <1> SUFFICES ASSUME Init PROVE IInv
    OBVIOUS
  <1> USE CapacityAssumption
  <1>1. 0 % CONNECTION_QUEUE_CAPACITY = 0
    BY ModLow DEF Cap
  <1>2. TypeOK
    BY DEF Init, conn_queue_init, TypeOK, Slots
  <1>3. RingConsistent
    BY <1>1 DEF Init, conn_queue_init, RingConsistent
  <1> QED
    BY <1>2, <1>3 DEF IInv

\* The slot after a slot, in the two cases of NextSlot.
LEMMA NextSlotCases ==
  \A i \in Slots : /\ NextSlot(i) \in Slots
                   /\ NextSlot(i) = IF i + 1 < Cap THEN i + 1 ELSE 0
  <1> TAKE i \in Slots
  <1> USE CapacityAssumption DEF Slots, Cap, NextSlot
  <1>1. CASE i + 1 < Cap
    BY <1>1, ModLow
  <1>2. CASE i + 1 = Cap
    BY <1>2, ModHigh
  <1> QED
    BY <1>1, <1>2

\* Where the index n places after the tail is, before and after a wrap.
LEMMA OffsetCases ==
  ASSUME NEW t \in Slots, NEW n \in 0 .. Cap
  PROVE  /\ (t + n) % Cap \in Slots
         /\ (t + n) % Cap = IF t + n < Cap THEN t + n ELSE t + n - Cap
  <1> USE CapacityAssumption DEF Slots, Cap
  <1>1. CASE t + n < Cap
    BY <1>1, ModLow
  <1>2. CASE t + n >= Cap
    BY <1>2, ModHigh
  <1> QED
    BY <1>1, <1>2

\* An enqueue that stores keeps the ring consistent.
LEMMA StoreIInv ==
  ASSUME IInv, NEW conn \in Conns,
         count # CONNECTION_QUEUE_CAPACITY,
         data' = [data EXCEPT ![head] = conn],
         head' = NextSlot(head), count' = count + 1,
         ret' \in UnlockResults, UNCHANGED <<tail, out>>
  PROVE  IInv'
  <1> USE CapacityAssumption
  <1>1. TypeOK /\ RingConsistent
    BY DEF IInv
  <1>2. count \in 0 .. Cap /\ count + 1 \in 0 .. Cap /\ tail \in Slots
    BY <1>1 DEF TypeOK, Cap
  <1>3. head = IF tail + count < Cap THEN tail + count ELSE tail + count - Cap
    BY <1>1, <1>2, OffsetCases DEF RingConsistent, Cap
  <1>4. (tail + (count + 1)) % Cap
          = IF tail + (count + 1) < Cap THEN tail + (count + 1)
                                        ELSE tail + (count + 1) - Cap
    BY <1>2, OffsetCases
  <1>5. head' \in Slots /\ head' = IF head + 1 < Cap THEN head + 1 ELSE 0
    BY <1>1, NextSlotCases DEF TypeOK
  <1>6. TypeOK'
    BY <1>1, <1>2, <1>5 DEF TypeOK, UnlockResults, Cap
  <1>7. RingConsistent'
    BY <1>2, <1>3, <1>4, <1>5 DEF RingConsistent, Cap, Slots
  <1> QED
    BY <1>6, <1>7 DEF IInv

\* A dequeue that removes keeps the ring consistent.
LEMMA RemoveIInv ==
  ASSUME IInv,
         count # 0, out' = data[tail],
         tail' = NextSlot(tail), count' = count - 1,
         ret' \in UnlockResults, UNCHANGED <<head, data>>
  PROVE  IInv'
  <1> USE CapacityAssumption
  <1>1. TypeOK /\ RingConsistent
    BY DEF IInv
  <1>2. count \in 0 .. Cap /\ count - 1 \in 0 .. Cap /\ tail \in Slots
    BY <1>1 DEF TypeOK, Cap
  <1>3. head = IF tail + count < Cap THEN tail + count ELSE tail + count - Cap
    BY <1>1, <1>2, OffsetCases DEF RingConsistent, Cap
  <1>4. tail' \in Slots /\ tail' = IF tail + 1 < Cap THEN tail + 1 ELSE 0
    BY <1>1, NextSlotCases DEF TypeOK
  <1>5. (tail' + (count - 1)) % Cap
          = IF tail' + (count - 1) < Cap THEN tail' + (count - 1)
                                         ELSE tail' + (count - 1) - Cap
    BY <1>2, <1>4, OffsetCases
  <1>6. TypeOK'
    BY <1>1, <1>2, <1>4 DEF TypeOK, UnlockResults, Cap
  <1>7. RingConsistent'
    BY <1>2, <1>3, <1>4, <1>5 DEF RingConsistent, Cap, Slots
  <1> QED
    BY <1>6, <1>7 DEF IInv

\* Every queue call, successful or not, preserves the inductive invariant.
LEMMA NextIInv == IInv /\ [Next]_vars => IInv'
  <1> SUFFICES ASSUME IInv, [Next]_vars PROVE IInv'
    OBVIOUS
  <1>1. ASSUME NEW conn \in Conns, conn_queue_enqueue(conn)
        PROVE  IInv'
    <2>1. CASE count # CONNECTION_QUEUE_CAPACITY /\ count' = count + 1
      BY <1>1, <2>1, StoreIInv DEF conn_queue_enqueue, queue, IInv, TypeOK
    <2>2. CASE UNCHANGED <<queue, out>> /\ ret' = 1
      BY <2>2 DEF IInv, TypeOK, RingConsistent, queue
    <2> QED
      BY <1>1, <2>1, <2>2 DEF conn_queue_enqueue
  <1>2. CASE conn_queue_dequeue
    <2>1. CASE count # 0 /\ count' = count - 1
      BY <1>2, <2>1, RemoveIInv DEF conn_queue_dequeue, queue, IInv, TypeOK
    <2>2. CASE UNCHANGED <<queue, out>> /\ ret' = 1
      BY <2>2 DEF IInv, TypeOK, RingConsistent, queue
    <2> QED
      BY <1>2, <2>1, <2>2 DEF conn_queue_dequeue
  <1>3. CASE conn_queue_count
    BY <1>3, CapacityAssumption
    DEF conn_queue_count, queue, IInv, TypeOK, RingConsistent
  <1>4. CASE UNCHANGED vars
    BY <1>4 DEF vars, IInv, TypeOK, RingConsistent
  <1> QED
    BY <1>1, <1>2, <1>3, <1>4 DEF Next

\* Type correctness: no index of the ring ever leaves the array, however
\* many times it wraps (data[queue->head] and data[queue->tail], master.c).
THEOREM TypeCorrect == Spec => []TypeOK
  <1>1. IInv => TypeOK
    BY DEF IInv
  <1> QED
    BY <1>1, InitIInv, NextIInv, PTL DEF Spec

\* The count, the head and the tail kept by conn_queue_enqueue and
\* conn_queue_dequeue never disagree.
THEOREM RingIsConsistent == Spec => []RingConsistent
  <1>1. IInv => RingConsistent
    BY DEF IInv
  <1> QED
    BY <1>1, InitIInv, NextIInv, PTL DEF Spec
-----------------------------------------------------------------------------
(* Refinement of the bounded FIFO queue. *)

\* Appending, as a function.
LEMMA AppendAsFunction ==
  ASSUME NEW S, NEW s \in Seq(S), NEW e \in S
  PROVE  Append(s, e) = [i \in 1 .. Len(s) + 1 |->
                           IF i = Len(s) + 1 THEN e ELSE s[i]]
  <1>1. /\ Append(s, e) \in Seq(S)
        /\ Len(Append(s, e)) = Len(s) + 1
        /\ \A i \in 1 .. Len(s) : Append(s, e)[i] = s[i]
        /\ Append(s, e)[Len(s) + 1] = e
    BY AppendProperties
  <1>2. Append(s, e) \in [1 .. Len(s) + 1 -> S]
    BY <1>1, LenProperties
  <1> DEFINE n == Len(s)
             a == Append(s, e)
             f == [i \in 1 .. n + 1 |-> IF i = n + 1 THEN e ELSE s[i]]
  <1>3. n \in Nat
    BY LenProperties
  <1>4. a \in [1 .. n + 1 -> S]
    BY <1>2
  <1>5. /\ \A i \in 1 .. n : a[i] = s[i]
        /\ a[n + 1] = e
    BY <1>1
  <1> HIDE DEF n, a
  <1>6. \A i \in 1 .. n + 1 : a[i] = f[i]
    BY <1>3, <1>5
  <1>7. a = f
    BY <1>4, <1>6
  <1> QED
    BY <1>7 DEF a, n

\* Taking the tail, as a function.
LEMMA TailAsFunction ==
  ASSUME NEW S, NEW s \in Seq(S), s # <<>>
  PROVE  Tail(s) = [i \in 1 .. Len(s) - 1 |-> s[i + 1]]
  <1>1. /\ Tail(s) \in Seq(S)
        /\ Len(Tail(s)) = Len(s) - 1
        /\ \A i \in 1 .. Len(Tail(s)) : Tail(s)[i] = s[i + 1]
    BY HeadTailProperties
  <1>2. Tail(s) \in [1 .. Len(s) - 1 -> S]
    BY <1>1, LenProperties
  <1> QED
    BY <1>1, <1>2

\* The slot that holds the i-th oldest element.
Slot(i) == (tail + i - 1) % Cap

\* The abstract queue is a sequence of count elements.
LEMMA ContentsSeq ==
  ASSUME IInv
  PROVE  /\ Contents \in Seq(Conns \cup {Zeroed})
         /\ Len(Contents) = count
         /\ DOMAIN Contents = 1 .. count
         /\ \A i \in 1 .. count : Contents[i] = data[Slot(i)]
  <1> USE CapacityAssumption
  <1>1. count \in Nat /\ tail \in Slots
    BY DEF IInv, TypeOK
  <1>2. \A i \in 1 .. count : Slot(i) \in Slots
    <2> TAKE i \in 1 .. count
    <2>1. i - 1 \in 0 .. Cap /\ tail + (i - 1) = tail + i - 1
      BY DEF IInv, TypeOK, Cap, Slots
    <2>2. (tail + (i - 1)) % Cap \in Slots
      BY <1>1, <2>1, OffsetCases
    <2> QED
      BY <2>1, <2>2 DEF Slot
  <1>3. \A i \in 1 .. count : data[Slot(i)] \in Conns \cup {Zeroed}
    BY <1>2 DEF IInv, TypeOK
  <1>4. Contents = [i \in 1 .. count |-> data[Slot(i)]]
    BY DEF Contents, Slot, Cap
  <1> QED
    BY <1>1, <1>3, <1>4

\* A stored element becomes the youngest one and no other moves: the slot it
\* is written to is not one of the count slots in use.
LEMMA StoreAppends ==
  ASSUME IInv, IInv', NEW conn \in Conns,
         count # CONNECTION_QUEUE_CAPACITY,
         data' = [data EXCEPT ![head] = conn],
         count' = count + 1, tail' = tail
  PROVE  Contents' = Append(Contents, conn)
  <1> USE CapacityAssumption
  <1>1. /\ count \in 0 .. Cap /\ count + 1 \in 0 .. Cap /\ tail \in Slots
        /\ head \in Slots /\ data \in [Slots -> Conns \cup {Zeroed}]
    BY DEF IInv, TypeOK, Cap
  <1>2. head = Slot(count + 1)
    BY <1>1 DEF IInv, RingConsistent, Slot, Cap, Slots
  <1>3. \A i \in 1 .. count : Slot(i) \in Slots /\ Slot(i) # head
    <2> TAKE i \in 1 .. count
    <2>1. /\ i - 1 \in 0 .. Cap
          /\ tail + (i - 1) = tail + i - 1
          /\ tail + count = tail + (count + 1) - 1
      BY <1>1 DEF Slots, Cap
    <2>2. /\ Slot(i) \in Slots
          /\ Slot(i) = IF tail + (i - 1) < Cap THEN tail + (i - 1)
                                               ELSE tail + (i - 1) - Cap
      BY <1>1, <2>1, OffsetCases DEF Slot
    <2>3. head = IF tail + count < Cap THEN tail + count ELSE tail + count - Cap
      BY <1>1, <1>2, <2>1, OffsetCases DEF Slot
    <2> QED
      BY <1>1, <2>2, <2>3 DEF Slots, Cap
  <1>4. /\ Contents' = [i \in 1 .. count + 1 |-> data'[Slot(i)]]
        /\ Contents  = [i \in 1 .. count     |-> data[Slot(i)]]
    BY DEF Contents, Slot, Cap
  <1>5. \A i \in 1 .. count : data'[Slot(i)] = data[Slot(i)]
    BY <1>1, <1>3
  <1>6. data'[Slot(count + 1)] = conn
    BY <1>1, <1>2
  <1>7. Len(Contents) = count /\ Contents \in Seq(Conns \cup {Zeroed})
    BY ContentsSeq
  <1>8. Append(Contents, conn)
          = [i \in 1 .. count + 1 |-> IF i = count + 1 THEN conn ELSE Contents[i]]
    BY <1>7, AppendAsFunction
  <1> QED
    BY <1>1, <1>4, <1>5, <1>6, <1>8

\* Removing at the tail takes the oldest element and shifts the others by one.
LEMMA RemoveTakesHead ==
  ASSUME IInv, IInv', count # 0,
         tail' = NextSlot(tail), count' = count - 1, data' = data
  PROVE  /\ Contents # <<>>
         /\ Head(Contents) = data[tail]
         /\ Contents' = Tail(Contents)
  <1> USE CapacityAssumption
  <1>1. count \in 1 .. Cap /\ tail \in Slots /\ tail' \in Slots
    BY DEF IInv, TypeOK, Cap
  <1>2. Len(Contents) = count /\ Contents \in Seq(Conns \cup {Zeroed})
    BY ContentsSeq
  <1>3. /\ Contents  = [i \in 1 .. count     |-> data[Slot(i)]]
        /\ Contents' = [i \in 1 .. count - 1 |-> data[(tail' + i - 1) % Cap]]
    BY DEF Contents, Slot, Cap
  <1>4. Slot(1) = tail
    BY <1>1, ModLow DEF Slot, Slots, Cap
  <1>5. \A i \in 1 .. count - 1 : (tail' + i - 1) % Cap = Slot(i + 1)
    <2> TAKE i \in 1 .. count - 1
    <2>1. /\ i - 1 \in 0 .. Cap /\ i \in 0 .. Cap
          /\ tail' + (i - 1) = tail' + i - 1
          /\ tail + i = tail + (i + 1) - 1
      BY <1>1 DEF Slots, Cap
    <2>2. tail' = IF tail + 1 < Cap THEN tail + 1 ELSE 0
      BY <1>1, NextSlotCases
    <2>3. (tail' + (i - 1)) % Cap = IF tail' + (i - 1) < Cap
                                    THEN tail' + (i - 1)
                                    ELSE tail' + (i - 1) - Cap
      BY <1>1, <2>1, OffsetCases
    <2>4. (tail + i) % Cap = IF tail + i < Cap THEN tail + i ELSE tail + i - Cap
      BY <1>1, <2>1, OffsetCases
    <2>5. (tail' + (i - 1)) % Cap = (tail + i) % Cap
      BY <1>1, <2>2, <2>3, <2>4 DEF Slots, Cap
    <2> QED
      BY <2>1, <2>5 DEF Slot
  <1>6. Contents # <<>> /\ Head(Contents) = Contents[1]
    BY <1>1, <1>2
  <1>7. Tail(Contents) = [i \in 1 .. count - 1 |-> Contents[i + 1]]
    BY <1>2, <1>6, TailAsFunction
  <1>8. \A i \in 1 .. count - 1 : Contents[i + 1] = data[Slot(i + 1)]
    BY <1>1, <1>3
  <1>9. Contents' = Tail(Contents)
    <2>1. \A i \in 1 .. count - 1 : data[(tail' + i - 1) % Cap] = Contents[i + 1]
      BY <1>5, <1>8
    <2>2. [i \in 1 .. count - 1 |-> data[(tail' + i - 1) % Cap]]
            = [i \in 1 .. count - 1 |-> Contents[i + 1]]
      BY <2>1, Zenon
    <2> QED
      BY <1>3, <1>7, <2>2
  <1>10. Contents[1] = data[tail]
    BY <1>1, <1>3, <1>4 DEF Cap
  <1> QED
    BY <1>6, <1>9, <1>10

\* The ring conn_queue_init sets up holds the empty queue.
LEMMA InitRefines == Init => Fifo!Init
  BY DEF Init, conn_queue_init, Fifo!Init, Contents

\* Every queue call on the ring is a call of the abstract queue with the same
\* Result and the same dequeued element.
LEMMA NextRefines == IInv /\ IInv' /\ [Next]_vars => [Fifo!Next]_(Fifo!vars)
  <1> SUFFICES ASSUME IInv, IInv', [Next]_vars
               PROVE  [Fifo!Next]_(Fifo!vars)
    OBVIOUS
  <1> USE CapacityAssumption
  <1>1. /\ Len(Contents) = count /\ count \in 0 .. CONNECTION_QUEUE_CAPACITY
        /\ Contents \in Seq(Conns \cup {Zeroed})
    BY ContentsSeq DEF IInv, TypeOK
  <1>2. UNCHANGED queue => Contents' = Contents
    BY DEF queue, Contents
  <1>3. ASSUME NEW conn \in Conns, conn_queue_enqueue(conn)
        PROVE  Fifo!Enqueue(conn, ret') /\ UNCHANGED out
    <2>1. CASE count # CONNECTION_QUEUE_CAPACITY /\ count' = count + 1
      <3>1. /\ data' = [data EXCEPT ![head] = conn] /\ tail' = tail
            /\ ret' \in UnlockResults /\ out' = out
        BY <1>1, <1>3, <2>1 DEF conn_queue_enqueue, queue
      <3>2. Contents' = Append(Contents, conn)
        BY <2>1, <3>1, StoreAppends
      <3> QED
        BY <1>1, <2>1, <3>1, <3>2
        DEF Fifo!Enqueue, Fifo!UnlockResults, UnlockResults
    <2>2. CASE /\ LockFails \/ count = CONNECTION_QUEUE_CAPACITY
               /\ UNCHANGED <<queue, out>> /\ ret' = 1
      BY <1>1, <1>2, <2>2 DEF Fifo!Enqueue, LockFails
    <2> QED
      BY <1>3, <2>1, <2>2 DEF conn_queue_enqueue
  <1>4. CASE conn_queue_dequeue
    <2>1. CASE count # 0 /\ count' = count - 1
      <3>1. /\ out' = data[tail] /\ tail' = NextSlot(tail) /\ data' = data
            /\ ret' \in UnlockResults
        BY <1>1, <1>4, <2>1 DEF conn_queue_dequeue, queue
      <3>2. /\ Contents # <<>> /\ Head(Contents) = data[tail]
            /\ Contents' = Tail(Contents)
        BY <2>1, <3>1, RemoveTakesHead
      <3> QED
        BY <3>1, <3>2
        DEF Fifo!Next, Fifo!Dequeue, Fifo!UnlockResults, UnlockResults
    <2>2. CASE /\ LockFails \/ count = 0
               /\ UNCHANGED <<queue, out>> /\ ret' = 1
      <3>1. count = 0 => Contents = <<>>
        BY DEF Contents
      <3> QED
        BY <1>2, <2>2, <3>1 DEF Fifo!Next, Fifo!Dequeue, LockFails
    <2> QED
      BY <1>4, <2>1, <2>2 DEF conn_queue_dequeue
  <1>5. CASE conn_queue_count
    BY <1>1, <1>2, <1>5 DEF conn_queue_count, Fifo!Next, Fifo!Count
  <1>6. CASE UNCHANGED vars
    BY <1>2, <1>6 DEF vars, queue, Fifo!vars
  <1> QED
    BY <1>3, <1>4, <1>5, <1>6 DEF Next, Fifo!Next

\* The ring buffer implements the bounded FIFO queue: every call of
\* master.c:90-148 is, through Contents, a call of the abstract queue, with
\* the same Result and the same dequeued connection.
THEOREM RingRefinesFifo == Spec => RefinesFifo
  <1>1. Init => IInv /\ Fifo!Init
    BY InitIInv, InitRefines
  <1>2. IInv /\ [Next]_vars => IInv' /\ [Fifo!Next]_(Fifo!vars)
    BY NextIInv, NextRefines
  <1> QED
    BY <1>1, <1>2, PTL DEF Spec, RefinesFifo, Fifo!Spec
=============================================================================
