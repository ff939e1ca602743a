SPECIFICATION Spec
CONSTANTS
  a = a
  b = b
  zero = zero
  Conns <- MCConns
  Zeroed = zero
  CONNECTION_QUEUE_CAPACITY = 3
  MutexFaults = {"lock", "unlock"}
INVARIANTS TypeOK RingConsistent
PROPERTY RefinesFifo
