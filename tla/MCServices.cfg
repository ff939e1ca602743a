SPECIFICATION Spec
CONSTANTS
  Clients = {c1, c2}
  StackSslconn = {"null", "wild"}
  CtxLoaded = TRUE
  Listeners <- AllServices
  BufSize = 4
  Pieces <- ServicePieces
  Lockstep = FALSE
  MaxRx = 1
  MaxUpgrades = 2
  NoConn = NoConn
  ESMTP_SIZE = 12
  AllocFails = FALSE
  CONNECTION_QUEUE_CAPACITY = 1
  MutexFaults = {"lock"}
  Signals = {"SIGTERM"}
INVARIANTS HeldOnce RequeueHasRoom EndsOnlyBy
SYMMETRY Swap
