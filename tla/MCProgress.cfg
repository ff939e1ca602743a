SPECIFICATION FairPeersSpec
CONSTANTS
  Clients = {c1}
  StackSslconn = {"null"}
  CtxLoaded = FALSE
  Listeners <- PlainServices
  BufSize = 4
  Pieces <- AnsweredPieces
  Lockstep = TRUE
  MaxRx = 1
  MaxUpgrades = 1
  NoConn = NoConn
  ESMTP_SIZE = 12
  AllocFails = TRUE
  CONNECTION_QUEUE_CAPACITY = 2
  MutexFaults = {}
  Signals = {"SIGINT", "SIGTERM"}
INVARIANT BuffersAccounted
PROPERTIES EveryCommandAnswered StopHonoured
