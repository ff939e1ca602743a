SPECIFICATION FairSpec
CONSTANTS
  Clients = {c1}
  StackSslconn = {"null"}
  CtxLoaded = TRUE
  Listeners <- OneListener
  BufSize = 4
  Pieces <- NoopPieces
  Lockstep = FALSE
  MaxRx = 1
  MaxUpgrades = 1
  NoConn = NoConn
  ESMTP_SIZE = 12
  AllocFails = FALSE
  CONNECTION_QUEUE_CAPACITY = 2
  MutexFaults = {}
  Signals = {"SIGINT", "SIGTERM"}
PROPERTIES StopHonoured
