SPECIFICATION Spec
CONSTANTS
  Clients = {c1}
  StackSslconn = {"null"}
  CtxLoaded = TRUE
  Listeners <- SmtpOnly
  BufSize = 4
  Pieces <- MessagePieces
  Lockstep = FALSE
  MaxRx = 1
  MaxUpgrades = 2
  NoConn = NoConn
  ESMTP_SIZE = 12
  AllocFails = FALSE
  CONNECTION_QUEUE_CAPACITY = 1
  MutexFaults = {}
  Signals = {"SIGTERM"}
INVARIANT TooLargeOnlyIfTooLarge
