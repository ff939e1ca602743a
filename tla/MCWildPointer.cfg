SPECIFICATION Spec
CONSTANTS
  Clients = {c1}
  StackSslconn = {"null", "wild"}
  CtxLoaded = TRUE
  Listeners <- SmtpOnly
  BufSize = 4
  Pieces <- SessionPieces
  Lockstep = FALSE
  MaxRx = 1
  MaxUpgrades = 2
  NoConn = NoConn
  ESMTP_SIZE = 12
  AllocFails = FALSE
  CONNECTION_QUEUE_CAPACITY = 1
  MutexFaults = {"lock"}
  Signals = {"SIGTERM"}
INVARIANT SslconnAssigned
