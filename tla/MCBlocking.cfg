SPECIFICATION FairPeersSpec
CONSTANTS
  Clients = {c1, c2}
  StackSslconn = {"null"}
  CtxLoaded = TRUE
  Listeners <- TlsServices
  BufSize = 4
  Pieces <- UpgradePieces
  Lockstep = TRUE
  MaxRx = 1
  MaxUpgrades = 1
  NoConn = NoConn
  ESMTP_SIZE = 12
  AllocFails = FALSE
  CONNECTION_QUEUE_CAPACITY = 2
  MutexFaults = {}
  Signals = {}
PROPERTIES TurnComes PeerGoneReaped EveryCommandAnswered
