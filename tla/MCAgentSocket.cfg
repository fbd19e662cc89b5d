SPECIFICATION SocketFairSpec
CONSTANTS
  Procs = {p1, p2}
  NoFile = NoFile
  Stale = Stale
  Shortage = TRUE
INVARIANTS
  NothingLeftBehind
PROPERTIES
  ServerKeepsName
  StaleIsRecovered
