SPECIFICATION FindSpec
CONSTANTS
  Window = {w1, w2}
  Tab = {t1, t2, t3}
  Query = {"a", "b"}
  Contents <- MCContents
  Mute <- MCMute
  MaxOperations = 5
SYMMETRY Symmetry
CHECK_DEADLOCK FALSE
INVARIANTS
  BarTellsTheTruth
