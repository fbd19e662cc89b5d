SPECIFICATION Spec
CONSTANTS
  Window = {w1, w2}
  Tab = {t1, t2}
  Query = {"a"}
  Contents <- MCContents
  Mute = {}
  MaxOperations = 3
  MaxResponse = 3
  MaxBytes = 2
  Chunk = 2
CHECK_DEADLOCK FALSE
INVARIANTS
  RefsAreNotRetargeted
  WaitsAreHonest
  FetchIsMarkedTruncated
PROPERTIES
  WaitsEnd
