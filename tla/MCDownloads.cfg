SPECIFICATION Spec
CONSTANTS
  Procs = {p1, p2}
  Downloads = {d1, d2}
  Limit = 2
  Nothing = Nothing
SYMMETRY Symmetry
INVARIANTS
  RecordsAreOwn
  PrivateLeavesNoRow
  CompleteMeansWhole
  NoRowIsForgotten
PROPERTIES
  SettledIsKept
  CancelsAreMeant
