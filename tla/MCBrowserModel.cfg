SPECIFICATION SessionSpec
CONSTANTS
  Uris = {u1}
  ClosedLimit = 2
  MaxId = 3
  NoTab = NoTab
  NoTransaction = NoTransaction
INVARIANTS
  ActiveIsOpen
  SessionSurvives
PROPERTIES
  IdsNeverReused
  DiscardIsExact
