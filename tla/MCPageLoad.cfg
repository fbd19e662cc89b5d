SPECIFICATION Spec
CONSTANTS
  Web = {w1, w2}
  Pages = {"vantage:new", "vantage:settings"}
  MaxRequests = 2
  MaxBlanks = 1
SYMMETRY Symmetry
CHECK_DEADLOCK FALSE
INVARIANTS
  AddressIsHonest
  LastRequestIsShown
  ClosedTabComesBack
