SPECIFICATION Spec
CONSTANTS
  Addrs = {a1, a2}
  Nil = Nil
  Free = Free
  ClosedTabLimit = 1
  MaxWindows = 1
  MaxTabs = 3
  MaxIdle = 1
CHECK_DEADLOCK FALSE
PROPERTIES
  OnlyTheClickedTabCloses
