SPECIFICATION Spec
CONSTANTS
  Addrs = {a1, a2, a3}
  Nil = Nil
  Free = Free
  ClosedTabLimit = 1
  MaxWindows = 2
  MaxTabs = 4
  MaxIdle = 1
SYMMETRY Symmetry
CHECK_DEADLOCK FALSE
INVARIANTS
  EachTabHasOneHome
  OpenWindowsShowATab
  PrivacyFollowsTabs
PROPERTIES
  HandlesAreNotRebound
  SelectionIsKept
