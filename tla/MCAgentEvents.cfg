SPECIFICATION FairSpec
CONSTANTS
  Capacity = 3
  Limits = {1, 2}
  Followers = {f1}
  Watchers = {w1}
  MaxSeq = 6
INVARIANTS
  DroppedCountsOverflow
  NothingPassedOver
PROPERTIES
  RetainedIsDelivered
  ImplementsFeed
