SPECIFICATION FairSpec
CONSTANTS
  Conns = {c1, c2, c3}
  Nobody = Nobody
  Main = Main
CHECK_DEADLOCK FALSE
INVARIANTS
  StopJoinsEveryThread
  OneDispatcher
  AnswersAreHonest
  ExecutedOnce
PROPERTIES
  EveryConnectionEnds
  StopReturns
