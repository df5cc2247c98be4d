SPECIFICATION FairSpec
CONSTANTS
  Workers = {w1}
  Bills = {1, 2}
  NoBill = NoBill
  DueDays <- EachOwn
  LastDue = 4
  CatchUp = 1
  MaxDay = 2
  MaxChanges = 2
  MaxAborts = 1
INVARIANT NoPeriodPassedOver
PROPERTY DueIsHandled
