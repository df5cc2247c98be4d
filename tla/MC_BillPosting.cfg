SPECIFICATION FairSpec
CONSTANTS
  Workers = {w1, w2}
  Bills = {1}
  NoBill = NoBill
  DueDays <- Uneven
  LastDue = 5
  CatchUp = 2
  MaxDay = 3
  MaxChanges = 2
  MaxAborts = 1
INVARIANTS TypeOK OncePerPeriod NeverEarly NoPeriodPassedOver FeedAlternates
PROPERTY DueIsHandled
