SPECIFICATION Spec
CONSTANTS
  Workers = {w1}
  Bills = {1}
  NoBill = NoBill
  DueDays <- Uneven
  LastDue = 5
  CatchUp = 2
  MaxDay = 4
  MaxChanges = 2
  MaxAborts = 1
INVARIANT NeverBackPosted
