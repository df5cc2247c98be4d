SPECIFICATION Spec
CONSTANTS
  Whole = 10
  Members = {1, 2}
  Placeholder = 3
  Inputs <- Entered
  Edits <- Edited
  Sent <- Paid
  Ids = {1, 2}
  Txs = {t1, t2}
  Window = 1
  Limit = 1
  MaxClock = 2
  MaxChanges = 2
SYMMETRY Symmetric
INVARIANTS BalancesOnceExisted NetIsStanding FeedTellsStatus NoEntrySkipped OfferedIsDisputable
CHECK_DEADLOCK FALSE
