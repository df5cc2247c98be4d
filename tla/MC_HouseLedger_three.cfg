SPECIFICATION Spec
CONSTANTS
  Owner = o
  Joiners = {c}
  Placeholders = {p}
  Txs = {t1, t2, t3}
  First = e0
  None = None
  Total = 5
CHECK_DEADLOCK FALSE
INVARIANTS TypeOK SharesAddUp ClaimedOwesNothing
