SPECIFICATION Spec
CONSTANTS
  Owner = o
  Joiners = {c}
  Placeholders = {p}
  Txs = {t1, t2}
  First = e0
  None = None
  Total = 5
CHECK_DEADLOCK FALSE
PROPERTY RevisionIsPrevious
