SPECIFICATION FairSpec
CONSTANTS
  Owner = o
  Joiners = {c, d}
  Placeholders = {p}
  Txs = {t1, t2}
  First = e0
  None = None
  Total = 5
CHECK_DEADLOCK FALSE
INVARIANTS SharesAddUp ClaimedOwesNothing
PROPERTIES EveryTxEnds ImplementsAtomicLedger
