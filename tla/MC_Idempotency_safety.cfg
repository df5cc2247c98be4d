SPECIFICATION Spec
CONSTANTS
  Keys = {k1, k2}
  Bodies = {b1, b2}
  Attempts = {a1, a2, a3}
  NoOne = NoOne
  RetentionDays = 2
  RetryHorizon = 1
  RequestLifetime = 1
  Batch = 1
  MaxDay = 3
SYMMETRY Symmetric
INVARIANTS TypeOK AtMostOncePerKey RepliesTruthful RowsMatchLedger LoserFindsWinner
