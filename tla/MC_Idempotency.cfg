SPECIFICATION FairSpec
CONSTANTS
  Keys = {k1, k2}
  Bodies = {b1, b2}
  Attempts = {a1, a2}
  NoOne = NoOne
  RetentionDays = 2
  RetryHorizon = 1
  RequestLifetime = 1
  Batch = 2
  MaxDay = 3
INVARIANTS AtMostOncePerKey RepliesTruthful RowsMatchLedger LoserFindsWinner
PROPERTIES EveryRequestEnds ExpiredRowsGo ImplementsExactlyOnce
