SPECIFICATION FormSpec
CONSTANTS
  Keys = {k1, k2, k3}
  Bodies = {b1, b2}
  Attempts = {a1, a2, a3}
  NoOne = NoOne
  RetentionDays = 1
  RetryHorizon = 0
  RequestLifetime = 0
  Batch = 1
  MaxDay = 0
  MaxIntents = 3
SYMMETRY Symmetric
INVARIANTS OncePerIntent FreshFormPostsAnew
