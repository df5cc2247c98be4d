SPECIFICATION FairSpec
CONSTANTS
  Sockets = {s1}
  MaxWrites = 1
  MaxReqs = 2
  None = None
PROPERTY GhostsGo
