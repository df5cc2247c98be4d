SPECIFICATION Spec
CONSTANTS
  Sockets = {s1, s2}
  MaxWrites = 1
  MaxReqs = 2
  None = None
SYMMETRY Symmetric
INVARIANTS OpenHears QuietAfterReconnect
PROPERTY NeverBackwards
