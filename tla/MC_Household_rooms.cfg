SPECIFICATION Spec
CONSTANTS
  Whole = 9
  Owner = 1
  Placeholders = {2, 3}
  Joiners = {4, 5}
  Returning = {5}
  Invites = {1, 2}
  MaxUses = 1
  Txs = {t1, t2}
  Plans <- OneRoomOrTwo
  Named = {2, 4}
  Total = 5
  None = None
SYMMETRY Symmetric
CHECK_DEADLOCK FALSE
INVARIANT OccupantsAreActive
