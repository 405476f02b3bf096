SPECIFICATION Spec
CONSTANTS
  Tiles = {k1, k2}
  Rotations = {r1}
  First = First
  None = None
CHECK_DEADLOCK FALSE
INVARIANTS TornDownIsGone
