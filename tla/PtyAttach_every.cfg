SPECIFICATION FairSpec
CONSTANTS
  Tiles = {k1, k2}
  Rotations = {r1, r2}
  First = First
  None = None
CHECK_DEADLOCK FALSE
INVARIANTS RegistryHolds TilesAreTold
PROPERTIES NoDeadTile
