SPECIFICATION FairSpec
CONSTANTS
  Messages = {m1, m2}
  Garbled = {}
  MaxSpawns = 1
  MaxThreads = 2
  None = None
CHECK_DEADLOCK FALSE
PROPERTIES FreedEver
