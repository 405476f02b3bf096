SPECIFICATION FairSpec
CONSTANTS
  Messages = {m1, m2}
  Garbled = {m1}
  MaxSpawns = 2
  MaxThreads = 2
  None = None
CHECK_DEADLOCK FALSE
INVARIANTS OneHarness OwnTurnsAnswered
PROPERTIES FreedAgain
