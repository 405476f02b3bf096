SPECIFICATION ChatFairSpec
CONSTANTS
  Messages = {m1}
  Jobs = {j1}
  Unanswerable = {}
CHECK_DEADLOCK FALSE
PROPERTY QueuedIsAsked
