SPECIFICATION Spec
CONSTANTS
  Messages = {m1, m2, m3, m4}
  Jobs = {j1, j2}
  Unanswerable = {m4}
  Answers = {a1, a2}
  Unasked = {u1}
  Blocked = {a2}
  Ambiguous = {}
  Chunks = 2
  DeliverAttempts = 3
  MaxAttempts = 3
  NoText = NoText
  MaxQueue = 8
CHECK_DEADLOCK FALSE
INVARIANTS ChatTakesTurns QueuedInOrder NothingLost LandedOnce RetryWaitsItsTurn WindowIsTrue
PROPERTIES HeldQueueIsAsked ShutdownLosesNothing Settles DispatchIsInvited ButtonsAreObeyed
