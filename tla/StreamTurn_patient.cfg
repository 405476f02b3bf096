SPECIFICATION FairSpec
CONSTANTS
  Turns = {t1, t2}
  Impatient = {}
  Interrupts = {}
  Background = {b1, b2}
  ChatTakesPush = TRUE
  Drain = Drain
  None = None
CHECK_DEADLOCK FALSE
INVARIANTS StdoutIsShared AnswerComplete
PROPERTIES TurnsAndTextArrive ServiceSpec
