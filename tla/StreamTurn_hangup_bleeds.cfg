SPECIFICATION Spec
CONSTANTS
  Turns = {t1, t2}
  Impatient = {t1}
  Interrupts = {}
  Background = {}
  ChatTakesPush = TRUE
  Drain = Drain
  None = None
CHECK_DEADLOCK FALSE

INVARIANTS NoTurnBleed

