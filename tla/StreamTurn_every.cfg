SPECIFICATION Spec
CONSTANTS
  Turns = {t1, t2}
  Impatient = {t1}
  Interrupts = {i1}
  Background = {b1}
  ChatTakesPush = TRUE
  Drain = Drain
  None = None
CHECK_DEADLOCK FALSE
INVARIANTS NothingLeftSet
