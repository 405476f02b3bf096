SPECIFICATION Spec
CONSTANTS
  Copies = {c1, c2}
  Editors = {e1}
  MaxTexts = 4
  SniffBytes = 4
  MaxFileBytes = 6
  WideLines = {2}
  MaxVoiceLines = 3
  Calls = {q1, q2, q3, q4}
  NoProcess = NoProcess
  Taps = {t1, t2}
  Commands = {k1}
  Pickers = {m1, m2}
  MaxConvs = 2
  MaxSpent = 1
  MaxRestarts = 1
  Shapes <- Turns
  MaxFrames = 4
  Limit = 10
  LineLengths = {0, 2, 5, 7, 9, 11, 21}
  FenceLengths = {0, 2, 8}
  MaxLines = 4
  UnitLimit = 5
  MaxLetters = 8
CHECK_DEADLOCK FALSE
SYMMETRY Symmetry
INVARIANTS TypeOK SkillsAreWhole OpensAsListed VoiceIsTrue OneOwner TapsAreSettled AnswerIsWhole ChunksKeepText
PROPERTIES SaveReplacesWhatItSaw ToldWhatHappened
