SPECIFICATION Spec
CONSTANTS
  Muds = {a, b}
  RETRIES = 0
  Parts = 2
  Nil = Nil
  MaxQuestions = 2
  MaxId = 2
  MaxReloads = 0
SYMMETRY Symmetry
INVARIANTS TypeOK OneAnswer AnswerMatches OnePacketPerBuffer
PROPERTIES RepeatIsRepeat
CHECK_DEADLOCK FALSE
