SPECIFICATION FairSpec
CONSTANTS
  Muds = {a, b}
  RETRIES = 2
  Parts = 2
  Nil = Nil
  MaxQuestions = 1
  MaxId = 2
  MaxReloads = 1
PROPERTIES EveryQuestionSettles
CHECK_DEADLOCK FALSE
