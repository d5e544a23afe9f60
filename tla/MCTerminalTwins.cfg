CONSTANTS
  Callers = {"c1", "c2"}
  TextOf <- MCTwins
  MaxLine = 1
  MaxTries = 0
  MaxAnnounced = 0
  Results <- MCResults
SPECIFICATION Spec
CHECK_DEADLOCK FALSE
INVARIANTS
  AnswerIsOwn
