SPECIFICATION Spec
CONSTANTS
  Requests = {r1, r2}
  None = None
  Garbage = Garbage
  Overlap = TRUE
  SkipWorks = TRUE
INVARIANTS
  AnswerIsOwn
CHECK_DEADLOCK FALSE
