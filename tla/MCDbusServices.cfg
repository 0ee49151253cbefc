SPECIFICATION MCSpec
CONSTANTS
  MaxSnap = 300
  FieldLengths = {0, 10}
  Calls <- SomeCalls
  Illegal = {9}
  MaxMessage = 280
  MaxCalls = 3
INVARIANTS
  RuleExact
  ReplyIsOwn
PROPERTIES
  CallIsAnswered
CHECK_DEADLOCK FALSE
