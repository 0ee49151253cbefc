SPECIFICATION BridgeSpec
CONSTANTS
  Requests = {r1, r2}
  None = None
  Garbage = Garbage
  Overlap = FALSE
  MaxIncoming = 1
  Crossing = FALSE
  CloseLast = FALSE
  SkipWorks = FALSE
  Looper = {r1}
  MaxWire = 1
  Later = {r1}
  Aftermath = FALSE
INVARIANTS
  EndsAgree
  HandedOver
PROPERTIES
  NoFalseAlarm
  RequestReturns
  SilentIsGivenUp
CHECK_DEADLOCK FALSE
