SPECIFICATION FairSpec
CONSTANTS
  MAX_PORTS = 4
  MESSAGEQUEMAX = 4
  Kinds <- OnlyMethod
  Payloads = FALSE
  MaxReceived = 3
  MaxOpens = 2
  MaxEmits = 0
  MaxSessions = 2
PROPERTIES
  ClosedIsCleanedUp
  LostConnectionEnds
  RequestIsAnswered
