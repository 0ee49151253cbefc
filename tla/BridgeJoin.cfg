SPECIFICATION FairPayloadSpec
CONSTANTS
  MAX_PORTS = 4
  MESSAGEQUEMAX = 2
  Kinds <- OnlyBulk
  Payloads = FALSE
  MaxReceived = 3
  MaxOpens = 1
  MaxEmits = 0
  MaxSessions = 1
PROPERTIES
  ClosedIsCleanedUp
CHECK_DEADLOCK FALSE
