SPECIFICATION Spec
CONSTANTS
  MAX_PORTS = 4
  MESSAGEQUEMAX = 2
  Kinds <- MethodAndSignals
  Payloads = FALSE
  MaxReceived = 4
  MaxOpens = 3
  MaxEmits = 1
  MaxSessions = 1
INVARIANTS
  TypeOK
  RequestsInOrder
  NothingOutlivesBridge
  FreePortIsReady
  NullIsLast
CHECK_DEADLOCK FALSE
