SPECIFICATION Spec
CONSTANTS
  MAX_PORTS = 4
  MESSAGEQUEMAX = 2
  Kinds <- OnlyBulk
  Payloads = TRUE
  MaxReceived = 4
  MaxOpens = 2
  MaxEmits = 1
  MaxSessions = 1
INVARIANTS
  ConfirmationFirst
  NoStaleOutput
  NothingAfterEof
  ConnectionOver
CHECK_DEADLOCK FALSE
