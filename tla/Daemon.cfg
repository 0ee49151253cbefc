SPECIFICATION DaemonSpec
CONSTANTS
  Phones <- TwoPhones
  Model <- SameModel
  KnownModels <- Known
  Supported <- TwoPhones
  MaxPlugs <- Plugs
  MaxClients = 1
  Uuids <- UuidLists
  MaxUuids = 6
INVARIANTS HandlesAccounted EndpointsOfPhone NeverSwitchedTwice CascadingUuids
PROPERTIES PhoneIsServed ClientIsServed
CHECK_DEADLOCK FALSE
