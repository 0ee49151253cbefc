SPECIFICATION FairSpec
CONSTANTS
  main = main
  service = service
  sender = sender
  other = other
  m1 = m1
  NULL = NULL
  MESSAGEQUEMAX = 2
  Producers <- SendProducers
  Consumers <- TwoConsumers
  Message <- MCMessage
INVARIANTS
  NeverDrops
PROPERTIES
  ImplementsFifo
  QueuedIsPolled
