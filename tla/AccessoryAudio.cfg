SPECIFICATION AudioSpec
CONSTANT MaxSources = 3
INVARIANTS HeardOnce
PROPERTY PhoneIsHeard
CHECK_DEADLOCK FALSE
