SPECIFICATION FairSpec
CONSTANT MaxBusOff = 2
PROPERTY NeverStaysDeaf
CHECK_DEADLOCK FALSE
