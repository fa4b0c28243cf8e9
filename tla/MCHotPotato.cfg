SPECIFICATION PotatoFairSpec
CONSTANTS
  num_of_line = 3
  Temperatures <- MCTemperatures
  Interrupts = TRUE
INVARIANTS PotatoInOnePlace CountFollowsPotatoes OverWhenAllCold
PROPERTY GameEnds
CHECK_DEADLOCK FALSE
