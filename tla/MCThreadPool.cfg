SPECIFICATION PoolFairSpec
CONSTANTS
  Threads = {t1, t2}
  Connections = {c1, c2, c3}
  None = None
INVARIANTS BusyExact BusyBounded NoEmptyPop
PROPERTIES ServedUnlessSignalLost SigintEnds
CHECK_DEADLOCK FALSE
