SPECIFICATION RWFairSpec
CONSTANTS
  Threads = {t1, t2, t3, t4}
INVARIANT CountersExact
INVARIANT NoLostWakeup
PROPERTY QuietServes
PROPERTY ImplementsLock
PROPERTY WritersServed
