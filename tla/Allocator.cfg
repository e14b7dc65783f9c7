CONSTANTS
  Threads = {t1, t2, t3}
  MaxBuffers = 2
  MaxNoWaits = 1
SPECIFICATION FairSpec
INVARIANT SamplesAccountedFor
INVARIANT NoLostWakeUp
INVARIANT DecommitPendsOnBuffers
INVARIANT SafeDeletion
PROPERTY WaitersAreRejected
CHECK_DEADLOCK FALSE
