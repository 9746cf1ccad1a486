CONSTANTS
  t1 = t1
  t2 = t2
  a = a
  b = b
  c = c
  None = None
  Threads <- MCThreads
  Guards <- MCGuards
  Home <- MCHome
  MaxCalls = 3
SPECIFICATION FairSpec
INVARIANTS
  NoDeadlock
  NoLostWakeup
  ReservedOnce
  VisibleIsWhole
PROPERTIES
  RefusalIsReal
  ImplementsOnce
  AcquireReturns
