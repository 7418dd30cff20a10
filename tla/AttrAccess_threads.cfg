\* The thread of attr_init(), the shell, a more urgent and a less urgent one.
CONSTANTS
  main = main
  shell = shell
  urgent = urgent
  low = low
  NoThread = NoThread
  InitThread = main
  Threads <- MCThreads
  Priority <- MCPriority
  Calls <- MCCalls
  MaxCalls <- MCMaxCalls
SPECIFICATION Spec
INVARIANTS
  LockedReadsAreWhole
  CopyIsWhole
  SchedBalance
  HolderRunsAlone
  WaitersAreServed
PROPERTIES
  CallsReturn
  AccessesAreAtomic
\* The calls of each thread are bounded: when they are made the system stops.
CHECK_DEADLOCK FALSE
