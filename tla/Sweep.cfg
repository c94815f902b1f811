SPECIFICATION FairSpec
CONSTANTS
  Junk = Junk
  NumberUserThreads = 3
  ULONG64Modulus = 8
  Arguments <- AllArguments
  CanFail <- EveryCall
INVARIANTS
  TypeOK
  ShutdownComesLast
  ThreadsAreOutlived
  NothingIsKept
  OnlyHeldIsReleased
  SweepIsComplete
PROPERTIES
  ProgramReturns
