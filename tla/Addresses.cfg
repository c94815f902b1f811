SPECIFICATION Spec
CONSTANTS
  PageSize = 128
  NumberOfVirtualPages = 24
  PTELockRegionCount = 4
  VAStart = 1280
  TimeStamps <- MCTimeStamps
  TestIterations = 4
INVARIANTS
  TypeOK
  StoresInBounds
  FaultFindsItsPage
