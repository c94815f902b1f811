SPECIFICATION Spec
CONSTANTS
  u1 = u1
  u2 = u2
  p1 = p1
  p2 = p2
  p3 = p3
  w1 = w1
  None = None
  Users = {u1, u2}
  Pages = {p1, p2, p3}
  PTELockRegion <- RegionPerPage
  PhysicalPageNumbers <- TwoFrames
  NumberOfDiskSlots = 3
  TestIterations = None
  MaxWritePages = 2
  Words = {w1}
  InvalidDiskSlot = 99
  TransferMapFails = FALSE
SYMMETRY Symmetry
INVARIANT SlotsAreInUse
