SPECIFICATION Spec
CONSTANTS
  PhysicalPageNumbers <- FourFrames
  LengthModulus = 8
  MaxAbsentRemovals = 1
  None = None
INVARIANTS
  TypeOK
  Represents
  FlagsSayWhere
  LengthCounts
PROPERTIES
  ImplementsFrameQueues
