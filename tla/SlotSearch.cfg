SPECIFICATION FairSpec
CONSTANTS
  WordSize = 3
  NumberOfDiskSlots = 8
  MaxWritePages = 2
INVARIANTS
  TypeOK
  NoFreeSlotMissed
  SlotsReservedOnce
  BatchAsIfAtOnce
PROPERTIES
  SearchEnds
