SPECIFICATION Spec
CONSTANTS
  Users = {u1, u2}
  Frames = {f1, f2, f3}
  TransferVACount = 2
  MaxWritePages = 2
  None = None
SYMMETRY UserFrameSymmetry
INVARIANTS
  TypeOK
  AddressesAreFresh
  FillReachesFrame
  BatchReachesItsFrames
