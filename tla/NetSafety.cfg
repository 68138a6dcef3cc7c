\* Two connections, two workers, sends that complete in parts.
SPECIFICATION Spec
CONSTANTS
  None = None
  Blocks = {b1, b2}
  Sockets = {s1, s2}
  Workers = {w1, w2}
  HeaderLength = 2
  MaxLength = 3
  DWORD = 16
  AcceptBatch = 2
  WaitLimit = 3
  PartialSends = TRUE
SYMMETRY NetSymmetry
INVARIANTS
  TypeOK
  SingleOwner
  CallbackPaired
  MapAccurate
  ReceiveFits
PROPERTIES
  StopLeavesNobody
