\* A reply is sent in parts.
SPECIFICATION Spec
CONSTANTS
  None = None
  Blocks = {b1}
  Sockets = {s1}
  Workers = {w1}
  HeaderLength = 2
  MaxLength = 3
  DWORD = 16
  AcceptBatch = 1
  WaitLimit = 2
  PartialSends = TRUE
PROPERTIES
  RepliesWhole
