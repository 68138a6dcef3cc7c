\* Fair threads; two connections and one worker, whole sends.
SPECIFICATION FairSpec
CONSTANTS
  None = None
  Blocks = {b1, b2}
  Sockets = {s1, s2}
  Workers = {w1}
  HeaderLength = 2
  MaxLength = 3
  DWORD = 16
  AcceptBatch = 1
  WaitLimit = 2
  PartialSends = FALSE
PROPERTIES
  StopReturns
  RequestAnswered
