\* Two timers whose owners stop them before they restart or destroy them.
SPECIFICATION Spec
CONSTANTS
  Timers = {t1, t2}
  NoTimer = NoTimer
  t1 = t1
  t2 = t2
  window = window
  service = service
  Producers = {window}
  ProducerTypes <- InputOnly
  Quitters = {window}
  RepeatCounts = {1}
  MaxOps = 1
  MaxQueue = 1
  MaxCount = 2
  FocusChanges = FALSE
  StopFirst = TRUE
SYMMETRY TimerSymmetry
INVARIANTS
  NoMessageAfterStop
  NoDanglingTimer
  RegisteredOnce
PROPERTIES
  TimerContractHolds
