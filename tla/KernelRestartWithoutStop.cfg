\* An owner gives a running timer a new repeat count and starts it.
SPECIFICATION Spec
CONSTANTS
  Timers = {t1}
  NoTimer = NoTimer
  t1 = t1
  t2 = t2
  window = window
  service = service
  Producers = {window}
  ProducerTypes <- InputOnly
  Quitters = {window}
  RepeatCounts = {0, 1}
  MaxOps = 2
  MaxQueue = 1
  MaxCount = 2
  FocusChanges = FALSE
  StopFirst = FALSE
PROPERTIES
  RunningUntilDone
