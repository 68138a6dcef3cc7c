\* The timer manager is stopped and started again by focus changes.
SPECIFICATION Spec
CONSTANTS
  Timers = {t1}
  NoTimer = NoTimer
  t1 = t1
  t2 = t2
  window = window
  service = service
  Producers = {window}
  ProducerTypes <- InputOnly
  Quitters = {window}
  RepeatCounts = {0}
  MaxOps = 1
  MaxQueue = 1
  MaxCount = 1
  FocusChanges = TRUE
  StopFirst = TRUE
INVARIANTS
  TimersNotStranded
