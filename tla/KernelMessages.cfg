\* A window thread and a service thread push messages; no focus changes.
SPECIFICATION Spec
CONSTANTS
  Timers = {t1}
  NoTimer = NoTimer
  t1 = t1
  t2 = t2
  window = window
  service = service
  Producers = {window, service}
  ProducerTypes <- WindowAndServiceTypes
  Quitters = {window}
  RepeatCounts = {1}
  MaxOps = 1
  MaxQueue = 1
  MaxCount = 2
  FocusChanges = FALSE
  StopFirst = TRUE
INVARIANTS
  NoLostWakeup
  RepaintPending
  TimersNotStranded
