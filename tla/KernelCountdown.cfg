\* One timer counting to 1, 2 or for ever; the timer manager stops and starts.
SPECIFICATION Spec
CONSTANTS
  Timers = {t1}
  NoTimer = NoTimer
  t1 = t1
  t2 = t2
  window = window
  service = service
  Producers = {window}
  ProducerTypes <- WindowTypes
  Quitters = {window}
  RepeatCounts = {0, 1, 2}
  MaxOps = 1
  MaxQueue = 2
  MaxCount = 3
  FocusChanges = TRUE
  StopFirst = TRUE
INVARIANTS
  TypeOK
  CompletionIsLast
  TimerThreadJoined
PROPERTIES
  RunningUntilDone
