\* Fair threads; handlers stop and start the timer manager.
SPECIFICATION FairSpec
CONSTANTS
  Timers = {t1}
  NoTimer = NoTimer
  t1 = t1
  t2 = t2
  window = window
  service = service
  Producers = {window}
  ProducerTypes <- WindowTypes
  Quitters = {window}
  RepeatCounts = {1}
  MaxOps = 1
  MaxQueue = 1
  MaxCount = 2
  FocusChanges = TRUE
  StopFirst = TRUE
PROPERTIES
  InputEventuallyHandled
  QuitCompletes
