------------------------ MODULE HmiKernelTimerProofs ------------------------
(***************************************************************************)
(* What owners that stop their timers before they restart or destroy them     *)
(* (StopFirst) may rely on, for any number of timers: the kernel implements   *)
(* the contract of TimerContract.                                            *)
(***************************************************************************)
EXTENDS HmiKernelProofs

USE DEF queueVars, mainVars, timerVars, mgrVars

Occurs(x, s) == \E i \in 1..Len(s) : s[i] = x

NoRepeats(s) == \A i, j \in 1..Len(s) : s[i] = s[j] => i = j

(* An array that has every element once loses exactly x to deleteItem(x).     *)
LEMMA DeleteItemOnce ==
  ASSUME NEW S, NEW s \in Seq(S), NoRepeats(s), NEW x
  PROVE  /\ NoRepeats(DeleteItem(s, x))
         /\ \A y \in S : Occurs(y, DeleteItem(s, x)) <=> Occurs(y, s) /\ y # x
<1> DEFINE d == DeleteItem(s, x)
<1>1. CASE Occurs(x, s)
  <2> DEFINE First(k) == s[k] = x /\ \A j \in 1..k - 1 : s[j] # x
  <2> DEFINE first == CHOOSE k \in 1..Len(s) : First(k)
  <2>1. Len(s) \in Nat \ {0}
    BY <1>1 DEF Occurs
  <2>2. d = [i \in 1..Len(s) - 1 |-> IF i < first THEN s[i] ELSE s[i + 1]]
    BY <1>1 DEF DeleteItem, Occurs
  <2>3. \E k \in 1..Len(s) : First(k)
    <3>1. PICK k \in 1..Len(s) : s[k] = x
      BY <1>1 DEF Occurs
    <3>2. \A j \in 1..k - 1 : s[j] # x
      BY <3>1, <2>1 DEF NoRepeats
    <3> QED BY <3>1, <3>2
  <2>4. first \in 1..Len(s) /\ s[first] = x
    <3>1. first \in 1..Len(s) /\ First(first)
      BY <2>3
    <3> QED BY <3>1
  <2> HIDE DEF first
  <2>5. DOMAIN d = 1..Len(s) - 1 /\ Len(d) = Len(s) - 1
    <3>1. d \in Seq(S)
      BY DeleteItemType
    <3>2. DOMAIN d = 1..Len(s) - 1
      BY <2>2
    <3> HIDE DEF d
    <3>3. DOMAIN d = 1..Len(d) /\ Len(d) \in Nat
      BY <3>1
    <3> QED BY <2>1, <3>2, <3>3
  <2>6. \A i \in 1..Len(d) : d[i] = IF i < first THEN s[i] ELSE s[i + 1]
    BY <2>2, <2>5
  <2> HIDE DEF d
  <2>7. NoRepeats(d)
    <3> SUFFICES ASSUME NEW i \in 1..Len(d), NEW j \in 1..Len(d), d[i] = d[j] PROVE i = j
      BY DEF NoRepeats
    <3> DEFINE at(k) == IF k < first THEN k ELSE k + 1
    <3>1. at(i) \in 1..Len(s) /\ at(j) \in 1..Len(s)
      BY <2>1, <2>4, <2>5
    <3>2. s[at(i)] = s[at(j)]
      BY <2>6
    <3>3. at(i) = at(j)
      BY <3>1, <3>2 DEF NoRepeats
    <3> QED BY <2>1, <2>4, <2>5, <3>3
  <2>8. ASSUME NEW y \in S, Occurs(y, d) PROVE Occurs(y, s) /\ y # x
    <3>1. PICK i \in 1..Len(d) : d[i] = y
      BY <2>8 DEF Occurs
    <3> DEFINE k == IF i < first THEN i ELSE i + 1
    <3>2. k \in 1..Len(s) /\ k # first /\ s[k] = y
      BY <2>1, <2>4, <2>5, <2>6, <3>1
    <3>3. s[k] # s[first]
      BY <2>4, <3>2 DEF NoRepeats
    <3> QED BY <2>4, <3>2, <3>3 DEF Occurs
  <2>9. ASSUME NEW y \in S, Occurs(y, s), y # x PROVE Occurs(y, d)
    <3>1. PICK i \in 1..Len(s) : s[i] = y
      BY <2>9 DEF Occurs
    <3> DEFINE k == IF i < first THEN i ELSE i - 1
    <3>2. i # first
      BY <2>4, <2>9, <3>1
    <3>3. k \in 1..Len(d) /\ d[k] = y
      BY <2>1, <2>4, <2>5, <2>6, <3>1, <3>2
    <3> QED BY <3>3 DEF Occurs
  <2> QED BY <2>7, <2>8, <2>9 DEF d
<1>2. CASE ~Occurs(x, s)
  <2>1. d = s
    BY <1>2 DEF DeleteItem, Occurs
  <2> QED BY <1>2, <2>1
<1> QED BY <1>1, <1>2

-----------------------------------------------------------------------------
(* The inductive invariant.  Between the two halves of start() and stop() the  *)
(* kernel thread knows more of its target than of the other timers.          *)
At(t, pcs) == mpc \in pcs /\ target = t

(* A timer that runs is registered, or about to be ...                       *)
RunningRegistered == \A t \in Timers : running[t] => Occurs(t, aryTimer) \/ At(t, {"startAdd"})

(* ... and one that is registered has been started and not stopped since.    *)
RegisteredArmed ==
  \A t \in Timers : Occurs(t, aryTimer) => armed[t] /\ ~At(t, {"startAdd", "stopDelete"})

QueuedArmed == \A t \in Timers : Queued(lists, t) => armed[t]

ArmedAlive == \A t \in Timers : armed[t] => alive[t]

StoppedOff == \A t \in Timers : At(t, {"stopRemove", "stopDelete"}) => ~running[t]

StartedArmed == \A t \in Timers : At(t, {"startAdd", "startNotify"}) => armed[t]

(* A timer that repeats for ever runs until it is stopped.                   *)
ForeverRuns ==
  \A t \in Timers :
    armed[t] /\ repeat[t] = 0 => running[t] \/ At(t, {"stopRemove", "stopDelete"})

(* The timer whose completion is on its way has used up its repeat count.    *)
CompletionDue ==
  tpc \in {"notifyLast", "complete"} =>
    LET t == aryTimer[idx] IN repeat[t] # 0 /\ count[t] >= repeat[t]

TimerInv ==
  /\ NoRepeats(aryTimer) /\ RunningRegistered /\ RegisteredArmed /\ QueuedArmed
  /\ ArmedAlive /\ StartedArmed /\ StoppedOff /\ ForeverRuns /\ CompletionDue

(* Adding an element that does not occur yet.                                *)
LEMMA AppendOnce ==
  ASSUME NEW S, NEW s \in Seq(S), NEW x \in S, NoRepeats(s), ~Occurs(x, s)
  PROVE  /\ NoRepeats(Append(s, x))
         /\ \A y \in S : Occurs(y, Append(s, x)) <=> Occurs(y, s) \/ y = x
BY DEF NoRepeats, Occurs

(* The timer that is being processed is registered.                         *)
LEMMA CurrentOccurs ==
  ASSUME ManagerType, tpc \in {"count", "send", "notify", "notifyLast", "complete"}
  PROVE  aryTimer[idx] \in Timers /\ Occurs(aryTimer[idx], aryTimer)
<1>1. idx \in 1..Len(aryTimer)
  BY DEF ManagerType, Scanning
<1> QED BY <1>1 DEF ManagerType, Occurs

LEMMA TimerInvInit == Init => TimerInv
BY NothingQueued DEF Init, TimerInv, NoRepeats, RunningRegistered, RegisteredArmed, QueuedArmed,
   ArmedAlive, StartedArmed, StoppedOff, ForeverRuns, CompletionDue, Occurs, At

LEMMA TimerInvMain ==
  ASSUME StopFirst, TypeOK, TimerInv, MainStep
  PROVE  TimerInv'
<1> USE DEF TypeOK, QueueType, MainType, TimerType, ManagerType, TimerInv, RunningRegistered,
           RegisteredArmed, QueuedArmed, ArmedAlive, StartedArmed, StoppedOff, ForeverRuns,
           CompletionDue, At
<1>1. CASE InitializeFails
  BY <1>1 DEF InitializeFails
<1>2. CASE Initialize
  BY <1>2 DEF Initialize, StartThread
<1>3. CASE Wake
  BY <1>3 DEF Wake
<1>4. CASE ResetEvent
  BY <1>4 DEF ResetEvent
<1>5. CASE TestPrepareStop
  BY <1>5 DEF TestPrepareStop
<1>6. CASE PopMessage
  BY <1>6, PopQueues DEF PopMessage
<1>7. CASE PopNothing
  BY <1>7 DEF PopNothing
<1>8. CASE TestDirty
  <2>1. Plain("render") \in Message /\ Plain("render").id = NoTimer
    BY MessageConstructors DEF Plain, MessageTypes, ListNames
  <2> QED BY <1>8, PushQueues, <2>1, NoTimerAssumption DEF TestDirty, Push
<1>9. CASE Render
  BY <1>9 DEF Render
<1>10. CASE HandlerReturns
  BY <1>10 DEF HandlerReturns
<1>11. CASE AddTimer
  <2>1. ~Occurs(target, aryTimer) /\ target \in Timers
    BY <1>11 DEF AddTimer
  <2>2. NoRepeats(aryTimer') /\ \A t \in Timers : Occurs(t, aryTimer)' <=> Occurs(t, aryTimer) \/ t = target
    BY <1>11, <2>1, AppendOnce DEF AddTimer
  <2> QED BY <1>11, <2>1, <2>2 DEF AddTimer, Scanning
<1>12. CASE NotifyManager
  BY <1>12 DEF NotifyManager
<1>13. CASE RemoveTimer
  <2>1. NoRepeats(aryTimer') /\ \A t \in Timers : Occurs(t, aryTimer)' <=> Occurs(t, aryTimer) /\ t # target
    BY <1>13, DeleteItemOnce DEF RemoveTimer
  <2> QED BY <1>13, <2>1 DEF RemoveTimer, Scanning
<1>14. CASE DeleteMessages
  BY <1>14, DeleteType, DeleteQueues DEF DeleteMessages
<1>15. CASE Join
  BY <1>15 DEF Join
<1>16. CASE QuitPrepareStop
  BY <1>16 DEF QuitPrepareStop
<1>17. CASE StopTimersAndExit
  BY <1>17 DEF StopTimersAndExit, RequestThreadStop
<1>18. CASE HandlerCall
  <2>1. CASE SetDirty
    <3>1. Plain("render") \in Message /\ Plain("render").id = NoTimer
      BY MessageConstructors DEF Plain, MessageTypes, ListNames
    <3> QED BY <2>1, PushQueues, <3>1, NoTimerAssumption DEF SetDirty, Operate, Push
  <2>2. CASE PostScreenMessage
    <3>1. Plain("input") \in Message /\ Plain("input").id = NoTimer
      BY MessageConstructors DEF Plain, MessageTypes, ListNames
    <3> QED BY <2>2, PushQueues, <3>1, NoTimerAssumption DEF PostScreenMessage, Operate, Push
  <2>3. CASE StopManager
    BY <2>3 DEF StopManager, RequestThreadStop, Operate
  <2>4. CASE StartManager
    BY <2>4 DEF StartManager, StartThread, Operate
  <2>5. CASE QuitClear
    BY <2>5, NothingQueued DEF QuitClear, Operate, ClearMessageList
  <2>6. ASSUME NEW t \in Timers, StartTimer(t) PROVE TimerInv'
    BY <2>6 DEF StartTimer, Operate, Disciplined
  <2>7. ASSUME NEW t \in Timers, StopTimer(t) PROVE TimerInv'
    BY <2>7 DEF StopTimer, Operate
  <2>8. ASSUME NEW t \in Timers, DestroyTimer(t) PROVE TimerInv'
    <3>1. CASE running[t]
      BY <2>8, <3>1 DEF DestroyTimer, Operate
    <3>2. CASE ~running[t]
      <4>1. ~armed[t]
        BY <2>8, <3>2 DEF DestroyTimer, Operate, Disciplined
      <4> QED BY <2>8, <3>2, <4>1 DEF DestroyTimer, Operate
    <3> QED BY <3>1, <3>2
  <2>9. ASSUME NEW t \in Timers, NEW n \in RepeatCounts, CreateTimer(t, n) PROVE TimerInv'
    BY <2>9, CurrentOccurs DEF CreateTimer, Operate
  <2>10. ASSUME NEW t \in Timers, NEW n \in RepeatCounts, SetRepeatCount(t, n) PROVE TimerInv'
    BY <2>10, CurrentOccurs DEF SetRepeatCount, Operate
  <2> QED BY <1>18, <2>1, <2>2, <2>3, <2>4, <2>5, <2>6, <2>7, <2>8, <2>9, <2>10 DEF HandlerCall
<1> QED BY <1>1, <1>2, <1>3, <1>4, <1>5, <1>6, <1>7, <1>8, <1>9, <1>10, <1>11, <1>12, <1>13, <1>14, <1>15, <1>16, <1>17, <1>18 DEF MainStep

LEMMA TimerInvTimer ==
  ASSUME StopFirst, TypeOK, TimerInv, TimerStep
  PROVE  TimerInv'
<1> USE DEF TypeOK, QueueType, MainType, TimerType, ManagerType, TimerInv, RunningRegistered,
           RegisteredArmed, QueuedArmed, ArmedAlive, StartedArmed, StoppedOff, ForeverRuns,
           CompletionDue, At
<1>1. CASE TWake
  BY <1>1 DEF TWake
<1>2. CASE TResetEvent
  BY <1>2 DEF TResetEvent
<1>3. CASE TTest
  BY <1>3 DEF TTest
<1>4. CASE TSleep
  BY <1>4 DEF TSleep
<1>5. CASE TLock
  BY <1>5 DEF TLock
<1>6. CASE TNotDue
  BY <1>6 DEF TNotDue, NextTimer
<1>7. CASE TDue
  BY <1>7 DEF TDue
<1>8. CASE TCount
  BY <1>8 DEF TCount, NextTimer
<1>9. CASE TSend
  <2> DEFINE t == aryTimer[idx]
  <2>1. t \in Timers /\ Occurs(t, aryTimer)
    BY <1>9, CurrentOccurs DEF TSend
  <2>2. QueuedArmed'
    <3>1. CASE UNCHANGED <<lists, active>>
      BY <1>9, <3>1 DEF TSend
    <3>2. CASE \E status \in Statuses : Push(TimerMessage(t, status))
      <4>1. \A status \in Statuses : TimerMessage(t, status) \in Message /\ TimerMessage(t, status).id = t
        BY <2>1, MessageConstructors DEF TimerMessage
      <4> HIDE DEF t
      <4>2. armed[t] /\ armed' = armed
        BY <1>9, <2>1 DEF TSend
      <4> QED BY <3>2, <4>1, <4>2, PushQueues DEF Push
    <3> QED BY <1>9, <3>1, <3>2 DEF TSend, Statuses
  <2>3. CompletionDue'
    BY <1>9, <2>1 DEF TSend, NextTimer
  <2>4. (RunningRegistered /\ ForeverRuns /\ StoppedOff)'
    BY <1>9, <2>1 DEF TSend
  <2>5. (NoRepeats(aryTimer) /\ RegisteredArmed /\ ArmedAlive /\ StartedArmed)'
    BY <1>9 DEF TSend
  <2> QED BY <2>2, <2>3, <2>4, <2>5
<1>10. CASE TNotify
  BY <1>10 DEF TNotify, NextTimer
<1>11. CASE TComplete
  BY <1>11 DEF TComplete, NextTimer
<1>12. CASE TScanned
  BY <1>12 DEF TScanned
<1>13. CASE TNotRunning
  BY <1>13 DEF TNotRunning
<1>14. CASE TQuit
  BY <1>14 DEF TQuit
<1> QED BY <1>1, <1>2, <1>3, <1>4, <1>5, <1>6, <1>7, <1>8, <1>9, <1>10, <1>11, <1>12, <1>13, <1>14 DEF TimerStep

LEMMA TimerInvProducer ==
  ASSUME StopFirst, TypeOK, TimerInv, NEW p \in Producers,
         \/ \E type \in ProducerTypes[p] : PPush(p, type)
         \/ PQuitClear(p) \/ PContinue(p)
  PROVE  TimerInv'
<1> USE DEF TypeOK, QueueType, MainType, TimerType, ManagerType, TimerInv, RunningRegistered,
           RegisteredArmed, QueuedArmed, ArmedAlive, StartedArmed, StoppedOff, ForeverRuns,
           CompletionDue, At
<1>1. ASSUME NEW type \in ProducerTypes[p], PPush(p, type) PROVE TimerInv'
  <2>1. Plain(type) \in Message /\ Plain(type).id = NoTimer
    BY KernelAssumption, MessageConstructors DEF Plain
  <2> QED BY <1>1, PushQueues, <2>1, NoTimerAssumption DEF PPush, PMove, Push
<1>2. CASE PNotify(p)
  BY <1>2 DEF PNotify, PMove
<1>3. CASE PQuitClear(p)
  BY <1>3, NothingQueued DEF PQuitClear, PMove, ClearMessageList
<1>4. CASE PQuitFlag(p)
  BY <1>4 DEF PQuitFlag, PMove
<1>5. CASE PQuitNotify(p)
  BY <1>5 DEF PQuitNotify, PMove
<1> QED BY <1>1, <1>2, <1>3, <1>4, <1>5 DEF PContinue

LEMMA TimerInvInductive ==
  ASSUME StopFirst
  PROVE  Spec => [](TypeOK /\ TimerInv)
<1>1. ASSUME TypeOK, TimerInv, [Next]_vars PROVE TimerInv'
  <2>1. CASE UNCHANGED vars
    BY <1>1, <2>1 DEF vars, TimerInv, NoRepeats, RunningRegistered, RegisteredArmed,
       QueuedArmed, ArmedAlive, StartedArmed, StoppedOff, ForeverRuns, CompletionDue, Occurs, At
  <2>2. CASE MainStep
    BY <1>1, <2>2, TimerInvMain
  <2>3. CASE TimerStep
    BY <1>1, <2>3, TimerInvTimer
  <2>4. CASE ProducerStep
    BY <1>1, <2>4, TimerInvProducer DEF ProducerStep
  <2> QED BY <1>1, <2>1, <2>2, <2>3, <2>4 DEF Next, Terminated
<1>2. Spec => []TypeOK
  BY TypeCorrect
<1> QED BY <1>1, <1>2, TimerInvInit, PTL DEF Spec

(* NoMessageAfterStop: when stop() has returned, no notification of the timer   *)
(* is queued and the timer thread does not touch it.                         *)
THEOREM StoppedTimersSilent ==
  ASSUME StopFirst
  PROVE  Spec => []NoMessageAfterStop
<1>1. TypeOK /\ TimerInv => NoMessageAfterStop
  BY DEF TimerInv, QueuedArmed, RegisteredArmed, NoMessageAfterStop, Processing, Occurs,
     TypeOK, ManagerType
<1> QED BY <1>1, TimerInvInductive, PTL

(* NoDanglingTimer: neither m_aryTimer nor a list refers to a CTimer that has   *)
(* been destroyed.                                                          *)
THEOREM DestroyedTimersForgotten ==
  ASSUME StopFirst
  PROVE  Spec => []NoDanglingTimer
<1>1. TypeOK /\ TimerInv => NoDanglingTimer
  BY DEF TimerInv, QueuedArmed, RegisteredArmed, ArmedAlive, NoDanglingTimer, Occurs
<1> QED BY <1>1, TimerInvInductive, PTL

(* RegisteredOnce: a timer that runs is in m_aryTimer, and no timer is in it    *)
(* twice.                                                                   *)
THEOREM RunningTimersRegistered ==
  ASSUME StopFirst
  PROVE  Spec => []RegisteredOnce
<1>1. TypeOK /\ TimerInv => RegisteredOnce
  BY DEF TimerInv, NoRepeats, RunningRegistered, RegisteredOnce, Occurs, At
<1> QED BY <1>1, TimerInvInductive, PTL

(* RunningUntilDone: the timer thread switches a timer off only when its        *)
(* repeat count is used up.                                                  *)
THEOREM RestartNeverUndone ==
  ASSUME StopFirst
  PROVE  Spec => RunningUntilDone
<1> DEFINE Step == \A t \in Timers :
      running[t] /\ ~running'[t] /\ tpc' # tpc => repeat[t] # 0 /\ count[t] >= repeat[t]
<1>1. ASSUME TypeOK, TimerInv, [Next]_vars PROVE [Step]_vars
  <2>1. SUFFICES ASSUME NEW t \in Timers, running[t], ~running'[t], tpc' # tpc
                 PROVE  repeat[t] # 0 /\ count[t] >= repeat[t]
    OBVIOUS
  <2>2. CASE TimerStep
    <3>1. TSend \/ TComplete
      BY <2>1, <2>2 DEF TimerStep, TWake, TResetEvent, TTest, TSleep, TLock, TNotDue, TDue, TCount,
         TNotify, TScanned, TNotRunning, TQuit
    <3>2. t = aryTimer[idx]
      BY <1>1, <2>1, <3>1, CurrentOccurs DEF TSend, TComplete, TypeOK, TimerType
    <3>3. CASE TSend
      BY <1>1, <2>1, <3>2, <3>3 DEF TSend, TypeOK, TimerType
    <3>4. CASE TComplete
      BY <1>1, <3>2, <3>4 DEF TComplete, TimerInv, CompletionDue
    <3> QED BY <3>1, <3>3, <3>4
  <2>3. CASE MainStep
    <3>1. CASE HandlerCall
      BY <2>1, <3>1 DEF HandlerCall, SetDirty, PostScreenMessage, StartTimer, StopTimer,
         DestroyTimer, CreateTimer, SetRepeatCount, StopManager, StartManager, QuitClear
    <3>2. CASE ~HandlerCall
      BY <2>1, <2>3, <3>2 DEF MainStep, InitializeFails, Initialize, Wake, ResetEvent,
         TestPrepareStop, PopMessage, PopNothing, TestDirty, Render, HandlerReturns, AddTimer,
         NotifyManager, RemoveTimer, DeleteMessages, Join, QuitPrepareStop, StopTimersAndExit
    <3> QED BY <3>1, <3>2
  <2>4. CASE ProducerStep
    BY <2>1, <2>4 DEF ProducerStep, PContinue, PPush, PNotify, PQuitClear, PQuitFlag,
       PQuitNotify, PMove
  <2>5. CASE UNCHANGED vars
    BY <2>1, <2>5 DEF vars
  <2> QED BY <1>1, <2>2, <2>3, <2>4, <2>5 DEF Next, Terminated
<1> HIDE DEF Step
<1>2. Spec => [][Step]_vars
  BY <1>1, TimerInvInductive, PTL DEF Spec
<1> QED BY <1>2 DEF Step, RunningUntilDone

-----------------------------------------------------------------------------
(* Completions.                                                             *)

(* A timer whose completion is queued has used up its repeat count, and when   *)
(* the timer thread comes to it once more it has counted beyond, so that no   *)
(* second completion follows.                                                *)
Completions ==
  /\ \A t \in Timers : repeat[t] < MaxCount \/ repeat[t] = 0
  /\ LastWords(lists["timer"])
  /\ \A t \in Timers : CompletionQueued(lists["timer"], t) =>
       repeat[t] # 0 /\ count[t] >= repeat[t]
  /\ tpc = "send" => LET t == aryTimer[idx] IN
       CompletionQueued(lists["timer"], t) => count[t] > repeat[t]

LEMMA EmptyListsQuiet == LastWords(NoMessages["timer"]) /\ \A t : ~CompletionQueued(NoMessages["timer"], t)
BY DEF NoMessages, ListNames, LastWords, CompletionQueued

LEMMA CompletionsInit == Init => Completions
BY EmptyListsQuiet DEF Init, Completions

(* Steps that count nothing, are not those of the timer thread on a timer, and *)
(* complete nothing.                                                        *)
LEMMA CompletionsQuiet ==
  ASSUME TypeOK, Completions, Quiet(lists'["timer"], lists["timer"]),
         UNCHANGED <<count, repeat>>, tpc' = "send" => UNCHANGED <<aryTimer, idx, tpc>>
  PROVE  Completions'
<1>1. tpc = "send" => aryTimer[idx] \in Timers
  BY CurrentOccurs DEF TypeOK
<1>2. \A t \in Timers : CompletionQueued(lists'["timer"], t) => CompletionQueued(lists["timer"], t)
  BY DEF Quiet
<1>3. LastWords(lists'["timer"])
  BY DEF Quiet, Completions
<1> QED BY <1>1, <1>2, <1>3 DEF Completions

LEMMA SameQuiet ==
  ASSUME lists' = lists
  PROVE  Quiet(lists'["timer"], lists["timer"])
BY DEF Quiet

LEMMA ClearQuiet ==
  ASSUME ClearMessageList
  PROVE  Quiet(lists'["timer"], lists["timer"])
BY EmptyListsQuiet DEF Quiet, ClearMessageList

LEMMA PushQuiet ==
  ASSUME QueueType, NEW type \in MessageTypes, Push(Plain(type))
  PROVE  Quiet(lists'["timer"], lists["timer"])
BY PlainPushQuiet DEF Push, QueueType

(* A timer that is not armed has no message queued and is not processed.      *)
LEMMA CompletionsRecount ==
  ASSUME TypeOK, TimerInv, Completions, NEW t \in Timers, ~armed[t], NEW n \in RepeatCounts,
         repeat' = [repeat EXCEPT ![t] = n], count' = [count EXCEPT ![t] = 0],
         UNCHANGED <<lists, aryTimer, idx, tpc>>
  PROVE  Completions'
<1>1. ~CompletionQueued(lists["timer"], t)
  BY CompletionIsQueued DEF TimerInv, QueuedArmed
<1>2. n \in Nat /\ (n < MaxCount \/ n = 0)
  BY KernelAssumption
<1>3. \A u \in Timers : /\ repeat'[u] = IF u = t THEN n ELSE repeat[u]
                        /\ count'[u] = IF u = t THEN 0 ELSE count[u]
  BY DEF TypeOK, TimerType
<1>4. tpc = "send" => aryTimer[idx] \in Timers
  BY CurrentOccurs DEF TypeOK
<1> QED BY <1>1, <1>2, <1>3, <1>4 DEF Completions

LEMMA CompletionsMain ==
  ASSUME StopFirst, TypeOK, TimerInv, Completions, MainStep
  PROVE  Completions'
<1> USE DEF TypeOK
<1>1. CASE \E t \in Timers, n \in RepeatCounts : CreateTimer(t, n) \/ SetRepeatCount(t, n)
  <2>1. PICK t \in Timers, n \in RepeatCounts : CreateTimer(t, n) \/ SetRepeatCount(t, n)
    BY <1>1
  <2>2. ~armed[t]
    BY <2>1 DEF CreateTimer, SetRepeatCount, TimerInv, ArmedAlive
  <2>3. UNCHANGED <<lists, aryTimer, idx, tpc>>
    BY <2>1 DEF CreateTimer, SetRepeatCount
  <2>4. repeat' = [repeat EXCEPT ![t] = n] /\ count' = [count EXCEPT ![t] = 0]
    BY <2>1 DEF CreateTimer, SetRepeatCount
  <2> QED BY <2>2, <2>3, <2>4, CompletionsRecount
<1>2. CASE ~\E t \in Timers, n \in RepeatCounts : CreateTimer(t, n) \/ SetRepeatCount(t, n)
  <2>1. UNCHANGED <<count, repeat>>
    <3>1. CASE HandlerCall
      BY <1>2, <3>1 DEF HandlerCall, SetDirty, PostScreenMessage, StartTimer, StopTimer,
         DestroyTimer, StopManager, StartManager, QuitClear
    <3>2. CASE ~HandlerCall
      BY <3>2 DEF MainStep, InitializeFails, Initialize, Wake, ResetEvent,
         TestPrepareStop, PopMessage, PopNothing, TestDirty, Render, HandlerReturns, AddTimer,
         NotifyManager, RemoveTimer, DeleteMessages, Join, QuitPrepareStop, StopTimersAndExit
    <3> QED BY <3>1, <3>2
  <2>2. tpc' = "send" => UNCHANGED <<aryTimer, idx, tpc>>
    <3>1. CASE HandlerCall
      BY <3>1 DEF HandlerCall, SetDirty, PostScreenMessage, StartTimer, StopTimer,
         DestroyTimer, CreateTimer, SetRepeatCount, StopManager, StartManager, StartThread,
         QuitClear
    <3>2. CASE ~HandlerCall
      BY <3>2 DEF MainStep, InitializeFails, Initialize, StartThread, Wake, ResetEvent,
         TestPrepareStop, PopMessage, PopNothing, TestDirty, Render, HandlerReturns, AddTimer,
         NotifyManager, RemoveTimer, Scanning, DeleteMessages, Join, QuitPrepareStop,
         StopTimersAndExit
    <3> QED BY <3>1, <3>2
  <2>3. Quiet(lists'["timer"], lists["timer"])
    <3>1. "timer" \in ListNames /\ "render" \in MessageTypes /\ "input" \in MessageTypes
      BY DEF MessageTypes, ListNames
    <3>2. CASE PopMessage
      BY <3>1, <3>2, PopSublist, SublistQuiet DEF PopMessage, QueueType
    <3>3. CASE DeleteMessages
      BY <3>1, <3>3, DeleteSublist, SublistQuiet DEF DeleteMessages, QueueType
    <3>4. CASE SetDirty \/ PostScreenMessage
      BY <3>1, <3>4, PushQuiet DEF SetDirty, PostScreenMessage
    <3>5. CASE TestDirty
      BY <3>1, <3>5, PushQuiet, SameQuiet DEF TestDirty
    <3>6. CASE QuitClear
      BY <3>6, ClearQuiet DEF QuitClear
    <3>7. CASE HandlerCall /\ ~(SetDirty \/ PostScreenMessage \/ QuitClear)
      <4>1. lists' = lists
        BY <3>7 DEF HandlerCall, StartTimer, StopTimer, DestroyTimer, CreateTimer,
           SetRepeatCount, StopManager, StartManager
      <4> QED BY <4>1, SameQuiet
    <3>8. CASE ~(HandlerCall \/ PopMessage \/ DeleteMessages \/ TestDirty)
      <4>1. lists' = lists
        BY <3>8 DEF MainStep, InitializeFails, Initialize, Wake, ResetEvent,
           TestPrepareStop, PopNothing, Render, HandlerReturns, AddTimer, NotifyManager,
           RemoveTimer, Join, QuitPrepareStop, StopTimersAndExit
      <4> QED BY <4>1, SameQuiet
    <3> QED BY <3>2, <3>3, <3>4, <3>5, <3>6, <3>7, <3>8
  <2> QED BY <2>1, <2>2, <2>3, CompletionsQuiet
<1> QED BY <1>1, <1>2

LEMMA CompletionsTimer ==
  ASSUME TypeOK, TimerInv, Completions, TimerStep
  PROVE  Completions'
<1>1. CASE TCount
  <2> DEFINE t == aryTimer[idx]
  <2>1. t \in Timers
    BY <1>1, CurrentOccurs DEF TCount, TypeOK
  <2>2. lists' = lists /\ repeat' = repeat /\ aryTimer' = aryTimer
    BY <1>1 DEF TCount
  <2>3. CASE ~running[t]
    BY <1>1, <2>3, CompletionsQuiet, SameQuiet DEF TCount, NextTimer
  <2>4. CASE running[t]
    <3>1. idx' = idx /\ tpc' = "send"
      BY <1>1, <2>4 DEF TCount
    <3>2. \A u \in Timers : count[u] \in Nat /\ repeat[u] \in Nat /\ count'[u] \in Nat
            /\ count'[u] = IF u = t /\ count[u] < MaxCount THEN count[u] + 1 ELSE count[u]
      BY <1>1, <2>4, KernelAssumption DEF TCount, TypeOK, TimerType
    <3> HIDE DEF t
    <3>3. \A u \in Timers : CompletionQueued(lists["timer"], u) =>
            repeat[u] # 0 /\ count'[u] >= repeat[u] /\ (u = t => count'[u] > repeat[u])
      BY <3>2, KernelAssumption DEF Completions
    <3> QED BY <2>1, <2>2, <3>1, <3>3 DEF Completions, t
  <2> QED BY <2>3, <2>4
<1>2. CASE TSend
  <2> DEFINE t == aryTimer[idx]
  <2>1. t \in Timers
    BY <1>2, CurrentOccurs DEF TSend, TypeOK
  <2>2. count' = count /\ repeat' = repeat /\ tpc' # "send"
    BY <1>2 DEF TSend, NextTimer
  <2>3. CASE UNCHANGED <<lists, active>>
    BY <2>2, <2>3, CompletionsQuiet, SameQuiet
  <2>4. ASSUME NEW status \in Statuses, Push(TimerMessage(t, status)),
               repeat[t] = 0 \/ count[t] <= repeat[t],
               status = "TS_TIMER_COMPLETE" => repeat[t] # 0 /\ count[t] >= repeat[t]
        PROVE  Completions'
    <3> DEFINE m == TimerMessage(t, status)
    <3> DEFINE q == lists["timer"]
    <3> DEFINE new == lists'["timer"]
    <3>1. m \in Message /\ m.id = t /\ m.status = status
      BY <2>1, MessageConstructors DEF TimerMessage
    <3>2. q \in Seq(Message) /\ (new = q \/ new = Append(q, m))
      <4>1. "timer" \in ListNames
        BY DEF ListNames
      <4> QED BY <2>4, <3>1, <4>1, PushList DEF Push, TypeOK, QueueType, Lists
    <3> HIDE DEF m, q, new, t
    <3>3. ~CompletionQueued(q, t)
      <4>1. tpc = "send"
        BY <1>2 DEF TSend
      <4>2. CompletionQueued(q, t) => repeat[t] # 0 /\ count[t] > repeat[t]
        BY <2>1, <4>1 DEF Completions, q, t
      <4>3. count[t] \in Nat /\ repeat[t] \in Nat
        BY <2>1 DEF TypeOK, TimerType
      <4> QED BY <2>4, <4>2, <4>3
    <3>4. LastWords(new) /\ \A u \in Timers : CompletionQueued(new, u) =>
            CompletionQueued(q, u) \/ (u = t /\ status = "TS_TIMER_COMPLETE")
      <4>1. LastWords(q)
        BY DEF Completions, q
      <4>2. CASE new = q
        BY <4>1, <4>2
      <4>3. CASE new = Append(q, m)
        <5>1. ~CompletionQueued(q, m.id)
          BY <3>1, <3>3
        <5>2. /\ LastWords(q) => LastWords(new)
              /\ \A u : CompletionQueued(new, u) =>
                   CompletionQueued(q, u) \/ (m.id = u /\ m.status = "TS_TIMER_COMPLETE")
          BY <3>1, <3>2, <4>3, <5>1, AppendLastWords
        <5> QED BY <3>1, <4>1, <5>2
      <4> QED BY <3>2, <4>2, <4>3
    <3> QED BY <2>2, <2>4, <3>4 DEF Completions, new, q
  <2>5. \/ UNCHANGED <<lists, active>>
        \/ repeat[t] = 0 /\ Push(TimerMessage(t, "TS_TIMER"))
        \/ count[t] < repeat[t] /\ Push(TimerMessage(t, "TS_TIMER"))
        \/ repeat[t] # 0 /\ count[t] = repeat[t] /\ Push(TimerMessage(t, "TS_TIMER_COMPLETE"))
    BY <1>2 DEF TSend
  <2>6. count[t] \in Nat /\ repeat[t] \in Nat
    BY <2>1 DEF TypeOK, TimerType
  <2>7. "TS_TIMER" \in Statuses /\ "TS_TIMER_COMPLETE" \in Statuses
    BY DEF Statuses
  <2> HIDE DEF t
  <2> QED BY <2>3, <2>4, <2>5, <2>6, <2>7
<1>3. CASE ~(TCount \/ TSend)
  <2>1. UNCHANGED <<lists, count, repeat>> /\ tpc' # "send"
    BY <1>3 DEF TimerStep, TWake, TResetEvent, TTest, TSleep, TLock, TNotDue, TDue,
       TNotify, TComplete, NextTimer, TScanned, TNotRunning, TQuit
  <2> QED BY <2>1, CompletionsQuiet, SameQuiet
<1> QED BY <1>1, <1>2, <1>3

LEMMA CompletionsProducer ==
  ASSUME TypeOK, Completions, NEW p \in Producers,
         \/ \E type \in ProducerTypes[p] : PPush(p, type)
         \/ PQuitClear(p) \/ PContinue(p)
  PROVE  Completions'
<1>1. UNCHANGED <<count, repeat, aryTimer, idx, tpc>>
  BY DEF PContinue, PPush, PNotify, PQuitClear, PQuitFlag, PQuitNotify, PMove
<1>2. Quiet(lists'["timer"], lists["timer"])
  <2>1. ASSUME NEW type \in ProducerTypes[p], PPush(p, type)
        PROVE  Quiet(lists'["timer"], lists["timer"])
    <3>1. type \in MessageTypes
      BY KernelAssumption
    <3> QED BY <2>1, <3>1, PushQuiet DEF PPush, TypeOK
  <2>2. CASE PQuitClear(p)
    BY <2>2, ClearQuiet DEF PQuitClear
  <2>3. CASE PContinue(p)
    BY <2>3, SameQuiet DEF PContinue, PNotify, PQuitFlag, PQuitNotify
  <2> QED BY <2>1, <2>2, <2>3
<1> QED BY <1>1, <1>2, CompletionsQuiet

(* CompletionIsLast: nothing of a timer is queued behind its TS_TIMER_COMPLETE,  *)
(* whatever the timer thread, the handlers and the deletions did in between.  *)
THEOREM NothingAfterCompletion ==
  ASSUME StopFirst
  PROVE  Spec => []CompletionIsLast
<1>1. ASSUME TypeOK, TimerInv, Completions, [Next]_vars PROVE Completions'
  <2>1. CASE UNCHANGED vars
    BY <1>1, <2>1 DEF vars, Completions
  <2>2. CASE MainStep
    BY <1>1, <2>2, CompletionsMain
  <2>3. CASE TimerStep
    BY <1>1, <2>3, CompletionsTimer
  <2>4. CASE ProducerStep
    BY <1>1, <2>4, CompletionsProducer DEF ProducerStep
  <2> QED BY <1>1, <2>1, <2>2, <2>3, <2>4 DEF Next, Terminated
<1>2. TypeOK /\ Completions => CompletionIsLast
  <2> SUFFICES ASSUME TypeOK, Completions, NEW i \in 1..Len(lists["timer"]),
                      lists["timer"][i].status = "TS_TIMER_COMPLETE"
               PROVE  LET m == lists["timer"][i] IN
                        /\ repeat[m.id] # 0 /\ count[m.id] >= repeat[m.id]
                        /\ \A j \in i + 1..Len(lists["timer"]) : lists["timer"][j].id # m.id
    BY DEF CompletionIsLast
  <2> DEFINE q == lists["timer"]
  <2>1. q \in Seq(Message)
    BY DEF TypeOK, QueueType, Lists, ListNames
  <2>2. q[i].id \in Timers /\ CompletionQueued(q, q[i].id)
    BY <2>1, CompletionFields DEF CompletionQueued
  <2>3. repeat[q[i].id] # 0 /\ count[q[i].id] >= repeat[q[i].id]
    BY <2>2 DEF Completions
  <2>4. \A j \in i + 1..Len(q) : j \in 1..Len(q) /\ i < j
    BY <2>1
  <2>5. \A j \in i + 1..Len(q) : q[j].id # q[i].id
    BY <2>4 DEF Completions, LastWords
  <2> QED BY <2>3, <2>5
<1> QED BY <1>1, <1>2, TimerInvInductive, CompletionsInit, PTL DEF Spec

-----------------------------------------------------------------------------
(* The kernel implements the contract: which step of TimerContract a change of *)
(* the two variables it has is.                                              *)
USE DEF Contract!vars

LEMMA ContractStutter ==
  ASSUME armed' = armed, \A t \in Timers : Queued(lists', t) <=> Queued(lists, t)
  PROVE  [Contract!Next]_(Contract!vars)
OBVIOUS

LEMMA ContractPush ==
  ASSUME TypeOK, NEW m \in Message, m.id = NoTimer,
         lists' = PushTo(lists, active, m, prepareStop)
  PROVE  \A t \in Timers : Queued(lists', t) <=> Queued(lists, t)
BY PushQueues, PushKeepsQueued, NoTimerAssumption DEF TypeOK, QueueType

LEMMA ContractCancelAll ==
  ASSUME armed' = armed, \A t \in Timers : ~Queued(lists', t)
  PROVE  [Contract!Next]_(Contract!vars)
BY DEF Contract!Next, Contract!CancelAll

LEMMA ContractPop ==
  ASSUME TypeOK, ~QueuesEmpty(lists), lists' = PopRest(lists), armed' = armed
  PROVE  [Contract!Next]_(Contract!vars)
<1>1. PopResult(lists).id \in Timers \cup {NoTimer}
  BY PopType, MessageFields DEF TypeOK, QueueType
<1>2. \A t \in Timers : Queued(lists', t) => Queued(lists, t)
  BY PopQueues DEF TypeOK, QueueType
<1>3. \A t \in Timers : Queued(lists, t) /\ t # PopResult(lists).id => Queued(lists', t)
  BY PopKeepsQueued DEF TypeOK, QueueType
<1>4. CASE \A t \in Timers : Queued(lists, t) => Queued(lists', t)
  BY <1>2, <1>4, ContractStutter
<1>5. ASSUME NEW t \in Timers, Queued(lists, t), ~Queued(lists', t)
      PROVE  [Contract!Next]_(Contract!vars)
  <2>1. t = PopResult(lists).id
    BY <1>3, <1>5
  <2>2. Contract!Deliver(t)
    BY <1>2, <1>3, <1>5, <2>1 DEF Contract!Deliver
  <2> QED BY <2>2 DEF Contract!Next
<1> QED BY <1>4, <1>5

LEMMA ContractCancel ==
  ASSUME TypeOK, NEW u \in Timers, lists' = DeleteMessageByID(lists, u),
         armed' = [armed EXCEPT ![u] = FALSE]
  PROVE  [Contract!Next]_(Contract!vars)
<1>1. \A t \in Timers : Queued(lists', t) <=> Queued(lists, t) /\ t # u
  BY DeleteType, DeleteQueues, DeleteKeepsQueued DEF TypeOK, QueueType
<1>2. \A t \in Timers : armed'[t] <=> armed[t] /\ t # u
  BY DEF TypeOK, TimerType
<1>3. Contract!Cancel(u)
  BY <1>1, <1>2 DEF Contract!Cancel
<1> QED BY <1>3 DEF Contract!Next

LEMMA ContractStart ==
  ASSUME TypeOK, NEW t \in Timers, lists' = lists, armed' = [armed EXCEPT ![t] = TRUE]
  PROVE  [Contract!Next]_(Contract!vars)
<1>1. \A u \in Timers : armed'[u] <=> armed[u] \/ u = t
  BY DEF TypeOK, TimerType
<1>2. Contract!Start(t)
  BY <1>1 DEF Contract!Start
<1> QED BY <1>2 DEF Contract!Next

LEMMA ContractNotify ==
  ASSUME TypeOK, NEW t \in Timers, armed[t], armed' = armed, NEW status \in Statuses,
         lists' = PushTo(lists, active, TimerMessage(t, status), prepareStop)
  PROVE  [Contract!Next]_(Contract!vars)
<1>1. TimerMessage(t, status) \in Message /\ TimerMessage(t, status).id = t
  BY MessageConstructors DEF TimerMessage
<1>2. Queued(lists', t)
  BY PushQueuesTimer DEF TypeOK, QueueType
<1>3. \A u \in Timers : Queued(lists', u) <=> Queued(lists, u) \/ u = t
  BY <1>1, <1>2, PushQueues, PushKeepsQueued DEF TypeOK, QueueType
<1>4. Contract!Notify(t)
  BY <1>3 DEF Contract!Notify
<1> QED BY <1>4 DEF Contract!Next

LEMMA ContractMain ==
  ASSUME StopFirst, TypeOK, TimerInv, MainStep
  PROVE  [Contract!Next]_(Contract!vars)
<1>1. CASE InitializeFails
  BY <1>1, ContractStutter DEF InitializeFails
<1>2. CASE Initialize
  BY <1>2, ContractStutter DEF Initialize, StartThread
<1>3. CASE Wake
  BY <1>3, ContractStutter DEF Wake
<1>4. CASE ResetEvent
  BY <1>4, ContractStutter DEF ResetEvent
<1>5. CASE TestPrepareStop
  BY <1>5, ContractStutter DEF TestPrepareStop
<1>6. CASE PopMessage
  BY <1>6, ContractPop DEF PopMessage
<1>7. CASE PopNothing
  BY <1>7, ContractStutter DEF PopNothing
<1>8. CASE TestDirty
  <2>1. Plain("render") \in Message /\ Plain("render").id = NoTimer
    BY MessageConstructors DEF Plain, MessageTypes
  <2>2. CASE dirty
    BY <1>8, <2>1, <2>2, ContractPush, ContractStutter DEF TestDirty, Push
  <2>3. CASE ~dirty
    BY <1>8, <2>3, ContractStutter DEF TestDirty
  <2> QED BY <2>2, <2>3
<1>9. CASE Render
  BY <1>9, ContractStutter DEF Render
<1>10. CASE HandlerReturns
  BY <1>10, ContractStutter DEF HandlerReturns
<1>11. CASE AddTimer
  BY <1>11, ContractStutter DEF AddTimer
<1>12. CASE NotifyManager
  BY <1>12, ContractStutter DEF NotifyManager
<1>13. CASE RemoveTimer
  BY <1>13, ContractStutter DEF RemoveTimer
<1>14. CASE DeleteMessages
  <2>1. target \in Timers
    BY <1>14 DEF DeleteMessages, TypeOK, MainType
  <2> QED BY <1>14, <2>1, ContractCancel DEF DeleteMessages
<1>15. CASE Join
  BY <1>15, ContractStutter DEF Join
<1>16. CASE QuitPrepareStop
  BY <1>16, ContractStutter DEF QuitPrepareStop
<1>17. CASE StopTimersAndExit
  BY <1>17, ContractStutter DEF StopTimersAndExit, RequestThreadStop
<1>18. CASE HandlerCall
  <2>1. CASE SetDirty
    <3>1. Plain("render") \in Message /\ Plain("render").id = NoTimer
      BY MessageConstructors DEF Plain, MessageTypes, ListNames
    <3> QED BY <2>1, <3>1, ContractPush, ContractStutter DEF SetDirty, Operate, Push
  <2>2. CASE PostScreenMessage
    <3>1. Plain("input") \in Message /\ Plain("input").id = NoTimer
      BY MessageConstructors DEF Plain, MessageTypes, ListNames
    <3> QED BY <2>2, <3>1, ContractPush, ContractStutter DEF PostScreenMessage, Operate, Push
  <2>3. CASE StopManager
    BY <2>3, ContractStutter DEF StopManager, RequestThreadStop, Operate
  <2>4. CASE StartManager
    BY <2>4, ContractStutter DEF StartManager, StartThread, Operate
  <2>5. CASE QuitClear
    <3>1. armed' = armed /\ \A t \in Timers : ~Queued(lists', t)
      BY <2>5, NothingQueued DEF QuitClear, Operate, ClearMessageList
    <3> QED BY <3>1, ContractCancelAll
  <2>6. ASSUME NEW t \in Timers, StartTimer(t) PROVE [Contract!Next]_(Contract!vars)
    BY <2>6, ContractStart DEF StartTimer, Operate
  <2>7. ASSUME NEW t \in Timers, StopTimer(t) PROVE [Contract!Next]_(Contract!vars)
    BY <2>7, ContractStutter DEF StopTimer, Operate
  <2>8. ASSUME NEW t \in Timers, DestroyTimer(t) PROVE [Contract!Next]_(Contract!vars)
    <3>1. CASE running[t]
      BY <2>8, <3>1, ContractStutter DEF DestroyTimer
    <3>2. CASE ~running[t]
      <4>1. ~armed[t]
        BY <2>8, <3>2 DEF DestroyTimer, Operate, Disciplined, TimerInv, ForeverRuns, At
      <4>2. armed' = armed
        BY <2>8, <3>2, <4>1 DEF DestroyTimer, TypeOK, TimerType
      <4> QED BY <2>8, <4>2, ContractStutter DEF DestroyTimer
    <3> QED BY <3>1, <3>2
  <2>9. ASSUME NEW t \in Timers, NEW n \in RepeatCounts, CreateTimer(t, n) PROVE [Contract!Next]_(Contract!vars)
    BY <2>9, ContractStutter DEF CreateTimer, Operate
  <2>10. ASSUME NEW t \in Timers, NEW n \in RepeatCounts, SetRepeatCount(t, n) PROVE [Contract!Next]_(Contract!vars)
    BY <2>10, ContractStutter DEF SetRepeatCount, Operate
  <2> QED BY <1>18, <2>1, <2>2, <2>3, <2>4, <2>5, <2>6, <2>7, <2>8, <2>9, <2>10 DEF HandlerCall
<1> QED BY <1>1, <1>2, <1>3, <1>4, <1>5, <1>6, <1>7, <1>8, <1>9, <1>10, <1>11, <1>12, <1>13, <1>14, <1>15, <1>16, <1>17, <1>18 DEF MainStep

LEMMA ContractTimer ==
  ASSUME StopFirst, TypeOK, TimerInv, TimerStep
  PROVE  [Contract!Next]_(Contract!vars)
<1>1. CASE TWake
  BY <1>1, ContractStutter DEF TWake
<1>2. CASE TResetEvent
  BY <1>2, ContractStutter DEF TResetEvent
<1>3. CASE TTest
  BY <1>3, ContractStutter DEF TTest
<1>4. CASE TSleep
  BY <1>4, ContractStutter DEF TSleep
<1>5. CASE TLock
  BY <1>5, ContractStutter DEF TLock
<1>6. CASE TNotDue
  BY <1>6, ContractStutter DEF TNotDue, NextTimer
<1>7. CASE TDue
  BY <1>7, ContractStutter DEF TDue
<1>8. CASE TCount
  BY <1>8, ContractStutter DEF TCount, NextTimer
<1>9. CASE TSend
  <2> DEFINE t == aryTimer[idx]
  <2>1. t \in Timers /\ armed[t] /\ armed' = armed
    BY <1>9, CurrentOccurs DEF TSend, TypeOK, TimerInv, RegisteredArmed
  <2>2. CASE UNCHANGED <<lists, active>>
    BY <1>9, <2>1, <2>2, ContractStutter
  <2>3. CASE \E status \in Statuses : Push(TimerMessage(t, status))
    BY <2>1, <2>3, ContractNotify DEF Push
  <2> QED BY <1>9, <2>2, <2>3 DEF TSend, Statuses
<1>10. CASE TNotify
  BY <1>10, ContractStutter DEF TNotify, NextTimer
<1>11. CASE TComplete
  BY <1>11, ContractStutter DEF TComplete, NextTimer
<1>12. CASE TScanned
  BY <1>12, ContractStutter DEF TScanned
<1>13. CASE TNotRunning
  BY <1>13, ContractStutter DEF TNotRunning
<1>14. CASE TQuit
  BY <1>14, ContractStutter DEF TQuit
<1> QED BY <1>1, <1>2, <1>3, <1>4, <1>5, <1>6, <1>7, <1>8, <1>9, <1>10, <1>11, <1>12, <1>13, <1>14 DEF TimerStep

LEMMA ContractProducer ==
  ASSUME StopFirst, TypeOK, TimerInv, NEW p \in Producers,
         \/ \E type \in ProducerTypes[p] : PPush(p, type)
         \/ PQuitClear(p) \/ PContinue(p)
  PROVE  [Contract!Next]_(Contract!vars)
<1>1. ASSUME NEW type \in ProducerTypes[p], PPush(p, type) PROVE [Contract!Next]_(Contract!vars)
  <2>1. Plain(type) \in Message /\ Plain(type).id = NoTimer
    BY KernelAssumption, MessageConstructors DEF Plain
  <2> QED BY <1>1, <2>1, ContractPush, ContractStutter DEF PPush, PMove, Push
<1>2. CASE PNotify(p)
  BY <1>2, ContractStutter DEF PNotify, PMove
<1>3. CASE PQuitClear(p)
  <2>1. armed' = armed /\ \A t \in Timers : ~Queued(lists', t)
    BY <1>3, NothingQueued DEF PQuitClear, PMove, ClearMessageList
  <2> QED BY <2>1, ContractCancelAll
<1>4. CASE PQuitFlag(p)
  BY <1>4, ContractStutter DEF PQuitFlag, PMove
<1>5. CASE PQuitNotify(p)
  BY <1>5, ContractStutter DEF PQuitNotify, PMove
<1> QED BY <1>1, <1>2, <1>3, <1>4, <1>5 DEF PContinue

(* TimerContractHolds: every behaviour of the kernel, its threads, locks and    *)
(* lists forgotten, is a behaviour of TimerContract.                         *)
THEOREM KernelImplementsContract ==
  ASSUME StopFirst
  PROVE  Spec => TimerContractHolds
<1>1. Init => Contract!Init
  BY NothingQueued DEF Init, Contract!Init
<1>2. ASSUME TypeOK, TimerInv, [Next]_vars PROVE [Contract!Next]_(Contract!vars)
  <2>1. CASE UNCHANGED vars
    BY <2>1, ContractStutter DEF vars
  <2>2. CASE MainStep
    BY <1>2, <2>2, ContractMain
  <2>3. CASE TimerStep
    BY <1>2, <2>3, ContractTimer
  <2>4. CASE ProducerStep
    BY <1>2, <2>4, ContractProducer DEF ProducerStep
  <2> QED BY <1>2, <2>1, <2>2, <2>3, <2>4 DEF Next, Terminated
<1> QED BY <1>1, <1>2, TimerInvInductive, PTL DEF Spec, Contract!Spec, TimerContractHolds
=============================================================================
