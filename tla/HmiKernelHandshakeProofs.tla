----------------------- MODULE HmiKernelHandshakeProofs -----------------------
(***************************************************************************)
(* The handshakes between the threads: the kernel thread never sleeps on      *)
(* work, forgets no repaint, and is not outlived by the timer thread.        *)
(***************************************************************************)
EXTENDS HmiKernelProofs

(* The kernel thread handles a message, or runs initialize() and onStartup(). *)
HandlerPCs == {"handling", "startAdd", "startNotify", "stopRemove", "stopDelete", "join",
               "quitFlag"}

(* Start-up is over before the loop of CMain::run begins.                    *)
StartupFirst == cur = Startup => mpc \in HandlerPCs \cup {"init", "exited"}

(* Where the thread is on its way to the wait without looking into the lists   *)
(* again, a message in them is announced: by the event or by a push that is   *)
(* still to notify.                                                         *)
PushAnnounced ==
  (mpc \in {"init", "wait", "dirtytest"} \/ cur = Startup) /\ ~signal =>
    QueuesEmpty(lists) \/ PushInFlight

(* From the test of m_bPrepareStop until the next one, a request to stop is    *)
(* announced in the same way.                                               *)
StopAnnounced ==
  mpc \notin {"woken", "test", "stopping", "joinExit", "exited"} /\ prepareStop /\ ~signal =>
    \E p \in Producers : ppc[p] = "quitNotify"

(* m_bRunning of the timer thread says that it is inside run().               *)
ThreadRuns == tRunning <=> tpc \notin {"off", "ended"}

Joining == {"join", "joinExit"}

(* The timer thread ends only while the kernel thread waits for it, and is    *)
(* off before it is first started and after the kernel thread has left.      *)
EndsJoined ==
  /\ tQuit => mpc \in Joining /\ tpc = "off"
  /\ tpc \in {"ending", "ended"} => mpc \in Joining
  /\ tStop /\ tRunning => mpc \in Joining
  /\ mpc \in {"init", "exited"} => tpc = "off"

Handshakes == ThreadRuns /\ EndsJoined /\ StartupFirst /\ PushAnnounced /\ StopAnnounced

USE DEF queueVars, mainVars, timerVars, mgrVars

LEMMA NoMessagesEmpty == QueuesEmpty(NoMessages)
BY DEF QueuesEmpty, NoMessages

LEMMA PopNotStartup ==
  ASSUME QueueType, ~QueuesEmpty(lists)
  PROVE  PopResult(lists) # Startup
<1>1. PopResult(lists) \in Message
  BY PopType DEF QueueType
<1>2. PopResult(lists).type # "startup"
  BY <1>1, MessageFields DEF MessageTypes, ListNames
<1> QED BY <1>2 DEF Startup

LEMMA HandshakesInit == Init => Handshakes
BY NoMessagesEmpty DEF Init, Handshakes, ThreadRuns, EndsJoined, Joining, StartupFirst,
   PushAnnounced, StopAnnounced

LEMMA HandshakesMain ==
  ASSUME TypeOK, Handshakes, MainStep
  PROVE  Handshakes'
<1> USE DEF TypeOK, MainType, ManagerType, ProducerType, Handshakes, ThreadRuns, EndsJoined,
           Joining, StartupFirst, PushAnnounced, StopAnnounced, PushInFlight, HandlerPCs,
           Startup, NoMessage
<1>1. CASE InitializeFails
  BY <1>1 DEF InitializeFails
<1>2. CASE Initialize
  BY <1>2 DEF Initialize, StartThread
<1>3. CASE Wake
  BY <1>3 DEF Wake
<1>4. CASE ResetEvent
  BY <1>4 DEF ResetEvent
<1>5. CASE TestPrepareStop
  BY <1>5 DEF TestPrepareStop
<1>6. CASE PopMessage
  BY <1>6, PopNotStartup DEF PopMessage
<1>7. CASE PopNothing
  BY <1>7 DEF PopNothing
<1>8. CASE TestDirty
  BY <1>8 DEF TestDirty, Push
<1>9. CASE Render
  BY <1>9 DEF Render
<1>10. CASE HandlerReturns
  BY <1>10 DEF HandlerReturns
<1>11. CASE AddTimer
  BY <1>11 DEF AddTimer
<1>12. CASE NotifyManager
  BY <1>12 DEF NotifyManager
<1>13. CASE RemoveTimer
  BY <1>13 DEF RemoveTimer
<1>14. CASE DeleteMessages
  BY <1>14, DeleteFromEmpty DEF DeleteMessages, QueueType
<1>15. CASE Join
  BY <1>15 DEF Join
<1>16. CASE QuitPrepareStop
  BY <1>16 DEF QuitPrepareStop
<1>17. CASE StopTimersAndExit
  BY <1>17 DEF StopTimersAndExit, RequestThreadStop
<1>18. CASE HandlerCall
  <2>1. CASE SetDirty
    BY <2>1 DEF SetDirty, Operate, Push
  <2>2. CASE PostScreenMessage
    BY <2>2 DEF PostScreenMessage, Operate, Push
  <2>3. CASE StopManager
    BY <2>3 DEF StopManager, RequestThreadStop, Operate
  <2>4. CASE StartManager
    BY <2>4 DEF StartManager, StartThread, Operate
  <2>5. CASE QuitClear
    BY <2>5, NoMessagesEmpty DEF QuitClear, Operate, ClearMessageList
  <2>6. ASSUME NEW t \in Timers, StartTimer(t) PROVE Handshakes'
    BY <2>6 DEF StartTimer, Operate
  <2>7. ASSUME NEW t \in Timers, StopTimer(t) PROVE Handshakes'
    BY <2>7 DEF StopTimer, Operate
  <2>8. ASSUME NEW t \in Timers, DestroyTimer(t) PROVE Handshakes'
    BY <2>8 DEF DestroyTimer, Operate
  <2>9. ASSUME NEW t \in Timers, NEW n \in RepeatCounts, CreateTimer(t, n) PROVE Handshakes'
    BY <2>9 DEF CreateTimer, Operate
  <2>10. ASSUME NEW t \in Timers, NEW n \in RepeatCounts, SetRepeatCount(t, n) PROVE Handshakes'
    BY <2>10 DEF SetRepeatCount, Operate
  <2> QED BY <1>18, <2>1, <2>2, <2>3, <2>4, <2>5, <2>6, <2>7, <2>8, <2>9, <2>10 DEF HandlerCall
<1> QED BY <1>1, <1>2, <1>3, <1>4, <1>5, <1>6, <1>7, <1>8, <1>9, <1>10, <1>11, <1>12, <1>13, <1>14, <1>15, <1>16, <1>17, <1>18 DEF MainStep

LEMMA HandshakesTimer ==
  ASSUME TypeOK, Handshakes, TimerStep
  PROVE  Handshakes'
<1> USE DEF TypeOK, MainType, ManagerType, ProducerType, Handshakes, ThreadRuns, EndsJoined,
           Joining, StartupFirst, PushAnnounced, StopAnnounced, PushInFlight, HandlerPCs,
           Startup, NoMessage
<1>1. CASE TWake
  BY <1>1 DEF TWake
<1>2. CASE TResetEvent
  BY <1>2 DEF TResetEvent
<1>3. CASE TTest
  BY <1>3 DEF TTest
<1>4. CASE TSleep
  BY <1>4 DEF TSleep
<1>5. CASE TLock
  BY <1>5 DEF TLock
<1>6. CASE TNotDue
  BY <1>6 DEF TNotDue, NextTimer
<1>7. CASE TDue
  BY <1>7 DEF TDue
<1>8. CASE TCount
  BY <1>8 DEF TCount, NextTimer
<1>9. CASE TSend
  BY <1>9 DEF TSend, NextTimer, Push
<1>10. CASE TNotify
  BY <1>10 DEF TNotify, NextTimer
<1>11. CASE TComplete
  BY <1>11 DEF TComplete, NextTimer
<1>12. CASE TScanned
  BY <1>12 DEF TScanned
<1>13. CASE TNotRunning
  BY <1>13 DEF TNotRunning
<1>14. CASE TQuit
  BY <1>14 DEF TQuit
<1> QED BY <1>1, <1>2, <1>3, <1>4, <1>5, <1>6, <1>7, <1>8, <1>9, <1>10, <1>11, <1>12, <1>13, <1>14 DEF TimerStep

LEMMA HandshakesProducer ==
  ASSUME TypeOK, Handshakes, NEW p \in Producers,
         \/ \E type \in ProducerTypes[p] : PPush(p, type)
         \/ PQuitClear(p) \/ PContinue(p)
  PROVE  Handshakes'
<1> USE DEF TypeOK, MainType, ManagerType, ProducerType, Handshakes, ThreadRuns, EndsJoined,
           Joining, StartupFirst, PushAnnounced, StopAnnounced, PushInFlight, HandlerPCs,
           Startup, NoMessage
<1>1. ASSUME NEW type \in ProducerTypes[p], PPush(p, type) PROVE Handshakes'
  BY <1>1 DEF PPush, PMove, Push
<1>2. CASE PNotify(p)
  BY <1>2 DEF PNotify, PMove
<1>3. CASE PQuitClear(p)
  BY <1>3, NoMessagesEmpty DEF PQuitClear, PMove, ClearMessageList
<1>4. CASE PQuitFlag(p)
  BY <1>4 DEF PQuitFlag, PMove
<1>5. CASE PQuitNotify(p)
  BY <1>5 DEF PQuitNotify, PMove
<1> QED BY <1>1, <1>2, <1>3, <1>4, <1>5 DEF PContinue


LEMMA HandshakesInductive == Spec => [](TypeOK /\ Handshakes)
<1>1. ASSUME TypeOK, Handshakes, [Next]_vars PROVE Handshakes'
  <2>1. CASE UNCHANGED vars
    BY <1>1, <2>1 DEF vars, Handshakes, ThreadRuns, EndsJoined, StartupFirst, PushAnnounced,
       StopAnnounced, PushInFlight
  <2>2. CASE MainStep
    BY <1>1, <2>2, HandshakesMain
  <2>3. CASE TimerStep
    BY <1>1, <2>3, HandshakesTimer
  <2>4. CASE ProducerStep
    BY <1>1, <2>4, HandshakesProducer DEF ProducerStep
  <2> QED BY <1>1, <2>1, <2>2, <2>3, <2>4 DEF Next, Terminated
<1>2. Spec => []TypeOK
  BY TypeCorrect
<1> QED BY <1>1, <1>2, HandshakesInit, PTL DEF Spec

(* NoLostWakeup: whenever the kernel thread waits on an event that nobody has  *)
(* signalled, its lists are empty or the notify of a push is still to come,   *)
(* and the same holds of a request to stop, for any number of threads that    *)
(* push.                                                                    *)
THEOREM NeverSleepsOnWork == Spec => []NoLostWakeup
<1>1. Handshakes => NoLostWakeup
  BY DEF Handshakes, PushAnnounced, StopAnnounced, NoLostWakeup
<1> QED BY <1>1, HandshakesInductive, PTL

(* TimerThreadJoined: when CMain::run has returned, and startHMI deletes the    *)
(* CMain, the timer thread is gone.                                          *)
THEOREM TimerThreadGone == Spec => []TimerThreadJoined
<1>1. Handshakes => TimerThreadJoined
  BY DEF Handshakes, ThreadRuns, EndsJoined, TimerThreadJoined
<1> QED BY <1>1, HandshakesInductive, PTL

-----------------------------------------------------------------------------
(* Repaints.                                                                *)

LEMMA RepaintInit == Init => RepaintPending
BY DEF Init, RepaintPending

LEMMA RepaintMain ==
  ASSUME TypeOK, RepaintPending, MainStep
  PROVE  RepaintPending'
<1> USE DEF TypeOK, QueueType, ProducerType, RepaintPending, Quitting
<1>1. CASE InitializeFails
  BY <1>1 DEF InitializeFails
<1>2. CASE Initialize
  BY <1>2 DEF Initialize, StartThread
<1>3. CASE Wake
  BY <1>3 DEF Wake
<1>4. CASE ResetEvent
  BY <1>4 DEF ResetEvent
<1>5. CASE TestPrepareStop
  BY <1>5 DEF TestPrepareStop
<1>6. CASE PopMessage
  BY <1>6, PopKeepsRender DEF PopMessage
<1>7. CASE PopNothing
  BY <1>7 DEF PopNothing
<1>8. CASE TestDirty
  <2>1. Plain("render") \in Message
    BY MessageConstructors DEF MessageTypes, ListNames
  <2> QED BY <1>8, PushKeepsRender, <2>1 DEF TestDirty, Push
<1>9. CASE Render
  BY <1>9 DEF Render
<1>10. CASE HandlerReturns
  BY <1>10 DEF HandlerReturns
<1>11. CASE AddTimer
  BY <1>11 DEF AddTimer
<1>12. CASE NotifyManager
  BY <1>12 DEF NotifyManager
<1>13. CASE RemoveTimer
  BY <1>13 DEF RemoveTimer
<1>14. CASE DeleteMessages
  BY <1>14, DeleteKeepsRender DEF DeleteMessages, MainType
<1>15. CASE Join
  BY <1>15 DEF Join
<1>16. CASE QuitPrepareStop
  BY <1>16 DEF QuitPrepareStop
<1>17. CASE StopTimersAndExit
  BY <1>17 DEF StopTimersAndExit, RequestThreadStop
<1>18. CASE HandlerCall
  <2>1. CASE SetDirty
    <3>1. Plain("render") \in Message
      BY MessageConstructors DEF MessageTypes, ListNames
    <3> QED BY <2>1, PushKeepsRender, PushRender, <3>1 DEF SetDirty, Operate, Push
  <2>2. CASE PostScreenMessage
    <3>1. Plain("input") \in Message
      BY MessageConstructors DEF MessageTypes, ListNames
    <3> QED BY <2>2, PushKeepsRender, <3>1 DEF PostScreenMessage, Operate, Push
  <2>3. CASE StopManager
    BY <2>3 DEF StopManager, RequestThreadStop, Operate
  <2>4. CASE StartManager
    BY <2>4 DEF StartManager, StartThread, Operate
  <2>5. CASE QuitClear
    BY <2>5 DEF QuitClear, Operate, ClearMessageList
  <2>6. ASSUME NEW t \in Timers, StartTimer(t) PROVE RepaintPending'
    BY <2>6 DEF StartTimer, Operate
  <2>7. ASSUME NEW t \in Timers, StopTimer(t) PROVE RepaintPending'
    BY <2>7 DEF StopTimer, Operate
  <2>8. ASSUME NEW t \in Timers, DestroyTimer(t) PROVE RepaintPending'
    BY <2>8 DEF DestroyTimer, Operate
  <2>9. ASSUME NEW t \in Timers, NEW n \in RepeatCounts, CreateTimer(t, n) PROVE RepaintPending'
    BY <2>9 DEF CreateTimer, Operate
  <2>10. ASSUME NEW t \in Timers, NEW n \in RepeatCounts, SetRepeatCount(t, n) PROVE RepaintPending'
    BY <2>10 DEF SetRepeatCount, Operate
  <2> QED BY <1>18, <2>1, <2>2, <2>3, <2>4, <2>5, <2>6, <2>7, <2>8, <2>9, <2>10 DEF HandlerCall
<1> QED BY <1>1, <1>2, <1>3, <1>4, <1>5, <1>6, <1>7, <1>8, <1>9, <1>10, <1>11, <1>12, <1>13, <1>14, <1>15, <1>16, <1>17, <1>18 DEF MainStep

LEMMA RepaintTimer ==
  ASSUME TypeOK, RepaintPending, TimerStep
  PROVE  RepaintPending'
<1> USE DEF TypeOK, QueueType, ProducerType, RepaintPending, Quitting
<1>1. CASE TWake
  BY <1>1 DEF TWake
<1>2. CASE TResetEvent
  BY <1>2 DEF TResetEvent
<1>3. CASE TTest
  BY <1>3 DEF TTest
<1>4. CASE TSleep
  BY <1>4 DEF TSleep
<1>5. CASE TLock
  BY <1>5 DEF TLock
<1>6. CASE TNotDue
  BY <1>6 DEF TNotDue, NextTimer
<1>7. CASE TDue
  BY <1>7 DEF TDue
<1>8. CASE TCount
  BY <1>8 DEF TCount, NextTimer
<1>9. CASE TSend
  <2>1. \A status \in Statuses : TimerMessage(aryTimer[idx], status) \in Message
    BY <1>9, MessageConstructors DEF TSend, ManagerType, Scanning
  <2> QED BY <1>9, PushKeepsRender, <2>1 DEF TSend, NextTimer, Push, Statuses
<1>10. CASE TNotify
  BY <1>10 DEF TNotify, NextTimer
<1>11. CASE TComplete
  BY <1>11 DEF TComplete, NextTimer
<1>12. CASE TScanned
  BY <1>12 DEF TScanned
<1>13. CASE TNotRunning
  BY <1>13 DEF TNotRunning
<1>14. CASE TQuit
  BY <1>14 DEF TQuit
<1> QED BY <1>1, <1>2, <1>3, <1>4, <1>5, <1>6, <1>7, <1>8, <1>9, <1>10, <1>11, <1>12, <1>13, <1>14 DEF TimerStep

LEMMA RepaintProducer ==
  ASSUME TypeOK, RepaintPending, NEW p \in Producers,
         \/ \E type \in ProducerTypes[p] : PPush(p, type)
         \/ PQuitClear(p) \/ PContinue(p)
  PROVE  RepaintPending'
<1> USE DEF TypeOK, QueueType, ProducerType, RepaintPending, Quitting
<1>1. ASSUME NEW type \in ProducerTypes[p], PPush(p, type) PROVE RepaintPending'
  <2>1. Plain(type) \in Message
    BY KernelAssumption, MessageConstructors
  <2> QED BY <1>1, PushKeepsRender, <2>1 DEF PPush, PMove, Push
<1>2. CASE PNotify(p)
  BY <1>2 DEF PNotify, PMove
<1>3. CASE PQuitClear(p)
  BY <1>3 DEF PQuitClear, PMove, ClearMessageList
<1>4. CASE PQuitFlag(p)
  BY <1>4 DEF PQuitFlag, PMove
<1>5. CASE PQuitNotify(p)
  BY <1>5 DEF PQuitNotify, PMove
<1> QED BY <1>1, <1>2, <1>3, <1>4, <1>5 DEF PContinue

(* RepaintPending: a screen marked dirty has a render message queued until it   *)
(* is rendered, in every interleaving, unless the program is quitting.        *)
THEOREM NoRepaintForgotten == Spec => []RepaintPending
<1>1. ASSUME TypeOK, RepaintPending, [Next]_vars PROVE RepaintPending'
  <2>1. CASE UNCHANGED vars
    BY <1>1, <2>1 DEF vars, RepaintPending, Quitting
  <2>2. CASE MainStep
    BY <1>1, <2>2, RepaintMain
  <2>3. CASE TimerStep
    BY <1>1, <2>3, RepaintTimer
  <2>4. CASE ProducerStep
    BY <1>1, <2>4, RepaintProducer DEF ProducerStep
  <2> QED BY <1>1, <2>1, <2>2, <2>3, <2>4 DEF Next, Terminated
<1> QED BY <1>1, TypeCorrect, RepaintInit, PTL DEF Spec

-----------------------------------------------------------------------------
(* The timer manager.                                                       *)

(* A timer thread that waits on an event nobody has signalled has no timer at  *)
(* all, or addTimer is still to notify it: each scan that leaves one behind   *)
(* signals the event again.  The thread first starts with an empty array,     *)
(* which it would not if it were stopped and started in between.              *)
Driven ==
  /\ tpc = "wait" /\ ~tSignal => aryTimer = <<>> \/ mpc = "startNotify"
  /\ mpc = "init" => aryTimer = <<>>

LEMMA DrivenMain ==
  ASSUME ~FocusChanges, Driven, MainStep
  PROVE  Driven'
<1> USE DEF Driven
<1>1. CASE HandlerCall
  <2>1. mpc = "handling" /\ mpc' # "init" /\ UNCHANGED <<aryTimer, tSignal, tpc>>
    BY <1>1 DEF HandlerCall, SetDirty, PostScreenMessage, StartTimer, StopTimer, DestroyTimer,
       CreateTimer, SetRepeatCount, StopManager, StartManager, QuitClear, Operate
  <2> QED BY <2>1
<1>2. CASE AddTimer
  BY <1>2 DEF AddTimer
<1>3. CASE NotifyManager
  BY <1>3 DEF NotifyManager
<1>4. CASE RemoveTimer
  <2>1. aryTimer = <<>> => DeleteItem(aryTimer, target) = <<>>
    BY DEF DeleteItem
  <2> QED BY <1>4, <2>1 DEF RemoveTimer
<1>5. CASE Initialize
  BY <1>5 DEF Initialize, StartThread
<1>6. CASE StopTimersAndExit
  BY <1>6 DEF StopTimersAndExit, RequestThreadStop
<1>7. CASE InitializeFails \/ Wake \/ ResetEvent \/ TestPrepareStop \/ PopMessage \/ PopNothing
           \/ TestDirty \/ Render \/ HandlerReturns \/ DeleteMessages \/ Join \/ QuitPrepareStop
  <2>1. mpc # "startNotify" /\ mpc' # "init" /\ UNCHANGED <<aryTimer, tSignal, tpc>>
    BY <1>7 DEF InitializeFails, Wake, ResetEvent, TestPrepareStop, PopMessage, PopNothing,
       TestDirty, Render, HandlerReturns, DeleteMessages, Join, QuitPrepareStop
  <2> QED BY <2>1
<1> QED BY <1>1, <1>2, <1>3, <1>4, <1>5, <1>6, <1>7 DEF MainStep

LEMMA DrivenTimer ==
  ASSUME Driven, TimerStep
  PROVE  Driven'
<1> USE DEF Driven
<1>1. UNCHANGED <<aryTimer, mpc>>
  BY DEF TimerStep, TWake, TResetEvent, TTest, TSleep, TLock, TNotDue, TDue, TCount, TSend,
     TNotify, TComplete, TScanned, TNotRunning, TQuit
<1>2. CASE TScanned
  BY <1>2 DEF TScanned
<1>3. CASE ~TScanned
  <2>1. tpc' # "wait"
    BY <1>3 DEF TimerStep, TWake, TResetEvent, TTest, TSleep, TLock, TNotDue, TDue, TCount,
       TSend, TNotify, TComplete, NextTimer, TNotRunning, TQuit
  <2> QED BY <1>1, <2>1
<1> QED BY <1>2, <1>3

(* TimersNotStranded: while focus changes leave the timer manager alone, its    *)
(* thread never waits for ever with a timer to drive.                        *)
THEOREM TimersAreDriven ==
  ASSUME ~FocusChanges
  PROVE  Spec => []TimersNotStranded
<1>1. Init => Driven
  BY DEF Init, Driven
<1>2. ASSUME Driven, [Next]_vars PROVE Driven'
  <2>1. CASE UNCHANGED vars
    BY <1>2, <2>1 DEF vars, Driven
  <2>2. CASE MainStep
    BY <1>2, <2>2, DrivenMain
  <2>3. CASE TimerStep
    BY <1>2, <2>3, DrivenTimer
  <2>4. CASE ProducerStep
    BY <1>2, <2>4 DEF ProducerStep, PContinue, PPush, PNotify, PQuitClear, PQuitFlag,
       PQuitNotify, PMove, Driven
  <2> QED BY <1>2, <2>1, <2>2, <2>3, <2>4 DEF Next, Terminated
<1>3. Driven => TimersNotStranded
  BY DEF Driven, TimersNotStranded
<1> QED BY <1>1, <1>2, <1>3, PTL DEF Spec

-----------------------------------------------------------------------------
(* The lists.                                                               *)

(* The kernel thread takes the first message of list l, and no list that comes *)
(* before l has one.                                                        *)
Takes(l) ==
  /\ lists[l] # <<>> /\ cur' = Head(lists[l]) /\ lists'[l] = Tail(lists[l])
  /\ \A k \in ListNames : PopOrder[k] < PopOrder[l] => lists[k] = <<>>

(* What one step may do to list l: nothing; a message of its class, or a        *)
(* repaint, is appended; its first message is taken; exactly the messages of   *)
(* one timer, which is not armed after it, are deleted; all are deleted by     *)
(* quitHMI.                                                                 *)
ListStep(l) ==
  \/ lists'[l] = lists[l]
  \/ \E m \in Message : m.type \in {l, "render"} /\ lists'[l] = Append(lists[l], m)
  \/ Takes(l)
  \/ \E t \in Timers : ~armed'[t] /\ Filtered(lists'[l], lists[l], t)
  \/ lists'[l] = <<>> /\ Quitting'

LEMMA ListPush ==
  ASSUME QueueType, NEW m \in Message, Push(m), NEW l \in ListNames
  PROVE  ListStep(l)
<1>1. PushTo(lists, active, m, prepareStop)[l] = lists[l]
        \/ (/\ PushTo(lists, active, m, prepareStop)[l] = Append(lists[l], m)
            /\ m.type \in {l, "render"})
  BY DEF PushTo, Target, QueueType, Lists
<1> QED BY <1>1 DEF Push, ListStep

LEMMA ListSame ==
  ASSUME lists' = lists, NEW l \in ListNames
  PROVE  ListStep(l)
BY DEF ListStep

LEMMA ListClear ==
  ASSUME ClearMessageList, Quitting', NEW l \in ListNames
  PROVE  ListStep(l)
BY DEF ListStep, ClearMessageList, NoMessages

(* popMessage serves the first list, in its order, that has a message.        *)
LEMMA ListPop ==
  ASSUME QueueType, PopMessage
  PROVE  /\ \E l \in ListNames : Takes(l)
         /\ \A l \in ListNames : ListStep(l)
<1> DEFINE First(k) == /\ lists[k] # <<>>
                       /\ \A j \in ListNames : lists[j] # <<>> => PopOrder[k] <= PopOrder[j]
<1> DEFINE first == FirstList(lists)
<1>1. \E k \in ListNames : First(k)
  BY DEF PopMessage, QueuesEmpty, ListNames, PopOrder
<1>2. first = CHOOSE k \in ListNames : First(k)
  BY DEF FirstList
<1>3. first \in ListNames /\ First(first)
  <2> HIDE DEF First, first
  <2> QED BY <1>1, <1>2
<1>4. lists' = [lists EXCEPT ![first] = Tail(@)] /\ cur' = Head(lists[first])
  BY DEF PopMessage, PopRest, PopResult
<1> HIDE DEF first
<1>5. Takes(first)
  <2>1. lists'[first] = Tail(lists[first]) /\ lists[first] # <<>>
    BY <1>3, <1>4 DEF QueueType, Lists
  <2>2. \A k \in ListNames : PopOrder[k] < PopOrder[first] => lists[k] = <<>>
    BY <1>3 DEF ListNames, PopOrder
  <2> QED BY <1>4, <2>1, <2>2 DEF Takes
<1>6. ASSUME NEW l \in ListNames, l # first PROVE lists'[l] = lists[l]
  BY <1>4, <1>6 DEF QueueType, Lists
<1> QED BY <1>3, <1>5, <1>6 DEF ListStep

LEMMA ListDelete ==
  ASSUME TypeOK, DeleteMessages, NEW l \in ListNames
  PROVE  ListStep(l)
<1>1. target \in Timers /\ ~armed'[target]
  BY DEF DeleteMessages, TypeOK, MainType, TimerType
<1>2. Filtered(lists'[l], lists[l], target)
  BY DeleteFilters DEF DeleteMessages, TypeOK, QueueType
<1> QED BY <1>1, <1>2 DEF ListStep

LEMMA ListMain ==
  ASSUME TypeOK, MainStep, NEW l \in ListNames
  PROVE  ListStep(l)
<1>1. Plain("render") \in Message /\ Plain("input") \in Message
  BY MessageConstructors DEF MessageTypes, ListNames
<1>2. CASE PopMessage
  BY <1>2, ListPop DEF TypeOK
<1>3. CASE DeleteMessages
  BY <1>3, ListDelete
<1>4. CASE SetDirty \/ PostScreenMessage
  BY <1>1, <1>4, ListPush DEF SetDirty, PostScreenMessage, TypeOK
<1>5. CASE TestDirty
  BY <1>1, <1>5, ListPush, ListSame DEF TestDirty, TypeOK
<1>6. CASE QuitClear
  <2>1. Quitting'
    BY <1>6 DEF QuitClear, Quitting
  <2> QED BY <1>6, <2>1, ListClear DEF QuitClear
<1>7. CASE HandlerCall /\ ~(SetDirty \/ PostScreenMessage \/ QuitClear)
  BY <1>7, ListSame DEF HandlerCall, StartTimer, StopTimer, DestroyTimer, CreateTimer,
     SetRepeatCount, StopManager, StartManager
<1>8. CASE ~(HandlerCall \/ PopMessage \/ DeleteMessages \/ TestDirty)
  BY <1>8, ListSame DEF MainStep, InitializeFails, Initialize, Wake, ResetEvent,
     TestPrepareStop, PopNothing, Render, HandlerReturns, AddTimer, NotifyManager,
     RemoveTimer, Join, QuitPrepareStop, StopTimersAndExit
<1> QED BY <1>2, <1>3, <1>4, <1>5, <1>6, <1>7, <1>8

LEMMA ListTimer ==
  ASSUME TypeOK, TimerStep, NEW l \in ListNames
  PROVE  ListStep(l)
<1>1. CASE TSend
  <2>1. \A status \in Statuses : TimerMessage(aryTimer[idx], status) \in Message
    BY <1>1, MessageConstructors DEF TSend, TypeOK, ManagerType, Scanning
  <2> QED BY <1>1, <2>1, ListPush, ListSame DEF TSend, Statuses, TypeOK
<1>2. CASE ~TSend
  BY <1>2, ListSame DEF TimerStep, TWake, TResetEvent, TTest, TSleep, TLock, TNotDue, TDue,
     TCount, TNotify, TComplete, TScanned, TNotRunning, TQuit
<1> QED BY <1>1, <1>2

LEMMA ListProducer ==
  ASSUME TypeOK, NEW p \in Producers, NEW l \in ListNames,
         \/ \E type \in ProducerTypes[p] : PPush(p, type)
         \/ PQuitClear(p) \/ PContinue(p)
  PROVE  ListStep(l)
<1>1. ASSUME NEW type \in ProducerTypes[p], PPush(p, type) PROVE ListStep(l)
  <2>1. Plain(type) \in Message
    BY KernelAssumption, MessageConstructors
  <2> QED BY <1>1, <2>1, ListPush DEF PPush, TypeOK
<1>2. CASE PQuitClear(p)
  <2>1. Quitting'
    BY <1>2 DEF PQuitClear, PMove, Quitting, TypeOK, ProducerType
  <2> QED BY <1>2, <2>1, ListClear DEF PQuitClear
<1>3. CASE PContinue(p)
  BY <1>3, ListSame DEF PContinue, PNotify, PQuitFlag, PQuitNotify
<1> QED BY <1>1, <1>2, <1>3

(* A message is handled only when it is taken from a list.                   *)
LEMMA HandledIsTaken ==
  ASSUME TypeOK, Next
  PROVE  cur' \in {cur, NoMessage} \/ \E l \in ListNames : Takes(l)
<1>1. CASE PopMessage
  BY <1>1, ListPop DEF TypeOK
<1>2. CASE HandlerCall
  BY <1>2 DEF HandlerCall, SetDirty, PostScreenMessage, StartTimer, StopTimer, DestroyTimer,
     CreateTimer, SetRepeatCount, StopManager, StartManager, QuitClear
<1>3. CASE MainStep /\ ~(PopMessage \/ HandlerCall)
  BY <1>3 DEF MainStep, InitializeFails, Initialize, Wake, ResetEvent, TestPrepareStop,
     PopNothing, TestDirty, Render, HandlerReturns, AddTimer, NotifyManager, RemoveTimer,
     DeleteMessages, Join, QuitPrepareStop, StopTimersAndExit
<1>4. CASE TimerStep
  BY <1>4 DEF TimerStep, TWake, TResetEvent, TTest, TSleep, TLock, TNotDue, TDue, TCount,
     TSend, TNotify, TComplete, TScanned, TNotRunning, TQuit
<1>5. CASE ProducerStep
  BY <1>5 DEF ProducerStep, PContinue, PPush, PNotify, PQuitClear, PQuitFlag, PQuitNotify, PMove
<1> QED BY <1>1, <1>2, <1>3, <1>4, <1>5 DEF Next, Terminated, vars

(* Whatever the threads do, the messages of a list are handled in the order     *)
(* they were pushed in, each once, those of a more urgent list first, and       *)
(* pushMessage, popMessage and deleteMessageByID lose none but those of a timer  *)
(* that is stopped and, when the program quits, all.                         *)
THEOREM MessagesInOrder ==
  Spec => [][/\ \A l \in ListNames : ListStep(l)
             /\ cur' \in {cur, NoMessage} \/ \E l \in ListNames : Takes(l)]_vars
<1> DEFINE Step == /\ \A l \in ListNames : ListStep(l)
                   /\ cur' \in {cur, NoMessage} \/ \E l \in ListNames : Takes(l)
<1>1. ASSUME TypeOK, [Next]_vars PROVE [Step]_vars
  <2>1. CASE MainStep
    BY <1>1, <2>1, ListMain, HandledIsTaken DEF Next
  <2>2. CASE TimerStep
    BY <1>1, <2>2, ListTimer, HandledIsTaken DEF Next
  <2>3. CASE ProducerStep
    BY <1>1, <2>3, ListProducer, HandledIsTaken DEF Next, ProducerStep
  <2> QED BY <1>1, <2>1, <2>2, <2>3 DEF Next, Terminated
<1> HIDE DEF Step
<1>2. Spec => [][Step]_vars
  BY <1>1, TypeCorrect, PTL DEF Spec
<1> QED BY <1>2 DEF Step
=============================================================================
