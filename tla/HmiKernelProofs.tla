--------------------------- MODULE HmiKernelProofs ---------------------------
(***************************************************************************)
(* Theorems about the HMI kernel for any number of timers, producers and      *)
(* messages, any repeat counts and any bounds.                               *)
(***************************************************************************)
EXTENDS HmiKernelProperties, MessageQueueProofs

(* Array::deleteItem returns an array of timers.                             *)
LEMMA DeleteItemType ==
  ASSUME NEW S, NEW s \in Seq(S), NEW x
  PROVE  DeleteItem(s, x) \in Seq(S)
<1>1. CASE \E i \in 1..Len(s) : s[i] = x
  <2> DEFINE First(k) == s[k] = x /\ \A j \in 1..k - 1 : s[j] # x
  <2> DEFINE first == CHOOSE k \in 1..Len(s) : First(k)
  <2>1. Len(s) \in Nat \ {0}
    BY <1>1
  <2>2. DeleteItem(s, x) = [i \in 1..Len(s) - 1 |-> IF i < first THEN s[i] ELSE s[i + 1]]
    BY <1>1 DEF DeleteItem
  <2> HIDE DEF first
  <2>3. \A i \in 1..Len(s) - 1 : s[i] \in S /\ s[i + 1] \in S
    BY <2>1
  <2>4. DeleteItem(s, x) \in [1..Len(s) - 1 -> S]
    BY <2>2, <2>3
  <2>5. Len(s) - 1 \in Nat
    BY <2>1
  <2> QED BY <2>4, <2>5
<1>2. CASE ~ \E i \in 1..Len(s) : s[i] = x
  BY <1>2 DEF DeleteItem
<1> QED BY <1>1, <1>2

-----------------------------------------------------------------------------
(* Type correctness.                                                        *)
USE DEF queueVars, mainVars, timerVars, mgrVars

LEMMA NoMessagesType == NoMessages \in Lists /\ "unknown" \in ListNames
BY DEF NoMessages, Lists, ListNames

LEMMA TypeInit == Init => TypeOK
<1> SUFFICES ASSUME Init PROVE TypeOK
  OBVIOUS
<1>1. QueueType
  BY NoMessagesType DEF Init, QueueType, ListNames
<1>2. MainType
  BY DEF Init, MainType, MainPCs
<1>3. TimerType
  BY DEF Init, TimerType
<1>4. ManagerType
  <2>1. <<>> \in Seq(Timers)
    OBVIOUS
  <2>2. tpc \in TimerPCs /\ (Scanning => FALSE)
    BY DEF Init, TimerPCs, Scanning
  <2>3. aryTimer \in Seq(Timers)
    BY <2>1 DEF Init
  <2>4. tRunning = FALSE /\ tStop = FALSE /\ tSignal = FALSE /\ tQuit = FALSE /\ idx \in Nat \ {0}
    BY DEF Init
  <2> QED BY <2>2, <2>3, <2>4 DEF ManagerType
<1>5. ProducerType
  BY DEF Init, ProducerType, ProducerPCs
<1> QED BY <1>1, <1>2, <1>3, <1>4, <1>5 DEF TypeOK

LEMMA TypeMain ==
  ASSUME TypeOK, MainStep
  PROVE  TypeOK'
<1> USE DEF TypeOK
<1>1. CASE InitializeFails
  <2>1. MainType'
    BY <1>1 DEF InitializeFails, MainType, MainPCs
  <2>2. QueueType' /\ TimerType' /\ ManagerType' /\ ProducerType'
    BY <1>1 DEF InitializeFails, QueueType, TimerType, ManagerType, Scanning, ProducerType
  <2> QED BY <2>1, <2>2
<1>2. CASE Initialize
  <2>1. MainType'
    BY <1>2 DEF Initialize, StartThread, MainType, MainPCs
  <2>2. ManagerType'
    BY <1>2 DEF Initialize, StartThread, ManagerType, TimerPCs, Scanning
  <2>3. QueueType' /\ TimerType' /\ ProducerType'
    BY <1>2 DEF Initialize, StartThread, QueueType, TimerType, ProducerType
  <2> QED BY <2>1, <2>2, <2>3
<1>3. CASE Wake
  <2>1. MainType'
    BY <1>3 DEF Wake, MainType, MainPCs
  <2>2. QueueType' /\ TimerType' /\ ManagerType' /\ ProducerType'
    BY <1>3 DEF Wake, QueueType, TimerType, ManagerType, Scanning, ProducerType
  <2> QED BY <2>1, <2>2
<1>4. CASE ResetEvent
  <2>1. QueueType'
    BY <1>4 DEF ResetEvent, QueueType
  <2>2. MainType'
    BY <1>4 DEF ResetEvent, MainType, MainPCs
  <2>3. TimerType' /\ ManagerType' /\ ProducerType'
    BY <1>4 DEF ResetEvent, TimerType, ManagerType, Scanning, ProducerType
  <2> QED BY <2>1, <2>2, <2>3
<1>5. CASE TestPrepareStop
  <2>1. MainType'
    BY <1>5 DEF TestPrepareStop, MainType, MainPCs
  <2>2. QueueType' /\ TimerType' /\ ManagerType' /\ ProducerType'
    BY <1>5 DEF TestPrepareStop, QueueType, TimerType, ManagerType, Scanning, ProducerType
  <2> QED BY <2>1, <2>2
<1>6. CASE PopMessage
  <2>1. QueueType'
    BY <1>6, PopType DEF PopMessage, QueueType
  <2>2. MainType'
    BY <1>6, PopType DEF PopMessage, MainType, MainPCs, QueueType
  <2>3. TimerType' /\ ManagerType' /\ ProducerType'
    BY <1>6 DEF PopMessage, TimerType, ManagerType, Scanning, ProducerType
  <2> QED BY <2>1, <2>2, <2>3
<1>7. CASE PopNothing
  <2>1. MainType'
    BY <1>7 DEF PopNothing, MainType, MainPCs
  <2>2. QueueType' /\ TimerType' /\ ManagerType' /\ ProducerType'
    BY <1>7 DEF PopNothing, QueueType, TimerType, ManagerType, Scanning, ProducerType
  <2> QED BY <2>1, <2>2
<1>8. CASE TestDirty
  <2>1. QueueType'
    <3>1. Plain("render") \in Message
      BY MessageConstructors DEF MessageTypes
    <3>2. CASE dirty
      BY <1>8, <3>1, <3>2, PushType DEF TestDirty, QueueType, Push
    <3>3. CASE ~dirty
      BY <1>8, <3>3 DEF TestDirty, QueueType
    <3> QED BY <3>2, <3>3 DEF QueueType
  <2>2. MainType'
    BY <1>8 DEF TestDirty, MainType, MainPCs
  <2>3. TimerType' /\ ManagerType' /\ ProducerType'
    BY <1>8 DEF TestDirty, TimerType, ManagerType, Scanning, ProducerType
  <2> QED BY <2>1, <2>2, <2>3
<1>9. CASE Render
  <2>1. QueueType'
    BY <1>9 DEF Render, QueueType
  <2>2. MainType'
    BY <1>9 DEF Render, MainType, MainPCs
  <2>3. TimerType' /\ ManagerType' /\ ProducerType'
    BY <1>9 DEF Render, TimerType, ManagerType, Scanning, ProducerType
  <2> QED BY <2>1, <2>2, <2>3
<1>10. CASE HandlerReturns
  <2>1. MainType'
    BY <1>10 DEF HandlerReturns, MainType, MainPCs
  <2>2. QueueType' /\ TimerType' /\ ManagerType' /\ ProducerType'
    BY <1>10 DEF HandlerReturns, QueueType, TimerType, ManagerType, Scanning, ProducerType
  <2> QED BY <2>1, <2>2
<1>11. CASE AddTimer
  <2>1. MainType'
    BY <1>11 DEF AddTimer, MainType, MainPCs
  <2>2. ManagerType'
    BY <1>11 DEF AddTimer, ManagerType, TimerPCs, Scanning, MainType
  <2>3. QueueType' /\ TimerType' /\ ProducerType'
    BY <1>11 DEF AddTimer, QueueType, TimerType, ProducerType
  <2> QED BY <2>1, <2>2, <2>3
<1>12. CASE NotifyManager
  <2>1. MainType'
    BY <1>12 DEF NotifyManager, MainType, MainPCs
  <2>2. ManagerType'
    BY <1>12 DEF NotifyManager, ManagerType, TimerPCs, Scanning
  <2>3. QueueType' /\ TimerType' /\ ProducerType'
    BY <1>12 DEF NotifyManager, QueueType, TimerType, ProducerType
  <2> QED BY <2>1, <2>2, <2>3
<1>13. CASE RemoveTimer
  <2>1. MainType'
    BY <1>13 DEF RemoveTimer, MainType, MainPCs
  <2>2. ManagerType'
    BY <1>13, DeleteItemType DEF RemoveTimer, ManagerType, TimerPCs, Scanning, MainType
  <2>3. QueueType' /\ TimerType' /\ ProducerType'
    BY <1>13 DEF RemoveTimer, QueueType, TimerType, ProducerType
  <2> QED BY <2>1, <2>2, <2>3
<1>14. CASE DeleteMessages
  <2>1. QueueType'
    BY <1>14, DeleteType DEF DeleteMessages, QueueType
  <2>2. MainType'
    BY <1>14 DEF DeleteMessages, MainType, MainPCs
  <2>3. TimerType'
    BY <1>14 DEF DeleteMessages, TimerType, MainType
  <2>4. ManagerType' /\ ProducerType'
    BY <1>14 DEF DeleteMessages, ManagerType, Scanning, ProducerType
  <2> QED BY <2>1, <2>2, <2>3, <2>4
<1>15. CASE Join
  <2>1. MainType'
    BY <1>15 DEF Join, MainType, MainPCs
  <2>2. ManagerType'
    BY <1>15 DEF Join, ManagerType, TimerPCs, Scanning
  <2>3. QueueType' /\ TimerType' /\ ProducerType'
    BY <1>15 DEF Join, QueueType, TimerType, ProducerType
  <2> QED BY <2>1, <2>2, <2>3
<1>16. CASE QuitPrepareStop
  <2>1. QueueType'
    BY <1>16 DEF QuitPrepareStop, QueueType
  <2>2. MainType'
    BY <1>16 DEF QuitPrepareStop, MainType, MainPCs
  <2>3. TimerType' /\ ManagerType' /\ ProducerType'
    BY <1>16 DEF QuitPrepareStop, TimerType, ManagerType, Scanning, ProducerType
  <2> QED BY <2>1, <2>2, <2>3
<1>17. CASE StopTimersAndExit
  <2>1. MainType'
    BY <1>17 DEF StopTimersAndExit, RequestThreadStop, MainType, MainPCs
  <2>2. ManagerType'
    BY <1>17 DEF StopTimersAndExit, RequestThreadStop, ManagerType, TimerPCs, Scanning
  <2>3. QueueType' /\ TimerType' /\ ProducerType'
    BY <1>17 DEF StopTimersAndExit, RequestThreadStop, QueueType, TimerType, ProducerType
  <2> QED BY <2>1, <2>2, <2>3
<1>18. CASE HandlerCall
  <2>1. CASE SetDirty
    <3>1. QueueType'
      BY <2>1, MessageConstructors, PushType DEF SetDirty, Operate, QueueType, Push, MessageTypes, ListNames
    <3>2. MainType'
      BY <2>1 DEF SetDirty, Operate, MainType, MainPCs
    <3>3. TimerType' /\ ManagerType' /\ ProducerType'
      BY <2>1 DEF SetDirty, Operate, TimerType, ManagerType, Scanning, ProducerType
    <3> QED BY <3>1, <3>2, <3>3
  <2>2. CASE PostScreenMessage
    <3>1. QueueType'
      BY <2>2, MessageConstructors, PushType DEF PostScreenMessage, Operate, QueueType, Push, MessageTypes, ListNames
    <3>2. MainType'
      BY <2>2 DEF PostScreenMessage, Operate, MainType, MainPCs
    <3>3. TimerType' /\ ManagerType' /\ ProducerType'
      BY <2>2 DEF PostScreenMessage, Operate, TimerType, ManagerType, Scanning, ProducerType
    <3> QED BY <3>1, <3>2, <3>3
  <2>3. CASE StopManager
    <3>1. MainType'
      BY <2>3 DEF StopManager, RequestThreadStop, Operate, MainType, MainPCs
    <3>2. ManagerType'
      BY <2>3 DEF StopManager, RequestThreadStop, Operate, ManagerType, TimerPCs, Scanning
    <3>3. QueueType' /\ TimerType' /\ ProducerType'
      BY <2>3 DEF StopManager, RequestThreadStop, Operate, QueueType, TimerType, ProducerType
    <3> QED BY <3>1, <3>2, <3>3
  <2>4. CASE StartManager
    <3>1. MainType'
      BY <2>4 DEF StartManager, StartThread, Operate, MainType, MainPCs
    <3>2. ManagerType'
      BY <2>4 DEF StartManager, StartThread, Operate, ManagerType, TimerPCs, Scanning
    <3>3. QueueType' /\ TimerType' /\ ProducerType'
      BY <2>4 DEF StartManager, StartThread, Operate, QueueType, TimerType, ProducerType
    <3> QED BY <3>1, <3>2, <3>3
  <2>5. CASE QuitClear
    <3>1. QueueType'
      BY <2>5, NoMessagesType DEF QuitClear, Operate, QueueType, ClearMessageList
    <3>2. MainType'
      BY <2>5 DEF QuitClear, Operate, MainType, MainPCs
    <3>3. TimerType' /\ ManagerType' /\ ProducerType'
      BY <2>5 DEF QuitClear, Operate, TimerType, ManagerType, Scanning, ProducerType
    <3> QED BY <3>1, <3>2, <3>3
  <2>6. ASSUME NEW t \in Timers, StartTimer(t) PROVE TypeOK'
    <3>1. MainType'
      BY <2>6 DEF StartTimer, Operate, MainType, MainPCs
    <3>2. TimerType'
      BY <2>6 DEF StartTimer, Operate, TimerType
    <3>3. QueueType' /\ ManagerType' /\ ProducerType'
      BY <2>6 DEF StartTimer, Operate, QueueType, ManagerType, Scanning, ProducerType
    <3> QED BY <3>1, <3>2, <3>3
  <2>7. ASSUME NEW t \in Timers, StopTimer(t) PROVE TypeOK'
    <3>1. MainType'
      BY <2>7 DEF StopTimer, Operate, MainType, MainPCs
    <3>2. TimerType'
      BY <2>7 DEF StopTimer, Operate, TimerType
    <3>3. QueueType' /\ ManagerType' /\ ProducerType'
      BY <2>7 DEF StopTimer, Operate, QueueType, ManagerType, Scanning, ProducerType
    <3> QED BY <3>1, <3>2, <3>3
  <2>8. ASSUME NEW t \in Timers, DestroyTimer(t) PROVE TypeOK'
    <3>1. MainType'
      <4>1. CASE running[t]
        BY <2>8, <4>1 DEF DestroyTimer, Operate, MainType, MainPCs
      <4>2. CASE ~running[t]
        BY <2>8, <4>2 DEF DestroyTimer, Operate, MainType
      <4> QED BY <4>1, <4>2
    <3>2. TimerType'
      BY <2>8 DEF DestroyTimer, Operate, TimerType
    <3>3. QueueType' /\ ManagerType' /\ ProducerType'
      BY <2>8 DEF DestroyTimer, Operate, QueueType, ManagerType, Scanning, ProducerType
    <3> QED BY <3>1, <3>2, <3>3
  <2>9. ASSUME NEW t \in Timers, NEW n \in RepeatCounts, CreateTimer(t, n) PROVE TypeOK'
    <3>1. MainType'
      BY <2>9 DEF CreateTimer, Operate, MainType, MainPCs
    <3>2. TimerType'
      BY <2>9, KernelAssumption DEF CreateTimer, Operate, TimerType
    <3>3. QueueType' /\ ManagerType' /\ ProducerType'
      BY <2>9 DEF CreateTimer, Operate, QueueType, ManagerType, Scanning, ProducerType
    <3> QED BY <3>1, <3>2, <3>3
  <2>10. ASSUME NEW t \in Timers, NEW n \in RepeatCounts, SetRepeatCount(t, n) PROVE TypeOK'
    <3>1. MainType'
      BY <2>10 DEF SetRepeatCount, Operate, MainType, MainPCs
    <3>2. TimerType'
      BY <2>10, KernelAssumption DEF SetRepeatCount, Operate, TimerType
    <3>3. QueueType' /\ ManagerType' /\ ProducerType'
      BY <2>10 DEF SetRepeatCount, Operate, QueueType, ManagerType, Scanning, ProducerType
    <3> QED BY <3>1, <3>2, <3>3
  <2> QED BY <1>18, <2>1, <2>2, <2>3, <2>4, <2>5, <2>6, <2>7, <2>8, <2>9, <2>10 DEF HandlerCall
<1> QED BY <1>1, <1>2, <1>3, <1>4, <1>5, <1>6, <1>7, <1>8, <1>9, <1>10, <1>11, <1>12, <1>13, <1>14, <1>15, <1>16, <1>17, <1>18 DEF MainStep

LEMMA TypeTimer ==
  ASSUME TypeOK, TimerStep
  PROVE  TypeOK'
<1> USE DEF TypeOK
<1>1. CASE TWake
  <2>1. ManagerType'
    BY <1>1 DEF TWake, ManagerType, TimerPCs, Scanning
  <2>2. QueueType' /\ MainType' /\ TimerType' /\ ProducerType'
    BY <1>1 DEF TWake, QueueType, MainType, TimerType, ProducerType
  <2> QED BY <2>1, <2>2
<1>2. CASE TResetEvent
  <2>1. ManagerType'
    BY <1>2 DEF TResetEvent, ManagerType, TimerPCs, Scanning
  <2>2. QueueType' /\ MainType' /\ TimerType' /\ ProducerType'
    BY <1>2 DEF TResetEvent, QueueType, MainType, TimerType, ProducerType
  <2> QED BY <2>1, <2>2
<1>3. CASE TTest
  <2>1. ManagerType'
    BY <1>3 DEF TTest, ManagerType, TimerPCs, Scanning
  <2>2. QueueType' /\ MainType' /\ TimerType' /\ ProducerType'
    BY <1>3 DEF TTest, QueueType, MainType, TimerType, ProducerType
  <2> QED BY <2>1, <2>2
<1>4. CASE TSleep
  <2>1. ManagerType'
    BY <1>4 DEF TSleep, ManagerType, TimerPCs, Scanning
  <2>2. QueueType' /\ MainType' /\ TimerType' /\ ProducerType'
    BY <1>4 DEF TSleep, QueueType, MainType, TimerType, ProducerType
  <2> QED BY <2>1, <2>2
<1>5. CASE TLock
  <2>1. ManagerType'
    BY <1>5 DEF TLock, ManagerType, TimerPCs, Scanning
  <2>2. QueueType' /\ MainType' /\ TimerType' /\ ProducerType'
    BY <1>5 DEF TLock, QueueType, MainType, TimerType, ProducerType
  <2> QED BY <2>1, <2>2
<1>6. CASE TNotDue
  <2>1. ManagerType'
    BY <1>6 DEF TNotDue, NextTimer, ManagerType, TimerPCs, Scanning
  <2>2. QueueType' /\ MainType' /\ TimerType' /\ ProducerType'
    BY <1>6 DEF TNotDue, NextTimer, QueueType, MainType, TimerType, ProducerType
  <2> QED BY <2>1, <2>2
<1>7. CASE TDue
  <2>1. ManagerType'
    BY <1>7 DEF TDue, ManagerType, TimerPCs, Scanning
  <2>2. QueueType' /\ MainType' /\ TimerType' /\ ProducerType'
    BY <1>7 DEF TDue, QueueType, MainType, TimerType, ProducerType
  <2> QED BY <2>1, <2>2
<1>8. CASE TCount
  <2>1. TimerType'
    <3>1. CASE running[aryTimer[idx]]
      BY <1>8, <3>1 DEF TCount, TimerType
    <3>2. CASE ~running[aryTimer[idx]]
      BY <1>8, <3>2 DEF TCount, TimerType
    <3> QED BY <3>1, <3>2
  <2>2. ManagerType'
    BY <1>8 DEF TCount, NextTimer, ManagerType, TimerPCs, Scanning
  <2>3. QueueType' /\ MainType' /\ ProducerType'
    BY <1>8 DEF TCount, NextTimer, QueueType, MainType, ProducerType
  <2> QED BY <2>1, <2>2, <2>3
<1>9. CASE TSend
  <2>1. QueueType'
    <3>1. aryTimer[idx] \in Timers
      BY <1>9 DEF TSend, ManagerType, Scanning
    <3>2. \A status \in Statuses : TimerMessage(aryTimer[idx], status) \in Message
      BY <3>1, MessageConstructors
    <3>3. CASE UNCHANGED <<lists, active>>
      BY <1>9, <3>3 DEF TSend, QueueType
    <3>4. CASE \E status \in Statuses : Push(TimerMessage(aryTimer[idx], status))
      BY <1>9, <3>2, <3>4, PushType DEF TSend, QueueType, Push
    <3> QED BY <1>9, <3>3, <3>4 DEF TSend, Statuses
  <2>2. TimerType'
    BY <1>9 DEF TSend, NextTimer, TimerType, ManagerType, Scanning
  <2>3. ManagerType'
    BY <1>9 DEF TSend, NextTimer, ManagerType, TimerPCs, Scanning
  <2>4. MainType' /\ ProducerType'
    BY <1>9 DEF TSend, NextTimer, MainType, ProducerType
  <2> QED BY <2>1, <2>2, <2>3, <2>4
<1>10. CASE TNotify
  <2>1. QueueType'
    BY <1>10 DEF TNotify, NextTimer, QueueType
  <2>2. ManagerType'
    BY <1>10 DEF TNotify, NextTimer, ManagerType, TimerPCs, Scanning
  <2>3. MainType' /\ TimerType' /\ ProducerType'
    BY <1>10 DEF TNotify, NextTimer, MainType, TimerType, ProducerType
  <2> QED BY <2>1, <2>2, <2>3
<1>11. CASE TComplete
  <2>1. TimerType'
    BY <1>11 DEF TComplete, NextTimer, TimerType, ManagerType, Scanning
  <2>2. ManagerType'
    BY <1>11 DEF TComplete, NextTimer, ManagerType, TimerPCs, Scanning
  <2>3. QueueType' /\ MainType' /\ ProducerType'
    BY <1>11 DEF TComplete, NextTimer, QueueType, MainType, ProducerType
  <2> QED BY <2>1, <2>2, <2>3
<1>12. CASE TScanned
  <2>1. ManagerType'
    BY <1>12 DEF TScanned, ManagerType, TimerPCs, Scanning
  <2>2. QueueType' /\ MainType' /\ TimerType' /\ ProducerType'
    BY <1>12 DEF TScanned, QueueType, MainType, TimerType, ProducerType
  <2> QED BY <2>1, <2>2
<1>13. CASE TNotRunning
  <2>1. ManagerType'
    BY <1>13 DEF TNotRunning, ManagerType, TimerPCs, Scanning
  <2>2. QueueType' /\ MainType' /\ TimerType' /\ ProducerType'
    BY <1>13 DEF TNotRunning, QueueType, MainType, TimerType, ProducerType
  <2> QED BY <2>1, <2>2
<1>14. CASE TQuit
  <2>1. ManagerType'
    BY <1>14 DEF TQuit, ManagerType, TimerPCs, Scanning
  <2>2. QueueType' /\ MainType' /\ TimerType' /\ ProducerType'
    BY <1>14 DEF TQuit, QueueType, MainType, TimerType, ProducerType
  <2> QED BY <2>1, <2>2
<1> QED BY <1>1, <1>2, <1>3, <1>4, <1>5, <1>6, <1>7, <1>8, <1>9, <1>10, <1>11, <1>12, <1>13, <1>14 DEF TimerStep

LEMMA TypeProducer ==
  ASSUME TypeOK, NEW p \in Producers,
         \/ \E type \in ProducerTypes[p] : PPush(p, type)
         \/ PQuitClear(p) \/ PContinue(p)
  PROVE  TypeOK'
<1> USE DEF TypeOK
<1>1. ASSUME NEW type \in ProducerTypes[p], PPush(p, type) PROVE TypeOK'
  <2>1. QueueType'
    BY <1>1, KernelAssumption, MessageConstructors, PushType DEF PPush, PMove, QueueType, Push, MessageTypes, ListNames
  <2>2. ProducerType'
    BY <1>1, KernelAssumption DEF PPush, PMove, ProducerType, ProducerPCs
  <2>3. MainType' /\ TimerType' /\ ManagerType'
    BY <1>1, KernelAssumption DEF PPush, PMove, MainType, TimerType, ManagerType, Scanning
  <2> QED BY <2>1, <2>2, <2>3
<1>2. CASE PNotify(p)
  <2>1. QueueType'
    BY <1>2 DEF PNotify, PMove, QueueType
  <2>2. ProducerType'
    BY <1>2 DEF PNotify, PMove, ProducerType, ProducerPCs
  <2>3. MainType' /\ TimerType' /\ ManagerType'
    BY <1>2 DEF PNotify, PMove, MainType, TimerType, ManagerType, Scanning
  <2> QED BY <2>1, <2>2, <2>3
<1>3. CASE PQuitClear(p)
  <2>1. QueueType'
    BY <1>3, NoMessagesType DEF PQuitClear, PMove, QueueType, ClearMessageList
  <2>2. ProducerType'
    BY <1>3 DEF PQuitClear, PMove, ProducerType, ProducerPCs
  <2>3. MainType' /\ TimerType' /\ ManagerType'
    BY <1>3 DEF PQuitClear, PMove, MainType, TimerType, ManagerType, Scanning
  <2> QED BY <2>1, <2>2, <2>3
<1>4. CASE PQuitFlag(p)
  <2>1. QueueType'
    BY <1>4 DEF PQuitFlag, PMove, QueueType
  <2>2. ProducerType'
    BY <1>4 DEF PQuitFlag, PMove, ProducerType, ProducerPCs
  <2>3. MainType' /\ TimerType' /\ ManagerType'
    BY <1>4 DEF PQuitFlag, PMove, MainType, TimerType, ManagerType, Scanning
  <2> QED BY <2>1, <2>2, <2>3
<1>5. CASE PQuitNotify(p)
  <2>1. QueueType'
    BY <1>5 DEF PQuitNotify, PMove, QueueType
  <2>2. ProducerType'
    BY <1>5 DEF PQuitNotify, PMove, ProducerType, ProducerPCs
  <2>3. MainType' /\ TimerType' /\ ManagerType'
    BY <1>5 DEF PQuitNotify, PMove, MainType, TimerType, ManagerType, Scanning
  <2> QED BY <2>1, <2>2, <2>3
<1> QED BY <1>1, <1>2, <1>3, <1>4, <1>5 DEF PContinue

(* Type correctness (HmiKernelProperties!TypeOK) in every reachable state: in    *)
(* particular the loop index of CTimerManager::run stays inside m_aryTimer      *)
(* while a timer is being processed, although the kernel thread adds and        *)
(* removes timers.                                                            *)
THEOREM TypeCorrect == Spec => []TypeOK
<1>1. ASSUME TypeOK, [Next]_vars PROVE TypeOK'
  <2>1. CASE UNCHANGED vars
    BY <1>1, <2>1 DEF vars, TypeOK, QueueType, MainType, TimerType, ManagerType, ProducerType,
       Scanning
  <2>2. CASE MainStep
    BY <1>1, <2>2, TypeMain
  <2>3. CASE TimerStep
    BY <1>1, <2>3, TypeTimer
  <2>4. CASE ProducerStep
    BY <1>1, <2>4, TypeProducer DEF ProducerStep
  <2> QED BY <1>1, <2>1, <2>2, <2>3, <2>4 DEF Next, Terminated
<1> QED BY <1>1, TypeInit, PTL DEF Spec
=============================================================================
