------------------------------ MODULE HmiKernel ------------------------------
(***************************************************************************)
(* The HMI kernel of kuibase: the thread that handles every message of the  *)
(* user interface (CMain::run), the thread that drives the timers           *)
(* (CTimerManager::run), and the threads that push messages to the kernel   *)
(* from outside (the window procedure, the services).                       *)
(*                                                                         *)
(* One action is one critical section, one access to a field that two       *)
(* threads share, or one call on an event object.  A wait on a CWaitObject   *)
(* is two actions: WaitForSingleObject, and the ResetEvent that follows it.  *)
(* Message handlers are application code; they are modelled by the calls    *)
(* they may make into the kernel, at most MaxOps of them in any order.       *)
(***************************************************************************)
EXTENDS MessageQueue

CONSTANTS
  Producers,      \* threads outside the kernel that push messages
  ProducerTypes,  \* the types of message each of them pushes
  Quitters,       \* those that may call quitHMI
  RepeatCounts,   \* the repeat counts timers are created with; 0 is "for ever"
  MaxOps,         \* bound: kernel calls in one message handler
  MaxQueue,       \* bound: a list this long gets no new message from outside
  MaxCount,       \* bound: m_uiCurrentCount stays here, above every repeat count
  FocusChanges,   \* handlers stop and start the timer manager (CScnMain)
  StopFirst       \* timers are stopped before they are restarted or destroyed

ASSUME KernelAssumption ==
  /\ ProducerTypes \in [Producers -> SUBSET MessageTypes]
  /\ Quitters \subseteq Producers
  /\ MaxOps \in Nat /\ MaxQueue \in Nat /\ MaxCount \in Nat
  /\ RepeatCounts \subseteq 0..MaxCount - 1
  /\ FocusChanges \in BOOLEAN /\ StopFirst \in BOOLEAN

VARIABLES
  lists, active,     \* the message lists of CMain, m_uiActiveMessageList
  signal,            \* CMain::m_waitObject is signalled
  prepareStop,       \* CMain::m_bPrepareStop
  dirty,             \* ENV::s_bDirty
  mpc,               \* where the kernel thread is
  cur,               \* the message it handles
  ops,               \* kernel calls its handler has made
  target, dtor,      \* the timer it is starting or stopping; in ~CTimer?
  alive,             \* a CTimer exists at this address
  running,           \* CTimer::m_bRunning
  count, repeat,     \* CTimer::m_uiCurrentCount, m_uiRepeatCount
  armed,             \* history: start() was called and no stop() has returned
  aryTimer,          \* CTimerManager::m_aryTimer
  tRunning, tStop,   \* CTimerManager::m_bRunning, m_bPrepareStop
  tSignal, tQuit,    \* CTimerManager::m_waitObject, m_waitQuit are signalled
  tpc, idx,          \* where the timer thread is; its loop index
  ppc                \* where each producer is

queueVars == <<lists, active, signal>>
mainVars  == <<mpc, cur, ops, target, dtor>>
timerVars == <<alive, running, count, repeat, armed>>
mgrVars   == <<aryTimer, tRunning, tStop, tSignal, tQuit, tpc, idx>>
vars == <<queueVars, prepareStop, dirty, mainVars, timerVars, mgrVars, ppc>>

(* What the kernel thread handles before its loop: initialize() and          *)
(* onStartup() of the main frame run application code like a handler does.   *)
Startup == [type |-> "startup", id |-> NoTimer, status |-> "none"]

(* Between two handlers it handles nothing.                                 *)
NoMessage == [type |-> "none", id |-> NoTimer, status |-> "none"]

Init ==
  /\ lists = NoMessages /\ active = "unknown" /\ signal = FALSE
  /\ prepareStop = FALSE /\ dirty = FALSE
  /\ mpc = "init" /\ cur = Startup /\ ops = 0 /\ target = NoTimer /\ dtor = FALSE
  /\ alive = [t \in Timers |-> FALSE] /\ running = [t \in Timers |-> FALSE]
  /\ count = [t \in Timers |-> 0] /\ repeat = [t \in Timers |-> 0]
  /\ armed = [t \in Timers |-> FALSE]
  /\ aryTimer = <<>> /\ tRunning = FALSE /\ tStop = FALSE
  /\ tSignal = FALSE /\ tQuit = FALSE /\ tpc = "off" /\ idx = 1
  /\ ppc = [p \in Producers |-> "idle"]

-----------------------------------------------------------------------------
(* Shared steps.                                                            *)

Push(m) ==
  /\ lists' = PushTo(lists, active, m, prepareStop)
  /\ active' = Target(active, m)

(* A render message needs no bound: it is coalesced with one before it.      *)
Room(type) == type # "render" => Len(lists[type]) < MaxQueue

(* clearMessageList                                                         *)
ClearMessageList == lists' = NoMessages /\ active' = "unknown"

(* The timer thread is inside m_syncObject of CTimerManager, which it holds  *)
(* from the top of its scan to the end of it.                                *)
Scanning == tpc \in {"scan", "count", "send", "notify", "notifyLast", "complete"}

(* CThread::start of the timer manager.                                     *)
StartThread ==
  IF tRunning
  THEN UNCHANGED <<tRunning, tStop, tpc>>
  ELSE tRunning' = TRUE /\ tStop' = FALSE /\ tpc' = "wait"

(* CTimerManager::stop up to the wait for the thread to quit.  m_waitTimer   *)
(* only cuts the sleep of the timer thread short, which TSleep allows at any *)
(* time.                                                                    *)
RequestThreadStop == tStop' = TRUE /\ tSignal' = TRUE

(* Array::deleteItem: the first occurrence, if there is one.                *)
(* A deletion that takes out the item behind the one it found.              *)
DeleteItem_OffByOne(s, x) ==
  IF \E i \in 1..Len(s) : s[i] = x
  THEN LET first == CHOOSE i \in 1..Len(s) :
                      s[i] = x /\ \A j \in 1..i - 1 : s[j] # x
       IN [i \in 1..Len(s) - 1 |-> IF i <= first THEN s[i] ELSE s[i + 1]]
  ELSE s

DeleteItem(s, x) ==
  IF \E i \in 1..Len(s) : s[i] = x
  THEN LET first == CHOOSE i \in 1..Len(s) :
                      s[i] = x /\ \A j \in 1..i - 1 : s[j] # x
       IN [i \in 1..Len(s) - 1 |-> IF i < first THEN s[i] ELSE s[i + 1]]
  ELSE s

-----------------------------------------------------------------------------
(* The kernel thread: CMain::run.                                           *)

InitializeFails ==
  /\ mpc = "init" /\ mpc' = "exited"
  /\ UNCHANGED <<queueVars, prepareStop, dirty, cur, ops, target, dtor, timerVars,
                 mgrVars, ppc>>

Initialize ==
  /\ mpc = "init" /\ mpc' = "handling"
  /\ StartThread
  /\ UNCHANGED <<queueVars, prepareStop, dirty, cur, ops, target, dtor, timerVars,
                 aryTimer, tSignal, tQuit, idx, ppc>>

(* m_waitObject.wait(): WaitForSingleObject returns, then ResetEvent.       *)
Wake ==
  /\ mpc = "wait" /\ signal /\ mpc' = "woken"
  /\ UNCHANGED <<queueVars, prepareStop, dirty, cur, ops, target, dtor, timerVars,
                 mgrVars, ppc>>

ResetEvent ==
  /\ mpc = "woken" /\ mpc' = "test" /\ signal' = FALSE
  /\ UNCHANGED <<lists, active, prepareStop, dirty, cur, ops, target, dtor,
                 timerVars, mgrVars, ppc>>

TestPrepareStop ==
  /\ mpc = "test" /\ mpc' = IF prepareStop THEN "stopping" ELSE "pop"
  /\ UNCHANGED <<queueVars, prepareStop, dirty, cur, ops, target, dtor, timerVars,
                 mgrVars, ppc>>

PopMessage ==
  /\ mpc = "pop" /\ ~QueuesEmpty(lists)
  /\ cur' = PopResult(lists) /\ lists' = PopRest(lists)
  /\ mpc' = "handling"
  /\ UNCHANGED <<active, signal, prepareStop, dirty, ops, target, dtor, timerVars,
                 mgrVars, ppc>>

PopNothing ==
  /\ mpc = "pop" /\ QueuesEmpty(lists) /\ mpc' = "dirtytest"
  /\ UNCHANGED <<queueVars, prepareStop, dirty, cur, ops, target, dtor, timerVars,
                 mgrVars, ppc>>

(* A loop that resets the event when it has drained the lists.              *)
TestDirty_ResetsLate ==
  /\ mpc = "dirtytest" /\ mpc' = "wait"
  /\ IF dirty
     THEN Push(Plain("render")) /\ signal' = TRUE
     ELSE signal' = FALSE /\ UNCHANGED <<lists, active>>
  /\ UNCHANGED <<prepareStop, dirty, cur, ops, target, dtor, timerVars, mgrVars, ppc>>

TestDirty ==
  /\ mpc = "dirtytest" /\ mpc' = "wait"
  /\ IF dirty
     THEN Push(Plain("render")) /\ signal' = TRUE
     ELSE UNCHANGED queueVars
  /\ UNCHANGED <<prepareStop, dirty, cur, ops, target, dtor, timerVars, mgrVars, ppc>>

(* CMsgRender::handleMessage.  setDirty does nothing between lockDirty and   *)
(* unlockDirty, and only the kernel thread calls it, so the whole rendering   *)
(* is one step.                                                             *)
Render ==
  /\ mpc = "handling" /\ cur.type = "render"
  /\ dirty' = FALSE /\ mpc' = "pop" /\ cur' = NoMessage
  /\ UNCHANGED <<queueVars, prepareStop, ops, target, dtor, timerVars, mgrVars, ppc>>

HandlerReturns ==
  /\ mpc = "handling" /\ cur.type # "render"
  /\ mpc' = IF cur = Startup THEN "wait" ELSE "pop"
  /\ cur' = NoMessage /\ ops' = 0
  /\ UNCHANGED <<queueVars, prepareStop, dirty, target, dtor, timerVars,
                 mgrVars, ppc>>

(* An exit that does not wait for the timer thread.                         *)
StopTimersAndExit_NoJoin ==
  /\ mpc = "stopping" /\ mpc' = "exited"
  /\ IF tRunning THEN RequestThreadStop ELSE UNCHANGED <<tStop, tSignal>>
  /\ UNCHANGED <<queueVars, prepareStop, dirty, cur, ops, target, dtor, timerVars,
                 aryTimer, tRunning, tQuit, tpc, idx, ppc>>

(* After the loop: CTimerManager::stop.                                     *)
StopTimersAndExit ==
  /\ mpc = "stopping"
  /\ IF tRunning
     THEN RequestThreadStop /\ mpc' = "joinExit"
     ELSE mpc' = "exited" /\ UNCHANGED <<tStop, tSignal>>
  /\ UNCHANGED <<queueVars, prepareStop, dirty, cur, ops, target, dtor, timerVars,
                 aryTimer, tRunning, tQuit, tpc, idx, ppc>>

Join ==
  /\ mpc \in {"join", "joinExit"} /\ tQuit
  /\ tQuit' = FALSE /\ mpc' = IF mpc = "join" THEN "handling" ELSE "exited"
  /\ UNCHANGED <<queueVars, prepareStop, dirty, cur, ops, target, dtor, timerVars,
                 aryTimer, tRunning, tStop, tSignal, tpc, idx, ppc>>

-----------------------------------------------------------------------------
(* The calls a handler may make into the kernel.                            *)

Operate == mpc = "handling" /\ cur.type # "render" /\ ops < MaxOps /\ ops' = ops + 1

(* ENV::setDirty *)
SetDirty ==
  /\ Operate
  /\ dirty' = TRUE /\ Push(Plain("render")) /\ signal' = TRUE
  /\ UNCHANGED <<prepareStop, mpc, cur, target, dtor, timerVars, mgrVars, ppc>>

(* A screen posts a CMsgScreen to itself.                                   *)
PostScreenMessage ==
  /\ Operate /\ Room("input")
  /\ Push(Plain("input")) /\ signal' = TRUE
  /\ UNCHANGED <<prepareStop, dirty, mpc, cur, target, dtor, timerVars, mgrVars, ppc>>

CreateTimer(t, n) ==
  /\ Operate /\ ~alive[t]
  /\ alive' = [alive EXCEPT ![t] = TRUE]
  /\ repeat' = [repeat EXCEPT ![t] = n] /\ count' = [count EXCEPT ![t] = 0]
  /\ running' = [running EXCEPT ![t] = FALSE]
  /\ UNCHANGED <<queueVars, prepareStop, dirty, mpc, cur, target, dtor, armed,
                 mgrVars, ppc>>

(* What an owner that always stops its timer first may assume: the timer is   *)
(* not armed.  A timer that repeats for ever needs no such care.             *)
Disciplined(t) == StopFirst => ~armed[t] \/ repeat[t] = 0

SetRepeatCount(t, n) ==
  /\ Operate /\ alive[t] /\ (StopFirst => ~armed[t])
  /\ repeat' = [repeat EXCEPT ![t] = n] /\ count' = [count EXCEPT ![t] = 0]
  /\ UNCHANGED <<queueVars, prepareStop, dirty, mpc, cur, target, dtor, alive, running,
                 armed, mgrVars, ppc>>

StartTimer(t) ==
  /\ Operate /\ alive[t] /\ Disciplined(t)
  /\ armed' = [armed EXCEPT ![t] = TRUE]
  /\ IF running[t]
     THEN UNCHANGED <<running, target, mpc>>
     ELSE /\ running' = [running EXCEPT ![t] = TRUE]
          /\ target' = t /\ mpc' = "startAdd"
  /\ UNCHANGED <<queueVars, prepareStop, dirty, cur, dtor, alive, count, repeat,
                 mgrVars, ppc>>

AddTimer ==
  /\ mpc = "startAdd" /\ ~Scanning
  /\ aryTimer' = Append(aryTimer, target) /\ mpc' = "startNotify"
  /\ UNCHANGED <<queueVars, prepareStop, dirty, cur, ops, target, dtor, timerVars,
                 tRunning, tStop, tSignal, tQuit, tpc, idx, ppc>>

NotifyManager ==
  /\ mpc = "startNotify"
  /\ tSignal' = TRUE /\ mpc' = "handling" /\ target' = NoTimer
  /\ UNCHANGED <<queueVars, prepareStop, dirty, cur, ops, dtor, timerVars,
                 aryTimer, tRunning, tStop, tQuit, tpc, idx, ppc>>

(* A stop that returns at once when the timer has switched itself off.       *)
StopTimer_OnlyIfRunning(t) ==
  /\ Operate /\ alive[t]
  /\ running' = [running EXCEPT ![t] = FALSE]
  /\ IF running[t]
     THEN target' = t /\ mpc' = "stopRemove" /\ UNCHANGED armed
     ELSE armed' = [armed EXCEPT ![t] = FALSE] /\ UNCHANGED <<target, mpc>>
  /\ UNCHANGED <<queueVars, prepareStop, dirty, cur, dtor, alive, count, repeat,
                 mgrVars, ppc>>

(* A stop that deletes the messages and leaves the timer registered.         *)
StopTimer_KeepsRegistered(t) ==
  /\ Operate /\ alive[t]
  /\ running' = [running EXCEPT ![t] = FALSE]
  /\ target' = t /\ mpc' = "stopDelete"
  /\ UNCHANGED <<queueVars, prepareStop, dirty, cur, dtor, alive, count, repeat, armed,
                 mgrVars, ppc>>

StopTimer(t) ==
  /\ Operate /\ alive[t]
  /\ running' = [running EXCEPT ![t] = FALSE]
  /\ target' = t /\ mpc' = "stopRemove"
  /\ UNCHANGED <<queueVars, prepareStop, dirty, cur, dtor, alive, count, repeat, armed,
                 mgrVars, ppc>>

(* A removal that does not take the lock of the timer manager.              *)
RemoveTimer_NoLock ==
  /\ mpc = "stopRemove"
  /\ aryTimer' = DeleteItem(aryTimer, target) /\ mpc' = "stopDelete"
  /\ UNCHANGED <<queueVars, prepareStop, dirty, cur, ops, target, dtor, timerVars,
                 tRunning, tStop, tSignal, tQuit, tpc, idx, ppc>>

RemoveTimer ==
  /\ mpc = "stopRemove" /\ ~Scanning
  /\ aryTimer' = DeleteItem(aryTimer, target) /\ mpc' = "stopDelete"
  /\ UNCHANGED <<queueVars, prepareStop, dirty, cur, ops, target, dtor, timerVars,
                 tRunning, tStop, tSignal, tQuit, tpc, idx, ppc>>

(* The last step of stop(), and of ~CTimer when it called stop().           *)
DeleteMessages ==
  /\ mpc = "stopDelete"
  /\ lists' = DeleteMessageByID(lists, target)
  /\ armed' = [armed EXCEPT ![target] = FALSE]
  /\ alive' = [alive EXCEPT ![target] = ~dtor]
  /\ mpc' = "handling" /\ target' = NoTimer /\ dtor' = FALSE
  /\ UNCHANGED <<active, signal, prepareStop, dirty, cur, ops, running, count, repeat,
                 mgrVars, ppc>>

(* ~CTimer                                                                  *)
DestroyTimer(t) ==
  /\ Operate /\ alive[t] /\ Disciplined(t)
  /\ IF running[t]
     THEN /\ running' = [running EXCEPT ![t] = FALSE]
          /\ target' = t /\ dtor' = TRUE /\ mpc' = "stopRemove"
          /\ UNCHANGED <<alive, armed>>
     ELSE /\ alive' = [alive EXCEPT ![t] = FALSE]
          /\ armed' = [armed EXCEPT ![t] = FALSE]
          /\ UNCHANGED <<running, target, dtor, mpc>>
  /\ UNCHANGED <<queueVars, prepareStop, dirty, cur, count, repeat, mgrVars, ppc>>

(* CScnMain::onKillFocus and onSetFocus stop and start the timer manager.   *)
StopManager ==
  /\ FocusChanges /\ Operate /\ tRunning
  /\ RequestThreadStop /\ mpc' = "join"
  /\ UNCHANGED <<queueVars, prepareStop, dirty, cur, target, dtor, timerVars,
                 aryTimer, tRunning, tQuit, tpc, idx, ppc>>

StartManager ==
  /\ FocusChanges /\ Operate /\ ~tRunning
  /\ StartThread
  /\ UNCHANGED <<queueVars, prepareStop, dirty, mpc, cur, target, dtor, timerVars,
                 aryTimer, tSignal, tQuit, idx, ppc>>

(* quitHMI called by the kernel thread itself: clear, then prepareStop.     *)
QuitClear ==
  /\ Operate /\ Quitters # {}
  /\ ClearMessageList /\ mpc' = "quitFlag"
  /\ UNCHANGED <<signal, prepareStop, dirty, cur, target, dtor, timerVars, mgrVars, ppc>>

QuitPrepareStop ==
  /\ mpc = "quitFlag" /\ mpc' = "handling"
  /\ prepareStop' = TRUE /\ signal' = TRUE
  /\ UNCHANGED <<lists, active, dirty, cur, ops, target, dtor, timerVars, mgrVars, ppc>>

HandlerCall ==
  \/ SetDirty \/ PostScreenMessage
  \/ \E t \in Timers :
       \/ StartTimer(t) \/ StopTimer(t) \/ DestroyTimer(t)
       \/ \E n \in RepeatCounts : CreateTimer(t, n) \/ SetRepeatCount(t, n)
  \/ StopManager \/ StartManager \/ QuitClear

MainStep ==
  \/ InitializeFails \/ Initialize
  \/ Wake \/ ResetEvent \/ TestPrepareStop
  \/ PopMessage \/ PopNothing \/ TestDirty
  \/ Render \/ HandlerCall \/ HandlerReturns
  \/ AddTimer \/ NotifyManager \/ RemoveTimer \/ DeleteMessages
  \/ Join \/ QuitPrepareStop \/ StopTimersAndExit

-----------------------------------------------------------------------------
(* The timer thread: CTimerManager::run, and the CTimer methods it calls     *)
(* while it holds the lock of the manager.                                   *)

TWake ==
  /\ tpc = "wait" /\ tSignal /\ tpc' = "woken"
  /\ UNCHANGED <<queueVars, prepareStop, dirty, mainVars, timerVars, aryTimer, tRunning,
                 tStop, tSignal, tQuit, idx, ppc>>

TResetEvent ==
  /\ tpc = "woken" /\ tpc' = "test" /\ tSignal' = FALSE
  /\ UNCHANGED <<queueVars, prepareStop, dirty, mainVars, timerVars, aryTimer, tRunning,
                 tStop, tQuit, idx, ppc>>

TTest ==
  /\ tpc = "test" /\ tpc' = IF tStop THEN "ending" ELSE "sleep"
  /\ UNCHANGED <<queueVars, prepareStop, dirty, mainVars, timerVars, aryTimer, tRunning,
                 tStop, tSignal, tQuit, idx, ppc>>

(* m_waitTimer.wait(m_uiInterval) returns and m_bPrepareStop is tested again. *)
TSleep ==
  /\ tpc = "sleep" /\ tpc' = IF tStop THEN "ending" ELSE "lock"
  /\ UNCHANGED <<queueVars, prepareStop, dirty, mainVars, timerVars, aryTimer, tRunning,
                 tStop, tSignal, tQuit, idx, ppc>>

TLock ==
  /\ tpc = "lock" /\ tpc' = "scan"
  /\ UNCHANGED <<queueVars, prepareStop, dirty, mainVars, timerVars, aryTimer, tRunning,
                 tStop, tSignal, tQuit, idx, ppc>>

NextTimer == tpc' = "scan" /\ idx' = idx + 1

(* isTimeOut answers FALSE: the timer does not run, or its delay has not      *)
(* passed.  A timer at an address whose CTimer is gone reads as anything.     *)
TNotDue ==
  /\ tpc = "scan" /\ idx <= Len(aryTimer) /\ NextTimer
  /\ UNCHANGED <<queueVars, prepareStop, dirty, mainVars, timerVars, aryTimer, tRunning,
                 tStop, tSignal, tQuit, ppc>>

TDue ==
  /\ tpc = "scan" /\ idx <= Len(aryTimer)
  /\ running[aryTimer[idx]] \/ ~alive[aryTimer[idx]]
  /\ Room("timer")
  /\ tpc' = "count"
  /\ UNCHANGED <<queueVars, prepareStop, dirty, mainVars, timerVars, aryTimer, tRunning,
                 tStop, tSignal, tQuit, idx, ppc>>

(* increaseCurrentCount: m_bRunning is tested again, the count goes up ...   *)
TCount ==
  /\ tpc = "count"
  /\ LET t == aryTimer[idx] IN
       IF running[t]
       THEN /\ count' = [count EXCEPT ![t] = IF @ < MaxCount THEN @ + 1 ELSE @]
            /\ tpc' = "send" /\ UNCHANGED idx
       ELSE NextTimer /\ UNCHANGED count
  /\ UNCHANGED <<queueVars, prepareStop, dirty, mainVars, alive, running, repeat, armed,
                 aryTimer, tRunning, tStop, tSignal, tQuit, ppc>>

(* A completion announced one count early.                                  *)
TSend_OneEarly ==
  /\ tpc = "send"
  /\ LET t == aryTimer[idx] IN
       IF repeat[t] = 0 \/ count[t] + 1 < repeat[t]
       THEN Push(TimerMessage(t, "TS_TIMER")) /\ tpc' = "notify"
       ELSE Push(TimerMessage(t, "TS_TIMER_COMPLETE")) /\ tpc' = "notifyLast"
  /\ UNCHANGED <<idx, running, signal, prepareStop, dirty, mainVars, alive, count,
                 repeat, armed, aryTimer, tRunning, tStop, tSignal, tQuit, ppc>>

(* ... and what is pushed depends on the repeat count.                       *)
TSend ==
  /\ tpc = "send"
  /\ LET t == aryTimer[idx] IN
       \/ /\ repeat[t] = 0 \/ count[t] < repeat[t]
          /\ Push(TimerMessage(t, "TS_TIMER")) /\ tpc' = "notify"
          /\ UNCHANGED <<idx, running>>
       \/ /\ repeat[t] # 0 /\ count[t] = repeat[t]
          /\ Push(TimerMessage(t, "TS_TIMER_COMPLETE")) /\ tpc' = "notifyLast"
          /\ UNCHANGED <<idx, running>>
       \/ /\ repeat[t] # 0 /\ count[t] > repeat[t]
          /\ running' = [running EXCEPT ![t] = FALSE] /\ NextTimer
          /\ UNCHANGED <<lists, active>>
  /\ UNCHANGED <<signal, prepareStop, dirty, mainVars, alive, count, repeat, armed,
                 aryTimer, tRunning, tStop, tSignal, tQuit, ppc>>

(* A timer switched off after any message, not only after the last.          *)
TNotify_SwitchesOff ==
  /\ tpc \in {"notify", "notifyLast"} /\ signal' = TRUE
  /\ tpc' = "complete" /\ UNCHANGED idx
  /\ UNCHANGED <<lists, active, prepareStop, dirty, mainVars, timerVars, aryTimer,
                 tRunning, tStop, tSignal, tQuit, ppc>>

(* The end of pushMessage.                                                  *)
TNotify ==
  /\ tpc \in {"notify", "notifyLast"} /\ signal' = TRUE
  /\ IF tpc = "notify" THEN NextTimer ELSE tpc' = "complete" /\ UNCHANGED idx
  /\ UNCHANGED <<lists, active, prepareStop, dirty, mainVars, timerVars, aryTimer,
                 tRunning, tStop, tSignal, tQuit, ppc>>

TComplete ==
  /\ tpc = "complete" /\ NextTimer
  /\ running' = [running EXCEPT ![aryTimer[idx]] = FALSE]
  /\ UNCHANGED <<queueVars, prepareStop, dirty, mainVars, alive, count, repeat, armed,
                 aryTimer, tRunning, tStop, tSignal, tQuit, ppc>>

(* A scan that relies on addTimer alone to keep the thread going.            *)
TScanned_NoSelfNotify ==
  /\ tpc = "scan" /\ idx > Len(aryTimer) /\ tpc' = "wait" /\ idx' = 1
  /\ UNCHANGED <<queueVars, prepareStop, dirty, mainVars, timerVars, aryTimer, tRunning,
                 tStop, tSignal, tQuit, ppc>>

(* The thread notifies itself while there are timers, and unlocks.          *)
TScanned ==
  /\ tpc = "scan" /\ idx > Len(aryTimer) /\ tpc' = "wait" /\ idx' = 1
  /\ tSignal' = (tSignal \/ aryTimer # <<>>)
  /\ UNCHANGED <<queueVars, prepareStop, dirty, mainVars, timerVars, aryTimer, tRunning,
                 tStop, tQuit, ppc>>

(* CThread::threadProc after run() returns.                                 *)
TNotRunning ==
  /\ tpc = "ending" /\ tpc' = "ended" /\ tRunning' = FALSE
  /\ UNCHANGED <<queueVars, prepareStop, dirty, mainVars, timerVars, aryTimer,
                 tStop, tSignal, tQuit, idx, ppc>>

TQuit ==
  /\ tpc = "ended" /\ tpc' = "off" /\ tQuit' = TRUE
  /\ UNCHANGED <<queueVars, prepareStop, dirty, mainVars, timerVars, aryTimer, tRunning,
                 tStop, tSignal, idx, ppc>>

TimerStep ==
  \/ TWake \/ TResetEvent \/ TTest \/ TSleep \/ TLock
  \/ TNotDue \/ TDue \/ TCount \/ TSend \/ TNotify \/ TComplete
  \/ TScanned \/ TNotRunning \/ TQuit

-----------------------------------------------------------------------------
(* The other threads: pushMessage and quitHMI.  CMain is deleted once the     *)
(* kernel thread has quit, so they act before that.                          *)

PMove(p, from, to) ==
  /\ mpc # "exited" /\ ppc[p] = from /\ ppc' = [ppc EXCEPT ![p] = to]
  /\ UNCHANGED <<dirty, mainVars, timerVars, mgrVars>>

PPush(p, type) ==
  /\ PMove(p, "idle", "notify") /\ Room(type)
  /\ Push(Plain(type)) /\ UNCHANGED <<signal, prepareStop>>

PNotify(p) ==
  /\ PMove(p, "notify", "idle")
  /\ signal' = TRUE /\ UNCHANGED <<lists, active, prepareStop>>

PQuitClear(p) ==
  /\ p \in Quitters /\ PMove(p, "idle", "quitFlag")
  /\ ClearMessageList /\ UNCHANGED <<signal, prepareStop>>

PQuitFlag(p) ==
  /\ PMove(p, "quitFlag", "quitNotify")
  /\ prepareStop' = TRUE /\ UNCHANGED queueVars

(* A prepareStop that sets the flag and does not wake the thread.            *)
PQuitNotify_Silent(p) ==
  /\ PMove(p, "quitNotify", "idle") /\ UNCHANGED <<queueVars, prepareStop>>

PQuitNotify(p) ==
  /\ PMove(p, "quitNotify", "idle")
  /\ signal' = TRUE /\ UNCHANGED <<lists, active, prepareStop>>

(* What a producer does on its own, once it has begun a call.               *)
PContinue(p) == PNotify(p) \/ PQuitFlag(p) \/ PQuitNotify(p)

ProducerStep ==
  \E p \in Producers :
    \/ \E type \in ProducerTypes[p] : PPush(p, type)
    \/ PQuitClear(p) \/ PContinue(p)

-----------------------------------------------------------------------------
Terminated == mpc = "exited" /\ UNCHANGED vars

Next == MainStep \/ TimerStep \/ ProducerStep \/ Terminated

Spec == Init /\ [][Next]_vars

(* The scheduler runs each thread that can run, and the kernel thread gets      *)
(* the lock of the timer manager: the timer thread sleeps outside the lock     *)
(* for m_uiInterval in every round.  Nothing makes a producer begin a call.    *)
FairSpec ==
  /\ Spec
  /\ WF_vars(MainStep) /\ WF_vars(TimerStep)
  /\ SF_vars(AddTimer) /\ SF_vars(RemoveTimer)
  /\ \A p \in Producers : WF_vars(PContinue(p))
=============================================================================
