------------------------ MODULE HmiKernelProperties ------------------------
(***************************************************************************)
(* What must hold of the HMI kernel in every interleaving.                   *)
(***************************************************************************)
EXTENDS HmiKernel

MainPCs == {"init", "wait", "woken", "test", "pop", "handling", "dirtytest",
            "startAdd", "startNotify", "stopRemove", "stopDelete", "join",
            "quitFlag", "stopping", "joinExit", "exited"}

TimerPCs == {"off", "wait", "woken", "test", "sleep", "lock", "scan", "count", "send",
             "notify", "notifyLast", "complete", "ending", "ended"}

ProducerPCs == {"idle", "notify", "quitFlag", "quitNotify"}

QueueType ==
  /\ lists \in Lists /\ active \in ListNames
  /\ signal \in BOOLEAN /\ prepareStop \in BOOLEAN /\ dirty \in BOOLEAN

MainType ==
  /\ mpc \in MainPCs /\ cur \in Message \cup {Startup, NoMessage} /\ ops \in Nat
  /\ target \in Timers \cup {NoTimer} /\ dtor \in BOOLEAN
  /\ mpc \in {"startAdd", "startNotify", "stopRemove", "stopDelete"} => target \in Timers

TimerType ==
  /\ alive \in [Timers -> BOOLEAN] /\ running \in [Timers -> BOOLEAN]
  /\ count \in [Timers -> Nat] /\ repeat \in [Timers -> Nat]
  /\ armed \in [Timers -> BOOLEAN]

ManagerType ==
  /\ aryTimer \in Seq(Timers)
  /\ tRunning \in BOOLEAN /\ tStop \in BOOLEAN /\ tSignal \in BOOLEAN /\ tQuit \in BOOLEAN
  /\ tpc \in TimerPCs /\ idx \in Nat \ {0}
  /\ Scanning /\ tpc # "scan" => idx <= Len(aryTimer)

ProducerType == ppc \in [Producers -> ProducerPCs]

(* Every variable has a value of its type, the loop index of the timer       *)
(* thread is inside its array while a timer is being processed, and the      *)
(* kernel thread knows which timer it is starting or stopping.               *)
TypeOK == QueueType /\ MainType /\ TimerType /\ ManagerType /\ ProducerType

-----------------------------------------------------------------------------
(* Some thread has pushed and not yet notified: it is between the two halves  *)
(* of pushMessage.                                                          *)
PushInFlight ==
  \/ \E p \in Producers : ppc[p] = "notify"
  \/ tpc \in {"notify", "notifyLast"}

(* The kernel thread never sleeps on work: when it waits with its event        *)
(* unsignalled, every list is empty or the notify of a push is still to come, *)
(* and it has not been asked to stop or that notify is still to come.  The    *)
(* ResetEvent that follows the wait (CWaitObject.cpp:31) and the notify after  *)
(* the unlock (CMain.cpp:150) are what could break it.                       *)
NoLostWakeup ==
  mpc = "wait" /\ ~signal =>
    /\ QueuesEmpty(lists) \/ PushInFlight
    /\ prepareStop => \E p \in Producers : ppc[p] = "quitNotify"

(* quitHMI has begun: the lists have been cleared for good.                  *)
Quitting == prepareStop \/ mpc = "quitFlag" \/ \E p \in Producers : ppc[p] = "quitFlag"

(* A screen marked dirty (ENV::setDirty) has a render message queued until it *)
(* is rendered, whatever is coalesced, reordered by class or deleted with a  *)
(* timer: the test of isDirty at CMain.cpp:282 never finds a forgotten       *)
(* repaint, unless the program is quitting.                                  *)
RepaintPending ==
  dirty /\ ~Quitting => RenderQueued(lists) \/ (mpc = "handling" /\ cur.type = "render")

-----------------------------------------------------------------------------
(* The timer thread is processing timer t: it is inside isTimeOut or          *)
(* increaseCurrentCount of t.                                               *)
Processing(t) == Scanning /\ idx <= Len(aryTimer) /\ aryTimer[idx] = t

(* After stop() has returned (CTimer.cpp:66-75) no notification of that timer  *)
(* is queued and the timer thread does not touch it, until it is started      *)
(* again: a listener is never called for a timer it has stopped.             *)
NoMessageAfterStop ==
  \A t \in Timers : ~armed[t] => ~Queued(lists, t) /\ ~Processing(t)

(* Nothing in the kernel refers to a timer that has been destroyed: not the   *)
(* array the timer thread walks, nor a queued message.                       *)
NoDanglingTimer ==
  \A t \in Timers : ~alive[t] =>
    ~Queued(lists, t) /\ \A i \in 1..Len(aryTimer) : aryTimer[i] # t

(* A timer is registered once at most, and a timer that runs is registered    *)
(* (or is about to be): it ticks, and not twice in an interval.              *)
RegisteredOnce ==
  /\ \A i, j \in 1..Len(aryTimer) : aryTimer[i] = aryTimer[j] => i = j
  /\ \A t \in Timers : running[t] =>
       \/ \E i \in 1..Len(aryTimer) : aryTimer[i] = t
       \/ mpc = "startAdd" /\ target = t

(* A completion is the last word of a timer: nothing of the same timer is      *)
(* queued behind its TS_TIMER_COMPLETE, and its count is used up.            *)
CompletionIsLast ==
  \A i \in 1..Len(lists["timer"]) :
    LET m == lists["timer"][i] IN
      m.status = "TS_TIMER_COMPLETE" =>
        /\ repeat[m.id] # 0 /\ count[m.id] >= repeat[m.id]
        /\ \A j \in i + 1..Len(lists["timer"]) : lists["timer"][j].id # m.id

(* The timer thread switches a timer off (CTimer.cpp:103 and 107) only when    *)
(* its repeat count is used up at that moment: it never undoes a restart.     *)
RunningUntilDone ==
  [][\A t \in Timers :
       running[t] /\ ~running'[t] /\ tpc' # tpc => repeat[t] # 0 /\ count[t] >= repeat[t]]_vars

(* A timer that runs and is registered is driven: when the timer thread waits *)
(* with its event unsignalled it has no timer to drive, or the notify of      *)
(* addTimer is still to come.                                                *)
TimersNotStranded ==
  tpc = "wait" /\ ~tSignal =>
    mpc = "startNotify" \/ \A i \in 1..Len(aryTimer) : ~running[aryTimer[i]]

(* The kernel thread is gone only after the timer thread: nothing pushes into *)
(* a CMain that startHMI has deleted (CMain.cpp:73).                         *)
TimerThreadJoined == mpc = "exited" => tpc = "off" /\ ~tRunning

-----------------------------------------------------------------------------
(* The contract of CTimer, over the kernel that implements it.               *)
Contract == INSTANCE TimerContract WITH
  armed <- {t \in Timers : armed[t]},
  pending <- {t \in Timers : Queued(lists, t)}

(* Every step of the kernel is a step of the contract or leaves it alone.     *)
TimerContractHolds == Contract!Spec

-----------------------------------------------------------------------------
InputQueued == \E i \in 1..Len(lists["input"]) : lists["input"][i].type = "input"

(* An input message is handled, however many messages of other classes, and    *)
(* repaints in its own list, keep coming.                                    *)
InputEventuallyHandled ==
  InputQueued ~> (mpc = "handling" /\ cur.type = "input") \/ Quitting \/ mpc = "exited"

(* The kernel thread is out of its inner loop (CMain.cpp:264-280).           *)
Drained == mpc \in {"dirtytest", "wait", "woken", "test", "stopping", "joinExit", "exited"}

(* quitHMI ends the kernel: if the lists run dry again and again, a thread     *)
(* that has been asked to stop does stop.  The condition is the code's own:   *)
(* m_bPrepareStop is tested only when the inner loop has emptied the lists.   *)
QuitCompletes == []<>Drained => (prepareStop ~> mpc = "exited")
=============================================================================
