---------------------------- MODULE TimerContract ----------------------------
(***************************************************************************)
(* What CTimer promises the object that owns a timer, without threads,       *)
(* locks, lists or events: between start() and the return of stop() (or of   *)
(* the destructor) the listener may have notifications pending, and outside  *)
(* of that interval it has none.                                            *)
(***************************************************************************)
CONSTANT Timers

VARIABLES armed,     \* timers started and not stopped since
          pending    \* timers with a notification on its way to the listener

vars == <<armed, pending>>

TypeOK == armed \subseteq Timers /\ pending \subseteq Timers

Init == armed = {} /\ pending = {}

(* CTimer::start                                                            *)
Start(t) == armed' = armed \cup {t} /\ UNCHANGED pending

(* The timer thread reaches the delay of a timer.                           *)
Notify(t) ==
  /\ t \in armed
  /\ pending' = pending \cup {t} /\ UNCHANGED armed

(* The last pending notification of a timer goes to its listener.           *)
Deliver(t) == pending' = pending \ {t} /\ UNCHANGED armed

(* stop() returns: the timer is off and none of its notifications survives.  *)
Cancel(t) == armed' = armed \ {t} /\ pending' = pending \ {t}

(* quitHMI drops what is pending, whatever the timer.                       *)
CancelAll == pending' = {} /\ UNCHANGED armed

Next ==
  \/ \E t \in Timers : Start(t) \/ Notify(t) \/ Deliver(t) \/ Cancel(t)
  \/ CancelAll

Spec == Init /\ [][Next]_vars

(* Nothing is ever pending for a timer that is off.                         *)
OnlyArmedPending == pending \subseteq armed
=============================================================================
