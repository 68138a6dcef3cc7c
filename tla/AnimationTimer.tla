--------------------------- MODULE AnimationTimer ---------------------------
(***************************************************************************)
(* A CTimer of a limited number of repetitions as its owner in the kernel     *)
(* thread meets it.  The timer thread pushes the completion and only then     *)
(* clears m_bRunning, so there are five states:                              *)
(*   off      not running, nothing pushed                                   *)
(*   running  the last repetition has not come                               *)
(*   fired    the completion is queued, m_bRunning not cleared yet           *)
(*   queued   the completion is queued and m_bRunning is FALSE               *)
(*   late     the completion was delivered before m_bRunning is cleared      *)
(* How the lists and locks behind it bring this about is the subject of       *)
(* HmiKernel.  The repetitions before the last one change nothing here.       *)
(***************************************************************************)
Timer == {"off", "running", "fired", "queued", "late"}

(* CTimer::isRunning                                                        *)
IsRunning(t) == t \in {"running", "fired", "late"}

(* stop() waits for the timer thread and deletes what it has pushed.          *)
Stop == "off"

(* start() after a stop()                                                   *)
Start == "running"

(* The completion is in the message list.                                   *)
Waits(t) == t \in {"fired", "queued"}

(* The timer thread goes on with t.                                         *)
Ticks(t) == t \in {"running", "fired", "late"}
Tick(t) ==
  CASE t = "running" -> "fired" [] t = "fired" -> "queued" [] t = "late" -> "off"

(* The kernel thread takes the completion from the list.                     *)
Deliver(t) == IF t = "fired" THEN "late" ELSE "off"
=============================================================================
