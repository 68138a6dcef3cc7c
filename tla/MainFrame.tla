------------------------------ MODULE MainFrame ------------------------------
(***************************************************************************)
(* CBaseMainFrame: the stack of screens and, above it, a message box.  Both     *)
(* live in the kernel thread and each has a timer of its own, so that their     *)
(* completions and the calls of the applications come in any order.  destroy()  *)
(* ends both: the kernel handles nothing after it.                           *)
(***************************************************************************)
EXTENDS ScreenStack, MessageBox

vars == <<screenVars, boxVars>>

Init == ScreensInit /\ BoxInit

ScreensStep == ScreensNext /\ UNCHANGED boxVars

(* The timer thread ticks at any time; the kernel thread does one thing after   *)
(* the other.                                                              *)
Handler == frame.alive /\ ~switching /\ UNCHANGED screenVars

BoxComplete == Handler /\ BoxTimerComplete

BoxHandler ==
  \/ Handler /\ (ShowMessageBox \/ CloseBox \/ \E b \in Buttons : Touch(b))
  \/ BoxComplete

BoxTick == frame.alive /\ BoxTimerThread /\ UNCHANGED screenVars

Next == ScreensStep \/ BoxHandler \/ BoxTick

Spec == Init /\ [][Next]_vars

(* A handler returns, the timer thread takes its ticks, and what it pushed is   *)
(* taken from the list.  The changes of screens are not so dense that every    *)
(* animation is cut short by a later one: time and again the timer ticks, and  *)
(* the kernel thread takes the completion, between two of them.               *)
Fairness ==
  /\ WF_vars(ShowHomeScreen /\ UNCHANGED boxVars)
  /\ WF_vars(TimerThread /\ UNCHANGED boxVars)
  /\ SF_vars(~switching /\ TimerThread /\ UNCHANGED boxVars)
  /\ SF_vars(OnTimerComplete /\ UNCHANGED boxVars)
  /\ WF_vars(BoxTick)
  /\ SF_vars(BoxComplete)

FairSpec == Spec /\ Fairness

-----------------------------------------------------------------------------
(* Every variable has a value of its type, and of a box that is deleted        *)
(* (completeHideAnimaiton) nothing is left, no timer that refers to it.         *)
TypeOK == ScreensTypeOK /\ BoxTypeOK

(* A screen that is left is removed from the stack, as CBaseScreen.h says,      *)
(* unless a change has missed a completion: also when other screens come and    *)
(* go in the middle of its animation.                                       *)
LeftIsRemoved ==
  \A s \in Screens : s \in left ~> s \notin left \/ missed

(* A box that is to disappear after some seconds goes, even when destroy() has  *)
(* brought it back; every completion starts the timer of the next stage.       *)
BoxGoes == box.shown /\ box.auto ~> ~box.shown \/ ~frame.alive
=============================================================================
