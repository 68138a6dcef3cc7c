----------------------------- MODULE ScreenStack -----------------------------
(***************************************************************************)
(* The screens of CBaseMainFrame: a stack with the home screen at the bottom,  *)
(* of which the top one is to be seen.  Entering or leaving a screen starts    *)
(* an animation that ends with the completion of m_timerScreen; a change in    *)
(* the middle of an animation completes the earlier one first, if its timer    *)
(* is still running.                                                        *)
(*                                                                         *)
(* Everything but the timer thread runs in the kernel thread, one handler     *)
(* after the other.  A handler is a function from the frame to the frame,     *)
(* composed the way the code composes its calls.  The applications decide     *)
(* what to enter and to leave (they leave a screen once and the home screen    *)
(* never); an overridden startScreenAnimation decides whether there is an      *)
(* animation.                                                               *)
(***************************************************************************)
EXTENDS Sequences, Naturals, AnimationTimer

CONSTANTS
  Screens,  \* the screens of the applications
  Home,     \* m_pHomeScreen
  None      \* no screen

ASSUME ScreensAssumption == Home \notin Screens /\ None \notin Screens \cup {Home}

VARIABLES
  frame,      \* the members of CBaseMainFrame, and what the screens show
  switching,  \* the kernel thread is in showHomeScreen or switchToApplication
  left,       \* screens that leave() or removeScreens() was called for
  missed      \* a change found a completion queued: the earlier change never completes

screenVars == <<frame, switching, left, missed>>

AllScreens == Screens \cup {Home}
OnStack(f) == {f.stack[i] : i \in 1..Len(f.stack)}
Top(f) == f.stack[Len(f.stack)]

-----------------------------------------------------------------------------
(* getComponentPos; the children of a container are different components.      *)
Position(stack, s) == CHOOSE i \in 1..Len(stack) : stack[i] = s

(* removeComponent: the screens above s move down.                           *)
Without(stack, s) ==
  LET i == Position(stack, s)
  IN SubSeq(stack, 1, i - 1) \o SubSeq(stack, i + 1, Len(stack))

(* The screen below s.                                                      *)
Below(f, s) == f.stack[Position(f.stack, s) - 1]

(* Removed from the stack and destroyed; the screen that was removed before   *)
(* it is deleted.                                                           *)
Discard(f, s) == [f EXCEPT !.stack = Without(@, s), !.rubbish = s, !.locked = @ \ {s}]

(* The screen that leaves is hidden or destroyed, the one that comes takes      *)
(* touches.                                                                *)
CompleteScreenAnimation(f) ==
  LET g == IF f.toLeave # None /\ f.destroyLeave THEN Discard(f, f.toLeave) ELSE f
  IN [g EXCEPT !.visible = (@ \ {f.toLeave}) \cup ({f.toEnter} \ {None}),
               !.locked = @ \ {f.toLeave, f.toEnter},
               !.toEnter = None, !.toLeave = None, !.destroyLeave = FALSE]

(* A stop that forgets what the timer was there for.                         *)
InnerStop_Only(f) == IF IsRunning(f.timer) THEN [f EXCEPT !.timer = Stop] ELSE f

InnerStop(f) ==
  IF IsRunning(f.timer) THEN CompleteScreenAnimation([f EXCEPT !.timer = Stop]) ELSE f

(* startScreenAnimation; an interval and a repeat count of 0 complete at once. *)
InnerStart(f, animated) ==
  LET changing == {f.toLeave, f.toEnter} \ {None}
      g == [f EXCEPT !.visible = @ \cup ({f.toEnter} \ {None}), !.locked = @ \cup changing]
  IN IF animated THEN [g EXCEPT !.timer = Start] ELSE CompleteScreenAnimation(g)

(* A screen that enters in the middle of an animation and does not end it.     *)
AddScreen_NoStop(f, s) ==
  [f EXCEPT !.stack = Append(@, s), !.toEnter = s,
            !.toLeave = IF @ = None THEN Top(f) ELSE @,
            !.destroyLeave = @ /\ f.toLeave # None]

(* The screen that is on top leaves unless another one does already.          *)
AddScreen(f, s) ==
  LET g == InnerStop(f)
  IN [g EXCEPT !.stack = Append(@, s), !.toEnter = s,
               !.toLeave = IF @ = None THEN Top(g) ELSE @,
               !.destroyLeave = @ /\ g.toLeave # None]

(* A hidden screen that goes although it is the next to be seen.              *)
RemoveScreen_KeepsEnter(f, s) ==
  LET g == InnerStop(f)
      h == [g EXCEPT !.toEnter =
              IF s \in g.visible /\ s = Top(g) THEN Below(g, s) ELSE @]
  IN IF s \in g.visible
     THEN [h EXCEPT !.toLeave = s, !.destroyLeave = TRUE]
     ELSE Discard(h, s)

(* A screen that can be seen leaves with the animation and, when it is on top, *)
(* the one below it enters; a hidden one goes at once.                       *)
RemoveScreen(f, s) ==
  LET g == InnerStop(f)
      h == [g EXCEPT !.toEnter =
              IF (s \in g.visible /\ s = Top(g)) \/ (s \notin g.visible /\ s = @)
              THEN Below(g, s) ELSE @]
  IN IF s \in g.visible
     THEN [h EXCEPT !.toLeave = s, !.destroyLeave = TRUE]
     ELSE Discard(h, s)

-----------------------------------------------------------------------------
(* The home screen is registered, and shown when the skin is ready.           *)
Registered ==
  [stack |-> <<Home>>, toEnter |-> Home, toLeave |-> None, destroyLeave |-> FALSE,
   visible |-> {}, locked |-> {}, rubbish |-> None, timer |-> Stop, alive |-> TRUE]

ScreensInit ==
  /\ frame \in {InnerStart(Registered, animated) : animated \in BOOLEAN}
  /\ switching = FALSE /\ left = {} /\ missed = FALSE

(* The completion of a change is queued when the next one begins: isRunning    *)
(* says FALSE, so nobody completes the earlier change.                       *)
Missed(f) ==
  f.timer = "queued" /\ (f.toEnter # None \/ f.toLeave # None)

Change(f, s) ==
  /\ frame' = f /\ left' = (left \cup s) \cap OnStack(f)
  /\ missed' = (missed \/ Missed(frame))

(* CBaseScreen::enter, also by an application that switchToApplication starts. *)
Enter(s) ==
  /\ frame.alive /\ s \notin OnStack(frame) \cup {frame.rubbish}
  /\ \E animated \in BOOLEAN : Change(InnerStart(AddScreen(frame, s), animated), {})
  /\ UNCHANGED switching

(* CBaseScreen::leave                                                       *)
Leave(s) ==
  /\ frame.alive /\ ~switching /\ s \in OnStack(frame) \ left
  /\ \E animated \in BOOLEAN : Change(InnerStart(RemoveScreen(frame, s), animated), {s})
  /\ UNCHANGED switching

(* closeAllApplications, which showHomeScreen and switchToApplication begin     *)
(* with: every application may have its screens removed, in one handler.       *)
CloseAllApplications ==
  /\ frame.alive /\ ~switching /\ switching' = TRUE
  /\ UNCHANGED <<frame, left, missed>>

(* removeScreens: an animation is stopped also when there is nothing to remove, *)
(* and before the first of several is; nothing moves before the last is.       *)
RemoveScreens(s) ==
  /\ switching /\ s \in (OnStack(frame) \ (left \cup {Home})) \cup {None}
  /\ Change(IF s = None THEN InnerStop(frame) ELSE RemoveScreen(frame, s), {s} \ {None})
  /\ UNCHANGED switching

ShowHomeScreen ==
  /\ switching /\ switching' = FALSE
  /\ \E animated \in BOOLEAN : frame' = InnerStart(frame, animated)
  /\ left' = left \cap OnStack(frame') /\ UNCHANGED missed

(* onTimerComplete                                                          *)
OnTimerComplete ==
  /\ frame.alive /\ ~switching /\ Waits(frame.timer)
  /\ frame' = CompleteScreenAnimation([frame EXCEPT !.timer = Stop])
  /\ left' = left \cap OnStack(frame') /\ UNCHANGED <<switching, missed>>

TimerThread ==
  /\ frame.alive /\ Ticks(frame.timer)
  /\ frame' = [frame EXCEPT !.timer = Tick(@)] /\ UNCHANGED <<switching, left, missed>>

(* CBaseMainFrame::destroy: the screen kept for deletion and every screen of   *)
(* the stack are deleted.                                                   *)
Destroy ==
  /\ frame.alive /\ ~switching
  /\ frame' = [frame EXCEPT !.alive = FALSE, !.timer = Stop, !.toEnter = None,
                            !.toLeave = None, !.rubbish = None, !.stack = <<>>,
                            !.visible = {}, !.locked = {}]
  /\ left' = {} /\ UNCHANGED <<switching, missed>>

Application ==
  \/ \E s \in Screens : Enter(s) \/ Leave(s)
  \/ CloseAllApplications \/ Destroy

Switch == ShowHomeScreen \/ \E s \in Screens \cup {None} : RemoveScreens(s)

ScreensNext == Application \/ Switch \/ OnTimerComplete \/ TimerThread

-----------------------------------------------------------------------------
ScreensTypeOK ==
  /\ frame.stack \in Seq(AllScreens)
  /\ frame.toEnter \in AllScreens \cup {None} /\ frame.toLeave \in AllScreens \cup {None}
  /\ frame.rubbish \in AllScreens \cup {None}
  /\ frame.destroyLeave \in BOOLEAN /\ frame.alive \in BOOLEAN /\ missed \in BOOLEAN
  /\ frame.visible \subseteq AllScreens /\ frame.locked \subseteq AllScreens
  /\ frame.timer \in Timer /\ left \subseteq Screens /\ switching \in BOOLEAN

(* The frame points to living screens only: what it is about to show or to     *)
(* hide is on the stack, each screen once, and the one that waits for its      *)
(* deletion is not, so destroy() deletes none twice.                         *)
NothingDangles ==
  /\ \A i, j \in 1..Len(frame.stack) : frame.stack[i] = frame.stack[j] => i = j
  /\ {frame.toEnter, frame.toLeave} \ {None} \subseteq OnStack(frame)
  /\ frame.rubbish \notin OnStack(frame)

(* When no animation goes on the screen on top is the only one to be seen and  *)
(* takes touches; unless a change has missed a completion.                   *)
TopAtRest ==
  frame.alive /\ frame.timer = "off" /\ ~switching /\ ~missed =>
    frame.visible = {Top(frame)} /\ frame.locked = {}
=============================================================================
