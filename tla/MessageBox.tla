------------------------------ MODULE MessageBox ------------------------------
(***************************************************************************)
(* CWgtMessageBox: a box over the screens with up to three buttons.  It is     *)
(* shown with an animation, may disappear by itself after some seconds, and    *)
(* goes with an animation if it was asked for.  One timer serves all three,    *)
(* and what its completion means is decided by two flags, which are read when  *)
(* the completion is taken from the list, not when it was pushed.            *)
(*                                                                         *)
(* The handlers are functions from the box to the box.  The callbacks of the   *)
(* buttons do not destroy the box (it destroys itself after them).            *)
(*                                                                         *)
(* A button is pressed and released in two steps.  The lock is read when it is *)
(* pressed (CComponent::addCursor) and not when it is released (removeCursor):  *)
(* a button that is held when the box is locked answers all the same.           *)
(***************************************************************************)
EXTENDS Naturals, AnimationTimer

CONSTANT Buttons  \* the buttons a box has: one to three of ok, cancel, alternate

(* The look of a box: no interval or no repetitions, so no animation; style 0;  *)
(* one of the AS_ styles.                                                   *)
Looks == {"still", "plain", "animated"}

VARIABLES
  box,      \* the members of the box; shown is FALSE once it is deleted
  answers,  \* how often the application was called back, 2 for more than once
  late,     \* the held buttons that were pressed after the box had answered
  revived   \* destroy() found the end of the show animation queued

boxVars == <<box, answers, late, revived>>

NoBox == [shown |-> FALSE, look |-> "still", auto |-> FALSE, hides |-> FALSE,
          locked |-> FALSE, showing |-> FALSE, hiding |-> FALSE, timer |-> Stop,
          held |-> {}]  \* the buttons in state TS_PRESS

(* A box that forgets the seconds it was given.                              *)
CompleteShow_Stays(b) == [b EXCEPT !.locked = FALSE, !.showing = FALSE]

(* The box can be touched; its seconds begin if it has any.                  *)
CompleteShow(b) ==
  [b EXCEPT !.locked = FALSE, !.showing = FALSE, !.timer = IF b.auto THEN Start ELSE @]

(* Style 0 completes the show, and then waits for the timer all the same.      *)
StartShow(b) ==
  LET locked == [b EXCEPT !.locked = TRUE]
      begun == IF b.look = "plain" THEN CompleteShow(locked) ELSE locked
  IN IF b.look = "still"
     THEN CompleteShow(locked)
     ELSE [begun EXCEPT !.timer = Start, !.showing = TRUE]

(* A box that is deleted while its timer is registered.                      *)
CompleteHide_TimerStays(b) == [NoBox EXCEPT !.timer = b.timer]

(* The listener is taken off the timer, the main frame takes the box from the   *)
(* overlays, and the box deletes itself.                                     *)
CompleteHide(b) == NoBox

(* A box that can be touched while it fades.                                 *)
StartHide_Unlocked(b) ==
  LET begun == IF b.look = "plain" THEN CompleteShow(b) ELSE b
  IN IF ~b.hides \/ b.look = "still"
     THEN CompleteHide(b)
     ELSE [begun EXCEPT !.timer = Start, !.hiding = TRUE]

(* A box that is locked before it is known whether a timer will unlock it.     *)
StartHide_NoTimer(b) ==
  IF ~b.hides \/ b.look = "still"
  THEN CompleteHide(b)
  ELSE [b EXCEPT !.locked = TRUE, !.timer = Stop, !.hiding = TRUE]

StartHide(b) ==
  LET locked == [b EXCEPT !.locked = TRUE]
      begun == IF b.look = "plain" THEN CompleteShow(locked) ELSE locked
  IN IF ~b.hides \/ b.look = "still"
     THEN CompleteHide(locked)
     ELSE [begun EXCEPT !.timer = Start, !.hiding = TRUE]

(* destroy()                                                                *)
DestroyBox(b) == IF IsRunning(b.timer) THEN CompleteHide(b) ELSE StartHide(b)

Revives(b) == ~IsRunning(b.timer) /\ b.showing /\ b.hides /\ b.look = "animated"

Answered == IF answers = 2 THEN 2 ELSE answers + 1

-----------------------------------------------------------------------------
BoxInit == box = NoBox /\ answers = 0 /\ late = {} /\ revived = FALSE

(* CBaseMainFrame::showMessageBox; one box at a time is followed.             *)
ShowMessageBox ==
  /\ ~box.shown
  /\ \E look \in Looks, auto, hides \in BOOLEAN :
       box' = StartShow([NoBox EXCEPT !.shown = TRUE, !.look = look,
                                      !.auto = auto, !.hides = hides])
  /\ answers' = 0 /\ late' = {} /\ revived' = FALSE

(* CComponent::addCursor: a locked button takes no cursor.                    *)
PressButton(b) ==
  /\ box.shown /\ ~box.locked /\ b \notin box.held
  /\ box' = [box EXCEPT !.held = @ \cup {b}]
  /\ late' = IF answers = 0 THEN late ELSE late \cup {b}
  /\ UNCHANGED <<answers, revived>>

LetGo(b) == [box EXCEPT !.held = @ \ {b}]

(* removeCursor of a button that was pressed, onTouchPressRelease, onBtn...TchRel: *)
(* the application is called and the box destroys itself.                     *)
ReleaseButton(b) ==
  /\ box.shown /\ b \in box.held
  /\ box' = DestroyBox(LetGo(b)) /\ late' = late \cap box'.held
  /\ answers' = Answered /\ revived' = (revived \/ Revives(box))

(* A press that became a move, a long or a double press (updateCursor) ends      *)
(* without an answer.                                                       *)
ReleaseMoved(b) ==
  /\ box.shown /\ b \in box.held
  /\ box' = LetGo(b) /\ late' = late \ {b} /\ UNCHANGED <<answers, revived>>

Touch(b) == PressButton(b) \/ ReleaseButton(b) \/ ReleaseMoved(b)

(* The application destroys the box it was given by showMessageBox.            *)
CloseBox ==
  /\ box.shown /\ box' = DestroyBox(box) /\ late' = late \cap box'.held
  /\ UNCHANGED answers /\ revived' = (revived \/ Revives(box))

(* onTimerComplete: the end of the show or of the hide animation, or of the    *)
(* seconds the box was given.                                               *)
BoxTimerComplete ==
  LET taken == [box EXCEPT !.timer = Deliver(@)]
  IN /\ box.shown /\ Waits(box.timer)
     /\ \/ /\ box.showing
           /\ box' = CompleteShow(taken) /\ UNCHANGED answers
        \/ /\ ~box.showing /\ box.hiding
           /\ box' = CompleteHide(taken) /\ UNCHANGED answers
        \/ /\ ~box.showing /\ ~box.hiding
           /\ box' = DestroyBox(taken) /\ answers' = Answered
     /\ late' = late \cap box'.held /\ UNCHANGED revived

BoxTimerThread ==
  /\ box.shown /\ Ticks(box.timer)
  /\ box' = [box EXCEPT !.timer = Tick(@)] /\ UNCHANGED <<answers, late, revived>>

-----------------------------------------------------------------------------
BoxTypeOK ==
  /\ box \in [shown : BOOLEAN, look : Looks, auto : BOOLEAN, hides : BOOLEAN,
              locked : BOOLEAN, showing : BOOLEAN, hiding : BOOLEAN, timer : Timer,
              held : SUBSET Buttons]
  /\ ~box.shown => box = NoBox
  /\ answers \in 0..2 /\ late \subseteq box.held /\ revived \in BOOLEAN

(* A box that has called the application back is locked until it is deleted,    *)
(* and the timer that answers for it is the timer of its hide animation: it     *)
(* calls back again only for a button that was held before its first answer,    *)
(* whose release no lock stops (removeCursor, onBtn...TchRel); except a box      *)
(* whose hide animation does not lock it (style 0) or that destroy() has brought *)
(* back.  A box without hide animation calls back once.                        *)
NoNewAnswer ==
  [][answers = 1 /\ answers' = 2 =>
       /\ box.hides
       /\ \/ box.look = "plain" \/ revived
          \/ \E b \in box.held \ late : ReleaseButton(b)]_boxVars

(* A box that takes no new touches is on its way: its timer is to unlock it or   *)
(* to delete it.                                                            *)
LockedBoxMoves == box.shown /\ box.locked => box.timer # "off"
=============================================================================
