--------------------------- MODULE MainFrameProofs ---------------------------
(***************************************************************************)
(* The message box of the main frame, whatever the screens below it do, and     *)
(* the stack of screens.                                                    *)
(***************************************************************************)
EXTENDS MainFrame, SequenceTheorems, TLAPS

Boxes == [shown : BOOLEAN, look : Looks, auto : BOOLEAN, hides : BOOLEAN,
          locked : BOOLEAN, showing : BOOLEAN, hiding : BOOLEAN, timer : Timer,
          held : SUBSET Buttons]

(* A locked box has a timer that will still complete, and a box that has given   *)
(* its answer is on its way out and takes no new touch, but for the two          *)
(* exceptions of NoNewAnswer.                                               *)
LockInv == box.shown /\ box.locked => box.timer \in {"running", "fired", "queued"}
AnswerInv ==
  /\ answers = 0 => late = {}
  /\ box.shown /\ answers # 0 =>
       /\ box.hides
       /\ \/ box.look = "plain" \/ revived
          \/ box.locked /\ box.hiding /\ ~box.showing /\ late = {}

BoxInv == BoxTypeOK /\ LockInv /\ AnswerInv

(* The steps of the box, and the step that leaves it alone.                    *)
BoxStep ==
  \/ ShowMessageBox \/ CloseBox \/ BoxTimerComplete \/ BoxTimerThread \/ UNCHANGED boxVars
  \/ \E b \in Buttons : Touch(b)

LEMMA FrameLeavesBox == [Next]_vars => BoxStep
BY DEF Next, vars, ScreensStep, BoxHandler, BoxComplete, BoxTick, BoxStep

LEMMA NoBoxType == NoBox \in Boxes
BY DEF NoBox, Boxes, Looks, Timer, Stop

LEMMA TimerStates ==
  /\ Start = "running" /\ Stop = "off"
  /\ \A t \in Timer : Waits(t) => Deliver(t) \in {"off", "late"}
  /\ \A t \in Timer : Ticks(t) => Tick(t) \in {"off", "fired", "queued"} /\ (Tick(t) = "off" => t = "late")
  /\ IsRunning("late")
BY DEF Start, Stop, Timer, Waits, Deliver, Ticks, Tick, IsRunning

(* What the handlers make of a box.                                          *)
LEMMA ShowBox ==
  ASSUME NEW b \in Boxes, b.shown, ~b.locked, ~b.hiding
  PROVE  LET c == StartShow(b) IN c \in Boxes /\ c.shown /\ (c.locked => c.timer = "running")
BY DEF StartShow, CompleteShow, Boxes, Looks, Timer, Start

LEMMA HideBox ==
  ASSUME NEW b \in Boxes, b.shown
  PROVE  LET c == DestroyBox(b)
         IN \/ c = NoBox
            \/ /\ c \in Boxes /\ c.shown /\ b.hides /\ c.hides /\ c.look = b.look /\ c.timer = "running"
               /\ ~IsRunning(b.timer) /\ c.hiding
               /\ b.look = "plain" \/ (b.look = "animated" /\ c.locked /\ c.showing = b.showing)
               /\ c.held = b.held
<1>1. CASE IsRunning(b.timer)
  BY <1>1 DEF DestroyBox, CompleteHide
<1>2. CASE ~IsRunning(b.timer) /\ (~b.hides \/ b.look = "still")
  BY <1>2 DEF DestroyBox, StartHide, CompleteHide
<1>3. CASE ~IsRunning(b.timer) /\ b.hides /\ b.look = "plain"
  BY <1>3 DEF DestroyBox, StartHide, CompleteShow, Boxes, Looks, Timer, Start
<1>4. CASE ~IsRunning(b.timer) /\ b.hides /\ b.look = "animated"
  BY <1>4 DEF DestroyBox, StartHide, Boxes, Looks, Timer, Start
<1> QED
  BY <1>1, <1>2, <1>3, <1>4 DEF Boxes, Looks

LEMMA BoxInvStep == BoxInv /\ BoxStep => BoxInv'
<1> SUFFICES ASSUME BoxInv, BoxStep PROVE BoxInv'
  OBVIOUS
<1>0. /\ box \in Boxes /\ answers \in 0..2 /\ revived \in BOOLEAN /\ (~box.shown => box = NoBox)
      /\ late \subseteq box.held
  BY DEF BoxInv, BoxTypeOK, Boxes
<1>n. ASSUME box' = NoBox, answers' \in 0..2, late' \subseteq box'.held, revived' \in BOOLEAN
      PROVE  BoxInv'
  BY <1>n, NoBoxType DEF BoxInv, BoxTypeOK, Boxes, LockInv, AnswerInv, NoBox
<1>a. Answered \in 0..2
  BY <1>0 DEF Answered
<1>1. CASE ShowMessageBox
  <2>1. PICK look \in Looks, auto \in BOOLEAN, hides \in BOOLEAN :
          box' = StartShow([NoBox EXCEPT !.shown = TRUE, !.look = look, !.auto = auto, !.hides = hides])
    BY <1>1 DEF ShowMessageBox
  <2>2. LET b == [NoBox EXCEPT !.shown = TRUE, !.look = look, !.auto = auto, !.hides = hides]
        IN b \in Boxes /\ b.shown /\ ~b.locked /\ ~b.hiding
    BY DEF NoBox, Boxes, Timer, Stop
  <2>3. box' \in Boxes /\ box'.shown /\ (box'.locked => box'.timer = "running")
    BY <2>1, <2>2, ShowBox
  <2>4. answers' = 0 /\ late' = {} /\ revived' = FALSE
    BY <1>1 DEF ShowMessageBox
  <2>5. BoxTypeOK'
    <3>1. answers' \in 0..2
      BY <2>4
    <3>2. revived' \in BOOLEAN
      BY <2>4
    <3> QED
      BY <2>3, <2>4, <3>1, <3>2 DEF BoxTypeOK, Boxes
  <2>6. LockInv' /\ AnswerInv'
    BY <2>3, <2>4 DEF LockInv, AnswerInv
  <2> QED
    BY <2>5, <2>6 DEF BoxInv
<1>2. ASSUME NEW b \in Boxes, b = [box EXCEPT !.held = b.held], b.held \subseteq box.held, box.shown,
             box' = DestroyBox(b), answers' \in {answers, Answered}, late' = late \cap box'.held,
             revived' = (revived \/ Revives(box))
      PROVE  BoxInv'
  <2>0. /\ b.shown /\ b.look = box.look /\ b.auto = box.auto /\ b.hides = box.hides
        /\ b.locked = box.locked /\ b.showing = box.showing /\ b.hiding = box.hiding
        /\ b.timer = box.timer
    BY <1>0, <1>2 DEF Boxes
  <2>1. answers' \in 0..2 /\ (answers' = 0 => answers = 0)
    BY <1>0, <1>2, <1>a DEF Answered
  <2>2. revived' \in BOOLEAN
    BY <1>0, <1>2
  <2>3. CASE DestroyBox(b) # NoBox
    <3>1. /\ box' \in Boxes /\ box'.shown /\ box.hides /\ box'.hides /\ box'.look = box.look
          /\ box'.timer = "running" /\ ~IsRunning(box.timer) /\ box'.hiding
          /\ box.look = "plain" \/ (box.look = "animated" /\ box'.locked /\ box'.showing = box.showing)
      BY <1>2, <2>0, <2>3, HideBox
    <3>2. box.look = "plain" \/ revived' \/ ~box'.showing
      BY <1>2, <3>1 DEF Revives, Boxes
    <3>3. late' \subseteq late /\ late' \subseteq box'.held
      BY <1>2
    <3>4. late = {} \/ box.look = "plain" \/ revived
      BY <1>0, <1>2 DEF BoxInv, AnswerInv
    <3>5. AnswerInv'
      BY <1>2, <2>1, <3>1, <3>2, <3>3, <3>4 DEF BoxInv, AnswerInv
    <3> QED
      BY <2>1, <2>2, <3>1, <3>3, <3>5 DEF BoxInv, BoxTypeOK, Boxes, LockInv
  <2> QED
    BY <1>n, <1>2, <2>1, <2>2, <2>3
<1>b. CASE CloseBox
  <2>1. box = [box EXCEPT !.held = box.held]
    BY <1>0 DEF Boxes
  <2> QED
    BY <1>0, <1>2, <1>b, <2>1 DEF CloseBox
<1>t. ASSUME NEW b \in Buttons, Touch(b) PROVE BoxInv'
  <2> DEFINE free == LetGo(b)
  <2>1. /\ free \in Boxes /\ free.held = box.held \ {b} /\ free = [box EXCEPT !.held = free.held]
        /\ free.shown = box.shown /\ free.look = box.look /\ free.hides = box.hides
        /\ free.locked = box.locked /\ free.showing = box.showing /\ free.hiding = box.hiding
        /\ free.timer = box.timer
    BY <1>0 DEF LetGo, Boxes
  <2> HIDE DEF free
  <2>2. CASE PressButton(b)
    <3>1. /\ box.shown /\ ~box.locked /\ box' = [box EXCEPT !.held = @ \cup {b}]
          /\ late' = IF answers = 0 THEN late ELSE late \cup {b}
          /\ UNCHANGED <<answers, revived>>
      BY <2>2 DEF PressButton
    <3>2. /\ box' \in Boxes /\ box'.held = box.held \cup {b} /\ box'.shown /\ ~box'.locked
          /\ box'.look = box.look /\ box'.hides = box.hides
      BY <1>0, <3>1 DEF Boxes
    <3>3. late' \subseteq box'.held
      BY <1>0, <3>1, <3>2
    <3>4. AnswerInv'
      BY <3>1, <3>2 DEF BoxInv, AnswerInv
    <3> QED
      BY <1>0, <3>1, <3>2, <3>3, <3>4 DEF BoxInv, BoxTypeOK, Boxes, LockInv
  <2>3. CASE ReleaseButton(b)
    <3>1. /\ box.shown /\ box' = DestroyBox(free) /\ late' = late \cap box'.held
          /\ answers' = Answered /\ revived' = (revived \/ Revives(box))
      BY <2>3 DEF ReleaseButton, free
    <3> QED
      BY <1>2, <2>1, <3>1
  <2>4. CASE ReleaseMoved(b)
    <3>1. box.shown /\ box' = free /\ late' = late \ {b} /\ UNCHANGED <<answers, revived>>
      BY <2>4 DEF ReleaseMoved, free
    <3>2. late' \subseteq box'.held
      BY <1>0, <2>1, <3>1
    <3>3. AnswerInv' /\ LockInv'
      BY <2>1, <3>1 DEF BoxInv, AnswerInv, LockInv
    <3> QED
      BY <1>0, <2>1, <3>1, <3>2, <3>3 DEF BoxInv, BoxTypeOK, Boxes
  <2> QED
    BY <1>t, <2>2, <2>3, <2>4 DEF Touch
<1>3. CASE BoxTimerComplete
  <2> DEFINE taken == [box EXCEPT !.timer = Deliver(@)]
  <2>0. /\ taken \in Boxes /\ taken.shown /\ taken.timer \in {"off", "late"}
        /\ taken.hides = box.hides /\ taken.look = box.look /\ taken.showing = box.showing
        /\ taken.hiding = box.hiding /\ taken.held = box.held
    BY <1>0, <1>3, TimerStates DEF BoxTimerComplete, Boxes, Timer
  <2>r. /\ late' = late \cap box'.held /\ revived' = revived /\ box.shown
        /\ late' \subseteq late /\ late' \subseteq box'.held
    BY <1>3 DEF BoxTimerComplete
  <2>1. CASE box.showing /\ box' = CompleteShow(taken) /\ UNCHANGED answers
    <3>1. /\ box' \in Boxes /\ box'.shown /\ ~box'.locked /\ box'.hides = box.hides /\ box'.look = box.look
      BY <2>0, <2>1 DEF CompleteShow, Boxes, Timer, Start
    <3>2. AnswerInv'
      BY <2>1, <2>r, <3>1 DEF BoxInv, AnswerInv
    <3> QED
      BY <1>0, <2>1, <2>r, <3>1, <3>2 DEF BoxInv, BoxTypeOK, Boxes, LockInv
  <2>2. CASE box' = CompleteHide(taken) /\ UNCHANGED answers
    BY <1>0, <1>n, <2>2, <2>r DEF CompleteHide
  <2>3. CASE /\ ~box.showing /\ ~box.hiding
             /\ box' = DestroyBox(taken) /\ answers' = Answered
    <3>1. CASE DestroyBox(taken) # NoBox
      <4>1. /\ box' \in Boxes /\ box'.shown /\ box'.hides /\ box'.look = box.look
            /\ box'.timer = "running" /\ box'.hiding
            /\ box.look = "plain" \/ (box'.locked /\ ~box'.showing)
        BY <2>0, <2>3, <3>1, HideBox
      <4>2. answers' # 0
        BY <1>0, <2>3 DEF Answered
      <4>3. late = {} \/ box.look = "plain" \/ revived
        BY <1>0, <2>r DEF BoxInv, AnswerInv
      <4>4. AnswerInv'
        BY <2>r, <4>1, <4>2, <4>3 DEF AnswerInv
      <4> QED
        BY <1>0, <1>a, <2>3, <2>r, <4>1, <4>4 DEF BoxInv, BoxTypeOK, Boxes, LockInv
    <3> QED
      BY <1>0, <1>a, <1>n, <2>3, <2>r, <3>1
  <2> QED
    BY <1>3, <2>1, <2>2, <2>3 DEF BoxTimerComplete
<1>4. CASE BoxTimerThread
  <2>1. /\ box.shown /\ Ticks(box.timer) /\ box' = [box EXCEPT !.timer = Tick(@)]
        /\ UNCHANGED <<answers, late, revived>>
    BY <1>4 DEF BoxTimerThread
  <2>2. /\ Tick(box.timer) \in {"off", "fired", "queued"}
        /\ Tick(box.timer) = "off" => box.timer = "late"
    BY <1>0, <2>1, TimerStates DEF Boxes
  <2> QED
    BY <1>0, <2>1, <2>2 DEF BoxInv, BoxTypeOK, Boxes, Timer, LockInv, AnswerInv
<1>5. CASE UNCHANGED boxVars
  BY <1>5 DEF boxVars, BoxInv, BoxTypeOK, LockInv, AnswerInv
<1> QED
  BY <1>1, <1>3, <1>4, <1>5, <1>b, <1>t DEF BoxStep

THEOREM BoxInvariant == Spec => []BoxInv
<1>1. Init => BoxInv
  <2> SUFFICES ASSUME Init PROVE BoxInv
    OBVIOUS
  <2>1. box = NoBox /\ answers = 0 /\ late = {} /\ revived = FALSE /\ ~NoBox.shown
    BY DEF Init, BoxInit, NoBox
  <2>2. BoxTypeOK
    <3>1. answers \in 0..2
      BY <2>1
    <3>2. revived \in BOOLEAN
      BY <2>1
    <3> QED
      BY <2>1, <3>1, <3>2, NoBoxType DEF BoxTypeOK, Boxes
  <2> QED
    BY <2>1, <2>2 DEF BoxInv, LockInv, AnswerInv
<1>2. BoxInv /\ [Next]_vars => BoxInv'
  BY FrameLeavesBox, BoxInvStep
<1> QED
  BY <1>1, <1>2, PTL DEF Spec

(* A locked box has a timer that ends its lock.                               *)
THEOREM LocksEnd == Spec => []LockedBoxMoves
<1>1. BoxInv => LockedBoxMoves
  BY DEF BoxInv, LockInv, LockedBoxMoves
<1> QED
  BY <1>1, BoxInvariant, PTL

(* A box that has called the application back does so again only for a button   *)
(* that was held before, but for the two exceptions.                           *)
THEOREM NoAnswerAfter == Spec => NoNewAnswer
<1> DEFINE Excused == /\ box.hides
                      /\ \/ box.look = "plain" \/ revived
                         \/ \E b \in box.held \ late : ReleaseButton(b)
<1>1. BoxInv /\ [Next]_vars => [answers = 1 /\ answers' = 2 => Excused]_boxVars
  <2> SUFFICES ASSUME BoxInv, BoxStep, answers = 1, answers' = 2
               PROVE  Excused
    BY FrameLeavesBox
  <2>1. ASSUME NEW b \in Buttons, Touch(b) PROVE Excused
    <3>1. ReleaseButton(b)
      BY <2>1 DEF Touch, PressButton, ReleaseMoved
    <3>2. box.shown /\ b \in box.held
      BY <3>1 DEF ReleaseButton
    <3> QED
      BY <3>1, <3>2 DEF BoxInv, AnswerInv
  <2>2. CASE BoxTimerComplete
    BY <2>2 DEF BoxTimerComplete, BoxInv, AnswerInv
  <2>3. ~(ShowMessageBox \/ CloseBox \/ BoxTimerThread \/ UNCHANGED boxVars)
    BY DEF ShowMessageBox, CloseBox, BoxTimerThread, boxVars
  <2> QED
    BY <2>1, <2>2, <2>3 DEF BoxStep
<1> QED
  BY <1>1, BoxInvariant, PTL DEF Spec, NoNewAnswer
-----------------------------------------------------------------------------
(* What the stack of screens is at all times: the home screen at the bottom,   *)
(* and every screen once.                                                    *)
Frames ==
  [stack : Seq(AllScreens), toEnter : AllScreens \cup {None}, toLeave : AllScreens \cup {None},
   destroyLeave : BOOLEAN, visible : SUBSET AllScreens, locked : SUBSET AllScreens,
   rubbish : AllScreens \cup {None}, timer : Timer, alive : BOOLEAN]

Distinct(stack) == \A i, j \in 1..Len(stack) : stack[i] = stack[j] => i = j

HomeBelow(stack) == Len(stack) > 0 /\ stack[1] = Home /\ Distinct(stack)

(* The screen on top stays or leaves for the one below it, and the screens that *)
(* an animation is about are on the stack: so it is between two calls of a      *)
(* handler.                                                                *)
Pointers(f) ==
  /\ {f.toEnter, f.toLeave} \ {None} \subseteq OnStack(f)
  /\ f.rubbish \notin OnStack(f)
  /\ f.toLeave # None => f.toLeave \in f.visible
  /\ f.destroyLeave => f.toLeave \in Screens
  /\ Top(f) = f.toLeave =>
       f.destroyLeave /\ Len(f.stack) > 1 /\ f.toEnter = f.stack[Len(f.stack) - 1]

Ready(f) ==
  /\ f \in Frames /\ f.alive /\ HomeBelow(f.stack) /\ Pointers(f)
  /\ Top(f) \in f.visible \cup {f.toEnter}

(* So it is between two handlers.                                            *)
WellFormed(f) == Ready(f) /\ Top(f) \in f.visible

(* The animation that goes on, or is to begin, ends with one screen to be seen. *)
Settles(f) ==
  /\ f.toEnter = None => f.toLeave = None
  /\ \A s, t \in (f.visible \ {f.toLeave}) \cup ({f.toEnter} \ {None}) : s = t
  /\ f.locked \subseteq {f.toEnter, f.toLeave}

(* A change whose animation has not begun.                                   *)
NotBegun(f) == f.toEnter # None /\ f.timer \in {"off", "late"}
Hidden(f) == f.toEnter \notin f.visible \cup f.locked

FrameInv ==
  /\ frame \in Frames /\ switching \in BOOLEAN /\ missed \in BOOLEAN /\ left \subseteq Screens
  /\ frame.alive => WellFormed(frame) /\ (frame.destroyLeave => frame.toLeave \in left)
  /\ ~frame.alive =>
       frame.stack = <<>> /\ frame.toEnter = None /\ frame.toLeave = None /\ ~switching
  /\ frame.alive /\ ~missed =>
       Settles(frame) /\ (NotBegun(frame) => switching /\ Hidden(frame))

LEMMA PositionIs ==
  ASSUME NEW stack, Distinct(stack), NEW k \in 1..Len(stack)
  PROVE  Position(stack, stack[k]) = k
BY DEF Position, Distinct

LEMMA WithoutIs ==
  ASSUME NEW S, NEW stack \in Seq(S), Distinct(stack), NEW k \in 1..Len(stack)
  PROVE  LET w == Without(stack, stack[k])
         IN /\ w \in Seq(S) /\ Len(w) = Len(stack) - 1
            /\ \A i \in 1..Len(w) : w[i] = IF i < k THEN stack[i] ELSE stack[i + 1]
<1> DEFINE a == SubSeq(stack, 1, k - 1)
           b == SubSeq(stack, k + 1, Len(stack))
<1>1. Without(stack, stack[k]) = a \o b
  BY PositionIs DEF Without
<1>2. Len(stack) \in Nat /\ \A i \in 1..Len(stack) : stack[i] \in S
  BY LenProperties, ElementOfSeq
<1>3. a \in Seq(S) /\ Len(a) = k - 1 /\ \A i \in 1..k - 1 : a[i] = stack[i]
  <2>1. \A i \in 1..k - 1 : stack[i] \in S
    BY <1>2
  <2>2. 1 \in Int /\ k - 1 \in Int
    BY <1>2
  <2>3. /\ SubSeq(stack, 1, k - 1) \in Seq(S)
        /\ Len(SubSeq(stack, 1, k - 1)) = IF 1 <= k - 1 THEN (k - 1) - 1 + 1 ELSE 0
        /\ \A i \in 1..(k - 1) - 1 + 1 : SubSeq(stack, 1, k - 1)[i] = stack[1 + i - 1]
    BY <2>1, <2>2, SubSeqProperties
  <2> QED
    BY <1>2, <2>3
<1>4. /\ b \in Seq(S) /\ Len(b) = Len(stack) - k
      /\ \A i \in 1..Len(stack) - k : b[i] = stack[k + i]
  <2>1. \A i \in k + 1..Len(stack) : stack[i] \in S
    BY <1>2
  <2>2. Len(stack) \in Int /\ k + 1 \in Int
    BY <1>2
  <2>3. /\ SubSeq(stack, k + 1, Len(stack)) \in Seq(S)
        /\ Len(SubSeq(stack, k + 1, Len(stack))) =
             IF k + 1 <= Len(stack) THEN Len(stack) - (k + 1) + 1 ELSE 0
        /\ \A i \in 1..Len(stack) - (k + 1) + 1 :
             SubSeq(stack, k + 1, Len(stack))[i] = stack[k + 1 + i - 1]
    BY <2>1, <2>2, SubSeqProperties
  <2> QED
    BY <1>2, <2>3
<1>5. /\ a \o b \in Seq(S) /\ Len(a \o b) = Len(a) + Len(b)
      /\ \A i \in 1..Len(a) + Len(b) :
           (a \o b)[i] = IF i <= Len(a) THEN a[i] ELSE b[i - Len(a)]
  BY <1>3, <1>4, ConcatProperties
<1> HIDE DEF a, b
<1>6. \A i \in 1..Len(a \o b) : (a \o b)[i] = IF i < k THEN stack[i] ELSE stack[i + 1]
  <2> SUFFICES ASSUME NEW i \in 1..Len(a \o b)
               PROVE  (a \o b)[i] = IF i < k THEN stack[i] ELSE stack[i + 1]
    OBVIOUS
  <2>1. /\ i \in 1..Len(a) + Len(b) /\ Len(a) = k - 1 /\ Len(b) = Len(stack) - k
        /\ (a \o b)[i] = IF i <= Len(a) THEN a[i] ELSE b[i - Len(a)]
    BY <1>3, <1>4, <1>5
  <2>2. CASE i < k
    <3>1. i \in 1..k - 1 /\ i <= Len(a)
      BY <1>2, <2>1, <2>2
    <3> QED
      BY <1>3, <2>1, <2>2, <3>1
  <2>3. CASE ~(i < k)
    <3>1. i - Len(a) \in 1..Len(stack) - k /\ ~(i <= Len(a)) /\ k + (i - Len(a)) = i + 1
      BY <1>2, <2>1, <2>3
    <3> QED
      BY <1>4, <2>1, <2>3, <3>1
  <2> QED
    BY <2>2, <2>3
<1> QED
  BY <1>1, <1>2, <1>3, <1>4, <1>5, <1>6

(* A screen that is taken off the stack leaves the others as they were.         *)
LEMMA DiscardIs ==
  ASSUME NEW f \in Frames, HomeBelow(f.stack), NEW s \in OnStack(f) \ {Home}
  PROVE  LET g == Discard(f, s)
         IN /\ g \in Frames /\ HomeBelow(g.stack) /\ OnStack(g) = OnStack(f) \ {s}
            /\ Len(g.stack) = Len(f.stack) - 1
            /\ Top(f) # s => Top(g) = Top(f)
            /\ Top(f) # s /\ f.stack[Len(f.stack) - 1] # s /\ Len(f.stack) > 1 =>
                 Len(g.stack) > 1 /\ g.stack[Len(g.stack) - 1] = f.stack[Len(f.stack) - 1]
            /\ Top(f) # s /\ f.stack[Len(f.stack) - 1] = s =>
                 Len(g.stack) > 1 /\ g.stack[Len(g.stack) - 1] = Below(f, s)
            /\ Top(f) = s => Len(f.stack) > 1 /\ Top(g) = f.stack[Len(f.stack) - 1]
<1> DEFINE g == Discard(f, s)
           w == Without(f.stack, s)
<1>1. f.stack \in Seq(AllScreens) /\ Len(f.stack) \in Nat /\ Distinct(f.stack)
  BY LenProperties DEF Frames, HomeBelow
<1>2. PICK k \in 1..Len(f.stack) : s = f.stack[k]
  BY DEF OnStack
<1>3. k > 1 /\ Len(f.stack) > 1
  BY <1>1, <1>2 DEF HomeBelow
<1>4. /\ w \in Seq(AllScreens) /\ Len(w) = Len(f.stack) - 1
      /\ \A i \in 1..Len(w) : w[i] = IF i < k THEN f.stack[i] ELSE f.stack[i + 1]
  BY <1>1, <1>2, WithoutIs
<1>5. s \in AllScreens
  BY <1>1, <1>2, ElementOfSeq
<1>6. g \in Frames /\ g.stack = w
  BY <1>4, <1>5 DEF Discard, Frames
<1> HIDE DEF w
<1>7. HomeBelow(w)
  BY <1>1, <1>3, <1>4 DEF HomeBelow, Distinct
<1>8. {w[i] : i \in 1..Len(w)} = {f.stack[i] : i \in 1..Len(f.stack)} \ {s}
  <2>1. ASSUME NEW i \in 1..Len(w) PROVE w[i] \in {f.stack[j] : j \in 1..Len(f.stack)} \ {s}
    BY <1>1, <1>2, <1>3, <1>4 DEF Distinct
  <2>2. ASSUME NEW j \in 1..Len(f.stack), j # k PROVE \E i \in 1..Len(w) : w[i] = f.stack[j]
    <3>1. CASE j < k
      BY <1>1, <1>3, <1>4, <2>2, <3>1
    <3>2. CASE j > k
      <4>1. j - 1 \in 1..Len(w) /\ ~(j - 1 < k) /\ (j - 1) + 1 = j
        BY <1>1, <1>3, <1>4, <2>2, <3>2
      <4> QED
        BY <1>4, <4>1
    <3> QED
      BY <1>1, <2>2, <3>1, <3>2
  <2> QED
    BY <1>2, <2>1, <2>2
<1>9. Top(f) = s <=> k = Len(f.stack)
  BY <1>1, <1>2, <1>3 DEF Top, Distinct
<1>10. f.stack[Len(f.stack) - 1] = s <=> k = Len(f.stack) - 1
  BY <1>1, <1>2, <1>3 DEF Distinct
<1>11. Below(f, s) = f.stack[k - 1]
  BY <1>1, <1>2, PositionIs DEF Below
<1>12. Len(w) = Len(f.stack) - 1 /\ Len(w) > 0
  BY <1>1, <1>3, <1>4
<1>13. Top(f) # s => w[Len(w)] = Top(f)
  BY <1>1, <1>2, <1>3, <1>4, <1>9, <1>12 DEF Top
<1>14. Top(f) = s => w[Len(w)] = f.stack[Len(f.stack) - 1]
  BY <1>1, <1>2, <1>3, <1>4, <1>9, <1>12
<1>15. Top(f) # s /\ f.stack[Len(f.stack) - 1] # s =>
         Len(w) > 1 /\ w[Len(w) - 1] = f.stack[Len(f.stack) - 1]
  <2> SUFFICES ASSUME Top(f) # s, f.stack[Len(f.stack) - 1] # s
               PROVE  Len(w) > 1 /\ w[Len(w) - 1] = f.stack[Len(f.stack) - 1]
    OBVIOUS
  <2>1. k # Len(f.stack) /\ k # Len(f.stack) - 1
    BY <1>9, <1>10
  <2>2. /\ Len(w) > 1 /\ Len(w) - 1 \in 1..Len(w)
        /\ ~(Len(w) - 1 < k) /\ (Len(w) - 1) + 1 = Len(f.stack) - 1
    BY <1>1, <1>2, <1>3, <1>12, <2>1
  <2> QED
    BY <1>4, <2>2
<1>16. Top(f) # s /\ f.stack[Len(f.stack) - 1] = s => Len(w) > 1 /\ w[Len(w) - 1] = f.stack[k - 1]
  <2> SUFFICES ASSUME f.stack[Len(f.stack) - 1] = s
               PROVE  Len(w) > 1 /\ w[Len(w) - 1] = f.stack[k - 1]
    OBVIOUS
  <2>1. k = Len(f.stack) - 1
    BY <1>10
  <2>2. Len(w) > 1 /\ Len(w) - 1 = k - 1 /\ k - 1 \in 1..Len(w) /\ k - 1 < k
    BY <1>1, <1>3, <1>12, <2>1
  <2> QED
    BY <1>4, <2>2
<1> QED
  BY <1>3, <1>6, <1>7, <1>8, <1>11, <1>12, <1>13, <1>14, <1>15, <1>16 DEF OnStack, Top

LEMMA TopIsScreen ==
  ASSUME NEW f \in Frames, HomeBelow(f.stack)
  PROVE  Top(f) \in OnStack(f) /\ OnStack(f) \subseteq AllScreens /\ Home \in OnStack(f) /\ None \notin OnStack(f)
<1>1. f.stack \in Seq(AllScreens) /\ Len(f.stack) \in Nat /\ Len(f.stack) > 0 /\ f.stack[1] = Home
  BY LenProperties DEF Frames, HomeBelow
<1>2. Len(f.stack) \in 1..Len(f.stack) /\ 1 \in 1..Len(f.stack)
  BY <1>1
<1>3. \A i \in 1..Len(f.stack) : f.stack[i] \in AllScreens
  BY <1>1, ElementOfSeq
<1> QED
  BY <1>1, <1>2, <1>3, ScreensAssumption DEF Top, OnStack, AllScreens

(* What completeScreenAnimation makes of a frame: no screen is on its way, the  *)
(* screen that was to be destroyed is gone and no other, and the screen on top  *)
(* can be seen.                                                            *)
LEMMA CompleteIs ==
  ASSUME NEW f, Ready(f)
  PROVE  LET g == CompleteScreenAnimation(f)
         IN /\ WellFormed(g)
            /\ g.toEnter = None /\ g.toLeave = None /\ ~g.destroyLeave /\ g.timer = f.timer
            /\ OnStack(g) \subseteq OnStack(f)
            /\ \A s \in OnStack(f) : s \in OnStack(g) \/ (f.destroyLeave /\ s = f.toLeave)
            /\ g.rubbish = f.rubbish \/ g.rubbish \in OnStack(f)
            /\ Settles(f) => Settles(g)
<1> DEFINE left0 == IF f.toLeave # None /\ f.destroyLeave THEN Discard(f, f.toLeave) ELSE f
           g == CompleteScreenAnimation(f)
<1>1. /\ f \in Frames /\ f.alive /\ HomeBelow(f.stack) /\ Pointers(f)
      /\ Top(f) \in f.visible \cup {f.toEnter}
  BY DEF Ready
<1>2. /\ Top(f) \in OnStack(f) /\ OnStack(f) \subseteq AllScreens /\ None \notin OnStack(f)
      /\ None \notin AllScreens
  BY <1>1, TopIsScreen, ScreensAssumption DEF AllScreens
<1>3. /\ left0 \in Frames /\ HomeBelow(left0.stack) /\ left0.alive /\ left0.timer = f.timer
      /\ left0.visible = f.visible /\ left0.locked \subseteq f.locked
      /\ left0.toEnter = f.toEnter /\ left0.toLeave = f.toLeave
      /\ left0.rubbish \notin OnStack(left0)
      /\ left0.rubbish = f.rubbish \/ left0.rubbish \in OnStack(f)
      /\ OnStack(left0) \subseteq OnStack(f)
      /\ \A s \in OnStack(f) : s \in OnStack(left0) \/ (f.destroyLeave /\ s = f.toLeave)
      /\ Top(left0) \in (f.visible \ {f.toLeave}) \cup {f.toEnter}
  <2>1. CASE f.toLeave # None /\ f.destroyLeave
    <3> DEFINE d == Discard(f, f.toLeave)
    <3>1. f.toLeave \in OnStack(f) \ {Home}
      BY <1>1, <2>1, ScreensAssumption DEF Pointers
    <3>2. /\ d \in Frames /\ HomeBelow(d.stack) /\ OnStack(d) = OnStack(f) \ {f.toLeave}
          /\ Top(f) # f.toLeave => Top(d) = Top(f)
          /\ Top(f) = f.toLeave => Top(d) = f.stack[Len(f.stack) - 1]
      BY <1>1, <3>1, DiscardIs
    <3>3. /\ d.alive = f.alive /\ d.timer = f.timer /\ d.visible = f.visible
          /\ d.locked = f.locked \ {f.toLeave} /\ d.toEnter = f.toEnter /\ d.toLeave = f.toLeave
          /\ d.rubbish = f.toLeave
      BY <1>1 DEF Discard, Frames
    <3>4. Top(d) \in (f.visible \ {f.toLeave}) \cup {f.toEnter}
      BY <1>1, <3>2 DEF Pointers
    <3>5. left0 = d
      BY <2>1
    <3> HIDE DEF left0, d
    <3> QED
      BY <1>1, <2>1, <3>1, <3>2, <3>3, <3>4, <3>5
  <2>2. CASE ~(f.toLeave # None /\ f.destroyLeave)
    <3>1. Top(f) # f.toLeave
      BY <1>1, <1>2, <2>2 DEF Pointers
    <3> QED
      BY <1>1, <2>2, <3>1 DEF Pointers
  <2> QED
    BY <2>1, <2>2
<1>4. g = [left0 EXCEPT !.visible = (@ \ {f.toLeave}) \cup ({f.toEnter} \ {None}),
                        !.locked = @ \ {f.toLeave, f.toEnter},
                        !.toEnter = None, !.toLeave = None, !.destroyLeave = FALSE]
  BY DEF CompleteScreenAnimation
<1> HIDE DEF left0, g
<1>5. /\ g \in Frames /\ g.stack = left0.stack /\ g.alive /\ g.timer = f.timer
      /\ g.rubbish = left0.rubbish
      /\ g.toEnter = None /\ g.toLeave = None /\ ~g.destroyLeave
      /\ g.visible = (f.visible \ {f.toLeave}) \cup ({f.toEnter} \ {None})
      /\ g.locked = left0.locked \ {f.toLeave, f.toEnter}
  <2>1. f.toEnter \in AllScreens \cup {None} /\ f.visible \subseteq AllScreens
    BY <1>1 DEF Frames
  <2> QED
    BY <1>3, <1>4, <2>1 DEF Frames
<1>6. OnStack(g) = OnStack(left0) /\ Top(g) = Top(left0)
  BY <1>5 DEF OnStack, Top
<1>7. Top(g) \in AllScreens
  BY <1>3, <1>6, TopIsScreen
<1>8. Top(g) \in g.visible
  BY <1>2, <1>3, <1>5, <1>6, <1>7
<1>9. Pointers(g)
  BY <1>2, <1>3, <1>5, <1>6, <1>7 DEF Pointers
<1>10. WellFormed(g)
  BY <1>3, <1>5, <1>8, <1>9 DEF WellFormed, Ready
<1>11. ASSUME Settles(f) PROVE Settles(g)
  BY <1>3, <1>5, <1>11, <1>2, <1>1 DEF Settles, Frames
<1> QED
  BY <1>3, <1>5, <1>6, <1>10, <1>11 DEF g

LEMMA InnerStopIs ==
  ASSUME NEW f, WellFormed(f)
  PROVE  LET g == InnerStop(f)
         IN /\ WellFormed(g)
            /\ OnStack(g) \subseteq OnStack(f)
            /\ \A s \in OnStack(f) : s \in OnStack(g) \/ (f.destroyLeave /\ s = f.toLeave)
            /\ g.rubbish = f.rubbish \/ g.rubbish \in OnStack(f)
            /\ ~g.destroyLeave \/ (f.destroyLeave /\ g.toLeave = f.toLeave)
            /\ Settles(f) => Settles(g)
            /\ IsRunning(f.timer) => g.timer = Stop /\ g.toEnter = None
            /\ ~IsRunning(f.timer) => g = f
<1> DEFINE h == [f EXCEPT !.timer = Stop]
<1>1. CASE IsRunning(f.timer)
  <2>1. f \in Frames
    BY DEF WellFormed, Ready
  <2>2. /\ h \in Frames /\ h.timer = Stop /\ h.stack = f.stack /\ h.toEnter = f.toEnter
        /\ h.toLeave = f.toLeave /\ h.destroyLeave = f.destroyLeave /\ h.visible = f.visible
        /\ h.locked = f.locked /\ h.rubbish = f.rubbish /\ h.alive = f.alive
    BY <2>1 DEF Frames, Timer, Stop
  <2>3. OnStack(h) = OnStack(f) /\ Top(h) = Top(f)
    BY <2>2 DEF OnStack, Top
  <2>4. Ready(h)
    BY <2>2, <2>3 DEF WellFormed, Ready, Pointers
  <2>5. Settles(f) => Settles(h)
    BY <2>2 DEF Settles
  <2>6. InnerStop(f) = CompleteScreenAnimation(h)
    BY <1>1 DEF InnerStop
  <2> HIDE DEF h
  <2>7. /\ WellFormed(InnerStop(f))
        /\ InnerStop(f).toEnter = None /\ ~InnerStop(f).destroyLeave /\ InnerStop(f).timer = h.timer
        /\ OnStack(InnerStop(f)) \subseteq OnStack(h)
        /\ \A s \in OnStack(h) : s \in OnStack(InnerStop(f)) \/ (h.destroyLeave /\ s = h.toLeave)
        /\ InnerStop(f).rubbish = h.rubbish \/ InnerStop(f).rubbish \in OnStack(h)
        /\ Settles(h) => Settles(InnerStop(f))
    BY <2>4, <2>6, CompleteIs
  <2> QED
    BY <1>1, <2>2, <2>3, <2>5, <2>7
<1>2. CASE ~IsRunning(f.timer)
  <2>1. InnerStop(f) = f
    BY <1>2 DEF InnerStop
  <2> QED
    BY <1>2, <2>1
<1> QED
  BY <1>1, <1>2

(* After startScreenAnimation a change is on its way or through.               *)
LEMMA InnerStartIs ==
  ASSUME NEW f, Ready(f), NEW animated \in BOOLEAN
  PROVE  LET g == InnerStart(f, animated)
         IN /\ WellFormed(g) /\ ~NotBegun(g)
            /\ ~g.destroyLeave \/ (f.destroyLeave /\ g.toLeave = f.toLeave)
            /\ Settles(f) => Settles(g)
<1> DEFINE h == [f EXCEPT !.visible = @ \cup ({f.toEnter} \ {None}),
                          !.locked = @ \cup ({f.toLeave, f.toEnter} \ {None})]
           g == InnerStart(f, animated)
<1>1. /\ f \in Frames /\ f.alive /\ HomeBelow(f.stack) /\ Pointers(f)
      /\ Top(f) \in f.visible \cup {f.toEnter}
  BY DEF Ready
<1>2. None \notin AllScreens /\ Top(f) \in AllScreens
  BY <1>1, TopIsScreen, ScreensAssumption DEF AllScreens
<1>3. /\ h \in Frames /\ h.stack = f.stack /\ h.toEnter = f.toEnter /\ h.toLeave = f.toLeave
      /\ h.destroyLeave = f.destroyLeave /\ h.rubbish = f.rubbish /\ h.alive = f.alive
      /\ h.timer = f.timer
      /\ h.visible = f.visible \cup ({f.toEnter} \ {None})
      /\ h.locked = f.locked \cup ({f.toLeave, f.toEnter} \ {None})
  BY <1>1 DEF Frames
<1>4. g = IF animated THEN [h EXCEPT !.timer = Start] ELSE CompleteScreenAnimation(h)
  BY DEF InnerStart
<1> HIDE DEF h, g
<1>5. OnStack(h) = OnStack(f) /\ Top(h) = Top(f)
  BY <1>3 DEF OnStack, Top
<1>6. Top(h) \in h.visible /\ Pointers(h)
  BY <1>1, <1>2, <1>3, <1>5 DEF Pointers
<1>7. WellFormed(h)
  BY <1>1, <1>3, <1>6 DEF WellFormed, Ready
<1>8. Settles(f) => Settles(h)
  BY <1>1, <1>3 DEF Settles, Frames
<1>9. CASE animated
  <2>1. g = [h EXCEPT !.timer = Start]
    BY <1>4, <1>9
  <2>2. /\ g \in Frames /\ g.timer = "running" /\ g.stack = h.stack /\ g.toEnter = h.toEnter
        /\ g.toLeave = h.toLeave /\ g.destroyLeave = h.destroyLeave /\ g.rubbish = h.rubbish
        /\ g.alive = h.alive /\ g.visible = h.visible /\ g.locked = h.locked
    BY <1>3, <2>1 DEF Frames, Timer, Start
  <2>3. OnStack(g) = OnStack(h) /\ Top(g) = Top(h)
    BY <2>2 DEF OnStack, Top
  <2>4. WellFormed(g)
    BY <1>7, <2>2, <2>3 DEF WellFormed, Ready, Pointers
  <2>5. Settles(h) => Settles(g)
    BY <2>2 DEF Settles
  <2>6. ~NotBegun(g)
    BY <2>2 DEF NotBegun
  <2> QED
    BY <1>3, <1>8, <2>2, <2>4, <2>5, <2>6 DEF g
<1>10. CASE ~animated
  <2>1. g = CompleteScreenAnimation(h)
    BY <1>4, <1>10
  <2>2. Ready(h)
    BY <1>7 DEF WellFormed
  <2>3. WellFormed(g) /\ g.toEnter = None /\ ~g.destroyLeave /\ (Settles(h) => Settles(g))
    BY <2>1, <2>2, CompleteIs
  <2> QED
    BY <1>8, <2>3 DEF g, NotBegun
<1> QED
  BY <1>9, <1>10

(* A frame that is at rest, or in a change whose animation has not begun, shows *)
(* one screen and the screen that is to come is not among those it shows.        *)
LEMMA OneIsSeen ==
  ASSUME NEW g, WellFormed(g), Settles(g), NotBegun(g) \/ g.toEnter = None,
         NotBegun(g) => Hidden(g)
  PROVE  /\ g.toEnter = None => g.toLeave = None /\ g.visible = {Top(g)} /\ g.locked = {}
         /\ g.toEnter # None =>
              /\ g.toLeave # None /\ g.visible = {g.toLeave} /\ Top(g) = g.toLeave
              /\ g.locked \subseteq {g.toLeave}
<1>1. /\ g \in Frames /\ HomeBelow(g.stack) /\ Pointers(g) /\ Top(g) \in g.visible
  BY DEF WellFormed, Ready
<1>2. None \notin AllScreens /\ Top(g) \in AllScreens
  BY <1>1, TopIsScreen, ScreensAssumption DEF AllScreens
<1>3. g.visible \subseteq AllScreens /\ g.locked \subseteq AllScreens
  BY <1>1 DEF Frames
<1>4. CASE g.toEnter = None
  BY <1>1, <1>2, <1>3, <1>4 DEF Settles
<1>5. CASE g.toEnter # None
  <2>1. g.toEnter \notin g.visible \cup g.locked
    BY <1>5 DEF Hidden
  <2>2. \A s \in g.visible : s = g.toLeave
    BY <1>5, <2>1 DEF Settles
  <2>3. Top(g) = g.toLeave
    BY <1>1, <2>2
  <2> QED
    BY <1>1, <1>2, <1>3, <1>5, <2>1, <2>2, <2>3 DEF Settles
<1> QED
  BY <1>4, <1>5

LEMMA AddScreenIs ==
  ASSUME NEW f, WellFormed(f), NEW s \in Screens \ OnStack(f), s # f.rubbish
  PROVE  LET h == AddScreen(f, s)
         IN /\ Ready(h)
            /\ ~h.destroyLeave \/ (f.destroyLeave /\ h.toLeave = f.toLeave)
            /\ Settles(f) /\ ~Missed(f) /\ (NotBegun(f) => Hidden(f)) => Settles(h)
<1> DEFINE g == InnerStop(f)
           h == AddScreen(f, s)
<1>1. /\ WellFormed(g)
      /\ OnStack(g) \subseteq OnStack(f) /\ (g.rubbish = f.rubbish \/ g.rubbish \in OnStack(f))
      /\ ~g.destroyLeave \/ (f.destroyLeave /\ g.toLeave = f.toLeave)
      /\ Settles(f) => Settles(g)
      /\ IsRunning(f.timer) => g.toEnter = None
      /\ ~IsRunning(f.timer) => g = f
  BY InnerStopIs
<1>2. h = [g EXCEPT !.stack = Append(@, s), !.toEnter = s,
                    !.toLeave = IF @ = None THEN Top(g) ELSE @,
                    !.destroyLeave = @ /\ g.toLeave # None]
  BY DEF AddScreen
<1> HIDE DEF g, h
<1>3. /\ g \in Frames /\ g.alive /\ HomeBelow(g.stack) /\ Pointers(g) /\ Top(g) \in g.visible
  BY <1>1 DEF WellFormed, Ready
<1>4. /\ None \notin AllScreens /\ s \in AllScreens /\ s # None /\ s # Home
      /\ Top(g) \in OnStack(g) /\ Top(g) \in AllScreens
  BY <1>3, TopIsScreen, ScreensAssumption DEF AllScreens
<1>5. g.stack \in Seq(AllScreens) /\ Len(g.stack) \in Nat
  BY <1>3, LenProperties DEF Frames
<1>6. /\ Append(g.stack, s) \in Seq(AllScreens) /\ Len(Append(g.stack, s)) = Len(g.stack) + 1
      /\ \A i \in 1..Len(g.stack) : Append(g.stack, s)[i] = g.stack[i]
      /\ Append(g.stack, s)[Len(g.stack) + 1] = s
  BY <1>4, <1>5, AppendProperties
<1>7. /\ h \in Frames /\ h.stack = Append(g.stack, s) /\ h.toEnter = s /\ h.alive
      /\ h.toLeave = (IF g.toLeave = None THEN Top(g) ELSE g.toLeave)
      /\ h.visible = g.visible /\ h.locked = g.locked /\ h.rubbish = g.rubbish
    <2>1. (g.destroyLeave /\ g.toLeave # None) \in BOOLEAN
      OBVIOUS
    <2> QED
      BY <1>2, <1>3, <1>4, <1>6, <2>1 DEF Frames
<1>8. h.destroyLeave <=> g.destroyLeave /\ g.toLeave # None
  BY <1>2, <1>3 DEF Frames
<1>9. OnStack(h) = OnStack(g) \cup {s} /\ Top(h) = s /\ s \notin OnStack(g)
  <2>1. s \notin OnStack(g)
    BY <1>1
  <2>2. 1..Len(h.stack) = (1..Len(g.stack)) \cup {Len(g.stack) + 1}
    BY <1>5, <1>6, <1>7
  <2> QED
    BY <1>5, <1>6, <1>7, <2>1, <2>2 DEF OnStack, Top
<1>10. HomeBelow(h.stack)
  <2>1. \A i \in 1..Len(g.stack) : g.stack[i] # s
    BY <1>9 DEF OnStack
  <2>2. \A i \in 1..Len(h.stack) : i \in 1..Len(g.stack) \/ i = Len(g.stack) + 1
    BY <1>5, <1>6, <1>7
  <2>3. Distinct(h.stack)
    BY <1>3, <1>6, <1>7, <2>1, <2>2 DEF HomeBelow, Distinct
  <2> QED
    BY <1>3, <1>5, <1>6, <1>7, <2>3 DEF HomeBelow
<1>11. h.toLeave # s
  BY <1>3, <1>4, <1>7, <1>9 DEF Pointers
<1>12. g.rubbish # s
  BY <1>1
<1>13. Pointers(h)
  BY <1>3, <1>4, <1>7, <1>8, <1>9, <1>11, <1>12 DEF Pointers
<1>14. Ready(h)
  BY <1>7, <1>9, <1>10, <1>13 DEF Ready
<1>15. ASSUME Settles(f), ~Missed(f), NotBegun(f) => Hidden(f) PROVE Settles(h)
  <2>1. Settles(g)
    BY <1>1, <1>15
  <2>2. NotBegun(g) \/ g.toEnter = None
    <3>1. CASE IsRunning(f.timer)
      BY <1>1, <3>1
    <3>2. CASE ~IsRunning(f.timer)
      BY <1>1, <1>3, <1>15, <3>2 DEF Missed, NotBegun, IsRunning, Frames, Timer
    <3> QED
      BY <3>1, <3>2
  <2>3. NotBegun(g) => Hidden(g)
    BY <1>1, <1>15 DEF NotBegun
  <2>4. /\ g.toEnter = None => g.toLeave = None /\ g.visible = {Top(g)} /\ g.locked = {}
        /\ g.toEnter # None =>
             /\ g.toLeave # None /\ g.visible = {g.toLeave} /\ Top(g) = g.toLeave
             /\ g.locked \subseteq {g.toLeave}
    BY <1>1, <2>1, <2>2, <2>3, OneIsSeen
  <2> QED
    BY <1>4, <1>7, <2>4 DEF Settles
<1>16. ~h.destroyLeave \/ (f.destroyLeave /\ h.toLeave = f.toLeave)
  BY <1>1, <1>7, <1>8
<1> QED
  BY <1>14, <1>15, <1>16 DEF h

LEMMA BelowIs ==
  ASSUME NEW f \in Frames, HomeBelow(f.stack), NEW s \in OnStack(f) \ {Home}
  PROVE  /\ Below(f, s) \in OnStack(f) \ {s, Top(f)}
         /\ Top(f) = s => Len(f.stack) > 1 /\ Below(f, s) = f.stack[Len(f.stack) - 1]
<1>1. Len(f.stack) \in Nat /\ Distinct(f.stack) /\ f.stack[1] = Home
  BY LenProperties DEF Frames, HomeBelow
<1>2. PICK k \in 1..Len(f.stack) : s = f.stack[k]
  BY DEF OnStack
<1>3. k > 1 /\ k - 1 \in 1..Len(f.stack) /\ k - 1 # k /\ k - 1 # Len(f.stack) /\ Len(f.stack) \in 1..Len(f.stack)
  BY <1>1, <1>2
<1>4. Below(f, s) = f.stack[k - 1]
  BY <1>1, <1>2, PositionIs DEF Below
<1>5. f.stack[k - 1] # f.stack[k] /\ f.stack[k - 1] # f.stack[Len(f.stack)]
  BY <1>1, <1>3 DEF Distinct
<1>6. Top(f) = s => k = Len(f.stack)
  BY <1>1, <1>2, <1>3 DEF Top, Distinct
<1>7. Below(f, s) \in OnStack(f)
  BY <1>3, <1>4 DEF OnStack
<1> QED
  BY <1>1, <1>2, <1>3, <1>4, <1>5, <1>6, <1>7 DEF Top

LEMMA RemoveScreenIs ==
  ASSUME NEW f, WellFormed(f), NEW s \in Screens \cap OnStack(f), ~(f.destroyLeave /\ s = f.toLeave)
  PROVE  LET h == RemoveScreen(f, s)
         IN /\ WellFormed(h)
            /\ ~h.destroyLeave \/ h.toLeave = s \/ (f.destroyLeave /\ h.toLeave = f.toLeave)
            /\ Settles(f) /\ ~Missed(f) /\ (NotBegun(f) => Hidden(f)) =>
                 Settles(h) /\ (NotBegun(h) => Hidden(h))
<1> DEFINE g == InnerStop(f)
           e == [g EXCEPT !.toEnter =
                   IF (s \in g.visible /\ s = Top(g)) \/ (s \notin g.visible /\ s = @)
                   THEN Below(g, s) ELSE @]
           h == RemoveScreen(f, s)
<1>1. /\ WellFormed(g)
      /\ \A t \in OnStack(f) : t \in OnStack(g) \/ (f.destroyLeave /\ t = f.toLeave)
      /\ ~g.destroyLeave \/ (f.destroyLeave /\ g.toLeave = f.toLeave)
      /\ Settles(f) => Settles(g)
      /\ IsRunning(f.timer) => g.toEnter = None
      /\ ~IsRunning(f.timer) => g = f
  BY InnerStopIs
<1>2. h = IF s \in g.visible
          THEN [e EXCEPT !.toLeave = s, !.destroyLeave = TRUE]
          ELSE Discard(e, s)
  BY DEF RemoveScreen
<1> HIDE DEF g, h
<1>3. /\ g \in Frames /\ g.alive /\ HomeBelow(g.stack) /\ Pointers(g) /\ Top(g) \in g.visible
  BY <1>1 DEF WellFormed, Ready
<1>4. /\ None \notin AllScreens /\ s \in AllScreens /\ s # None
      /\ Top(g) \in OnStack(g) /\ OnStack(g) \subseteq AllScreens
      /\ s \in OnStack(g) \ {Home}
  BY <1>1, <1>3, TopIsScreen, ScreensAssumption DEF AllScreens
<1>5. /\ Below(g, s) \in OnStack(g) \ {s, Top(g)}
      /\ Top(g) = s => Len(g.stack) > 1 /\ Below(g, s) = g.stack[Len(g.stack) - 1]
  BY <1>3, <1>4, BelowIs
<1>6. ASSUME Settles(f), ~Missed(f), NotBegun(f) => Hidden(f)
      PROVE  /\ Settles(g)
             /\ g.toEnter = None => g.toLeave = None /\ g.visible = {Top(g)} /\ g.locked = {}
             /\ g.toEnter # None =>
                  /\ g.toLeave # None /\ g.visible = {g.toLeave} /\ Top(g) = g.toLeave
                  /\ g.locked \subseteq {g.toLeave}
  <2>1. Settles(g)
    BY <1>1, <1>6
  <2>2. NotBegun(g) \/ g.toEnter = None
    <3>1. CASE IsRunning(f.timer)
      BY <1>1, <3>1
    <3>2. CASE ~IsRunning(f.timer)
      BY <1>1, <1>3, <1>6, <3>2 DEF Missed, NotBegun, IsRunning, Frames, Timer
    <3> QED
      BY <3>1, <3>2
  <2>3. NotBegun(g) => Hidden(g)
    BY <1>1, <1>6 DEF NotBegun
  <2> QED
    BY <1>1, <2>1, <2>2, <2>3, OneIsSeen
<1>7. /\ e \in Frames /\ e.stack = g.stack /\ e.alive /\ e.toLeave = g.toLeave
      /\ e.destroyLeave = g.destroyLeave /\ e.visible = g.visible /\ e.locked = g.locked
      /\ e.rubbish = g.rubbish
      /\ e.toEnter = IF (s \in g.visible /\ s = Top(g)) \/ (s \notin g.visible /\ s = g.toEnter)
                     THEN Below(g, s) ELSE g.toEnter
  BY <1>3, <1>4, <1>5 DEF Frames
<1> HIDE DEF e
<1>8. OnStack(e) = OnStack(g) /\ Top(e) = Top(g)
  BY <1>7 DEF OnStack, Top
<1>9. CASE s \in g.visible
  <2>1. /\ h \in Frames /\ h.stack = g.stack /\ h.alive /\ h.toLeave = s /\ h.destroyLeave
        /\ h.visible = g.visible /\ h.locked = g.locked /\ h.rubbish = g.rubbish
        /\ h.toEnter = IF s = Top(g) THEN Below(g, s) ELSE g.toEnter
    BY <1>2, <1>4, <1>7, <1>9 DEF Frames
  <2>2. OnStack(h) = OnStack(g) /\ Top(h) = Top(g)
    BY <2>1 DEF OnStack, Top
  <2>3. Pointers(h)
    BY <1>3, <1>4, <1>5, <1>9, <2>1, <2>2 DEF Pointers
  <2>4. WellFormed(h)
    BY <1>3, <2>1, <2>2, <2>3 DEF WellFormed, Ready
  <2>5. ASSUME Settles(f), ~Missed(f), NotBegun(f) => Hidden(f)
        PROVE  Settles(h) /\ Hidden(h)
    <3>1. s = Top(g) /\ g.visible = {s} /\ g.locked \subseteq {s}
      BY <1>6, <1>9, <2>5
    <3>2. h.toEnter # None /\ h.toEnter # s
      BY <1>4, <1>5, <2>1, <3>1
    <3> QED
      BY <2>1, <3>1, <3>2 DEF Settles, Hidden
  <2> QED
    BY <2>1, <2>4, <2>5 DEF h
<1>10. CASE s \notin g.visible
  <2>1. s # Top(g) /\ s # g.toLeave
    BY <1>3, <1>4, <1>10 DEF Pointers
  <2>2. h = Discard(e, s)
    BY <1>2, <1>10
  <2>3. /\ h \in Frames /\ HomeBelow(h.stack) /\ OnStack(h) = OnStack(e) \ {s}
        /\ Len(h.stack) = Len(e.stack) - 1
        /\ Top(e) # s => Top(h) = Top(e)
        /\ Top(e) # s /\ e.stack[Len(e.stack) - 1] # s /\ Len(e.stack) > 1 =>
             Len(h.stack) > 1 /\ h.stack[Len(h.stack) - 1] = e.stack[Len(e.stack) - 1]
        /\ Top(e) # s /\ e.stack[Len(e.stack) - 1] = s =>
             Len(h.stack) > 1 /\ h.stack[Len(h.stack) - 1] = Below(e, s)
    BY <1>3, <1>4, <1>7, <1>8, <2>2, DiscardIs
  <2>4. /\ h.alive /\ h.visible = g.visible /\ h.locked = g.locked \ {s} /\ h.rubbish = s
        /\ h.toEnter = e.toEnter /\ h.toLeave = g.toLeave /\ h.destroyLeave = g.destroyLeave
    BY <1>7, <2>2 DEF Discard, Frames
  <2>5. /\ OnStack(h) = OnStack(g) \ {s} /\ Top(h) = Top(g) /\ Below(e, s) = Below(g, s)
        /\ h.toEnter = IF s = g.toEnter THEN Below(g, s) ELSE g.toEnter
    BY <1>7, <1>8, <1>10, <2>1, <2>3, <2>4 DEF Below
  <2>6. Pointers(h)
    <3>1. {h.toEnter, h.toLeave} \ {None} \subseteq OnStack(h)
      BY <1>3, <1>5, <2>1, <2>4, <2>5 DEF Pointers
    <3>2. ASSUME Top(h) = h.toLeave
          PROVE  h.destroyLeave /\ Len(h.stack) > 1 /\ h.toEnter = h.stack[Len(h.stack) - 1]
      <4>1. g.destroyLeave /\ Len(g.stack) > 1 /\ g.toEnter = g.stack[Len(g.stack) - 1]
        BY <1>3, <2>4, <2>5, <3>2 DEF Pointers
      <4> QED
        BY <1>7, <1>8, <2>1, <2>3, <2>4, <2>5, <4>1
    <3> QED
      BY <1>3, <2>4, <2>5, <3>1, <3>2 DEF Pointers
  <2>7. WellFormed(h)
    BY <1>3, <2>3, <2>4, <2>5, <2>6 DEF WellFormed, Ready
  <2>8. ASSUME Settles(f), ~Missed(f), NotBegun(f) => Hidden(f)
        PROVE  Settles(h) /\ (NotBegun(h) => Hidden(h))
    <3>1. CASE g.toEnter = None
      BY <1>4, <1>6, <2>4, <2>5, <2>8, <3>1 DEF Settles, Hidden, NotBegun
    <3>2. CASE g.toEnter # None
      <4>1. /\ g.toLeave # None /\ g.visible = {g.toLeave} /\ Top(g) = g.toLeave
            /\ g.locked \subseteq {g.toLeave}
        BY <1>6, <2>8, <3>2
      <4>2. h.toEnter # None /\ h.toEnter # Top(h) /\ Top(h) = g.toLeave
        <5>1. CASE s = g.toEnter
          BY <1>4, <1>5, <2>5, <4>1, <5>1
        <5>2. CASE s # g.toEnter
          <6>1. g.toEnter = g.stack[Len(g.stack) - 1] /\ Len(g.stack) > 1
            BY <1>3, <4>1 DEF Pointers
          <6>2. Len(g.stack) \in Nat /\ Distinct(g.stack)
            BY <1>3, LenProperties DEF Frames, HomeBelow
          <6>3. g.stack[Len(g.stack) - 1] # g.stack[Len(g.stack)]
            BY <6>1, <6>2 DEF Distinct
          <6> QED
            BY <2>5, <3>2, <4>1, <5>2, <6>1, <6>3 DEF Top
        <5> QED
          BY <5>1, <5>2
      <4> QED
        BY <2>4, <4>1, <4>2 DEF Settles, Hidden
    <3> QED
      BY <3>1, <3>2
  <2> QED
    BY <1>1, <2>4, <2>7, <2>8 DEF h
<1> QED
  BY <1>9, <1>10

LEMMA TimerOnly ==
  ASSUME NEW f, WellFormed(f), NEW t \in Timer
  PROVE  LET g == [f EXCEPT !.timer = t]
         IN /\ WellFormed(g) /\ Ready(g) /\ g.timer = t /\ g.toEnter = f.toEnter /\ g.toLeave = f.toLeave
            /\ g.destroyLeave = f.destroyLeave
            /\ Settles(f) => Settles(g)
            /\ Hidden(f) => Hidden(g)
<1> DEFINE g == [f EXCEPT !.timer = t]
<1>1. /\ g \in Frames /\ g.timer = t /\ g.stack = f.stack /\ g.toEnter = f.toEnter
      /\ g.toLeave = f.toLeave /\ g.destroyLeave = f.destroyLeave /\ g.visible = f.visible
      /\ g.locked = f.locked /\ g.rubbish = f.rubbish /\ g.alive = f.alive
  BY DEF WellFormed, Ready, Frames
<1> HIDE DEF g
<1>2. OnStack(g) = OnStack(f) /\ Top(g) = Top(f)
  BY <1>1 DEF OnStack, Top
<1>3. WellFormed(g)
  BY <1>1, <1>2 DEF WellFormed, Ready, Pointers
<1> QED
  BY <1>1, <1>3 DEF g, Settles, Hidden, WellFormed

LEMMA FrameInit == ScreensInit => FrameInv
<1> SUFFICES ASSUME ScreensInit PROVE FrameInv
  OBVIOUS
<1>1. PICK animated \in BOOLEAN : frame = InnerStart(Registered, animated)
  BY DEF ScreensInit
<1>2. <<Home>> \in Seq(AllScreens) /\ Len(<<Home>>) = 1 /\ <<Home>>[1] = Home
  BY DEF AllScreens
<1>3. /\ Registered \in Frames /\ Registered.stack = <<Home>> /\ Registered.alive
      /\ Registered.toEnter = Home /\ Registered.toLeave = None /\ ~Registered.destroyLeave
      /\ Registered.visible = {} /\ Registered.locked = {} /\ Registered.rubbish = None
  BY <1>2 DEF Registered, Frames, AllScreens, Timer, Stop
<1>4. OnStack(Registered) = {Home} /\ Top(Registered) = Home /\ HomeBelow(Registered.stack)
  BY <1>2, <1>3 DEF OnStack, Top, HomeBelow, Distinct
<1>5. None # Home
  BY ScreensAssumption
<1>6. Ready(Registered)
  BY <1>3, <1>4, <1>5 DEF Ready, Pointers
<1>7. Settles(Registered)
  BY <1>3, <1>5 DEF Settles
<1>8. WellFormed(frame) /\ ~NotBegun(frame) /\ ~frame.destroyLeave /\ Settles(frame)
  BY <1>1, <1>3, <1>6, <1>7, InnerStartIs
<1>9. switching \in BOOLEAN /\ missed \in BOOLEAN /\ left \subseteq Screens
  <2>1. switching \in BOOLEAN
    BY DEF ScreensInit
  <2>2. missed \in BOOLEAN
    BY DEF ScreensInit
  <2> QED
    BY <2>1, <2>2 DEF ScreensInit
<1> QED
  BY <1>8, <1>9 DEF FrameInv, WellFormed, Ready

LEMMA FrameInvStep == FrameInv /\ (ScreensNext \/ UNCHANGED screenVars) => FrameInv'
<1> SUFFICES ASSUME FrameInv, ScreensNext \/ UNCHANGED screenVars PROVE FrameInv'
  OBVIOUS
<1>0. /\ switching \in BOOLEAN /\ missed \in BOOLEAN /\ left \subseteq Screens
      /\ frame.alive => WellFormed(frame) /\ (frame.destroyLeave => frame.toLeave \in left)
      /\ switching => frame.alive
      /\ frame.alive /\ ~missed =>
           Settles(frame) /\ (NotBegun(frame) => switching /\ Hidden(frame))
  BY DEF FrameInv
<1>k. ASSUME WellFormed(frame'), switching' \in BOOLEAN, missed' \in BOOLEAN, left' \subseteq Screens,
             frame'.destroyLeave => frame'.toLeave \in left',
             ~missed' => Settles(frame') /\ (NotBegun(frame') => switching' /\ Hidden(frame'))
      PROVE  FrameInv'
  BY <1>k DEF FrameInv, WellFormed, Ready
<1>l. ASSUME WellFormed(frame'), frame'.destroyLeave
      PROVE  frame'.toLeave \in OnStack(frame') /\ frame'.toLeave \in Screens
  BY <1>l, ScreensAssumption DEF WellFormed, Ready, Pointers
<1>m. Missed(frame) \in BOOLEAN
  BY DEF Missed
<1>1. ASSUME NEW s \in Screens, Enter(s) PROVE FrameInv'
  <2>1. /\ frame.alive /\ s \notin OnStack(frame) /\ s # frame.rubbish /\ UNCHANGED switching
        /\ left' = (left \cup {}) \cap OnStack(frame') /\ missed' = (missed \/ Missed(frame))
    BY <1>1 DEF Enter, Change
  <2>2. PICK animated \in BOOLEAN : frame' = InnerStart(AddScreen(frame, s), animated)
    BY <1>1 DEF Enter, Change
  <2> DEFINE h == AddScreen(frame, s)
  <2>3. /\ Ready(h)
        /\ ~h.destroyLeave \/ (frame.destroyLeave /\ h.toLeave = frame.toLeave)
        /\ Settles(frame) /\ ~Missed(frame) /\ (NotBegun(frame) => Hidden(frame)) => Settles(h)
    BY <1>0, <2>1, AddScreenIs
  <2> HIDE DEF h
  <2>4. /\ WellFormed(frame') /\ ~NotBegun(frame')
        /\ ~frame'.destroyLeave \/ (h.destroyLeave /\ frame'.toLeave = h.toLeave)
        /\ Settles(h) => Settles(frame')
    BY <2>2, <2>3, InnerStartIs DEF h
  <2>5. frame'.destroyLeave => frame'.toLeave \in left'
    BY <1>0, <1>l, <2>1, <2>3, <2>4
  <2>6. ~missed' => Settles(frame')
    BY <1>0, <2>1, <2>3, <2>4
  <2>7. missed' \in BOOLEAN
    BY <2>1
  <2>8. switching' \in BOOLEAN /\ left' \subseteq Screens
    BY <1>0, <2>1
  <2> QED
    BY <1>k, <2>4, <2>5, <2>6, <2>7, <2>8
<1>2. ASSUME NEW s \in Screens, Leave(s) PROVE FrameInv'
  <2>1. /\ frame.alive /\ s \in OnStack(frame) \ left /\ UNCHANGED switching
        /\ left' = (left \cup {s}) \cap OnStack(frame') /\ missed' = (missed \/ Missed(frame))
    BY <1>2 DEF Leave, Change
  <2>2. PICK animated \in BOOLEAN : frame' = InnerStart(RemoveScreen(frame, s), animated)
    BY <1>2 DEF Leave, Change
  <2> DEFINE h == RemoveScreen(frame, s)
  <2>3. /\ WellFormed(h)
        /\ ~h.destroyLeave \/ h.toLeave = s \/ (frame.destroyLeave /\ h.toLeave = frame.toLeave)
        /\ Settles(frame) /\ ~Missed(frame) /\ (NotBegun(frame) => Hidden(frame)) => Settles(h)
    BY <1>0, <2>1, RemoveScreenIs
  <2> HIDE DEF h
  <2>4. /\ WellFormed(frame') /\ ~NotBegun(frame')
        /\ ~frame'.destroyLeave \/ (h.destroyLeave /\ frame'.toLeave = h.toLeave)
        /\ Settles(h) => Settles(frame')
    BY <2>2, <2>3, InnerStartIs DEF h, WellFormed
  <2>5. frame'.destroyLeave => frame'.toLeave \in left'
    BY <1>0, <1>l, <2>1, <2>3, <2>4
  <2>6. ~missed' => Settles(frame')
    BY <1>0, <2>1, <2>3, <2>4
  <2>7. missed' \in BOOLEAN
    BY <2>1
  <2>8. switching' \in BOOLEAN /\ left' \subseteq Screens
    BY <1>0, <2>1
  <2> QED
    BY <1>k, <2>4, <2>5, <2>6, <2>7, <2>8
<1>3. CASE CloseAllApplications
  <2>1. frame.alive /\ switching' = TRUE /\ UNCHANGED <<frame, left, missed>>
    BY <1>3 DEF CloseAllApplications
  <2>2. switching' \in BOOLEAN
    BY <2>1
  <2> QED
    BY <1>0, <2>1, <2>2 DEF FrameInv
<1>4. CASE Destroy
  <2>1. /\ ~switching /\ left' = {} /\ UNCHANGED <<switching, missed>> /\ frame \in Frames
        /\ frame' = [frame EXCEPT !.alive = FALSE, !.timer = Stop, !.toEnter = None,
                                  !.toLeave = None, !.rubbish = None, !.stack = <<>>,
                                  !.visible = {}, !.locked = {}]
    BY <1>4 DEF Destroy, FrameInv
  <2>2. <<>> \in Seq(AllScreens)
    BY EmptySeq
  <2>3. /\ frame' \in Frames /\ ~frame'.alive /\ frame'.stack = <<>>
        /\ frame'.toEnter = None /\ frame'.toLeave = None
    BY <2>1, <2>2 DEF Frames, Timer, Stop
  <2> QED
    BY <1>0, <2>1, <2>3 DEF FrameInv
<1>5. CASE ShowHomeScreen
  <2>1. /\ switching /\ switching' = FALSE /\ left' = left \cap OnStack(frame') /\ UNCHANGED missed
    BY <1>5 DEF ShowHomeScreen
  <2>2. PICK animated \in BOOLEAN : frame' = InnerStart(frame, animated)
    BY <1>5 DEF ShowHomeScreen
  <2>3. Ready(frame)
    BY <1>0, <2>1 DEF WellFormed
  <2>4. /\ WellFormed(frame') /\ ~NotBegun(frame')
        /\ ~frame'.destroyLeave \/ (frame.destroyLeave /\ frame'.toLeave = frame.toLeave)
        /\ Settles(frame) => Settles(frame')
    BY <2>2, <2>3, InnerStartIs
  <2>5. frame'.destroyLeave => frame'.toLeave \in left'
    BY <1>0, <1>l, <2>1, <2>4
  <2>6. switching' \in BOOLEAN
    BY <2>1
  <2>7. missed' \in BOOLEAN /\ left' \subseteq Screens /\ (~missed' => Settles(frame'))
    BY <1>0, <2>1, <2>4
  <2> QED
    BY <1>k, <2>4, <2>5, <2>6, <2>7
<1>6. ASSUME NEW s \in Screens \cup {None}, RemoveScreens(s) PROVE FrameInv'
  <2>1. /\ switching /\ s \in (OnStack(frame) \ (left \cup {Home})) \cup {None}
        /\ frame' = (IF s = None THEN InnerStop(frame) ELSE RemoveScreen(frame, s))
        /\ left' = (left \cup ({s} \ {None})) \cap OnStack(frame')
        /\ missed' = (missed \/ Missed(frame)) /\ UNCHANGED switching
    BY <1>6 DEF RemoveScreens, Change
  <2>2. /\ WellFormed(frame')
        /\ \/ ~frame'.destroyLeave \/ (s # None /\ frame'.toLeave = s)
           \/ frame.destroyLeave /\ frame'.toLeave = frame.toLeave
        /\ Settles(frame) /\ ~Missed(frame) /\ (NotBegun(frame) => Hidden(frame)) =>
             Settles(frame') /\ (NotBegun(frame') => Hidden(frame'))
    <3>1. CASE s = None
      <4>1. frame' = InnerStop(frame)
        BY <2>1, <3>1
      <4>2. /\ WellFormed(frame')
            /\ ~frame'.destroyLeave \/ (frame.destroyLeave /\ frame'.toLeave = frame.toLeave)
            /\ Settles(frame) => Settles(frame')
            /\ IsRunning(frame.timer) => frame'.toEnter = None
            /\ ~IsRunning(frame.timer) => frame' = frame
        BY <1>0, <2>1, <4>1, InnerStopIs
      <4>3. (NotBegun(frame) => Hidden(frame)) => (NotBegun(frame') => Hidden(frame'))
        BY <4>2 DEF NotBegun
      <4> QED
        BY <4>2, <4>3
    <3>2. CASE s # None
      <4>1. /\ frame' = RemoveScreen(frame, s) /\ s \in Screens \cap OnStack(frame)
            /\ ~(frame.destroyLeave /\ s = frame.toLeave)
        BY <1>0, <2>1, <3>2
      <4> QED
        BY <1>0, <2>1, <3>2, <4>1, RemoveScreenIs
    <3> QED
      BY <3>1, <3>2
  <2>3. frame'.destroyLeave => frame'.toLeave \in left'
    BY <1>0, <1>l, <2>1, <2>2
  <2>4. ~missed' => Settles(frame') /\ (NotBegun(frame') => switching' /\ Hidden(frame'))
    BY <1>0, <2>1, <2>2
  <2>5. missed' \in BOOLEAN
    BY <2>1
  <2>6. switching' \in BOOLEAN /\ left' \subseteq Screens
    BY <1>0, <2>1
  <2> QED
    BY <1>k, <2>2, <2>3, <2>4, <2>5, <2>6
<1>7. CASE OnTimerComplete
  <2> DEFINE h == [frame EXCEPT !.timer = Stop]
  <2>1. /\ frame.alive /\ frame' = CompleteScreenAnimation(h)
        /\ left' = left \cap OnStack(frame') /\ UNCHANGED <<switching, missed>>
    BY <1>7 DEF OnTimerComplete
  <2>2. Stop \in Timer
    BY DEF Stop, Timer
  <2>3. Ready(h) /\ (Settles(frame) => Settles(h))
    BY <1>0, <2>1, <2>2, TimerOnly
  <2> HIDE DEF h
  <2>4. /\ WellFormed(frame') /\ frame'.toEnter = None /\ ~frame'.destroyLeave
        /\ Settles(h) => Settles(frame')
    BY <2>1, <2>3, CompleteIs
  <2>5. ~missed' => Settles(frame') /\ ~NotBegun(frame')
    BY <1>0, <2>1, <2>3, <2>4 DEF NotBegun
  <2>6. switching' \in BOOLEAN /\ missed' \in BOOLEAN /\ left' \subseteq Screens
    BY <1>0, <2>1
  <2> QED
    BY <1>k, <2>4, <2>5, <2>6
<1>8. CASE TimerThread
  <2>1. /\ frame.alive /\ Ticks(frame.timer) /\ frame' = [frame EXCEPT !.timer = Tick(frame.timer)]
        /\ UNCHANGED <<switching, left, missed>>
    BY <1>8 DEF TimerThread
  <2>2. frame.timer \in Timer
    BY <1>0, <2>1 DEF WellFormed, Ready, Frames
  <2>3. /\ Tick(frame.timer) \in {"off", "fired", "queued"}
        /\ Tick(frame.timer) = "off" => frame.timer = "late"
    BY <2>1, <2>2, TimerStates
  <2>4. Tick(frame.timer) \in Timer
    BY <2>3 DEF Timer
  <2>5. /\ WellFormed(frame') /\ frame'.timer = Tick(frame.timer) /\ frame'.toEnter = frame.toEnter
        /\ frame'.toLeave = frame.toLeave /\ frame'.destroyLeave = frame.destroyLeave
        /\ Settles(frame) => Settles(frame')
        /\ Hidden(frame) => Hidden(frame')
    BY <1>0, <2>1, <2>4, TimerOnly
  <2>6. NotBegun(frame') => NotBegun(frame)
    BY <2>3, <2>5 DEF NotBegun
  <2> QED
    BY <1>0, <1>k, <2>1, <2>5, <2>6
<1>9. CASE UNCHANGED screenVars
  BY <1>9 DEF screenVars, FrameInv
<1> QED
  BY <1>1, <1>2, <1>3, <1>4, <1>5, <1>6, <1>7, <1>8, <1>9 DEF ScreensNext, Application, Switch

LEMMA BoxLeavesFrame == [Next]_vars => ScreensNext \/ UNCHANGED screenVars
BY DEF Next, vars, ScreensStep, BoxHandler, BoxComplete, BoxTick, Handler

(* The inductive invariant of the stack of screens.                            *)
THEOREM FrameInvariant == Spec => []FrameInv
<1>1. Init => FrameInv
  BY FrameInit DEF Init
<1>2. FrameInv /\ [Next]_vars => FrameInv'
  BY FrameInvStep, BoxLeavesFrame
<1> QED
  BY <1>1, <1>2, PTL DEF Spec

(* The frame points to living screens only, whatever comes and goes in the      *)
(* middle of an animation.                                                  *)
THEOREM PointersLive == Spec => []NothingDangles
<1>1. FrameInv => NothingDangles
  <2> SUFFICES ASSUME FrameInv PROVE NothingDangles
    OBVIOUS
  <2>1. CASE frame.alive
    BY <2>1 DEF FrameInv, WellFormed, Ready, Pointers, HomeBelow, Distinct, NothingDangles
  <2>2. CASE ~frame.alive
    <3>1. frame.stack = <<>> /\ frame.toEnter = None /\ frame.toLeave = None
      BY <2>2 DEF FrameInv
    <3>2. Len(frame.stack) = 0
      BY <3>1, EmptySeq
    <3>3. 1..Len(frame.stack) = {}
      BY <3>2
    <3> QED
      BY <3>1, <3>3 DEF NothingDangles, OnStack
  <2> QED
    BY <2>1, <2>2
<1> QED
  BY <1>1, FrameInvariant, PTL

(* A frame in which no animation goes on, and no change missed a completion,     *)
(* shows the screen on top and no other, and that screen takes touches.          *)
THEOREM RestShowsTop == Spec => []TopAtRest
<1>1. FrameInv => TopAtRest
  <2> SUFFICES ASSUME FrameInv, frame.alive, frame.timer = "off", ~switching, ~missed
               PROVE  frame.visible = {Top(frame)} /\ frame.locked = {}
    BY DEF TopAtRest
  <2>1. WellFormed(frame) /\ Settles(frame) /\ ~NotBegun(frame)
    BY DEF FrameInv
  <2>2. frame.toEnter = None
    BY <2>1 DEF NotBegun
  <2> QED
    BY <2>1, <2>2, OneIsSeen
<1> QED
  BY <1>1, FrameInvariant, PTL

(* Every variable of the main frame has a value of its type, and of a box that   *)
(* is deleted nothing is left.                                               *)
THEOREM FrameTyped == Spec => []TypeOK
<1>1. FrameInv => ScreensTypeOK
  BY DEF FrameInv, Frames, ScreensTypeOK
<1>2. BoxInv => BoxTypeOK
  BY DEF BoxInv
<1>3. FrameInv /\ BoxInv => TypeOK
  BY <1>1, <1>2 DEF TypeOK
<1> QED
  BY <1>3, FrameInvariant, BoxInvariant, PTL
=============================================================================
