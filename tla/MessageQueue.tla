---------------------------- MODULE MessageQueue ----------------------------
(***************************************************************************)
(* The four message lists of the HMI kernel (class CMain) as values, and   *)
(* the operations CMain performs on them while it holds m_syncObject.  Each *)
(* operation is one critical section of the code, so it is one operator     *)
(* here and part of one atomic step of the modules that use it.             *)
(*                                                                         *)
(* A message is a record: its class ("type"), the identifier it can be      *)
(* deleted by ("id": a timer message carries the address of its timer) and, *)
(* for timer messages, the timer status.  Payloads are left out.            *)
(***************************************************************************)
EXTENDS Naturals, Sequences

CONSTANTS Timers,   \* the addresses CTimer objects are created at
          NoTimer   \* the identifier of a message that belongs to no timer

ASSUME NoTimerAssumption == NoTimer \notin Timers

(* m_listInputMessage, m_listServiceMessage, m_listTimerMessage and         *)
(* m_listUnknownMessage: the classes of messages that have a list.          *)
ListNames == {"input", "service", "timer", "unknown"}

(* MT_SCREEN_TOUCH, MT_HARD_KEY, MT_GESTURE and MT_SCREEN share one list and *)
(* are one class here; a render message has no list of its own.             *)
MessageTypes == ListNames \cup {"render"}

Statuses == {"TS_TIMER", "TS_TIMER_COMPLETE"}

Plain(type) == [type |-> type, id |-> NoTimer, status |-> "none"]

TimerMessage(t, status) == [type |-> "timer", id |-> t, status |-> status]

Message ==
  {Plain(type) : type \in MessageTypes}
    \cup {TimerMessage(t, status) : t \in Timers, status \in Statuses}

Lists == [ListNames -> Seq(Message)]

NoMessages == [l \in ListNames |-> <<>>]

QueuesEmpty(ls) == \A l \in ListNames : ls[l] = <<>>

(* Some queued message of ls was sent by timer t.                           *)
Queued(ls, t) == \E l \in ListNames : \E i \in 1..Len(ls[l]) : ls[l][i].id = t

RenderQueued(ls) ==
  \E l \in ListNames : \E i \in 1..Len(ls[l]) : ls[l][i].type = "render"

-----------------------------------------------------------------------------
(* pushMessage: an ordinary message goes to the end of the list of its      *)
(* class, and that list becomes the active one.  A render message goes to   *)
(* the end of the active list, unless the thread is stopping or the active  *)
(* list already ends in a render message.                                   *)
Target(active, m) == IF m.type = "render" THEN active ELSE m.type

(* A push that looks for a pending render in every list of the queue        *)
(* instead of at the end of the list it pushes to.                          *)
Coalesced_AnyList(ls, active, m, stopping) ==
  /\ m.type = "render"
  /\ stopping \/ ls[active] # <<>>

Coalesced(ls, active, m, stopping) ==
  /\ m.type = "render"
  /\ \/ stopping
     \/ /\ ls[active] # <<>>
        /\ ls[active][Len(ls[active])].type = "render"

PushTo(ls, active, m, stopping) ==
  IF Coalesced(ls, active, m, stopping)
  THEN ls
  ELSE [ls EXCEPT ![Target(active, m)] = Append(@, m)]

-----------------------------------------------------------------------------
(* An order in which input waits for the other lists.                       *)
PopOrder_InputLast == [input |-> 4, timer |-> 1, service |-> 2, unknown |-> 3]

(* popMessage takes the first message of the first list that has one, in    *)
(* the order input, timer, service, unknown.                                *)
PopOrder == [input |-> 1, timer |-> 2, service |-> 3, unknown |-> 4]

FirstList(ls) ==
  CHOOSE l \in ListNames :
    /\ ls[l] # <<>>
    /\ \A k \in ListNames : ls[k] # <<>> => PopOrder[l] <= PopOrder[k]

PopResult(ls) == Head(ls[FirstList(ls)])

PopRest(ls) == [ls EXCEPT ![FirstList(ls)] = Tail(@)]

-----------------------------------------------------------------------------
(* deleteMessageByID on one list: what remains of the first n messages of q *)
(* when those with identifier id are deleted.                               *)
Kept(q, id) ==
  LET kept[n \in 0..Len(q)] ==
        IF n = 0 THEN <<>>
        ELSE IF q[n].id = id THEN kept[n - 1]
        ELSE Append(kept[n - 1], q[n])
  IN kept

(* A deletion that skips the timer list.                                    *)
DeleteMessageByID_NotTimers(ls, id) ==
  [l \in ListNames |-> IF l = "timer" THEN ls[l] ELSE Kept(ls[l], id)[Len(ls[l])]]

DeleteMessageByID(ls, id) ==
  [l \in ListNames |-> Kept(ls[l], id)[Len(ls[l])]]
=============================================================================
