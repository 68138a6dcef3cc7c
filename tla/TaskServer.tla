----------------------------- MODULE TaskServer -----------------------------
(***************************************************************************)
(* The server of the internet cafe: its thread asks the data centre for the   *)
(* list of tasks every two hours, or every six seconds when that fails,       *)
(* downloads the archives that are new or have changed, and keeps them in      *)
(* memory; the network module answers the clients from there.                *)
(*                                                                         *)
(* The data centre is external.  The two attempts at a download are one       *)
(* outcome, and so are the ways in which a round can fail early.  The event    *)
(* m_hExited is tested between the steps of a round.  The tag of an archive    *)
(* is the time at which it was made: no two are made within one second and    *)
(* the clock is not set back.                                               *)
(***************************************************************************)
EXTENDS TaskProtocol

CONSTANTS
  Absent,     \* the version of a task that is not listed
  Damaged,    \* what a download gave that is not what it should be
  First,      \* the version of every task at the beginning
  Changing,   \* tasks that are changed at the data centre
  MaxChanges, \* how often the data centre changes a task
  MaxStarts   \* how often the server is started

ASSUME ServerAssumption ==
  /\ Absent \notin Versions /\ Damaged \notin Versions \cup {Absent}
  /\ First \in Versions /\ Changing \subseteq Tasks
  /\ MaxChanges \in Nat /\ MaxStarts \in Nat

VARIABLES
  offered,  \* tasks and versions at the data centre
  changes,  \* how often it has changed
  smain,    \* where StartchannelMgr and StopchannelMgr are
  starts,   \* how often StartchannelMgr has been called
  serving,  \* the network module runs
  spc,      \* WorkThreadSvr
  fromIdc,  \* m_arAllTaskListFromIdc
  local,    \* m_arAllTaskListLocal
  need,     \* m_arNeedDownTaskList, what is left of it
  archive,  \* m_mapTaskZip
  clock     \* the time, in archives made

server == <<smain, starts, serving, spc, fromIdc, local, need, archive, clock>>
centre == <<offered, changes>>

NoArchive == [ver |-> Absent, tag |-> 0]
NoList == [t \in Tasks |-> Absent]
NoArchives == [t \in Tasks |-> NoArchive]

ServerInit ==
  /\ offered = [t \in Tasks |-> First] /\ changes = 0
  /\ smain = "stopped" /\ starts = 0 /\ serving = FALSE /\ spc = "gone"
  /\ fromIdc = NoList /\ local = NoList /\ need = {}
  /\ archive = NoArchives /\ clock = 0

-----------------------------------------------------------------------------
(* A task is added, changed or withdrawn at the data centre.                 *)
Change(t, v) ==
  /\ changes < MaxChanges /\ offered[t] # v
  /\ offered' = [offered EXCEPT ![t] = v] /\ changes' = changes + 1
  /\ UNCHANGED <<server, link>>

-----------------------------------------------------------------------------
(* StartchannelMgr does not look at the result of StartServer: when the port  *)
(* is taken the thread runs all the same.                                   *)
StartchannelMgr ==
  /\ smain = "stopped" /\ starts < MaxStarts
  /\ smain' = "running" /\ starts' = starts + 1 /\ spc' = "round"
  /\ serving' \in BOOLEAN
  /\ UNCHANGED <<centre, fromIdc, local, need, archive, clock, link>>

(* The network module stops first, with all its connections.                *)
StopServer ==
  /\ smain = "running" /\ smain' = "netstopped"
  /\ serving' = FALSE /\ Disconnect
  /\ UNCHANGED <<centre, starts, spc, fromIdc, local, need, archive, clock>>

(* m_hExited is set.                                                        *)
SetExited ==
  /\ smain = "netstopped" /\ smain' = "joining"
  /\ UNCHANGED <<centre, starts, serving, spc, fromIdc, local, need, archive, clock, link>>

ReleaseTask == 
  /\ archive' = NoArchives /\ fromIdc' = NoList /\ local' = NoList /\ need' = {}

(* The thread is gone and ReleaseTask frees everything.                      *)
Joined ==
  /\ smain = "joining" /\ spc = "gone"
  /\ smain' = "stopped" /\ ReleaseTask
  /\ UNCHANGED <<centre, starts, serving, spc, clock, link>>

-----------------------------------------------------------------------------
(* WorkThreadSvr.                                                           *)

Exited == smain = "joining"

(* A thread that never looks at the event.                                   *)
Step_NoTest(pc, next) ==
  /\ spc = pc /\ spc' = next
  /\ UNCHANGED <<centre, smain, starts, serving, link>>

(* The thread is at pc and goes on at next, unless it is to exit.             *)
Step(pc, next) ==
  /\ spc = pc /\ spc' = IF Exited THEN "gone" ELSE next
  /\ UNCHANGED <<centre, smain, starts, serving, link>>

(* No answer of the data base or the data centre, or one that cannot be       *)
(* parsed: ParseXml has emptied the list, and nobody looks at what it has read *)
(* before the failure.  The thread waits, for m_hExited or for its time.       *)
RoundFails ==
  /\ Step("round", "round") /\ fromIdc' \in {fromIdc, NoList}
  /\ UNCHANGED <<local, need, archive, clock>>

RoundSucceeds ==
  /\ Step("round", "check") /\ fromIdc' = offered
  /\ UNCHANGED <<local, need, archive, clock>>

(* A check that does not look at the version.                                *)
CheckNeedDownTask_ById ==
  /\ Step("check", "delete")
  /\ need' = {t \in Tasks : fromIdc[t] # Absent /\ local[t] = Absent}
  /\ local' = fromIdc
  /\ UNCHANGED <<fromIdc, archive, clock>>

(* What is new or has another version is to be downloaded; the local list is  *)
(* replaced before it has been.                                             *)
CheckNeedDownTask ==
  /\ Step("check", "delete")
  /\ need' = {t \in Tasks : fromIdc[t] # Absent /\ local[t] # fromIdc[t]}
  /\ local' = fromIdc
  /\ UNCHANGED <<fromIdc, archive, clock>>

DeleteNotUseTask ==
  /\ Step("delete", "down")
  /\ archive' = [t \in Tasks |-> IF local[t] = Absent THEN NoArchive ELSE archive[t]]
  /\ UNCHANGED <<fromIdc, local, need, clock>>

(* A download that is taken as it comes.                                    *)
Matches_NoMd5(t, v) == v # Absent

(* The md5 of the list: what was downloaded is the version it names.          *)
Matches(t, v) == v = fromIdc[t]

(* The tag of an archive is the time.                                       *)
Archive(t, v) == [ver |-> v, tag |-> clock + 1]

(* DownSingleTask gives v.  The new archive replaces the one that was served  *)
(* until now.                                                               *)
DownTask(t, v) ==
  /\ t \in need /\ Matches(t, v) /\ Step("down", "down")
  /\ archive' = [archive EXCEPT ![t] = Archive(t, v)]
  /\ clock' = clock + 1 /\ need' = need \ {t}
  /\ UNCHANGED <<fromIdc, local>>

(* EraseVecLocalTask: the next round will take the task for a new one.        *)
EraseVecLocalTask(t) == local' = [local EXCEPT ![t] = Absent]

(* A failure that is not put down.                                          *)
DownTaskFails_Kept(t) ==
  /\ t \in need /\ Step("down", "down")
  /\ need' = need \ {t}
  /\ UNCHANGED <<fromIdc, local, archive, clock>>

(* Neither attempt gave what the list names.                                 *)
DownTaskFails(t) ==
  /\ t \in need /\ Step("down", "down")
  /\ EraseVecLocalTask(t) /\ need' = need \ {t}
  /\ UNCHANGED <<fromIdc, archive, clock>>

(* The thread waits two hours.                                              *)
RoundDone ==
  /\ need = {} /\ Step("down", "round")
  /\ UNCHANGED <<fromIdc, local, need, archive, clock>>

-----------------------------------------------------------------------------
(* OnReceive, in a worker thread of the network module.                      *)

GetTaskZipInfo ==
  [kind |-> "list",
   tasks |-> {[task |-> t, tag |-> archive[t].tag] : t \in {u \in Tasks : archive[u] # NoArchive}}]

(* Blocks without a look at the tag.                                        *)
GetTaskZipFile_AnyTag(t, g) ==
  IF archive[t] # NoArchive
  THEN [kind |-> "block", task |-> t, ver |-> archive[t].ver, tag |-> archive[t].tag]
  ELSE Error

GetTaskZipFile(t, g) ==
  IF archive[t] # NoArchive /\ archive[t].tag = g
  THEN [kind |-> "block", task |-> t, ver |-> archive[t].ver, tag |-> g]
  ELSE Error

Answer(r) ==
  CASE r.kind = "style" -> Style
    [] r.kind = "list" -> GetTaskZipInfo
    [] r.kind = "block" -> GetTaskZipFile(r.task, r.tag)

OnReceive ==
  /\ serving /\ asked # <<>>
  /\ asked' = Tail(asked) /\ answers' = Append(answers, Answer(Head(asked)))
  /\ UNCHANGED <<connected, centre, server>>

-----------------------------------------------------------------------------
StopSvr == SetExited \/ Joined

WorkThreadSvr ==
  \/ RoundFails \/ RoundSucceeds \/ CheckNeedDownTask \/ DeleteNotUseTask
  \/ (\E t \in Tasks : DownTaskFails(t) \/ \E v \in Versions \cup {Damaged} : DownTask(t, v))
  \/ RoundDone

ServerStep ==
  \/ StartchannelMgr \/ StopServer \/ StopSvr \/ WorkThreadSvr \/ OnReceive
  \/ \E t \in Changing, v \in Versions \cup {Absent} : Change(t, v)
=============================================================================
