----------------------------- MODULE TaskClient -----------------------------
(***************************************************************************)
(* A client of the task server: its thread gets the list of tasks, downloads   *)
(* every archive of it block by block, unpacks it and starts the plug it       *)
(* brings.  A request that is not answered within ten seconds fails; the       *)
(* connection is used again for the next one.                                *)
(*                                                                         *)
(* m_hExited is tested before and after each request and before each step of  *)
(* an archive.  Unpacking may fail; what was unpacked is started all the same. *)
(***************************************************************************)
EXTENDS TaskProtocol

CONSTANTS
  NoTask,  \* no archive is being downloaded
  MaxLate  \* how often the client gives up on an answer of one connection

ASSUME ClientAssumption == MaxLate \in Nat

VARIABLES
  cmain,  \* StartServer and StopServer of the client
  cpc,    \* WorkThreadClt
  todo,   \* m_arVecTask, what is left of it
  cur,    \* the task that is downloaded, with its tag
  buf,    \* pFile: the blocks it has been filled with
  plugs,  \* m_arStopPlug, m_arhModePlug: plugs that have been started
  late    \* how often it has given up on an answer of this connection

client == <<cmain, cpc, todo, cur, buf, plugs, late>>

ClientInit ==
  /\ cmain = "stopped" /\ cpc = "gone" /\ todo = {} /\ cur = NoTask
  /\ buf = <<>> /\ plugs = {} /\ late = 0

-----------------------------------------------------------------------------
(* On the machine of a super user no thread is started.                      *)
StartServer ==
  /\ cmain = "stopped" /\ cmain' = "running" /\ cpc' \in {"connect", "gone"}
  /\ UNCHANGED <<todo, cur, buf, plugs, late, link>>

StopServerClt ==
  /\ cmain = "running" /\ cmain' = "joining"
  /\ UNCHANGED <<cpc, todo, cur, buf, plugs, late, link>>

(* A stop that does not wait for the thread.                                 *)
JoinedClt_NoWait ==
  /\ cmain = "joining" /\ cmain' = "stopped"
  /\ Disconnect /\ plugs' = {}
  /\ UNCHANGED <<cpc, todo, cur, buf, late>>

(* The thread is gone: the socket is closed, every plug stopped and unloaded. *)
JoinedClt ==
  /\ cmain = "joining" /\ cpc = "gone" /\ cmain' = "stopped"
  /\ Disconnect /\ plugs' = {}
  /\ UNCHANGED <<cpc, todo, cur, buf, late>>

-----------------------------------------------------------------------------
ExitedClt == cmain = "joining"

(* The thread goes on at next, or leaves the loop.                           *)
Goto(next) == cpc' = IF ExitedClt THEN "gone" ELSE next

(* The data base or the channel server does not take the connection: it begins *)
(* again six seconds later, unless it is to exit.                            *)
ConnectFails ==
  /\ cpc = "connect" /\ Goto("connect")
  /\ UNCHANGED <<cmain, todo, cur, buf, plugs, late, link>>

ConnectSucceeds ==
  /\ cpc = "connect" /\ cpc' = "style" /\ Connect /\ late' = 0
  /\ UNCHANGED <<cmain, todo, cur, buf, plugs>>

-----------------------------------------------------------------------------
(* AfxSocketExecute: the next answer on the connection, whatever it answers;  *)
(* or none, when the connection is broken or ten seconds have passed.         *)

Received(a) == answers # <<>> /\ a = Head(answers)

Lost == ~connected

GivenUp == connected /\ answers = <<>> /\ late < MaxLate

(* The connection stays open until the stop, but nobody looks at it again.    *)
Leave == Disconnect /\ late' = 0

(* A request that got no answer.                                            *)
NoAnswer == late' = late + (IF Lost THEN 0 ELSE 1) /\ (Lost \/ GivenUp)

(* QueryReportLogStyle: a failure makes no difference.                        *)
QueryReportLogStyle ==
  /\ cpc = "style" /\ Goto("list")
  /\ \/ answers # <<>> /\ answers' = Tail(answers) /\ UNCHANGED late
     \/ NoAnswer /\ UNCHANGED answers
  /\ Ask(List)
  /\ UNCHANGED <<cmain, connected, todo, cur, buf, plugs>>

QueryTaskInfoFails ==
  /\ cpc = "list" /\ Goto("connect")
  /\ Received(Error) \/ Lost \/ GivenUp
  /\ Leave
  /\ UNCHANGED <<cmain, todo, cur, buf, plugs>>

(* A late answer about the style is taken for a list without tasks.           *)
TasksOf(a) == IF a.kind = "list" THEN a.tasks ELSE {}

QueryTaskInfo ==
  /\ cpc = "list" /\ Goto("next")
  /\ answers # <<>> /\ ~Received(Error)
  /\ todo' = TasksOf(Head(answers)) /\ answers' = Tail(answers)
  /\ UNCHANGED <<cmain, connected, asked, cur, buf, plugs, late>>

-----------------------------------------------------------------------------
(* DownTaskList: one archive after another; then the thread is done.          *)

DownTaskZipFile(o) ==
  /\ cpc = "next" /\ ~ExitedClt /\ o \in todo
  /\ todo' = todo \ {o} /\ cur' = o /\ buf' = <<>> /\ cpc' = "block"
  /\ Ask(Block(o.task, o.tag))
  /\ UNCHANGED <<cmain, connected, answers, plugs, late>>

DownTaskListEnds ==
  /\ cpc = "next" /\ (todo = {} \/ ExitedClt) /\ cpc' = "gone"
  /\ todo' = {} /\ Leave
  /\ UNCHANGED <<cmain, cur, buf, plugs>>

(* The next archive, if any: DownTaskList tests m_hExited before it.           *)
Abandon == cpc' = "next" /\ cur' = NoTask /\ buf' = <<>>

DownBlockFails ==
  /\ cpc = "block" /\ Abandon
  /\ \/ Received(Error) /\ answers' = Tail(answers) /\ UNCHANGED late
     \/ NoAnswer /\ UNCHANGED answers
  /\ UNCHANGED <<cmain, connected, asked, todo, plugs>>

(* The block is copied and the next one asked for, unless it is to exit: then   *)
(* the loop is left with what the buffer has, as it is left when it is full.   *)
DownBlock ==
  /\ cpc = "block" /\ answers # <<>> /\ ~Received(Error)
  /\ answers' = Tail(answers)
  /\ buf' = IF ExitedClt THEN buf ELSE Append(buf, Head(answers))
  /\ IF ExitedClt \/ Len(buf') = Blocks
     THEN cpc' = "unpack" /\ UNCHANGED asked
     ELSE UNCHANGED cpc /\ Ask(Block(cur.task, cur.tag))
  /\ UNCHANGED <<cmain, connected, todo, cur, plugs, late>>

(* UnZipTaskZipFile and RunPlugProcess: it is to exit, the archive is no       *)
(* archive with a config.xml, its library cannot be loaded, or it brings a     *)
(* process, which nobody will stop.                                         *)
UnpackEnds ==
  /\ cpc = "unpack" /\ Abandon
  /\ UNCHANGED <<cmain, todo, plugs, late, link>>

(* An archive that is unpacked and run without a look at m_hExited.            *)
Unpack_NoTest ==
  /\ cpc = "unpack" /\ Abandon
  /\ plugs' = plugs \cup {cur.task}
  /\ UNCHANGED <<cmain, todo, late, link>>

(* All its files are unpacked, or those before one that failed, and the        *)
(* library is started.                                                     *)
Unpack ==
  /\ cpc = "unpack" /\ ~ExitedClt /\ Abandon
  /\ plugs' = plugs \cup {cur.task}
  /\ UNCHANGED <<cmain, todo, late, link>>

-----------------------------------------------------------------------------
WorkThreadClt ==
  \/ ConnectFails
  \/ QueryReportLogStyle \/ QueryTaskInfoFails \/ QueryTaskInfo
  \/ (\E o \in todo : DownTaskZipFile(o)) \/ DownTaskListEnds
  \/ DownBlockFails \/ DownBlock
  \/ UnpackEnds \/ Unpack

ClientStep == StartServer \/ StopServerClt \/ JoinedClt \/ WorkThreadClt
=============================================================================
