------------------------ MODULE TaskDistributionProofs ------------------------
(***************************************************************************)
(* The distribution of tasks for any tasks, versions and number of blocks, any *)
(* changes at the data centre and any number of starts and stops.             *)
(***************************************************************************)
EXTENDS TaskDistributionProperties, SequenceTheorems, TLAPS

ServerTypeOK ==
  /\ offered \in [Tasks -> Versions \cup {Absent}] /\ changes \in 0..MaxChanges
  /\ smain \in {"running", "netstopped", "joining", "stopped"} /\ starts \in 0..MaxStarts
  /\ serving \in BOOLEAN /\ spc \in {"round", "check", "delete", "down", "gone"}
  /\ fromIdc \in [Tasks -> Versions \cup {Absent}] /\ local \in [Tasks -> Versions \cup {Absent}]
  /\ need \in SUBSET Tasks /\ clock \in Nat
  /\ archive \in [Tasks -> [ver : Versions, tag : Nat] \cup {NoArchive}]

LinkTypeOK ==
  /\ connected \in BOOLEAN /\ asked \in Seq(Requests) /\ answers \in Seq(Answers)

ClientTypeOK ==
  /\ cmain \in {"running", "joining", "stopped"}
  /\ cpc \in {"gone", "connect", "style", "list", "next", "block", "unpack"}
  /\ todo \in SUBSET Offer /\ cur \in Offer \cup {NoTask}
  /\ buf \in Seq(Answers) /\ plugs \in SUBSET Tasks /\ late \in 0..MaxLate
  /\ cpc \in {"block", "unpack"} => cur \in Offer

Types == ServerTypeOK /\ LinkTypeOK /\ ClientTypeOK

(* What a round of the server has still to do, and what a stopped one has left. *)
RoundInv ==
  /\ spc \in {"round", "check"} => \A t \in Tasks : local[t] # Absent => archive[t].ver = local[t]
  /\ spc \in {"delete", "down"} =>
       /\ \A t \in Tasks \ need : local[t] # Absent => archive[t].ver = local[t]
       /\ \A t \in need : local[t] = fromIdc[t] /\ local[t] # Absent
  /\ smain = "stopped" => spc = "gone" /\ archive = NoArchives /\ local = NoList
  /\ smain # "running" => ~serving

(* A stopped client has no thread; one that runs unpacks what it has whole.      *)
ThreadInv ==
  /\ cmain = "stopped" => cpc = "gone" /\ plugs = {}
  /\ cpc = "unpack" /\ cmain = "running" => Len(buf) = Blocks

(* A block of the archive that is downloaded.                                 *)
Wanted(c) == c \in Contents /\ c.task = cur.task /\ c.tag = cur.tag

(* An answer that a request can get.                                          *)
Meets(r, a) ==
  \/ r.kind = "style" /\ a = Style
  \/ r.kind = "list" /\ a \in [kind : {"list"}, tasks : SUBSET Offer]
  \/ r.kind = "block" /\ (a = Error \/ (a \in Contents /\ a.task = r.task /\ a.tag = r.tag))

(* The connection holds one request, or its answer, or is broken.                *)
Empty == asked = <<>> /\ answers = <<>>
Await(r) ==
  \/ asked = <<r>> /\ answers = <<>>
  \/ asked = <<>> /\ Len(answers) = 1 /\ Meets(r, answers[1])
  \/ ~connected /\ Empty

(* Without late answers each request meets its own.                            *)
Paired ==
  /\ cpc \in {"next", "unpack"} => Empty
  /\ cpc = "style" => Await(Style)
  /\ cpc = "list" => Await(List)
  /\ cpc = "block" => Await(Block(cur.task, cur.tag))
  /\ cpc \in {"block", "unpack"} => \A i \in 1..Len(buf) : Wanted(buf[i])

LinkInv == (~connected => Empty) /\ (late = 0 => Paired)

(* Blocks the client has, or is about to get.                                  *)
Known == {c \in {buf[i] : i \in 1..Len(buf)} \cup {answers[i] : i \in 1..Len(answers)} :
            c \in Contents}

(* A tag stands for one version of a task, in the archive and on the way.        *)
TagInv ==
  /\ \A t \in Tasks : archive[t].tag <= clock
  /\ \A c \in Known : /\ c.tag <= clock
                      /\ archive[c.task] # NoArchive /\ archive[c.task].tag = c.tag
                           => archive[c.task].ver = c.ver
  /\ \A c, d \in Known : c.task = d.task /\ c.tag = d.tag => c.ver = d.ver

TaskInv == Types /\ RoundInv /\ ThreadInv /\ LinkInv /\ TagInv

-----------------------------------------------------------------------------
USE BlocksAssumption, ServerAssumption, ClientAssumption

(* A request is answered with what it asks for.                              *)
LEMMA AnswerMeets ==
  ASSUME ServerTypeOK, NEW r \in Requests
  PROVE  Answer(r) \in Answers /\ Meets(r, Answer(r))
<1>1. CASE r = Style
  BY <1>1 DEF Answer, Answers, Meets, Style
<1>2. CASE r = List
  <2>1. {[task |-> t, tag |-> archive[t].tag] : t \in {u \in Tasks : archive[u] # NoArchive}} \in SUBSET Offer
    BY DEF ServerTypeOK, Offer
  <2>2. GetTaskZipInfo \in [kind : {"list"}, tasks : SUBSET Offer]
    BY <2>1 DEF GetTaskZipInfo
  <2>3. Answer(r) = GetTaskZipInfo
    BY <1>2 DEF Answer, List
  <2> QED
    BY <1>2, <2>2, <2>3 DEF Answers, Meets, List
<1>3. CASE r \in [kind : {"block"}, task : Tasks, tag : Nat]
  <2>1. Answer(r) = GetTaskZipFile(r.task, r.tag) /\ r.kind = "block"
    BY <1>3 DEF Answer
  <2>2. CASE archive[r.task] # NoArchive /\ archive[r.task].tag = r.tag
    <3>1. archive[r.task].ver \in Versions
      BY <1>3, <2>2 DEF ServerTypeOK
    <3>2. Answer(r) = [kind |-> "block", task |-> r.task, ver |-> archive[r.task].ver, tag |-> r.tag]
      BY <2>1, <2>2 DEF GetTaskZipFile
    <3>3. Answer(r) \in Contents
      BY <1>3, <3>1, <3>2 DEF Contents
    <3> QED
      BY <2>1, <3>2, <3>3 DEF Answers, Meets
  <2>3. CASE ~(archive[r.task] # NoArchive /\ archive[r.task].tag = r.tag)
    <3>1. Answer(r) = Error
      BY <2>1, <2>3 DEF GetTaskZipFile
    <3>2. Error \in Answers
      BY DEF Answers
    <3> QED
      BY <2>1, <3>1, <3>2 DEF Meets
  <2> QED
    BY <2>2, <2>3
<1> QED
  BY <1>1, <1>2, <1>3 DEF Requests

LEMMA InitTypes == Init => Types
<1> SUFFICES ASSUME Init PROVE Types
  OBVIOUS
<1>1. ServerTypeOK
  <2>1. offered = [t \in Tasks |-> First] /\ changes = 0 /\ smain = "stopped" /\ starts = 0
        /\ serving = FALSE /\ spc = "gone" /\ need = {} /\ clock = 0
    BY DEF Init, ServerInit
  <2>2. fromIdc = NoList /\ local = NoList /\ archive = NoArchives
    BY DEF Init, ServerInit
  <2>3. NoList \in [Tasks -> Versions \cup {Absent}]
    BY DEF NoList
  <2>4. NoArchives \in [Tasks -> [ver : Versions, tag : Nat] \cup {NoArchive}]
    BY DEF NoArchives
  <2>5. offered \in [Tasks -> Versions \cup {Absent}] /\ changes \in 0..MaxChanges /\ starts \in 0..MaxStarts
    BY <2>1
  <2> QED
    BY <2>1, <2>2, <2>3, <2>4, <2>5 DEF ServerTypeOK
<1>2. LinkTypeOK
  BY EmptySeq DEF Init, LinkInit, LinkTypeOK
<1>3. ClientTypeOK
  BY DEF Init, ClientInit, ClientTypeOK
<1> QED
  BY <1>1, <1>2, <1>3 DEF Types

(* What the steps of the server do to its variables.                         *)
LEMMA ServerTypes == ServerTypeOK /\ LinkTypeOK /\ ServerStep => ServerTypeOK'
<1> SUFFICES ASSUME ServerTypeOK, LinkTypeOK, ServerStep PROVE ServerTypeOK'
  OBVIOUS
<1> USE DEF ServerTypeOK, centre, server, link
<1>1. ASSUME NEW t \in Changing, NEW v \in Versions \cup {Absent}, Change(t, v) PROVE ServerTypeOK'
  BY <1>1 DEF Change
<1>2. CASE StartchannelMgr
  BY <1>2 DEF StartchannelMgr
<1>3. CASE StopServer
  BY <1>3 DEF StopServer
<1>4. CASE SetExited
  BY <1>4 DEF SetExited
<1>5. CASE Joined
  BY <1>5 DEF Joined, ReleaseTask, NoList, NoArchives
<1>6. CASE RoundFails
  BY <1>6 DEF RoundFails, Step, NoList
<1>7. CASE RoundSucceeds
  BY <1>7 DEF RoundSucceeds, Step
<1>8. CASE CheckNeedDownTask
  BY <1>8 DEF CheckNeedDownTask, Step
<1>9. CASE DeleteNotUseTask
  <2>1. [t \in Tasks |-> IF local[t] = Absent THEN NoArchive ELSE archive[t]]
          \in [Tasks -> [ver : Versions, tag : Nat] \cup {NoArchive}]
    OBVIOUS
  <2> QED
    BY <1>9, <2>1 DEF DeleteNotUseTask, Step
<1>10. ASSUME NEW t \in Tasks, NEW v \in Versions \cup {Damaged}, DownTask(t, v) PROVE ServerTypeOK'
  <2>1. v \in Versions
    BY <1>10 DEF DownTask, Matches
  <2>2. Archive(t, v) \in [ver : Versions, tag : Nat]
    BY <2>1 DEF Archive
  <2> QED
    BY <1>10, <2>2 DEF DownTask, Step
<1>11. ASSUME NEW t \in Tasks, DownTaskFails(t) PROVE ServerTypeOK'
  BY <1>11 DEF DownTaskFails, Step, EraseVecLocalTask
<1>12. CASE RoundDone
  BY <1>12 DEF RoundDone, Step
<1>13. CASE OnReceive
  BY <1>13 DEF OnReceive
<1> QED
  BY <1>1, <1>2, <1>3, <1>4, <1>5, <1>6, <1>7, <1>8, <1>9, <1>10, <1>11, <1>12, <1>13
     DEF ServerStep, StopSvr, WorkThreadSvr

(* A connection is left alone, closed, or answered by a step of the server.     *)
LEMMA ServerLink == ServerStep => UNCHANGED link \/ Disconnect \/ OnReceive
<1> SUFFICES ASSUME ServerStep PROVE UNCHANGED link \/ Disconnect \/ OnReceive
  OBVIOUS
<1>1. ASSUME NEW t \in Changing, NEW v \in Versions \cup {Absent}, Change(t, v)
      PROVE  UNCHANGED link
  BY <1>1 DEF Change
<1>2. StartchannelMgr \/ SetExited \/ Joined => UNCHANGED link
  BY DEF StartchannelMgr, SetExited, Joined
<1>3. StopServer => Disconnect
  BY DEF StopServer
<1>4. WorkThreadSvr => UNCHANGED link
  BY DEF WorkThreadSvr, RoundFails, RoundSucceeds, CheckNeedDownTask, DeleteNotUseTask, DownTask,
         DownTaskFails, RoundDone, Step
<1> QED
  BY <1>1, <1>2, <1>3, <1>4 DEF ServerStep, StopSvr

LEMMA ServerLinkTypes == ServerTypeOK /\ LinkTypeOK /\ ServerStep => LinkTypeOK'
<1> SUFFICES ASSUME ServerTypeOK, LinkTypeOK, ServerStep PROVE LinkTypeOK'
  OBVIOUS
<1>1. CASE UNCHANGED link
  BY <1>1 DEF link, LinkTypeOK
<1>2. CASE Disconnect
  BY <1>2, EmptySeq DEF Disconnect, LinkTypeOK
<1>3. CASE OnReceive
  <2>1. Head(asked) \in Requests /\ Tail(asked) \in Seq(Requests)
    BY <1>3 DEF OnReceive, LinkTypeOK
  <2>2. Answer(Head(asked)) \in Answers
    BY <2>1, AnswerMeets
  <2> QED
    BY <1>3, <2>1, <2>2 DEF OnReceive, LinkTypeOK
<1> QED
  BY <1>1, <1>2, <1>3, ServerLink

LEMMA AskTypes ==
  ASSUME LinkTypeOK, NEW r \in Requests, Ask(r) PROVE asked' \in Seq(Requests)
BY DEF LinkTypeOK, Ask

(* What the steps of the client do to its variables and to the connection.       *)
LEMMA ClientTypes ==
  ClientTypeOK /\ LinkTypeOK /\ (ClientStep \/ ConnectSucceeds) => ClientTypeOK' /\ LinkTypeOK'
<1> SUFFICES ASSUME ClientTypeOK, LinkTypeOK, ClientStep \/ ConnectSucceeds
             PROVE  ClientTypeOK' /\ LinkTypeOK'
  OBVIOUS
<1> DEFINE Goal == ClientTypeOK' /\ LinkTypeOK'
<1>r. Style \in Requests /\ List \in Requests
  BY DEF Requests
<1>h. answers # <<>> => Head(answers) \in Answers /\ Tail(answers) \in Seq(Answers)
  BY DEF LinkTypeOK
<1>l. ASSUME NoAnswer PROVE late' \in 0..MaxLate
  BY <1>l DEF NoAnswer, Lost, GivenUp, ClientTypeOK
<1>d. ASSUME Disconnect PROVE LinkTypeOK'
  BY <1>d, EmptySeq DEF Disconnect, LinkTypeOK
<1>1. CASE StartServer
  BY <1>1 DEF StartServer, ClientTypeOK, LinkTypeOK, link
<1>2. CASE StopServerClt
  BY <1>2 DEF StopServerClt, ClientTypeOK, LinkTypeOK, link
<1>3. CASE JoinedClt
  BY <1>3, <1>d DEF JoinedClt, ClientTypeOK
<1>4. CASE ConnectFails
  BY <1>4 DEF ConnectFails, Goto, ClientTypeOK, LinkTypeOK, link
<1>5. CASE ConnectSucceeds
  BY <1>5, <1>r DEF ConnectSucceeds, Connect, ClientTypeOK, LinkTypeOK
<1>6. CASE QueryReportLogStyle
  <2>1. late' \in 0..MaxLate /\ answers' \in Seq(Answers)
    BY <1>6, <1>h, <1>l DEF QueryReportLogStyle, ClientTypeOK, LinkTypeOK
  <2>2. asked' \in Seq(Requests)
    BY <1>6, <1>r, AskTypes DEF QueryReportLogStyle
  <2> QED
    BY <1>6, <2>1, <2>2 DEF QueryReportLogStyle, Goto, ClientTypeOK, LinkTypeOK
<1>7. CASE QueryTaskInfoFails
  BY <1>7, <1>d DEF QueryTaskInfoFails, Leave, Goto, ClientTypeOK
<1>8. CASE QueryTaskInfo
  <2>1. TasksOf(Head(answers)) \in SUBSET Offer
    BY <1>8, <1>h DEF QueryTaskInfo, TasksOf, Answers, Style, Error, Contents
  <2> QED
    BY <1>8, <2>1, <1>h DEF QueryTaskInfo, Goto, ClientTypeOK, LinkTypeOK
<1>9. ASSUME NEW o \in todo, DownTaskZipFile(o) PROVE Goal
  <2>1. o \in Offer /\ Block(o.task, o.tag) \in Requests
    BY DEF ClientTypeOK, Offer, Block, Requests
  <2>2. asked' \in Seq(Requests)
    BY <1>9, <2>1, AskTypes DEF DownTaskZipFile
  <2> QED
    BY <1>9, <2>1, <2>2 DEF DownTaskZipFile, ClientTypeOK, LinkTypeOK
<1>10. CASE DownTaskListEnds
  BY <1>10, <1>d DEF DownTaskListEnds, Leave, ClientTypeOK
<1>11. CASE DownBlockFails
  <2>1. late' \in 0..MaxLate /\ answers' \in Seq(Answers)
    BY <1>11, <1>h, <1>l DEF DownBlockFails, Received, ClientTypeOK, LinkTypeOK
  <2> QED
    BY <1>11, <2>1, EmptySeq DEF DownBlockFails, Abandon, ClientTypeOK, LinkTypeOK
<1>12. CASE DownBlock
  <2>1. cur \in Offer /\ Block(cur.task, cur.tag) \in Requests
    BY <1>12 DEF DownBlock, ClientTypeOK, Offer, Block, Requests
  <2>2. asked' \in Seq(Requests)
    BY <1>12, <2>1, AskTypes DEF DownBlock, LinkTypeOK
  <2>3. buf' \in Seq(Answers)
    BY <1>12, <1>h DEF DownBlock, ClientTypeOK
  <2> QED
    BY <1>12, <1>h, <2>1, <2>2, <2>3 DEF DownBlock, ClientTypeOK, LinkTypeOK
<1>13. CASE UnpackEnds
  BY <1>13 DEF UnpackEnds, Abandon, ClientTypeOK, LinkTypeOK, link
<1>14. CASE Unpack
  <2>1. cur.task \in Tasks
    BY <1>14 DEF Unpack, ClientTypeOK, Offer
  <2> QED
    BY <1>14, <2>1 DEF Unpack, Abandon, ClientTypeOK, LinkTypeOK, link
<1> QED
  BY <1>1, <1>2, <1>3, <1>4, <1>5, <1>6, <1>7, <1>8, <1>9, <1>10, <1>11, <1>12, <1>13, <1>14
     DEF ClientStep, WorkThreadClt

LEMMA NextTypes == Types /\ [Next]_vars => Types'
<1> SUFFICES ASSUME Types, [Next]_vars PROVE Types'
  OBVIOUS
<1>1. CASE ServerAction
  <2>1. ServerTypeOK' /\ LinkTypeOK'
    BY <1>1, ServerTypes, ServerLinkTypes DEF ServerAction, Types
  <2>2. ClientTypeOK'
    BY <1>1 DEF ServerAction, client, Types, ClientTypeOK
  <2> QED
    BY <2>1, <2>2 DEF Types
<1>2. CASE ClientAction \/ Accept
  <2>1. ClientTypeOK' /\ LinkTypeOK'
    BY <1>2, ClientTypes DEF ClientAction, Accept, Types
  <2>2. ServerTypeOK'
    BY <1>2 DEF ClientAction, Accept, server, centre, Types, ServerTypeOK
  <2> QED
    BY <2>1, <2>2 DEF Types
<1>3. CASE UNCHANGED vars
  BY <1>3 DEF vars, server, centre, client, link, Types, ServerTypeOK, LinkTypeOK, ClientTypeOK
<1> QED
  BY <1>1, <1>2, <1>3 DEF Next

(* Every variable keeps its type.                                          *)
THEOREM TaskTypeCorrect == Spec => []TypeOK
<1>1. Types => TypeOK
  <2> SUFFICES ASSUME Types PROVE TypeOK
    OBVIOUS
  <2>1. archive \in [Tasks -> [ver : Versions \cup {Absent}, tag : Nat]]
    BY DEF Types, ServerTypeOK, NoArchive
  <2> QED
    BY <2>1 DEF Types, ServerTypeOK, LinkTypeOK, ClientTypeOK, TypeOK
<1> QED
  BY <1>1, InitTypes, NextTypes, PTL DEF Spec

-----------------------------------------------------------------------------
(* The rounds of the server.                                               *)
LEMMA RoundStep == Types /\ RoundInv /\ [Next]_vars => RoundInv'
<1> SUFFICES ASSUME Types, RoundInv, [Next]_vars PROVE RoundInv'
  OBVIOUS
<1> USE DEF RoundInv, centre
<1>a. /\ local \in [Tasks -> Versions \cup {Absent}] /\ fromIdc \in [Tasks -> Versions \cup {Absent}]
      /\ DOMAIN archive = Tasks /\ need \subseteq Tasks
  BY DEF Types, ServerTypeOK
<1>0. ASSUME UNCHANGED server PROVE RoundInv'
  BY <1>0 DEF server
<1>1. ASSUME NEW t \in Changing, NEW v \in Versions \cup {Absent}, Change(t, v) PROVE RoundInv'
  BY <1>1, <1>0 DEF Change
<1>2. CASE StartchannelMgr
  BY <1>2 DEF StartchannelMgr, NoList
<1>3. CASE StopServer
  BY <1>3 DEF StopServer
<1>4. CASE SetExited
  BY <1>4 DEF SetExited
<1>5. CASE Joined
  BY <1>5 DEF Joined, ReleaseTask, NoList
<1>6. CASE RoundFails
  BY <1>6 DEF RoundFails, Step, Exited
<1>7. CASE RoundSucceeds
  BY <1>7 DEF RoundSucceeds, Step, Exited
<1>8. CASE CheckNeedDownTask
  BY <1>8, <1>a DEF CheckNeedDownTask, Step, Exited
<1>9. CASE DeleteNotUseTask
  BY <1>9, <1>a DEF DeleteNotUseTask, Step, Exited
<1>10. ASSUME NEW t \in Tasks, NEW v \in Versions \cup {Damaged}, DownTask(t, v) PROVE RoundInv'
  BY <1>10, <1>a DEF DownTask, Matches, Archive, Step, Exited
<1>11. ASSUME NEW t \in Tasks, DownTaskFails(t) PROVE RoundInv'
  BY <1>11, <1>a DEF DownTaskFails, EraseVecLocalTask, Step, Exited
<1>12. CASE RoundDone
  BY <1>12, <1>a DEF RoundDone, Step, Exited
<1>13. CASE OnReceive
  BY <1>13, <1>0 DEF OnReceive
<1>14. CASE ServerAction
  BY <1>1, <1>2, <1>3, <1>4, <1>5, <1>6, <1>7, <1>8, <1>9, <1>10, <1>11, <1>12, <1>13, <1>14
     DEF ServerAction, ServerStep, StopSvr, WorkThreadSvr
<1> QED
  BY <1>0, <1>14 DEF Next, ClientAction, Accept, vars

(* The thread of the client.                                              *)
LEMMA ThreadStep == Types /\ ThreadInv /\ [Next]_vars => ThreadInv'
<1> SUFFICES ASSUME Types, ThreadInv, [Next]_vars PROVE ThreadInv'
  OBVIOUS
<1> USE DEF ThreadInv
<1>0. ASSUME UNCHANGED client PROVE ThreadInv'
  BY <1>0 DEF client
<1>1. CASE StartServer \/ StopServerClt \/ JoinedClt
  BY <1>1 DEF StartServer, StopServerClt, JoinedClt
<1>2. CASE ConnectFails \/ ConnectSucceeds \/ QueryReportLogStyle \/ QueryTaskInfoFails \/ QueryTaskInfo
  BY <1>2 DEF ConnectFails, ConnectSucceeds, QueryReportLogStyle, QueryTaskInfoFails, QueryTaskInfo,
              Goto
<1>3. ASSUME NEW o \in todo, DownTaskZipFile(o) PROVE ThreadInv'
  BY <1>3 DEF DownTaskZipFile
<1>4. CASE DownTaskListEnds
  BY <1>4 DEF DownTaskListEnds
<1>5. CASE DownBlockFails \/ UnpackEnds \/ Unpack
  BY <1>5 DEF DownBlockFails, UnpackEnds, Unpack, Abandon, link
<1>6. CASE DownBlock
  BY <1>6 DEF DownBlock, ExitedClt
<1>7. CASE ClientAction \/ Accept
  BY <1>1, <1>2, <1>3, <1>4, <1>5, <1>6, <1>7 DEF ClientAction, ClientStep, WorkThreadClt, Accept
<1> QED
  BY <1>0, <1>7 DEF Next, ServerAction, vars

LEMMA InitThreads == Init => RoundInv /\ ThreadInv
BY DEF Init, ServerInit, ClientInit, RoundInv, ThreadInv

THEOREM RoundsAndThreads == Spec => [](Types /\ RoundInv /\ ThreadInv)
BY InitTypes, InitThreads, NextTypes, RoundStep, ThreadStep, PTL DEF Spec

(* Between two rounds the local list names archives that are there.             *)
THEOREM ListNamesArchives == Spec => []ListAgrees
<1>1. RoundInv => ListAgrees
  BY DEF RoundInv, ListAgrees
<1> QED
  BY <1>1, RoundsAndThreads, PTL

(* A service that has been stopped has nothing left.                          *)
THEOREM NothingLeft == Spec => []StoppedIsQuiet
<1>1. RoundInv /\ ThreadInv => StoppedIsQuiet
  BY DEF RoundInv, ThreadInv, StoppedIsQuiet
<1> QED
  BY <1>1, RoundsAndThreads, PTL

(* Plugs are started from full buffers only.                                 *)
THEOREM PlugsFromWhole == Spec => StartsOnlyComplete
<1>1. Types /\ ThreadInv /\ [Next]_vars => [plugs' \subseteq plugs \/ Len(buf) = Blocks]_vars
  <2> SUFFICES ASSUME Types, ThreadInv, Next PROVE plugs' \subseteq plugs \/ Len(buf) = Blocks
    OBVIOUS
  <2>1. CASE ServerAction
    BY <2>1 DEF ServerAction, client
  <2>2. CASE Unpack
    BY <2>2 DEF Unpack, ExitedClt, ThreadInv, Types, ClientTypeOK
  <2>3. CASE Accept
    BY <2>3 DEF Accept, ConnectSucceeds
  <2>4. CASE ClientAction /\ ~Unpack
    BY <2>4 DEF ClientAction, ClientStep, WorkThreadClt, StartServer, StopServerClt, JoinedClt, ConnectFails,
                QueryReportLogStyle, QueryTaskInfoFails, QueryTaskInfo, DownTaskZipFile,
                DownTaskListEnds, DownBlockFails, DownBlock, UnpackEnds
  <2> QED
    BY <2>1, <2>2, <2>3, <2>4 DEF Next
<1> QED
  BY <1>1, RoundsAndThreads, PTL DEF Spec, StartsOnlyComplete

-----------------------------------------------------------------------------
(* The connection.  A step of the server keeps what the client waits for, an    *)
(* answer given or the connection closed.                                    *)
LEMMA AwaitKept ==
  ASSUME ServerTypeOK, NEW r \in Requests, Await(r), Disconnect \/ OnReceive
  PROVE  Await(r)'
<1>1. CASE Disconnect
  BY <1>1 DEF Disconnect, Await, Empty
<1>2. CASE OnReceive
  <2>1. asked = <<r>> /\ answers = <<>>
    BY <1>2 DEF OnReceive, Await, Empty
  <2>2. asked' = <<>> /\ answers' = <<Answer(r)>>
    BY <1>2, <2>1 DEF OnReceive
  <2>3. Meets(r, answers'[1]) /\ Len(answers') = 1
    BY <2>2, AnswerMeets
  <2>4. Meets(r, answers[1])'
    BY <2>3 DEF Meets
  <2> QED
    BY <2>2, <2>3, <2>4 DEF Await
<1> QED
  BY <1>1, <1>2

LEMMA AskedRequests ==
  ASSUME ClientTypeOK
  PROVE  /\ Style \in Requests /\ List \in Requests
         /\ cpc = "block" => Block(cur.task, cur.tag) \in Requests
BY DEF ClientTypeOK, Requests, Block, Offer

LEMMA LinkOfServer == Types /\ LinkInv /\ ServerAction => LinkInv'
<1> SUFFICES ASSUME Types, LinkInv, ServerAction PROVE LinkInv'
  OBVIOUS
<1>0. /\ UNCHANGED <<cpc, cur, buf, late>>
      /\ ServerTypeOK /\ ClientTypeOK
  BY DEF ServerAction, client, Types
<1>1. CASE UNCHANGED link
  BY <1>0, <1>1 DEF link, LinkInv, Paired, Await, Empty, Wanted
<1>2. CASE Disconnect \/ OnReceive
  <2>1. (~connected => Empty)'
    BY <1>2 DEF Disconnect, OnReceive, LinkInv, Empty
  <2>2. ASSUME late' = 0 PROVE Paired'
    <3>1. Paired
      BY <1>0, <2>2 DEF LinkInv
    <3>2. Empty => Empty'
      BY <1>2 DEF Disconnect, OnReceive, Empty
    <3>3. /\ cpc = "style" => Await(Style)'
          /\ cpc = "list" => Await(List)'
          /\ cpc = "block" => Await(Block(cur.task, cur.tag))'
      BY <1>0, <1>2, <3>1, AwaitKept, AskedRequests DEF Paired
    <3>4. cpc \in {"block", "unpack"} => \A i \in 1..Len(buf) : Wanted(buf[i])'
      BY <1>0, <3>1 DEF Paired, Wanted
    <3> QED
      BY <1>0, <3>1, <3>2, <3>3, <3>4 DEF Paired
  <2> QED
    BY <2>1, <2>2 DEF LinkInv
<1> QED
  BY <1>1, <1>2, ServerLink DEF ServerAction

(* The answer that is there is the one that is waited for, and the only one.     *)
LEMMA OnlyAnswer ==
  ASSUME LinkTypeOK, NEW r \in Requests, Await(r), answers # <<>>
  PROVE  asked = <<>> /\ Tail(answers) = <<>> /\ Meets(r, Head(answers)) /\ Head(answers) \in Answers
<1>1. asked = <<>> /\ Len(answers) = 1 /\ Meets(r, answers[1]) /\ answers \in Seq(Answers)
  BY DEF Await, Empty, LinkTypeOK
<1>2. Tail(answers) \in Seq(Answers) /\ Len(Tail(answers)) = 0
  BY <1>1
<1>3. Tail(answers) = <<>>
  BY <1>2, EmptySeq
<1>4. Head(answers) = answers[1] /\ Head(answers) \in Answers
  BY <1>1
<1> QED
  BY <1>1, <1>3, <1>4

(* A request on an empty connection.                                         *)
LEMMA AskedOnEmpty ==
  ASSUME NEW r \in Requests, asked = <<>>, answers' = <<>>, connected' = connected, Ask(r),
         connected \/ answers = <<>>
  PROVE  Await(r)' /\ (~connected => Empty)'
BY DEF Await, Empty, Ask

(* A step of the client's thread that leaves no connection, or does not look.   *)
LEMMA LinkDropped ==
  ASSUME Disconnect, cpc' \in {"gone", "connect"} PROVE LinkInv'
BY DEF Disconnect, LinkInv, Paired, Empty

LEMMA LinkOfClient ==
  ClientTypeOK /\ LinkTypeOK /\ ThreadInv /\ LinkInv /\ (ClientStep \/ ConnectSucceeds) => LinkInv'
<1> SUFFICES ASSUME ClientTypeOK, LinkTypeOK, ThreadInv, LinkInv, ClientStep \/ ConnectSucceeds
             PROVE  LinkInv'
  OBVIOUS
<1> USE AskedRequests
<1>0. ASSUME UNCHANGED link, cpc' \in {"gone", "connect"} PROVE LinkInv'
  BY <1>0 DEF link, LinkInv, Paired, Empty
<1>g. ASSUME NoAnswer, late' = 0 PROVE late = 0 /\ ~connected /\ Empty
  BY <1>g DEF NoAnswer, Lost, GivenUp, LinkInv, ClientTypeOK
<1>c. late' = late /\ answers # <<>> => connected
  BY DEF LinkInv, Empty
<1>1. CASE StartServer
  BY <1>1, <1>0 DEF StartServer
<1>2. CASE StopServerClt
  BY <1>2 DEF StopServerClt, link, LinkInv, Paired, Await, Empty, Wanted
<1>3. CASE JoinedClt
  BY <1>3, LinkDropped DEF JoinedClt
<1>4. CASE ConnectFails
  BY <1>4, <1>0 DEF ConnectFails, Goto
<1>5. CASE ConnectSucceeds
  <2>1. Await(Style)' /\ connected' /\ cpc' = "style"
    BY <1>5 DEF ConnectSucceeds, Connect, Await
  <2> QED
    BY <2>1 DEF LinkInv, Paired
<1>6. CASE QueryReportLogStyle
  <2>0. cpc = "style" /\ connected' = connected /\ Ask(List) /\ cpc' \in {"gone", "list"}
    BY <1>6 DEF QueryReportLogStyle, Goto
  <2>1. (~connected => Empty)'
    BY <1>6, <2>0 DEF QueryReportLogStyle, LinkInv, Empty, Ask
  <2>2. ASSUME late' = 0 PROVE Await(List)'
    <3>1. CASE answers # <<>> /\ answers' = Tail(answers) /\ UNCHANGED late
      <4>1. Await(Style)
        BY <2>0, <2>2, <3>1 DEF LinkInv, Paired
      <4>2. asked = <<>> /\ answers' = <<>>
        BY <3>1, <4>1, OnlyAnswer
      <4> QED
        BY <1>c, <2>0, <3>1, <4>2, AskedOnEmpty
    <3>2. CASE NoAnswer /\ UNCHANGED answers
      <4>1. ~connected /\ Empty
        BY <1>g, <2>2, <3>2
      <4> QED
        BY <2>0, <3>2, <4>1, AskedOnEmpty DEF Empty
    <3> QED
      BY <1>6, <3>1, <3>2 DEF QueryReportLogStyle
  <2> QED
    BY <2>0, <2>1, <2>2 DEF LinkInv, Paired
<1>7. CASE QueryTaskInfoFails
  BY <1>7, LinkDropped DEF QueryTaskInfoFails, Leave, Goto
<1>8. CASE QueryTaskInfo
  <2>1. /\ cpc = "list" /\ cpc' \in {"gone", "next"} /\ answers # <<>> /\ answers' = Tail(answers)
        /\ UNCHANGED <<connected, asked, late>>
    BY <1>8 DEF QueryTaskInfo, Goto
  <2>2. connected
    BY <1>c, <2>1
  <2>3. late = 0 => Empty'
    BY <2>1, OnlyAnswer DEF LinkInv, Paired, Empty
  <2> QED
    BY <2>1, <2>2, <2>3 DEF LinkInv, Paired
<1>9. ASSUME NEW o \in todo, DownTaskZipFile(o) PROVE LinkInv'
  <2>1. /\ cpc = "next" /\ cpc' = "block" /\ cur' = o /\ buf' = <<>> /\ Ask(Block(o.task, o.tag))
        /\ UNCHANGED <<connected, answers, late>>
    BY <1>9 DEF DownTaskZipFile
  <2>2. Block(o.task, o.tag) \in Requests
    BY DEF ClientTypeOK, Offer, Block, Requests
  <2>3. (~connected => Empty)'
    BY <2>1 DEF LinkInv, Empty, Ask
  <2>4. late = 0 => Await(Block(o.task, o.tag))'
    BY <2>1, <2>2, AskedOnEmpty DEF LinkInv, Paired, Empty
  <2>5. late = 0 => Await(Block(cur.task, cur.tag))'
    BY <2>1, <2>4 DEF Await, Meets, Block
  <2> QED
    BY <2>1, <2>3, <2>5 DEF LinkInv, Paired
<1>10. CASE DownTaskListEnds
  BY <1>10, LinkDropped DEF DownTaskListEnds, Leave
<1>11. CASE DownBlockFails
  <2>0. cpc = "block" /\ cpc' = "next" /\ UNCHANGED <<connected, asked>>
    BY <1>11 DEF DownBlockFails, Abandon
  <2>1. (~connected => Empty)'
    BY <1>11, <2>0 DEF DownBlockFails, Received, LinkInv, Empty
  <2>2. ASSUME late' = 0 PROVE Empty'
    <3>1. CASE Received(Error) /\ answers' = Tail(answers) /\ UNCHANGED late
      BY <2>0, <2>2, <3>1, OnlyAnswer DEF Received, LinkInv, Paired, Empty
    <3>2. CASE NoAnswer /\ UNCHANGED answers
      BY <1>g, <2>0, <2>2, <3>2 DEF Empty
    <3> QED
      BY <1>11, <3>1, <3>2 DEF DownBlockFails
  <2> QED
    BY <2>0, <2>1, <2>2 DEF LinkInv, Paired
<1>12. CASE DownBlock
  <2>0. /\ cpc = "block" /\ cpc' \in {"block", "unpack"} /\ answers # <<>> /\ answers' = Tail(answers)
        /\ ~Received(Error) /\ UNCHANGED <<connected, cur, late>>
        /\ buf' = buf \/ buf' = Append(buf, Head(answers))
        /\ cpc' = "unpack" => UNCHANGED asked
        /\ cpc' = "block" => Ask(Block(cur.task, cur.tag))
    BY <1>12 DEF DownBlock
  <2>1. connected
    BY <1>c, <2>0
  <2>2. ASSUME late = 0 PROVE Paired'
    <3>1. Await(Block(cur.task, cur.tag)) /\ Block(cur.task, cur.tag) \in Requests
      BY <2>0, <2>2 DEF LinkInv, Paired
    <3>2. asked = <<>> /\ answers' = <<>> /\ Meets(Block(cur.task, cur.tag), Head(answers))
      BY <2>0, <3>1, OnlyAnswer
    <3>3. Wanted(Head(answers))
      BY <2>0, <3>2 DEF Meets, Block, Received, Wanted
    <3>4. \A i \in 1..Len(buf') : Wanted(buf'[i])
      BY <2>0, <2>2, <3>3 DEF LinkInv, Paired, ClientTypeOK
    <3>5. cpc' = "block" => Await(Block(cur.task, cur.tag))'
      <4>1. cpc' = "block" => /\ connected' = connected /\ asked' = <<Block(cur.task, cur.tag)>>
        BY <2>0, <2>1, <3>2 DEF Ask
      <4> QED
        BY <2>0, <3>2, <4>1 DEF Await, Block
    <3> QED
      BY <2>0, <3>2, <3>4, <3>5 DEF Paired, Wanted, Empty
  <2> QED
    BY <2>0, <2>1, <2>2 DEF LinkInv
<1>13. CASE UnpackEnds \/ Unpack
  <2>1. cpc = "unpack" /\ cpc' = "next" /\ UNCHANGED <<connected, asked, answers, late>>
    BY <1>13 DEF UnpackEnds, Unpack, Abandon, link
  <2> QED
    BY <2>1 DEF LinkInv, Paired, Empty
<1> QED
  BY <1>1, <1>2, <1>3, <1>4, <1>5, <1>6, <1>7, <1>8, <1>9, <1>10, <1>11, <1>12, <1>13
     DEF ClientStep, WorkThreadClt

LEMMA LinkStep == Types /\ ThreadInv /\ LinkInv /\ [Next]_vars => LinkInv'
<1> SUFFICES ASSUME Types, ThreadInv, LinkInv, [Next]_vars PROVE LinkInv'
  OBVIOUS
<1>1. CASE UNCHANGED vars
  BY <1>1 DEF vars, client, link, LinkInv, Paired, Await, Empty, Wanted
<1> QED
  BY <1>1, LinkOfServer, LinkOfClient DEF Next, ClientAction, Accept, Types

-----------------------------------------------------------------------------
(* Tags.  A step keeps what is known or answers a request, and keeps what is in  *)
(* the archive or puts a new version there, under a new tag.                   *)

OldArchive(t) == archive'[t] = archive[t] \/ archive'[t] = NoArchive

LEMMA ArchiveMoves ==
  ASSUME Types, [Next]_vars
  PROVE  /\ \/ clock' = clock /\ \A t \in Tasks : OldArchive(t)
            \/ clock' = clock + 1 /\ \A t \in Tasks : OldArchive(t) \/ archive'[t].tag = clock + 1
         /\ \A t \in Tasks : archive'[t].tag <= clock' \/ archive'[t].tag = archive[t].tag
<1> DEFINE Kept == clock' = clock /\ \A t \in Tasks : OldArchive(t)
<1>0. NoArchive.tag = 0 /\ clock \in Nat /\ DOMAIN archive = Tasks
  BY DEF NoArchive, Types, ServerTypeOK
<1>1. UNCHANGED <<archive, clock>> => Kept
  BY DEF OldArchive
<1>2. CASE Joined
  BY <1>0, <1>2 DEF Joined, ReleaseTask, NoArchives, OldArchive
<1>3. CASE DeleteNotUseTask
  BY <1>0, <1>3 DEF DeleteNotUseTask, OldArchive
<1>4. ASSUME NEW t \in Tasks, NEW v \in Versions \cup {Damaged}, DownTask(t, v)
      PROVE  clock' = clock + 1 /\ \A u \in Tasks : OldArchive(u) \/ archive'[u].tag = clock + 1
  BY <1>0, <1>4 DEF DownTask, Archive, OldArchive
<1>5. ~(Joined \/ DeleteNotUseTask \/ \E t \in Tasks, v \in Versions \cup {Damaged} : DownTask(t, v))
        => UNCHANGED <<archive, clock>>
  BY DEF Next, vars, server, centre, ClientAction, Accept, ServerAction, ServerStep, StopSvr, WorkThreadSvr,
         Change, StartchannelMgr, StopServer, SetExited, RoundFails, RoundSucceeds,
         CheckNeedDownTask, DownTaskFails, RoundDone, OnReceive
<1>6. Kept \/ (clock' = clock + 1 /\ \A u \in Tasks : OldArchive(u) \/ archive'[u].tag = clock + 1)
  BY <1>0, <1>1, <1>2, <1>3, <1>4, <1>5 DEF Joined, DeleteNotUseTask, ReleaseTask
<1> QED
  BY <1>0, <1>6 DEF OldArchive

LEMMA KnownBlocks ==
  \A c : c \in Known <=> /\ c \in Contents
                         /\ \/ \E i \in 1..Len(buf) : c = buf[i]
                            \/ \E i \in 1..Len(answers) : c = answers[i]
BY DEF Known

(* Where the blocks come from that are known after a step.                     *)
LEMMA BlockMoves ==
  ASSUME Types, [Next]_vars
  PROVE  /\ \/ buf' = buf \/ buf' = <<>>
            \/ answers # <<>> /\ buf' = Append(buf, Head(answers))
         /\ \/ answers' = answers \/ answers' = <<>>
            \/ answers # <<>> /\ answers' = Tail(answers)
            \/ OnReceive
<1>1. CASE ServerAction
  BY <1>1, ServerLink DEF ServerAction, client, link, Disconnect
<1>2. CASE ClientAction \/ Accept
  BY <1>2 DEF ClientAction, Accept, ClientStep, WorkThreadClt, StartServer, StopServerClt, JoinedClt,
              ConnectFails, ConnectSucceeds, Connect, QueryReportLogStyle, QueryTaskInfoFails,
              QueryTaskInfo, DownTaskZipFile, DownTaskListEnds, DownBlockFails, DownBlock,
              UnpackEnds, Unpack, Abandon, Leave, Disconnect, Received, link
<1>3. CASE UNCHANGED vars
  BY <1>3 DEF vars, client, link
<1> QED
  BY <1>1, <1>2, <1>3 DEF Next

LEMMA KnownMoves ==
  ASSUME Types, [Next]_vars, NEW c \in Known'
  PROVE  c \in Known \/ (OnReceive /\ c = Answer(Head(asked)))
<1>1. buf \in Seq(Answers) /\ answers \in Seq(Answers)
  BY DEF Types, ClientTypeOK, LinkTypeOK
<1>2. c \in Contents /\ ((\E i \in 1..Len(buf') : c = buf'[i]) \/ \E i \in 1..Len(answers') : c = answers'[i])
  BY DEF Known
<1>3. answers # <<>> => Head(answers) = answers[1] /\ 1 \in 1..Len(answers)
  BY <1>1
<1>4. CASE \E i \in 1..Len(buf') : c = buf'[i]
  <2>1. CASE buf' = buf \/ buf' = <<>>
    BY <1>2, <1>4, <2>1, KnownBlocks
  <2>2. CASE answers # <<>> /\ buf' = Append(buf, Head(answers))
    <3>1. PICK i \in 1..Len(buf') : c = buf'[i]
      BY <1>4
    <3>2. c = answers[1] \/ (i \in 1..Len(buf) /\ c = buf[i])
      BY <1>1, <1>3, <2>2, <3>1
    <3> QED
      BY <1>2, <1>3, <2>2, <3>2, KnownBlocks
  <2> QED
    BY <2>1, <2>2, BlockMoves
<1>5. CASE \E i \in 1..Len(answers') : c = answers'[i]
  <2>0. PICK i \in 1..Len(answers') : c = answers'[i]
    BY <1>5
  <2>1. CASE answers' = answers \/ answers' = <<>>
    BY <1>2, <2>0, <2>1, KnownBlocks
  <2>2. CASE answers # <<>> /\ answers' = Tail(answers)
    <3>1. i + 1 \in 1..Len(answers) /\ c = answers[i + 1]
      BY <1>1, <2>0, <2>2
    <3> QED
      BY <1>2, <3>1, KnownBlocks
  <2>3. CASE OnReceive
    <3>1. answers' = Append(answers, Answer(Head(asked)))
      BY <2>3 DEF OnReceive
    <3>2. c = Answer(Head(asked)) \/ (i \in 1..Len(answers) /\ c = answers[i])
      <4>1. Head(asked) \in Requests
        BY <2>3 DEF OnReceive, Types, LinkTypeOK
      <4>2. Answer(Head(asked)) \in Answers
        BY <4>1, AnswerMeets DEF Types
      <4> QED
        BY <1>1, <2>0, <3>1, <4>2
    <3> QED
      BY <1>2, <2>3, <3>2, KnownBlocks
  <2> QED
    BY <2>1, <2>2, <2>3, BlockMoves
<1> QED
  BY <1>2, <1>4, <1>5

(* A block that is served is one of the archive that is there.                  *)
LEMMA ServedBlock ==
  ASSUME Types, OnReceive, Answer(Head(asked)) \in Contents, NEW c, c = Answer(Head(asked))
  PROVE  /\ UNCHANGED <<archive, clock>> /\ c.task \in Tasks
         /\ archive[c.task] # NoArchive /\ archive[c.task].tag = c.tag /\ archive[c.task].ver = c.ver
<1> DEFINE r == Head(asked)
<1>1. r \in Requests
  BY DEF OnReceive, Types, LinkTypeOK
<1>2. r.kind = "block" /\ c = GetTaskZipFile(r.task, r.tag)
  <2>1. r # Style
    BY DEF Answer, Style, Contents
  <2>2. r # List
    BY DEF Answer, List, GetTaskZipInfo, Contents
  <2>3. r \in [kind : {"block"}, task : Tasks, tag : Nat]
    BY <1>1, <2>1, <2>2 DEF Requests
  <2> QED
    BY <2>3 DEF Answer
<1>3. archive[r.task] # NoArchive /\ archive[r.task].tag = r.tag
  BY <1>2 DEF GetTaskZipFile, Error, Contents
<1>4. c = [kind |-> "block", task |-> r.task, ver |-> archive[r.task].ver, tag |-> r.tag]
  BY <1>2, <1>3 DEF GetTaskZipFile
<1>5. c.task \in Tasks
  BY DEF Contents
<1>6. UNCHANGED <<archive, clock>>
  BY DEF OnReceive, server
<1> QED
  BY <1>3, <1>4, <1>5, <1>6

LEMMA TagStep == Types /\ TagInv /\ [Next]_vars => TagInv'
<1> SUFFICES ASSUME Types, TagInv, [Next]_vars PROVE TagInv'
  OBVIOUS
<1>0. /\ clock \in Nat /\ NoArchive.tag = 0
      /\ \A t \in Tasks : archive[t].tag \in Nat
  BY DEF Types, ServerTypeOK, NoArchive
<1>1. clock' >= clock /\ clock' \in Nat
  BY <1>0, ArchiveMoves
<1>2. ASSUME NEW t \in Tasks PROVE archive'[t].tag <= clock'
  BY <1>0, <1>1, ArchiveMoves DEF TagInv
<1>3. ASSUME NEW c \in Known' PROVE c \in Contents /\ c.task \in Tasks /\ c.tag \in Nat
  BY DEF Known, Contents
<1>4. ASSUME NEW c \in Known'
      PROVE  /\ c.tag <= clock'
             /\ archive'[c.task] # NoArchive /\ archive'[c.task].tag = c.tag
                  => archive'[c.task].ver = c.ver
  <2>1. CASE c \in Known
    <3>1. c.tag <= clock /\ (archive[c.task] # NoArchive /\ archive[c.task].tag = c.tag
                               => archive[c.task].ver = c.ver)
      BY <2>1 DEF TagInv
    <3>2. OldArchive(c.task) \/ archive'[c.task].tag = clock + 1
      BY <1>3, <1>4, ArchiveMoves
    <3> QED
      BY <1>0, <1>1, <1>3, <1>4, <3>1, <3>2 DEF OldArchive
  <2>2. CASE OnReceive /\ c = Answer(Head(asked))
    <3>1. /\ UNCHANGED <<archive, clock>> /\ c.task \in Tasks
          /\ archive[c.task].tag = c.tag /\ archive[c.task].ver = c.ver
      BY <1>3, <1>4, <2>2, ServedBlock
    <3> QED
      BY <3>1 DEF TagInv
  <2> QED
    BY <1>4, <2>1, <2>2, KnownMoves
<1>5. ASSUME NEW c \in Known', NEW d \in Known', c.task = d.task, c.tag = d.tag PROVE c.ver = d.ver
  <2>1. CASE c \in Known /\ d \in Known
    BY <1>5, <2>1 DEF TagInv
  <2>2. ASSUME NEW x \in Known', NEW y \in Known', x.task = y.task, x.tag = y.tag,
               OnReceive, x = Answer(Head(asked))
        PROVE  x.ver = y.ver
    <3>1. /\ archive[x.task] # NoArchive /\ archive[x.task].tag = x.tag /\ archive[x.task].ver = x.ver
      BY <1>3, <2>2, ServedBlock
    <3>2. CASE y \in Known
      BY <2>2, <3>1, <3>2 DEF TagInv
    <3>3. CASE y = Answer(Head(asked))
      BY <2>2, <3>3
    <3> QED
      BY <2>2, <3>2, <3>3, KnownMoves
  <2> QED
    BY <1>5, <2>1, <2>2, KnownMoves
<1> QED
  BY <1>2, <1>4, <1>5 DEF TagInv, NoArchive

LEMMA InitLink == Init => LinkInv /\ TagInv
<1> SUFFICES ASSUME Init PROVE LinkInv /\ TagInv
  OBVIOUS
<1>1. LinkInv
  BY DEF Init, LinkInit, ClientInit, LinkInv, Paired, Empty
<1>2. Known = {}
  BY DEF Init, LinkInit, ClientInit, Known
<1>3. \A t \in Tasks : archive[t].tag = 0 /\ clock = 0
  BY DEF Init, ServerInit, NoArchives, NoArchive
<1> QED
  BY <1>1, <1>2, <1>3 DEF TagInv

THEOREM TaskInvariant == Spec => []TaskInv
<1>1. Init => TaskInv
  BY InitTypes, InitThreads, InitLink DEF TaskInv
<1>2. TaskInv /\ [Next]_vars => TaskInv'
  BY NextTypes, RoundStep, ThreadStep, LinkStep, TagStep DEF TaskInv
<1> QED
  BY <1>1, <1>2, PTL DEF Spec

(* What is unpacked is one whole archive.                                    *)
THEOREM UnpacksWhole == Spec => []WholeArchive
<1>1. TaskInv => WholeArchive
  <2> SUFFICES ASSUME TaskInv, cpc = "unpack", ~ExitedClt, late = 0
               PROVE  /\ Len(buf) = Blocks
                      /\ \E v \in Versions : \A i \in 1..Blocks :
                           buf[i] = [kind |-> "block", task |-> cur.task, ver |-> v, tag |-> cur.tag]
    BY DEF WholeArchive
  <2>1. Len(buf) = Blocks
    BY DEF TaskInv, ThreadInv, ExitedClt, Types, ClientTypeOK
  <2>2. \A i \in 1..Blocks : buf[i] \in Contents /\ buf[i].task = cur.task /\ buf[i].tag = cur.tag
    BY <2>1 DEF TaskInv, LinkInv, Paired, Wanted
  <2>3. \A i \in 1..Blocks : buf[i] \in Known
    BY <2>1, <2>2, KnownBlocks
  <2>4. 1 \in 1..Blocks
    OBVIOUS
  <2>5. \A i \in 1..Blocks : buf[i].ver = buf[1].ver
    BY <2>2, <2>3, <2>4 DEF TaskInv, TagInv
  <2>6. buf[1].ver \in Versions
    BY <2>2, <2>4 DEF Contents
  <2>7. \A i \in 1..Blocks :
          buf[i] = [kind |-> "block", task |-> cur.task, ver |-> buf[1].ver, tag |-> cur.tag]
    BY <2>2, <2>5 DEF Contents
  <2> QED
    BY <2>1, <2>6, <2>7
<1> QED
  BY <1>1, TaskInvariant, PTL
-----------------------------------------------------------------------------
(* Between the check of a round and its clean-up the local list is the one the *)
(* data centre gave.                                                        *)
DeletesByNewList == spc = "delete" => local = fromIdc

LEMMA DeletesStep == Types /\ DeletesByNewList /\ [Next]_vars => DeletesByNewList'
<1> SUFFICES ASSUME Types, DeletesByNewList, [Next]_vars PROVE DeletesByNewList'
  OBVIOUS
<1> USE DEF DeletesByNewList
<1>1. CASE UNCHANGED server
  BY <1>1 DEF server
<1>2. CASE StopSvr \/ StopServer \/ StartchannelMgr
  BY <1>2 DEF StopSvr, SetExited, Joined, StopServer, StartchannelMgr
<1>3. CASE WorkThreadSvr
  <2>1. spc' = "delete" => CheckNeedDownTask
    BY <1>3 DEF WorkThreadSvr, RoundFails, RoundSucceeds, DeleteNotUseTask, DownTask, DownTaskFails,
                RoundDone, Step
  <2>2. CheckNeedDownTask => local' = fromIdc'
    BY DEF CheckNeedDownTask
  <2> QED
    BY <2>1, <2>2
<1>4. UNCHANGED server \/ StopSvr \/ StopServer \/ StartchannelMgr \/ WorkThreadSvr
  BY DEF Next, vars, ServerAction, ClientAction, Accept, ServerStep, Change, OnReceive
<1> QED
  BY <1>1, <1>2, <1>3, <1>4

(* What was not stopped, withdrawn or replaced by a later archive of the version *)
(* of the list is what is served.                                            *)
Replaced(t) == archive'[t].ver = fromIdc[t] /\ archive'[t].tag > archive[t].tag
Withdrawn(t) == fromIdc[t] = Absent /\ archive'[t] = NoArchive

LEMMA ArchiveLeft ==
  ASSUME TaskInv, DeletesByNewList, [Next]_vars, NEW t \in Tasks, archive'[t] # archive[t]
  PROVE  smain' = "stopped" \/ Withdrawn(t) \/ Replaced(t)
<1>1. clock \in Nat /\ archive[t].tag \in Nat /\ archive[t].tag <= clock /\ DOMAIN archive = Tasks
  BY DEF TaskInv, Types, ServerTypeOK, TagInv, NoArchive
<1>2. CASE Joined
  BY <1>2 DEF Joined
<1>3. CASE DeleteNotUseTask
  BY <1>3 DEF DeleteNotUseTask, Step, DeletesByNewList, Withdrawn
<1>4. ASSUME NEW u \in Tasks, NEW v \in Versions \cup {Damaged}, DownTask(u, v) PROVE Replaced(t)
  <2>1. archive' = [archive EXCEPT ![u] = Archive(u, v)] /\ v = fromIdc[u]
    BY <1>4 DEF DownTask, Matches
  <2>2. t = u
    BY <1>1, <2>1
  <2>3. archive'[t] = [ver |-> v, tag |-> clock + 1]
    BY <1>1, <2>1, <2>2 DEF Archive
  <2> QED
    BY <1>1, <2>1, <2>2, <2>3 DEF Replaced
<1>5. Joined \/ DeleteNotUseTask \/ \E u \in Tasks, v \in Versions \cup {Damaged} : DownTask(u, v)
  BY DEF Next, vars, server, centre, ClientAction, Accept, ServerAction, ServerStep, StopSvr, WorkThreadSvr,
         Change, StartchannelMgr, StopServer, SetExited, RoundFails, RoundSucceeds,
         CheckNeedDownTask, DownTaskFails, RoundDone, OnReceive
<1> QED
  BY <1>2, <1>3, <1>4, <1>5

(* An archive is served until the server is stopped, its task is no longer in   *)
(* the list of the data centre, or a later archive of the version of that list   *)
(* takes its place: a round or a download that fails, a damaged download and a   *)
(* changed list take nothing away.                                           *)
THEOREM ServedUntilReplaced ==
  Spec => [][\A t \in Tasks : archive'[t] # archive[t] =>
               smain' = "stopped" \/ Withdrawn(t) \/ Replaced(t)]_vars
<1>1. Init => DeletesByNewList
  BY DEF Init, ServerInit, DeletesByNewList
<1>2. TaskInv => Types
  BY DEF TaskInv
<1>3. TaskInv /\ DeletesByNewList /\ [Next]_vars =>
        [\A t \in Tasks : archive'[t] # archive[t] =>
           smain' = "stopped" \/ Withdrawn(t) \/ Replaced(t)]_vars
  BY ArchiveLeft
<1> QED
  BY <1>1, <1>2, <1>3, TaskInvariant, DeletesStep, PTL DEF Spec

(* While the client has given up on no answer of the connection, what it waits    *)
(* for is its own: a request that is on its way, or the answer to that request.   *)
THEOREM AnswersMeet == Spec => [](late = 0 => Paired)
BY TaskInvariant, PTL DEF TaskInv, LinkInv
=============================================================================
