---------------------- MODULE TaskDistributionProperties ----------------------
(***************************************************************************)
(* What must hold of the distribution of tasks, whatever the data centre, the  *)
(* network and the two services do.                                         *)
(***************************************************************************)
EXTENDS TaskDistribution, FiniteSets

(* Every variable has a value of its type.                                  *)
TypeOK ==
  /\ connected \in BOOLEAN /\ asked \in Seq(Requests) /\ answers \in Seq(Answers)
  /\ offered \in [Tasks -> Versions \cup {Absent}] /\ changes \in 0..MaxChanges
  /\ smain \in {"running", "netstopped", "joining", "stopped"} /\ starts \in 0..MaxStarts
  /\ serving \in BOOLEAN /\ spc \in {"round", "check", "delete", "down", "gone"}
  /\ fromIdc \in [Tasks -> Versions \cup {Absent}] /\ local \in [Tasks -> Versions \cup {Absent}]
  /\ need \in SUBSET Tasks /\ clock \in Nat
  /\ archive \in [Tasks -> [ver : Versions \cup {Absent}, tag : Nat]]
  /\ cmain \in {"running", "joining", "stopped"}
  /\ cpc \in {"gone", "connect", "style", "list", "next", "block", "unpack"}
  /\ todo \in SUBSET Offer /\ cur \in Offer \cup {NoTask}
  /\ buf \in Seq(Answers) /\ plugs \in SUBSET Tasks /\ late \in 0..MaxLate

-----------------------------------------------------------------------------
(* Between two rounds every task in the local list has its archive, in the     *)
(* version of the list: what is not there will be downloaded by a later round, *)
(* although the list was replaced before the downloads.                      *)
ListAgrees ==
  spc = "round" =>
    \A t \in Tasks : local[t] # Absent => archive[t].ver = local[t]

(* What the client unpacks is the whole of one archive of the task it asked    *)
(* for: Blocks blocks of one version, those of the tag in the list, also when   *)
(* the server replaces the archive in the middle of the download.  It takes     *)
(* that the client has given up on no answer of this connection.             *)
WholeArchive ==
  cpc = "unpack" /\ ~ExitedClt /\ late = 0 =>
    /\ Len(buf) = Blocks
    /\ \E v \in Versions : \A i \in 1..Blocks :
         buf[i] = [kind |-> "block", task |-> cur.task, ver |-> v, tag |-> cur.tag]

(* Once a service has been stopped nothing of it is left: no thread, no plug     *)
(* that runs, no connection that is served, no archive.                      *)
StoppedIsQuiet ==
  /\ cmain = "stopped" => cpc = "gone" /\ plugs = {}
  /\ smain = "stopped" => spc = "gone" /\ ~serving /\ archive = NoArchives

-----------------------------------------------------------------------------
(* A plug is only started from a buffer that is full: a download that is left    *)
(* because the client is to exit brings none.                               *)
StartsOnlyComplete == [][plugs' \subseteq plugs \/ Len(buf) = Blocks]_vars

(* When the data centre changes no more, the server serves what it offers and   *)
(* nothing else, until it is stopped: a failed download is tried again.        *)
Current == \A t \in Tasks : archive[t].ver = offered[t]
ServesCurrent == <>[](smain # "running" \/ Current)

(* Both stops return.                                                       *)
StopsReturn ==
  /\ (smain = "netstopped") ~> (smain = "stopped")
  /\ (cmain = "joining") ~> (cmain = "stopped")
=============================================================================
