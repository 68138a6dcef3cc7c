-------------------------- MODULE TaskDistribution --------------------------
(***************************************************************************)
(* The task server of an internet cafe and one of its clients.  They share     *)
(* the connection and nothing else; it is there only while the server's        *)
(* network module runs.                                                     *)
(***************************************************************************)
EXTENDS TaskServer, TaskClient

vars == <<server, centre, client, link>>

Init == LinkInit /\ ServerInit /\ ClientInit

(* A connection the network module takes.                                   *)
Accept == serving /\ ConnectSucceeds /\ UNCHANGED <<server, centre>>

ServerAction == ServerStep /\ UNCHANGED client
ClientAction == ClientStep /\ UNCHANGED <<server, centre>>

Next == ServerAction \/ ClientAction \/ Accept

Spec == Init /\ [][Next]_vars

Server(A) == A /\ UNCHANGED client
Client(A) == A /\ UNCHANGED <<server, centre>>

(* The threads run, and a stop that has been asked for goes on.  A download    *)
(* and a round succeed now and then; nobody has to start or to stop anything.  *)
FairSpec ==
  /\ Spec
  /\ WF_vars(Server(StopSvr)) /\ WF_vars(Server(WorkThreadSvr))
  /\ SF_vars(Server(RoundSucceeds))
  /\ \A t \in Tasks : SF_vars(Server(\E v \in Versions : DownTask(t, v)))
  /\ WF_vars(Client(JoinedClt)) /\ WF_vars(Client(WorkThreadClt) \/ Accept)
  /\ WF_vars(Server(OnReceive))
=============================================================================
