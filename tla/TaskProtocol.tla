---------------------------- MODULE TaskProtocol ----------------------------
(***************************************************************************)
(* What the task server (CchannelMgr, Cchannelsvr) and its clients            *)
(* (Cchannelclt) say to each other: requests and answers on one connection,   *)
(* in order and without numbers.  A client that has waited too long goes on   *)
(* with the next request; the answer it did not wait for stays on the         *)
(* connection.                                                              *)
(*                                                                         *)
(* An archive is cut into Blocks blocks.  Of a block it matters where it      *)
(* comes from: the task, the version and the tag of the archive.             *)
(***************************************************************************)
EXTENDS Naturals, Sequences

CONSTANTS
  Tasks,     \* nTaskId
  Versions,  \* nTaskVer
  Blocks     \* blocks of FILE_BLOCK_SIZE in an archive

ASSUME BlocksAssumption == Blocks \in Nat \ {0}

VARIABLES
  connected,  \* the connection is open at both ends
  asked,      \* requests the server has not answered yet
  answers     \* answers the client has not read yet

link == <<connected, asked, answers>>

Style == [kind |-> "style"]
List == [kind |-> "list"]
Block(t, g) == [kind |-> "block", task |-> t, tag |-> g]

Requests == {Style, List} \cup [kind : {"block"}, task : Tasks, tag : Nat]

(* The status of an answer that is not an error is PKG_STA_SUCCESS.           *)
Error == [kind |-> "error"]
Contents == [kind : {"block"}, task : Tasks, ver : Versions, tag : Nat]
Offer == [task : Tasks, tag : Nat]
Answers ==
  {Style, Error} \cup [kind : {"list"}, tasks : SUBSET Offer] \cup Contents

LinkInit == connected = FALSE /\ asked = <<>> /\ answers = <<>>

(* AfxSocketConnect, and the first request.                                 *)
Connect == connected' = TRUE /\ asked' = <<Style>> /\ answers' = <<>>

(* Either side closes its socket.                                           *)
Disconnect == connected' = FALSE /\ asked' = <<>> /\ answers' = <<>>

(* A request on the way to the server; on a broken connection it fails.       *)
Ask(r) == asked' = IF connected THEN Append(asked, r) ELSE asked
=============================================================================
