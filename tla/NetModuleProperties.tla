------------------------- MODULE NetModuleProperties -------------------------
(***************************************************************************)
(* What must hold of CNetModule however its threads, the network and Stop    *)
(* interleave.                                                              *)
(***************************************************************************)
EXTENDS NetModule

StopPCs == {"created", "running", "closed", "waiting", "stopped"}

WorkerPCs == {"get", "ACCEPT", "RECEIVE", "SEND", "first", "close", "inform",
              "closesocket", "delete", "gone", "failed"}

Lengths == 0..DWORD - 1

Block == [phase : Phases, socket : Sockets \cup {None}, event : {"ACCEPT", "RECEIVE", "SEND"},
          bytes : 0..MaxLength, recvlength : 0..MaxLength, len : Lengths, total : Lengths,
          sendlength : Lengths, declared : 0..MaxLength, reply : 0..MaxLength,
          delivered : Nat]

(* Every variable has a value of its type.                                  *)
TypeOK ==
  /\ stop \in StopPCs /\ apc \in {"wait", "post", "gone", "failed"} /\ posted \in 0..AcceptBatch
  /\ wpc \in [Workers -> WorkerPCs] /\ wblk \in [Workers -> Blocks \cup {None}]
  /\ locker \in Workers \cup {None}
  /\ blk \in [Blocks -> Block] /\ client \in [Sockets -> Blocks \cup {None}]
  /\ open \subseteq Sockets /\ known \in [Sockets -> Int] /\ quits \in Nat

-----------------------------------------------------------------------------
Busy(w) == wpc[w] \notin {"get", "gone", "failed"}

(* A block has one owner: the system while its operation is pending, the port  *)
(* while its completion is queued, or one worker.  No worker frees a block    *)
(* the system may still write to, and no two workers handle the same one.    *)
SingleOwner ==
  /\ \A w \in Workers : Busy(w) => wblk[w] \in Blocks /\ blk[wblk[w]].phase = "held"
  /\ \A v, w \in Workers : Busy(v) /\ Busy(w) /\ wblk[v] = wblk[w] => v = w

(* The callback hears of a connection once when it is accepted and once when  *)
(* it is closed, and of no second connection with the same id in between:     *)
(* what it knows are the connections in the map and those that are just being *)
(* closed.                                                                  *)
CallbackPaired ==
  stop # "stopped" =>
    \A s \in Sockets :
      known[s] = IF client[s] # None
                    \/ \E w \in Workers : wpc[w] = "inform" /\ blk[wblk[w]].socket = s
                 THEN 1 ELSE 0

(* What m_mapClient says is true: the block it gives for a socket is alive and *)
(* has that socket, which is open.  GetPeerInfo follows that pointer.         *)
MapAccurate ==
  \A s \in Sockets : client[s] # None =>
    blk[client[s]].phase \in {"pending", "queued", "held"}
      /\ blk[client[s]].socket = s /\ s \in open

(* A receive that is posted fits in the rest of recvbuf and is not empty,      *)
(* however the package was cut: an empty one would complete with 0 bytes and  *)
(* be taken for the end of the connection.                                  *)
ReceiveFits ==
  \A b \in Blocks : blk[b].phase = "pending" /\ blk[b].event = "RECEIVE" =>
    blk[b].len >= 1 /\ blk[b].recvlength + blk[b].len = MaxLength

(* A worker in the middle of a handler when Stop has returned: there is one     *)
(* only where the wait for the threads failed.                               *)
LeftOver(w) == Busy(w) /\ ~Joinable

(* After Stop has returned no thread touches a connection: its block, its       *)
(* socket, its entry in the map, the callback.  Operations that were posted are  *)
(* completed by the system, into blocks nobody frees, and nobody takes the       *)
(* completion.  If the wait failed (from 32 processors on, or with a thread that *)
(* could not be created) Stop returns while threads run: then a worker ends the  *)
(* handler it is in, on the one connection it had taken before, and the accept   *)
(* thread may throw away a block that never had a connection.  StopServer deletes *)
(* the object next.                                                         *)
StopLeavesNobody ==
  [][stop = "stopped" =>
       /\ \A b \in Blocks : blk'[b] # blk[b] =>
            \/ blk[b].phase = "pending" /\ blk'[b].phase = "queued"
            \/ blk[b].phase = "none" /\ blk'[b].phase = "leaked" /\ ~Joinable
            \/ \E w \in Workers : LeftOver(w) /\ wblk[w] = b
       /\ \A s \in Sockets :
            client'[s] # client[s] \/ known'[s] # known[s] \/ (s \in open' <=> s \notin open) =>
              \E w \in Workers : LeftOver(w) /\ blk[wblk[w]].socket = s]_vars

(* "Send the rest of this package": when a reply is taken as sent and the next *)
(* receive is posted, the peer has been given every byte of the reply.        *)
RepliesWhole ==
  [][\A b \in Blocks :
       blk[b].event = "SEND" /\ blk'[b].event = "RECEIVE" => blk[b].delivered = blk[b].reply]_vars

-----------------------------------------------------------------------------
(* Stop returns: every worker takes one of the packets that Stop posts.       *)
StopReturns == (stop = "closed") ~> (stop = "stopped")

(* The completion of a whole, well-formed package is at the port.            *)
WholePackage(b) ==
  /\ blk[b].phase = "queued" /\ blk[b].event = "RECEIVE" /\ blk[b].bytes > 0
  /\ blk[b].declared \in HeaderLength..MaxLength - 1
  /\ blk[b].recvlength + blk[b].bytes = blk[b].declared

(* A whole request is answered, or its connection closed, also when it is no   *)
(* longer than a header; until Stop.                                        *)
RequestAnswered ==
  \A b \in Blocks :
    WholePackage(b) ~> blk[b].event = "SEND" \/ blk[b].phase = "none" \/ Exited
=============================================================================
