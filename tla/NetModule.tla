------------------------------ MODULE NetModule ------------------------------
(***************************************************************************)
(* CNetModule of kcore: a server of request and reply over an I/O            *)
(* completion port.  Every connection is one AYNCRESULT, a block that holds   *)
(* its socket, its buffers and its one asynchronous operation; worker        *)
(* threads take completions from the port, handle them and post the next     *)
(* operation; an accept thread posts accepts; Stop ends the threads.         *)
(*                                                                         *)
(* Addresses of blocks and values of sockets are used again after they are   *)
(* freed.  Bytes are counted, not kept: of a request only the length its     *)
(* header declares matters, 0 standing for a header without signature.       *)
(* What a handler does to its own block is one step with the test that leads  *)
(* to it; what other threads can see (the map, the callback, the sockets) is  *)
(* a step of its own.                                                       *)
(***************************************************************************)
EXTENDS Integers, FiniteSets

CONSTANTS
  Blocks,        \* addresses of AYNCRESULT objects
  Sockets,       \* values of SOCKET
  None,          \* no block, no socket, no thread
  Workers,       \* the worker threads
  HeaderLength,  \* sizeof(PkgHeader)
  MaxLength,     \* PKG_MAXLENGTH, the size of both buffers of a block
  DWORD,         \* 2^32: lengths are computed modulo this
  AcceptBatch,   \* accepts posted in one go: 10 in the code
  WaitLimit,     \* MAXIMUM_WAIT_OBJECTS of the system
  PartialSends   \* a send may complete with fewer bytes than it was given

ASSUME NoneAssumption == None \notin Blocks \cup Sockets \cup Workers

ASSUME WorkersAssumption == IsFiniteSet(Workers)

ASSUME LengthAssumption ==
  /\ HeaderLength \in Nat \ {0} /\ MaxLength \in Nat /\ DWORD \in Nat
  /\ HeaderLength < MaxLength /\ 3 * MaxLength < DWORD
  /\ AcceptBatch \in Nat /\ WaitLimit \in Nat /\ PartialSends \in BOOLEAN

VARIABLES
  stop,    \* where Start and Stop are
  apc,     \* the accept thread
  posted,  \* idx of PostAcceptRequest
  wpc,     \* the worker threads
  wblk,    \* the block each of them handles
  locker,  \* the worker that keeps m_lockClient beyond one step
  blk,     \* the blocks
  client,  \* m_mapClient
  open,    \* sockets that are open
  known,   \* OnAccept minus OnClose calls the callback got for a socket
  quits    \* packets (LPOVERLAPPED)-1 in the port

vars == <<stop, apc, posted, wpc, wblk, locker, blk, client, open, known, quits>>

(* The operation of a block is pending in the system, its completion is      *)
(* queued at the port, or a worker holds the block; a leaked block is never   *)
(* used again.                                                              *)
Phases == {"none", "pending", "queued", "held", "leaked"}

Free == [phase |-> "none", socket |-> None, event |-> "ACCEPT", bytes |-> 0,
         recvlength |-> 0, len |-> 0, total |-> 0, sendlength |-> 0,
         declared |-> 0, reply |-> 0, delivered |-> 0]

Init ==
  /\ stop = "created" /\ apc = "gone" /\ posted = 0
  /\ wpc = [w \in Workers |-> "gone"] /\ wblk = [w \in Workers |-> None] /\ locker = None
  /\ blk = [b \in Blocks |-> Free] /\ client = [s \in Sockets |-> None]
  /\ open = {} /\ known = [s \in Sockets |-> 0] /\ quits = 0

-----------------------------------------------------------------------------
(* Start and Stop.                                                          *)

(* A thread that _beginthreadex cannot create has the handle 0 in m_Threads;   *)
(* Start does not look at it.                                               *)
Start ==
  /\ stop = "created" /\ stop' = "running"
  /\ apc' \in {"wait", "failed"} /\ wpc' \in [Workers -> {"get", "failed"}]
  /\ UNCHANGED <<posted, wblk, locker, blk, client, open, known, quits>>

(* The socket cannot be bound: Start calls Stop, which finds nothing to do.  *)
StartFails ==
  /\ stop = "created" /\ stop' = "stopped"
  /\ UNCHANGED <<apc, posted, wpc, wblk, locker, blk, client, open, known, quits>>

CloseListener ==
  /\ stop = "running" /\ stop' = "closed"
  /\ UNCHANGED <<apc, posted, wpc, wblk, locker, blk, client, open, known, quits>>

(* m_hExited is set, and there is a packet for every thread, the accept       *)
(* thread included, which does not take one.                                *)
NumThreads == Cardinality(Workers) + 1

PostQuits ==
  /\ stop = "closed" /\ stop' = "waiting" /\ quits' = NumThreads
  /\ UNCHANGED <<apc, posted, wpc, wblk, locker, blk, client, open, known>>

(* The system can wait for the handles of m_Threads.                          *)
Joinable ==
  NumThreads <= WaitLimit /\ apc # "failed" /\ \A w \in Workers : wpc[w] # "failed"

(* A wait for any of the threads.                                           *)
ThreadsJoined_Any == Joinable => apc = "gone" \/ \E w \in Workers : wpc[w] = "gone"

(* WaitForMultipleObjects on all threads; it fails at once when there are     *)
(* more than the system allows or one of the handles is 0, and Stop goes on.   *)
ThreadsJoined == Joinable => apc = "gone" /\ \A w \in Workers : wpc[w] = "gone"

(* The port goes, then the sockets in the map; their blocks are not freed.    *)
(* Stop does not take m_lockClient: what becomes of the map itself when a      *)
(* worker that a failed wait has left changes it in the middle is undefined,   *)
(* and one step here.                                                       *)
CloseAll ==
  /\ stop = "waiting" /\ ThreadsJoined
  /\ stop' = "stopped" /\ quits' = 0
  /\ open' = open \ {blk[client[s]].socket : s \in {r \in Sockets : client[r] # None}}
  /\ client' = [s \in Sockets |-> None]
  /\ UNCHANGED <<apc, posted, wpc, wblk, locker, blk, known>>

-----------------------------------------------------------------------------
(* The accept thread.  m_hExited comes first in its wait.                    *)

Exited == stop \in {"waiting", "stopped"}

AcceptThreadEnds ==
  /\ apc = "wait" /\ Exited /\ apc' = "gone"
  /\ UNCHANGED <<stop, posted, wpc, wblk, locker, blk, client, open, known, quits>>

(* A wait that gives the accept event before m_hExited.                      *)
AcceptEvent_First ==
  /\ apc = "wait" /\ apc' = "post" /\ posted' = 0
  /\ UNCHANGED <<stop, wpc, wblk, locker, blk, client, open, known, quits>>

(* A client connects and no accept is outstanding.                          *)
AcceptEvent ==
  /\ apc = "wait" /\ stop = "running" /\ apc' = "post" /\ posted' = 0
  /\ UNCHANGED <<stop, wpc, wblk, locker, blk, client, open, known, quits>>

(* One round of PostAcceptRequest.  Without a listening socket AcceptEx       *)
(* fails: the new socket is closed, the block is not freed.                  *)
PostAccept(b, s) ==
  /\ apc = "post" /\ posted < AcceptBatch
  /\ blk[b].phase = "none" /\ s \notin open
  /\ \/ /\ stop = "running"
        /\ blk' = [blk EXCEPT ![b] = [Free EXCEPT !.phase = "pending", !.socket = s]]
        /\ open' = open \cup {s} /\ posted' = posted + 1 /\ UNCHANGED apc
     \/ /\ stop # "running"
        /\ blk' = [blk EXCEPT ![b] = [Free EXCEPT !.phase = "leaked"]]
        /\ apc' = "wait" /\ UNCHANGED <<open, posted>>
  /\ UNCHANGED <<stop, wpc, wblk, locker, client, known, quits>>

(* The batch is posted, or no socket can be created.                        *)
PostAcceptReturns ==
  /\ apc = "post" /\ apc' = "wait" /\ posted' = 0
  /\ posted = AcceptBatch \/ open = Sockets \/ \A b \in Blocks : blk[b].phase # "none"
  /\ UNCHANGED <<stop, wpc, wblk, locker, blk, client, open, known, quits>>

-----------------------------------------------------------------------------
(* The system completes an operation, also after Stop: on a socket that has    *)
(* been closed with no bytes.                                               *)

Completes(b, r) ==
  /\ blk' = [blk EXCEPT ![b] = r]
  /\ UNCHANGED <<stop, apc, posted, wpc, wblk, locker, client, open, known, quits>>

(* A client has connected, or the listener has been closed.                  *)
AcceptCompletes(b) ==
  /\ blk[b].phase = "pending" /\ blk[b].event = "ACCEPT"
  /\ Completes(b, [blk[b] EXCEPT !.phase = "queued"])

(* Bytes arrive, or none because the peer is gone; the first ones bring a     *)
(* new header.                                                              *)
ReceiveCompletes(b, n, declared) ==
  /\ blk[b].phase = "pending" /\ blk[b].event = "RECEIVE" /\ n <= blk[b].len
  /\ blk[b].recvlength # 0 => declared = blk[b].declared
  /\ blk[b].socket \notin open => n = 0
  /\ Completes(b, [blk[b] EXCEPT !.phase = "queued", !.bytes = n, !.declared = declared])

SendCompletes(b, n) ==
  /\ blk[b].phase = "pending" /\ blk[b].event = "SEND" /\ n <= blk[b].len
  /\ n = 0 \/ n = blk[b].len \/ PartialSends
  /\ blk[b].socket \notin open => n = 0
  /\ Completes(b, [blk[b] EXCEPT !.phase = "queued", !.bytes = n, !.delivered = @ + n])

-----------------------------------------------------------------------------
(* The worker threads.                                                      *)

Dequeue(w, b) ==
  /\ wpc[w] = "get" /\ blk[b].phase = "queued" /\ stop # "stopped"
  /\ blk' = [blk EXCEPT ![b].phase = "held"]
  /\ wblk' = [wblk EXCEPT ![w] = b]
  /\ wpc' = [wpc EXCEPT ![w] =
       IF blk[b].event # "ACCEPT" /\ blk[b].bytes = 0 THEN "close" ELSE blk[b].event]
  /\ UNCHANGED <<stop, apc, posted, locker, client, open, known, quits>>

(* The packet of Stop, or the port has been closed.                          *)
WorkerEnds(w) ==
  /\ wpc[w] = "get"
  /\ \/ quits > 0 /\ quits' = quits - 1
     \/ stop = "stopped" /\ UNCHANGED quits
  /\ wpc' = [wpc EXCEPT ![w] = "gone"]
  /\ UNCHANGED <<stop, apc, posted, wblk, locker, blk, client, open, known>>

(* The worker goes on at pc.                                                *)
Goto(w, pc) == wpc' = [wpc EXCEPT ![w] = pc]

(* WSARecv and WSASend: the operation is pending and the worker is done with  *)
(* the block, or it fails and the block is closed.                          *)
Post(w, r) ==
  \/ /\ blk' = [blk EXCEPT ![wblk[w]] = [r EXCEPT !.phase = "pending", !.bytes = 0]]
     /\ Goto(w, "get") /\ wblk' = [wblk EXCEPT ![w] = None]
  \/ /\ blk' = [blk EXCEPT ![wblk[w]] = r]
     /\ Goto(w, "close") /\ UNCHANGED wblk

(* PostRecvRequest                                                          *)
ReceiveNew(r) ==
  [r EXCEPT !.event = "RECEIVE", !.len = MaxLength, !.recvlength = 0,
            !.sendlength = 0, !.total = 0, !.declared = 0, !.reply = 0, !.delivered = 0]

(* A continuation that forgets to shrink the buffer.                        *)
ReceiveRest_SameLength(r) ==
  [r EXCEPT !.event = "RECEIVE", !.recvlength = @ + r.bytes]

ReceiveRest(r) ==
  [r EXCEPT !.event = "RECEIVE", !.recvlength = @ + r.bytes, !.len = @ - r.bytes]

(* PostSendReqesut                                                          *)
SendNew(r, length) ==
  [r EXCEPT !.event = "SEND", !.total = length, !.sendlength = 0, !.len = length,
            !.recvlength = 0, !.declared = 0, !.reply = length, !.delivered = 0]

(* The same in signed numbers.                                              *)
SendRest_Signed(r) ==
  [r EXCEPT !.event = "SEND", !.total = @ - r.bytes, !.sendlength = @ + r.bytes,
            !.len = r.total - r.bytes - (r.sendlength + r.bytes)]

SendRest(r) ==
  LET total == (r.total - r.bytes) % DWORD
      sent == (r.sendlength + r.bytes) % DWORD
  IN [r EXCEPT !.event = "SEND", !.total = total, !.sendlength = sent,
               !.len = (total - sent) % DWORD]

(* The system does not take a length no buffer has.                         *)
PostSend(w, r) ==
  IF r.len <= 2 * MaxLength
  THEN Post(w, r)
  ELSE blk' = [blk EXCEPT ![wblk[w]] = r] /\ Goto(w, "close") /\ UNCHANGED wblk

(* An OnAccpet that posts the receive of a connection it has refused.        *)
OnAccpet_PostsRefused(w) ==
  /\ wpc[w] = "ACCEPT" /\ locker = None
  /\ LET b == wblk[w]
         s == blk[b].socket
     IN /\ client' = [client EXCEPT ![s] = IF @ = None THEN b ELSE @]
        /\ known' = [known EXCEPT ![s] = @ + 1]
        /\ \/ Goto(w, "first") /\ UNCHANGED <<locker, blk>>
           \/ /\ Goto(w, "close") /\ locker' = w
              /\ blk' = [blk EXCEPT ![b] = [ReceiveNew(@) EXCEPT !.phase = "pending"]]
  /\ UNCHANGED <<stop, apc, posted, wblk, open, quits>>

(* An OnAccpet that frees a refused connection without OnClose.              *)
OnAccpet_DeletesRefused(w) ==
  /\ wpc[w] = "ACCEPT" /\ locker = None
  /\ LET b == wblk[w]
         s == blk[b].socket
     IN /\ client' = [client EXCEPT ![s] = IF @ = None THEN b ELSE @]
        /\ known' = [known EXCEPT ![s] = @ + 1]
  /\ \/ Goto(w, "first") /\ UNCHANGED locker
     \/ Goto(w, "delete") /\ locker' = w
  /\ UNCHANGED <<stop, apc, posted, wblk, blk, open, quits>>

(* OnAccpet up to the unlock: the block is registered and the callback is     *)
(* asked.  A refused connection is closed before the lock is released.       *)
OnAccpet(w) ==
  /\ wpc[w] = "ACCEPT" /\ locker = None
  /\ LET b == wblk[w]
         s == blk[b].socket
     IN /\ client' = [client EXCEPT ![s] = IF @ = None THEN b ELSE @]
        /\ known' = [known EXCEPT ![s] = @ + 1]
  /\ \/ Goto(w, "first") /\ UNCHANGED locker
     \/ Goto(w, "close") /\ locker' = w
  /\ UNCHANGED <<stop, apc, posted, wblk, blk, open, quits>>

FirstReceive(w) ==
  /\ wpc[w] = "first" /\ Post(w, ReceiveNew(blk[wblk[w]]))
  /\ UNCHANGED <<stop, apc, posted, locker, client, open, known, quits>>

(* ParasePackage: the length of the package that length bytes begin; before   *)
(* the header is complete, a length they cannot have reached.                *)
ParasePackage_HeaderOnly(declared, length) ==
  IF length <= HeaderLength THEN MaxLength
  ELSE IF declared >= MaxLength THEN 0 ELSE declared

ParasePackage(declared, length) ==
  IF length < HeaderLength THEN MaxLength
  ELSE IF declared >= MaxLength THEN 0 ELSE declared

OnRecevie(w) ==
  LET r == blk[wblk[w]]
      received == r.recvlength + r.bytes
      length == ParasePackage(r.declared, received)
  IN /\ wpc[w] = "RECEIVE"
     /\ \/ /\ length < received
           /\ Goto(w, "close") /\ UNCHANGED <<blk, wblk>>
        \/ /\ length = received
           /\ \/ Goto(w, "close") /\ UNCHANGED <<blk, wblk>>
              \/ \E reply \in HeaderLength..MaxLength : PostSend(w, SendNew(r, reply))
        \/ /\ length > received
           /\ Post(w, ReceiveRest(r))
     /\ UNCHANGED <<stop, apc, posted, locker, client, open, known, quits>>

OnSend(w) ==
  LET r == blk[wblk[w]]
  IN /\ wpc[w] = "SEND"
     /\ \/ /\ r.sendlength + r.bytes >= r.total
           /\ \/ Goto(w, "close") /\ UNCHANGED <<blk, wblk>>
              \/ Post(w, ReceiveNew(r))
        \/ /\ r.sendlength + r.bytes < r.total
           /\ PostSend(w, SendRest(r))
     /\ UNCHANGED <<stop, apc, posted, locker, client, open, known, quits>>

-----------------------------------------------------------------------------
(* OnClose: out of the map, the callback, the socket, the block.             *)

(* A close that gives the socket back before the callback has heard of it.   *)
Unregister_ClosesSocket(w) ==
  LET b == wblk[w]
      s == blk[b].socket
  IN /\ wpc[w] = "close" /\ locker \in {None, w}
     /\ IF client[s] = b
        THEN /\ client' = [client EXCEPT ![s] = None] /\ open' = open \ {s}
             /\ Goto(w, "inform")
        ELSE Goto(w, "delete") /\ UNCHANGED <<client, open>>
     /\ UNCHANGED <<stop, apc, posted, wblk, locker, blk, known, quits>>

Unregister(w) ==
  LET b == wblk[w]
      s == blk[b].socket
  IN /\ wpc[w] = "close" /\ locker \in {None, w}
     /\ IF client[s] = b
        THEN client' = [client EXCEPT ![s] = None] /\ Goto(w, "inform")
        ELSE UNCHANGED client /\ Goto(w, "delete")
     /\ UNCHANGED <<stop, apc, posted, wblk, locker, blk, open, known, quits>>

Inform(w) ==
  /\ wpc[w] = "inform" /\ Goto(w, "closesocket")
  /\ known' = [known EXCEPT ![blk[wblk[w]].socket] = @ - 1]
  /\ UNCHANGED <<stop, apc, posted, wblk, locker, blk, client, open, quits>>

CloseSocket(w) ==
  /\ wpc[w] = "closesocket" /\ Goto(w, "delete")
  /\ open' = open \ {blk[wblk[w]].socket}
  /\ UNCHANGED <<stop, apc, posted, wblk, locker, blk, client, known, quits>>

Delete(w) ==
  /\ wpc[w] = "delete" /\ Goto(w, "get")
  /\ blk' = [blk EXCEPT ![wblk[w]] = Free]
  /\ wblk' = [wblk EXCEPT ![w] = None]
  /\ locker' = IF locker = w THEN None ELSE locker
  /\ UNCHANGED <<stop, apc, posted, client, open, known, quits>>

-----------------------------------------------------------------------------
Handle(w) ==
  \/ OnAccpet(w) \/ FirstReceive(w) \/ OnRecevie(w) \/ OnSend(w)
  \/ Unregister(w) \/ Inform(w) \/ CloseSocket(w) \/ Delete(w)

AcceptThread ==
  \/ AcceptThreadEnds \/ PostAcceptReturns
  \/ \E b \in Blocks, s \in Sockets : PostAccept(b, s)

StopStep == PostQuits \/ CloseAll

System ==
  \E b \in Blocks :
    \/ AcceptCompletes(b)
    \/ \E n \in 0..MaxLength, declared \in 0..MaxLength : ReceiveCompletes(b, n, declared)
    \/ \E n \in 0..MaxLength : SendCompletes(b, n)

Terminated == stop = "stopped" /\ apc \in {"gone", "failed"} /\ UNCHANGED vars

Next ==
  \/ Start \/ StartFails \/ CloseListener \/ StopStep
  \/ AcceptThread \/ AcceptEvent \/ System
  \/ \E w \in Workers : Handle(w) \/ WorkerEnds(w) \/ \E b \in Blocks : Dequeue(w, b)
  \/ Terminated

Spec == Init /\ [][Next]_vars

(* The scheduler runs every thread that can run, and the port gives out its    *)
(* packets in the order they were queued, so none is overtaken for ever.      *)
(* Nothing makes a peer send or a pending operation complete.                *)
FairSpec ==
  /\ Spec
  /\ WF_vars(StopStep) /\ WF_vars(AcceptThread)
  /\ \A w \in Workers : WF_vars(Handle(w))
  /\ SF_vars(\E w \in Workers : WorkerEnds(w))
  /\ \A b \in Blocks : SF_vars(\E w \in Workers : Dequeue(w, b))
=============================================================================
