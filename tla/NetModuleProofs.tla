--------------------------- MODULE NetModuleProofs ---------------------------
(***************************************************************************)
(* CNetModule for any number of connections, sockets and workers: a block    *)
(* has one owner, the callback is told of every connection once, the map and  *)
(* the receive buffers are right, and Stop leaves no thread behind.          *)
(***************************************************************************)
EXTENDS NetModuleProperties, TLAPS, FiniteSetTheorems

Live(b) == blk[b].phase \in {"pending", "queued", "held"}

(* The block is in use and its socket has not been closed by OnClose.         *)
HasSocket(b) == Live(b) /\ \A w \in Workers : wpc[w] = "delete" => wblk[w] # b

Registered(b) == client[blk[b].socket] = b

(* Until Stop returns, a socket in use is open and belongs to one block.      *)
SocketsOwned ==
  stop # "stopped" =>
    /\ \A b \in Blocks : HasSocket(b) => blk[b].socket \in open
    /\ \A b, c \in Blocks :
         HasSocket(b) /\ HasSocket(c) /\ blk[b].socket = blk[c].socket => b = c

(* Outside the handlers a block is registered once its accept is completed.   *)
PortRegistered ==
  stop # "stopped" =>
    \A b \in Blocks : blk[b].phase \in {"pending", "queued"} =>
      (Registered(b) <=> blk[b].event # "ACCEPT")

(* Inside them it is from the lock in OnAccpet to the lock in OnClose.        *)
WorkerRegistered ==
  stop # "stopped" =>
    \A w \in Workers :
      /\ wpc[w] = "ACCEPT" => blk[wblk[w]].event = "ACCEPT"
      /\ wpc[w] \in {"ACCEPT", "inform", "closesocket", "delete"} => ~Registered(wblk[w])
      /\ wpc[w] \in {"first", "RECEIVE", "SEND", "close"} => Registered(wblk[w])

(* Nothing is registered that is not in use.                                *)
MapOwned ==
  stop # "stopped" =>
    \A s \in Sockets : client[s] # None =>
      client[s] \in Blocks /\ HasSocket(client[s]) /\ blk[client[s]].socket = s

(* The receive buffer is divided into what has come and what may come.        *)
BufferDivided ==
  \A b \in Blocks : blk[b].event = "RECEIVE" =>
    blk[b].len \in 1..MaxLength /\ blk[b].recvlength + blk[b].len = MaxLength

(* No more has come than was asked for.                                     *)
ReceivedFits ==
  /\ \A b \in Blocks : blk[b].phase = "queued" /\ blk[b].event = "RECEIVE" =>
       blk[b].bytes <= blk[b].len
  /\ \A w \in Workers : wpc[w] = "RECEIVE" =>
       blk[wblk[w]].event = "RECEIVE" /\ blk[wblk[w]].bytes <= blk[wblk[w]].len

(* Before Start and after Stop there are no threads and no connections.       *)
NoThreads ==
  stop = "created" \/ (stop = "stopped" /\ Joinable) =>
    apc = "gone" /\ (\A w \in Workers : wpc[w] = "gone") /\ \A s \in Sockets : client[s] = None

NetInv ==
  /\ TypeOK /\ SingleOwner
  /\ SocketsOwned /\ PortRegistered /\ WorkerRegistered /\ MapOwned
  /\ BufferDivided /\ ReceivedFits /\ NoThreads /\ CallbackPaired

-----------------------------------------------------------------------------
LEMMA FreeIsBlock == Free \in Block
BY NoneAssumption, LengthAssumption DEF Free, Block, Phases, Lengths

LEMMA PostedBlock ==
  ASSUME NEW r \in Block, NEW s \in Sockets
  PROVE  [r EXCEPT !.phase = "pending", !.socket = s] \in Block
BY DEF Block, Phases

LEMMA AcceptBlocks ==
  ASSUME NEW s \in Sockets
  PROVE  LET r == [Free EXCEPT !.phase = "pending", !.socket = s]
             l == [Free EXCEPT !.phase = "leaked"]
         IN /\ r \in Block /\ r.phase = "pending" /\ r.socket = s /\ r.event = "ACCEPT"
            /\ l \in Block /\ l.phase = "leaked" /\ l.event = "ACCEPT"
<1> DEFINE r == [Free EXCEPT !.phase = "pending", !.socket = s]
<1> DEFINE l == [Free EXCEPT !.phase = "leaked"]
<1>1. r \in Block
  BY PostedBlock, FreeIsBlock
<1>2. r.phase = "pending" /\ r.socket = s /\ r.event = "ACCEPT"
  BY DEF Free
<1>3. l \in Block
  BY FreeIsBlock DEF Block, Phases
<1>4. l.phase = "leaked" /\ l.event = "ACCEPT"
  BY DEF Free
<1> QED BY <1>1, <1>2, <1>3, <1>4

LEMMA CompletedBlock ==
  ASSUME NEW r \in Block, NEW n \in 0..MaxLength, NEW d \in 0..MaxLength
  PROVE  /\ [r EXCEPT !.phase = "queued", !.bytes = n, !.declared = d] \in Block
         /\ [r EXCEPT !.phase = "queued", !.bytes = n, !.delivered = @ + n] \in Block
<1>1. [r EXCEPT !.phase = "queued", !.bytes = n, !.declared = d] \in Block
  BY LengthAssumption DEF Block, Phases
<1>2. r.delivered + n \in Nat
  BY LengthAssumption DEF Block
<1>3. [r EXCEPT !.phase = "queued", !.bytes = n, !.delivered = @ + n] \in Block
  BY <1>2, LengthAssumption DEF Block, Phases
<1> QED BY <1>1, <1>3

LEMMA CountUp ==
  ASSUME NEW f \in [Sockets -> Int], NEW s, NEW n \in Int
  PROVE  [f EXCEPT ![s] = @ + n] \in [Sockets -> Int]
<1> SUFFICES ASSUME NEW r \in Sockets PROVE [f EXCEPT ![s] = @ + n][r] \in Int
  OBVIOUS
<1>1. CASE r = s
  BY <1>1
<1>2. CASE r # s
  BY <1>2
<1> QED BY <1>1, <1>2

LEMMA StartKeeps ==
  ASSUME NetInv, Start
  PROVE  NetInv'
<1> USE DEF NetInv
<1>1. TypeOK'
  BY NoneAssumption, LengthAssumption DEF TypeOK, StopPCs, WorkerPCs, NumThreads, Start
<1>2. SingleOwner'
  BY NoneAssumption, LengthAssumption DEF TypeOK, SingleOwner, Busy, Start
<1>3. SocketsOwned'
  BY DEF NoThreads, SocketsOwned, HasSocket, Live, TypeOK, Start
<1>4. PortRegistered'
  BY NoneAssumption, LengthAssumption DEF TypeOK, SingleOwner, Busy, SocketsOwned,
     HasSocket, Live, PortRegistered, WorkerRegistered, MapOwned, Registered, Start
<1>5. WorkerRegistered'
  BY NoneAssumption, LengthAssumption DEF TypeOK, SingleOwner, Busy, SocketsOwned,
     HasSocket, Live, PortRegistered, WorkerRegistered, MapOwned, Registered, Start
<1>6. MapOwned'
  BY NoneAssumption, LengthAssumption DEF TypeOK, SingleOwner, Busy, SocketsOwned,
     HasSocket, Live, PortRegistered, WorkerRegistered, MapOwned, Registered, Start
<1>7. BufferDivided'
  BY NoneAssumption, LengthAssumption DEF TypeOK, BufferDivided, Start
<1>8. ReceivedFits'
  BY NoneAssumption, LengthAssumption DEF TypeOK, SingleOwner, Busy, ReceivedFits, Start
<1>9. NoThreads'
  BY NoneAssumption, LengthAssumption DEF TypeOK, NoThreads, Joinable, NumThreads, Start
<1>10. CallbackPaired'
  <2>1. \A v \in Workers : wpc[v] # "inform" /\ wpc'[v] # "inform"
    BY DEF NoThreads, Start
  <2> QED BY <2>1 DEF CallbackPaired, Start
<1> QED BY <1>1, <1>2, <1>3, <1>4, <1>5, <1>6, <1>7, <1>8, <1>9, <1>10

LEMMA StartFailsKeeps ==
  ASSUME NetInv, StartFails
  PROVE  NetInv'
<1> USE DEF NetInv
<1>1. TypeOK'
  BY NoneAssumption, LengthAssumption DEF TypeOK, StopPCs, WorkerPCs, NumThreads, StartFails
<1>2. SingleOwner'
  BY NoneAssumption, LengthAssumption DEF TypeOK, SingleOwner, Busy, StartFails
<1>3. SocketsOwned'
  BY NoneAssumption, LengthAssumption DEF TypeOK, SingleOwner, Busy, SocketsOwned,
     HasSocket, Live, StartFails
<1>4. PortRegistered'
  BY NoneAssumption, LengthAssumption DEF TypeOK, SingleOwner, Busy, SocketsOwned,
     HasSocket, Live, PortRegistered, WorkerRegistered, MapOwned, Registered, StartFails
<1>5. WorkerRegistered'
  BY NoneAssumption, LengthAssumption DEF TypeOK, SingleOwner, Busy, SocketsOwned,
     HasSocket, Live, PortRegistered, WorkerRegistered, MapOwned, Registered, StartFails
<1>6. MapOwned'
  BY NoneAssumption, LengthAssumption DEF TypeOK, SingleOwner, Busy, SocketsOwned,
     HasSocket, Live, PortRegistered, WorkerRegistered, MapOwned, Registered, StartFails
<1>7. BufferDivided'
  BY NoneAssumption, LengthAssumption DEF TypeOK, BufferDivided, StartFails
<1>8. ReceivedFits'
  BY NoneAssumption, LengthAssumption DEF TypeOK, SingleOwner, Busy, ReceivedFits,
     StartFails
<1>9. NoThreads'
  BY NoneAssumption, LengthAssumption DEF TypeOK, NoThreads, Joinable, NumThreads, StartFails
<1>10. CallbackPaired'
  BY NoneAssumption, LengthAssumption DEF TypeOK, CallbackPaired, SingleOwner, Busy,
     SocketsOwned, HasSocket, Live, WorkerRegistered, MapOwned, Registered, StartFails
<1> QED BY <1>1, <1>2, <1>3, <1>4, <1>5, <1>6, <1>7, <1>8, <1>9, <1>10

LEMMA CloseListenerKeeps ==
  ASSUME NetInv, CloseListener
  PROVE  NetInv'
<1> USE DEF NetInv
<1>1. TypeOK'
  BY NoneAssumption, LengthAssumption DEF TypeOK, StopPCs, WorkerPCs, NumThreads,
     CloseListener
<1>2. SingleOwner'
  BY NoneAssumption, LengthAssumption DEF TypeOK, SingleOwner, Busy, CloseListener
<1>3. SocketsOwned'
  BY NoneAssumption, LengthAssumption DEF TypeOK, SingleOwner, Busy, SocketsOwned,
     HasSocket, Live, CloseListener
<1>4. PortRegistered'
  BY NoneAssumption, LengthAssumption DEF TypeOK, SingleOwner, Busy, SocketsOwned,
     HasSocket, Live, PortRegistered, WorkerRegistered, MapOwned, Registered, CloseListener
<1>5. WorkerRegistered'
  BY NoneAssumption, LengthAssumption DEF TypeOK, SingleOwner, Busy, SocketsOwned,
     HasSocket, Live, PortRegistered, WorkerRegistered, MapOwned, Registered, CloseListener
<1>6. MapOwned'
  BY NoneAssumption, LengthAssumption DEF TypeOK, SingleOwner, Busy, SocketsOwned,
     HasSocket, Live, PortRegistered, WorkerRegistered, MapOwned, Registered, CloseListener
<1>7. BufferDivided'
  BY NoneAssumption, LengthAssumption DEF TypeOK, BufferDivided, CloseListener
<1>8. ReceivedFits'
  BY NoneAssumption, LengthAssumption DEF TypeOK, SingleOwner, Busy, ReceivedFits,
     CloseListener
<1>9. NoThreads'
  BY NoneAssumption, LengthAssumption DEF TypeOK, NoThreads, Joinable, NumThreads, CloseListener
<1>10. CallbackPaired'
  BY NoneAssumption, LengthAssumption DEF TypeOK, CallbackPaired, SingleOwner, Busy,
     SocketsOwned, HasSocket, Live, WorkerRegistered, MapOwned, Registered, CloseListener
<1> QED BY <1>1, <1>2, <1>3, <1>4, <1>5, <1>6, <1>7, <1>8, <1>9, <1>10

LEMMA AcceptThreadEndsKeeps ==
  ASSUME NetInv, AcceptThreadEnds
  PROVE  NetInv'
<1> USE DEF NetInv
<1>1. TypeOK'
  BY NoneAssumption, LengthAssumption DEF TypeOK, StopPCs, WorkerPCs, NumThreads,
     AcceptThreadEnds, Exited
<1>2. SingleOwner'
  BY NoneAssumption, LengthAssumption DEF TypeOK, SingleOwner, Busy, AcceptThreadEnds,
     Exited
<1>3. SocketsOwned'
  BY NoneAssumption, LengthAssumption DEF TypeOK, SingleOwner, Busy, SocketsOwned,
     HasSocket, Live, AcceptThreadEnds, Exited
<1>4. PortRegistered'
  BY NoneAssumption, LengthAssumption DEF TypeOK, SingleOwner, Busy, SocketsOwned,
     HasSocket, Live, PortRegistered, WorkerRegistered, MapOwned, Registered,
     AcceptThreadEnds, Exited
<1>5. WorkerRegistered'
  BY NoneAssumption, LengthAssumption DEF TypeOK, SingleOwner, Busy, SocketsOwned,
     HasSocket, Live, PortRegistered, WorkerRegistered, MapOwned, Registered,
     AcceptThreadEnds, Exited
<1>6. MapOwned'
  BY NoneAssumption, LengthAssumption DEF TypeOK, SingleOwner, Busy, SocketsOwned,
     HasSocket, Live, PortRegistered, WorkerRegistered, MapOwned, Registered,
     AcceptThreadEnds, Exited
<1>7. BufferDivided'
  BY NoneAssumption, LengthAssumption DEF TypeOK, BufferDivided, AcceptThreadEnds, Exited
<1>8. ReceivedFits'
  BY NoneAssumption, LengthAssumption DEF TypeOK, SingleOwner, Busy, ReceivedFits,
     AcceptThreadEnds, Exited
<1>9. NoThreads'
  BY NoneAssumption, LengthAssumption DEF TypeOK, NoThreads, Joinable, NumThreads, AcceptThreadEnds,
     Exited
<1>10. CallbackPaired'
  BY NoneAssumption, LengthAssumption DEF TypeOK, CallbackPaired, SingleOwner, Busy,
     SocketsOwned, HasSocket, Live, WorkerRegistered, MapOwned, Registered,
     AcceptThreadEnds, Exited
<1> QED BY <1>1, <1>2, <1>3, <1>4, <1>5, <1>6, <1>7, <1>8, <1>9, <1>10

LEMMA AcceptEventKeeps ==
  ASSUME NetInv, AcceptEvent
  PROVE  NetInv'
<1> USE DEF NetInv
<1>1. TypeOK'
  BY NoneAssumption, LengthAssumption DEF TypeOK, StopPCs, WorkerPCs, NumThreads,
     AcceptEvent
<1>2. SingleOwner'
  BY NoneAssumption, LengthAssumption DEF TypeOK, SingleOwner, Busy, AcceptEvent
<1>3. SocketsOwned'
  BY NoneAssumption, LengthAssumption DEF TypeOK, SingleOwner, Busy, SocketsOwned,
     HasSocket, Live, AcceptEvent
<1>4. PortRegistered'
  BY NoneAssumption, LengthAssumption DEF TypeOK, SingleOwner, Busy, SocketsOwned,
     HasSocket, Live, PortRegistered, WorkerRegistered, MapOwned, Registered, AcceptEvent
<1>5. WorkerRegistered'
  BY NoneAssumption, LengthAssumption DEF TypeOK, SingleOwner, Busy, SocketsOwned,
     HasSocket, Live, PortRegistered, WorkerRegistered, MapOwned, Registered, AcceptEvent
<1>6. MapOwned'
  BY NoneAssumption, LengthAssumption DEF TypeOK, SingleOwner, Busy, SocketsOwned,
     HasSocket, Live, PortRegistered, WorkerRegistered, MapOwned, Registered, AcceptEvent
<1>7. BufferDivided'
  BY NoneAssumption, LengthAssumption DEF TypeOK, BufferDivided, AcceptEvent
<1>8. ReceivedFits'
  BY NoneAssumption, LengthAssumption DEF TypeOK, SingleOwner, Busy, ReceivedFits,
     AcceptEvent
<1>9. NoThreads'
  BY NoneAssumption, LengthAssumption DEF TypeOK, NoThreads, Joinable, NumThreads, AcceptEvent
<1>10. CallbackPaired'
  BY NoneAssumption, LengthAssumption DEF TypeOK, CallbackPaired, SingleOwner, Busy,
     SocketsOwned, HasSocket, Live, WorkerRegistered, MapOwned, Registered, AcceptEvent
<1> QED BY <1>1, <1>2, <1>3, <1>4, <1>5, <1>6, <1>7, <1>8, <1>9, <1>10

LEMMA PostAcceptReturnsKeeps ==
  ASSUME NetInv, PostAcceptReturns
  PROVE  NetInv'
<1> USE DEF NetInv
<1>1. TypeOK'
  BY NoneAssumption, LengthAssumption DEF TypeOK, StopPCs, WorkerPCs, NumThreads,
     PostAcceptReturns
<1>2. SingleOwner'
  BY NoneAssumption, LengthAssumption DEF TypeOK, SingleOwner, Busy, PostAcceptReturns
<1>3. SocketsOwned'
  BY NoneAssumption, LengthAssumption DEF TypeOK, SingleOwner, Busy, SocketsOwned,
     HasSocket, Live, PostAcceptReturns
<1>4. PortRegistered'
  BY NoneAssumption, LengthAssumption DEF TypeOK, SingleOwner, Busy, SocketsOwned,
     HasSocket, Live, PortRegistered, WorkerRegistered, MapOwned, Registered,
     PostAcceptReturns
<1>5. WorkerRegistered'
  BY NoneAssumption, LengthAssumption DEF TypeOK, SingleOwner, Busy, SocketsOwned,
     HasSocket, Live, PortRegistered, WorkerRegistered, MapOwned, Registered,
     PostAcceptReturns
<1>6. MapOwned'
  BY NoneAssumption, LengthAssumption DEF TypeOK, SingleOwner, Busy, SocketsOwned,
     HasSocket, Live, PortRegistered, WorkerRegistered, MapOwned, Registered,
     PostAcceptReturns
<1>7. BufferDivided'
  BY NoneAssumption, LengthAssumption DEF TypeOK, BufferDivided, PostAcceptReturns
<1>8. ReceivedFits'
  BY NoneAssumption, LengthAssumption DEF TypeOK, SingleOwner, Busy, ReceivedFits,
     PostAcceptReturns
<1>9. NoThreads'
  BY NoneAssumption, LengthAssumption DEF TypeOK, NoThreads, Joinable, NumThreads, PostAcceptReturns
<1>10. CallbackPaired'
  BY NoneAssumption, LengthAssumption DEF TypeOK, CallbackPaired, SingleOwner, Busy,
     SocketsOwned, HasSocket, Live, WorkerRegistered, MapOwned, Registered,
     PostAcceptReturns
<1> QED BY <1>1, <1>2, <1>3, <1>4, <1>5, <1>6, <1>7, <1>8, <1>9, <1>10

LEMMA PostQuitsKeeps ==
  ASSUME NetInv, PostQuits
  PROVE  NetInv'
<1> USE DEF NetInv
<1>1. TypeOK'
  BY NoneAssumption, LengthAssumption, WorkersAssumption, FS_CardinalityType DEF TypeOK,
     StopPCs, WorkerPCs, NumThreads, PostQuits
<1>2. SingleOwner'
  BY NoneAssumption, LengthAssumption, WorkersAssumption, FS_CardinalityType DEF TypeOK,
     SingleOwner, Busy, PostQuits
<1>3. SocketsOwned'
  BY NoneAssumption, LengthAssumption, WorkersAssumption, FS_CardinalityType DEF TypeOK,
     SingleOwner, Busy, SocketsOwned, HasSocket, Live, PostQuits
<1>4. PortRegistered'
  BY NoneAssumption, LengthAssumption, WorkersAssumption, FS_CardinalityType DEF TypeOK,
     SingleOwner, Busy, SocketsOwned, HasSocket, Live, PortRegistered, WorkerRegistered,
     MapOwned, Registered, PostQuits
<1>5. WorkerRegistered'
  BY NoneAssumption, LengthAssumption, WorkersAssumption, FS_CardinalityType DEF TypeOK,
     SingleOwner, Busy, SocketsOwned, HasSocket, Live, PortRegistered, WorkerRegistered,
     MapOwned, Registered, PostQuits
<1>6. MapOwned'
  BY NoneAssumption, LengthAssumption, WorkersAssumption, FS_CardinalityType DEF TypeOK,
     SingleOwner, Busy, SocketsOwned, HasSocket, Live, PortRegistered, WorkerRegistered,
     MapOwned, Registered, PostQuits
<1>7. BufferDivided'
  BY NoneAssumption, LengthAssumption, WorkersAssumption, FS_CardinalityType DEF TypeOK,
     BufferDivided, PostQuits
<1>8. ReceivedFits'
  BY NoneAssumption, LengthAssumption, WorkersAssumption, FS_CardinalityType DEF TypeOK,
     SingleOwner, Busy, ReceivedFits, PostQuits
<1>9. NoThreads'
  BY NoneAssumption, LengthAssumption, WorkersAssumption, FS_CardinalityType DEF TypeOK,
     NoThreads, Joinable, NumThreads, PostQuits
<1>10. CallbackPaired'
  BY NoneAssumption, LengthAssumption, WorkersAssumption, FS_CardinalityType DEF TypeOK,
     CallbackPaired, SingleOwner, Busy, SocketsOwned, HasSocket, Live, WorkerRegistered,
     MapOwned, Registered, PostQuits
<1> QED BY <1>1, <1>2, <1>3, <1>4, <1>5, <1>6, <1>7, <1>8, <1>9, <1>10

LEMMA CloseAllKeeps ==
  ASSUME NetInv, CloseAll
  PROVE  NetInv'
<1> USE DEF NetInv
<1>1. TypeOK'
  BY NoneAssumption, LengthAssumption DEF TypeOK, StopPCs, WorkerPCs, NumThreads, CloseAll,
     ThreadsJoined
<1>2. SingleOwner'
  BY NoneAssumption, LengthAssumption DEF TypeOK, SingleOwner, Busy, CloseAll, ThreadsJoined
<1>3. SocketsOwned'
  BY NoneAssumption, LengthAssumption DEF TypeOK, SingleOwner, Busy, SocketsOwned,
     HasSocket, Live, CloseAll, ThreadsJoined
<1>4. PortRegistered'
  BY NoneAssumption, LengthAssumption DEF TypeOK, SingleOwner, Busy, SocketsOwned,
     HasSocket, Live, PortRegistered, WorkerRegistered, MapOwned, Registered, CloseAll,
     ThreadsJoined
<1>5. WorkerRegistered'
  BY NoneAssumption, LengthAssumption DEF TypeOK, SingleOwner, Busy, SocketsOwned,
     HasSocket, Live, PortRegistered, WorkerRegistered, MapOwned, Registered, CloseAll,
     ThreadsJoined
<1>6. MapOwned'
  BY NoneAssumption, LengthAssumption DEF TypeOK, SingleOwner, Busy, SocketsOwned,
     HasSocket, Live, PortRegistered, WorkerRegistered, MapOwned, Registered, CloseAll,
     ThreadsJoined
<1>7. BufferDivided'
  BY NoneAssumption, LengthAssumption DEF TypeOK, BufferDivided, CloseAll, ThreadsJoined
<1>8. ReceivedFits'
  BY NoneAssumption, LengthAssumption DEF TypeOK, SingleOwner, Busy, ReceivedFits, CloseAll,
     ThreadsJoined
<1>9. NoThreads'
  BY NoneAssumption, LengthAssumption DEF TypeOK, NoThreads, Joinable, NumThreads, CloseAll,
     ThreadsJoined
<1>10. CallbackPaired'
  BY NoneAssumption, LengthAssumption DEF TypeOK, CallbackPaired, SingleOwner, Busy,
     SocketsOwned, HasSocket, Live, WorkerRegistered, MapOwned, Registered, CloseAll,
     ThreadsJoined
<1> QED BY <1>1, <1>2, <1>3, <1>4, <1>5, <1>6, <1>7, <1>8, <1>9, <1>10

LEMMA PostAcceptKeeps ==
  ASSUME NetInv, NEW b \in Blocks, NEW s \in Sockets, PostAccept(b, s)
  PROVE  NetInv'
<1> USE DEF NetInv
<1>a. PICK r \in Block :
        /\ blk' = [blk EXCEPT ![b] = r] /\ r.event = "ACCEPT"
        /\ \/ r.phase = "pending" /\ r.socket = s /\ open' = open \cup {s}
           \/ r.phase = "leaked" /\ open' = open
  BY AcceptBlocks DEF PostAccept
<1>b. /\ s \notin open /\ blk[b].phase = "none" /\ apc = "post"
      /\ UNCHANGED <<stop, wpc, wblk, locker, client, known, quits>>
  BY DEF PostAccept
<1>1. TypeOK'
  BY <1>a, <1>b, LengthAssumption DEF TypeOK, PostAccept
<1>2. SingleOwner'
  BY <1>a, <1>b, NoneAssumption DEF TypeOK, SingleOwner, Busy
<1>3. SocketsOwned'
  BY <1>a, <1>b, NoneAssumption DEF TypeOK, SingleOwner, Busy, SocketsOwned, HasSocket, Live
<1>4. PortRegistered'
  BY <1>a, <1>b, NoneAssumption DEF TypeOK, SingleOwner, Busy, SocketsOwned, HasSocket,
     Live, PortRegistered, WorkerRegistered, MapOwned, Registered
<1>5. WorkerRegistered'
  BY <1>a, <1>b, NoneAssumption DEF TypeOK, SingleOwner, Busy, SocketsOwned, HasSocket,
     Live, PortRegistered, WorkerRegistered, MapOwned, Registered
<1>6. MapOwned'
  BY <1>a, <1>b, NoneAssumption DEF TypeOK, SingleOwner, Busy, SocketsOwned, HasSocket,
     Live, PortRegistered, WorkerRegistered, MapOwned, Registered
<1>7. BufferDivided'
  BY <1>a, <1>b, NoneAssumption DEF TypeOK, BufferDivided
<1>8. ReceivedFits'
  BY <1>a, <1>b, NoneAssumption DEF TypeOK, SingleOwner, Busy, ReceivedFits
<1>9. NoThreads'
  BY <1>a, <1>b, NoneAssumption DEF TypeOK, NoThreads, Joinable, NumThreads
<1>10. CallbackPaired'
  BY <1>a, <1>b, NoneAssumption DEF TypeOK, CallbackPaired, SingleOwner, Busy, SocketsOwned,
     HasSocket, Live, WorkerRegistered, MapOwned, Registered
<1> QED BY <1>1, <1>2, <1>3, <1>4, <1>5, <1>6, <1>7, <1>8, <1>9, <1>10

LEMMA AcceptCompletesKeeps ==
  ASSUME NetInv, NEW b \in Blocks, AcceptCompletes(b)
  PROVE  NetInv'
<1> USE DEF NetInv
<1>1. TypeOK'
  BY NoneAssumption, LengthAssumption DEF TypeOK, StopPCs, WorkerPCs, NumThreads,
     AcceptCompletes, Completes, Block, Phases
<1>2. SingleOwner'
  BY NoneAssumption, LengthAssumption DEF TypeOK, SingleOwner, Busy, AcceptCompletes,
     Completes, Block, Phases
<1>3. SocketsOwned'
  BY NoneAssumption, LengthAssumption DEF TypeOK, SingleOwner, Busy, SocketsOwned,
     HasSocket, Live, AcceptCompletes, Completes, Block, Phases
<1>4. PortRegistered'
  BY NoneAssumption, LengthAssumption DEF TypeOK, SingleOwner, Busy, SocketsOwned,
     HasSocket, Live, PortRegistered, WorkerRegistered, MapOwned, Registered,
     AcceptCompletes, Completes, Block, Phases
<1>5. WorkerRegistered'
  BY NoneAssumption, LengthAssumption DEF TypeOK, SingleOwner, Busy, SocketsOwned,
     HasSocket, Live, PortRegistered, WorkerRegistered, MapOwned, Registered,
     AcceptCompletes, Completes, Block, Phases
<1>6. MapOwned'
  BY NoneAssumption, LengthAssumption DEF TypeOK, SingleOwner, Busy, SocketsOwned,
     HasSocket, Live, PortRegistered, WorkerRegistered, MapOwned, Registered,
     AcceptCompletes, Completes, Block, Phases
<1>7. BufferDivided'
  BY NoneAssumption, LengthAssumption DEF TypeOK, BufferDivided, AcceptCompletes, Completes,
     Block, Phases
<1>8. ReceivedFits'
  BY NoneAssumption, LengthAssumption DEF TypeOK, SingleOwner, Busy, ReceivedFits,
     AcceptCompletes, Completes, Block, Phases
<1>9. NoThreads'
  BY NoneAssumption, LengthAssumption DEF TypeOK, NoThreads, Joinable, NumThreads, AcceptCompletes,
     Completes, Block, Phases
<1>10. CallbackPaired'
  BY NoneAssumption, LengthAssumption DEF TypeOK, CallbackPaired, SingleOwner, Busy,
     SocketsOwned, HasSocket, Live, WorkerRegistered, MapOwned, Registered, AcceptCompletes,
     Completes, Block, Phases
<1> QED BY <1>1, <1>2, <1>3, <1>4, <1>5, <1>6, <1>7, <1>8, <1>9, <1>10

LEMMA ReceiveCompletesKeeps ==
  ASSUME NetInv, NEW b \in Blocks, NEW n \in 0..MaxLength, NEW d \in 0..MaxLength,
         ReceiveCompletes(b, n, d)
  PROVE  NetInv'
<1> USE DEF NetInv
<1>1. TypeOK'
  <2>1. [blk[b] EXCEPT !.phase = "queued", !.bytes = n, !.declared = d] \in Block
    BY CompletedBlock, LengthAssumption DEF TypeOK
  <2>2. blk' = [blk EXCEPT ![b] = [blk[b] EXCEPT !.phase = "queued", !.bytes = n, !.declared = d]]
    BY DEF ReceiveCompletes, Completes
  <2>3. blk' \in [Blocks -> Block]
    BY <2>1, <2>2 DEF TypeOK
  <2> QED BY <2>3 DEF TypeOK, ReceiveCompletes, Completes
<1>2. SingleOwner'
  BY NoneAssumption, LengthAssumption DEF TypeOK, SingleOwner, Busy, ReceiveCompletes,
     Completes, Block, Phases
<1>3. SocketsOwned'
  BY NoneAssumption, LengthAssumption DEF TypeOK, SingleOwner, Busy, SocketsOwned,
     HasSocket, Live, ReceiveCompletes, Completes, Block, Phases
<1>4. PortRegistered'
  BY NoneAssumption, LengthAssumption DEF TypeOK, SingleOwner, Busy, SocketsOwned,
     HasSocket, Live, PortRegistered, WorkerRegistered, MapOwned, Registered,
     ReceiveCompletes, Completes, Block, Phases
<1>5. WorkerRegistered'
  BY NoneAssumption, LengthAssumption DEF TypeOK, SingleOwner, Busy, SocketsOwned,
     HasSocket, Live, PortRegistered, WorkerRegistered, MapOwned, Registered,
     ReceiveCompletes, Completes, Block, Phases
<1>6. MapOwned'
  BY NoneAssumption, LengthAssumption DEF TypeOK, SingleOwner, Busy, SocketsOwned,
     HasSocket, Live, PortRegistered, WorkerRegistered, MapOwned, Registered,
     ReceiveCompletes, Completes, Block, Phases
<1>7. BufferDivided'
  BY NoneAssumption, LengthAssumption DEF TypeOK, BufferDivided, ReceiveCompletes,
     Completes, Block, Phases
<1>8. ReceivedFits'
  BY NoneAssumption, LengthAssumption DEF TypeOK, SingleOwner, Busy, ReceivedFits,
     ReceiveCompletes, Completes, Block, Phases
<1>9. NoThreads'
  BY NoneAssumption, LengthAssumption DEF TypeOK, NoThreads, Joinable, NumThreads, ReceiveCompletes,
     Completes, Block, Phases
<1>10. CallbackPaired'
  BY NoneAssumption, LengthAssumption DEF TypeOK, CallbackPaired, SingleOwner, Busy,
     SocketsOwned, HasSocket, Live, WorkerRegistered, MapOwned, Registered,
     ReceiveCompletes, Completes, Block, Phases
<1> QED BY <1>1, <1>2, <1>3, <1>4, <1>5, <1>6, <1>7, <1>8, <1>9, <1>10

LEMMA SendCompletesKeeps ==
  ASSUME NetInv, NEW b \in Blocks, NEW n \in 0..MaxLength, SendCompletes(b, n)
  PROVE  NetInv'
<1> USE DEF NetInv
<1>1. TypeOK'
  <2>1. [blk[b] EXCEPT !.phase = "queued", !.bytes = n, !.delivered = @ + n] \in Block
    BY CompletedBlock, LengthAssumption DEF TypeOK
  <2>2. blk' = [blk EXCEPT ![b] = [blk[b] EXCEPT !.phase = "queued", !.bytes = n, !.delivered = @ + n]]
    BY DEF SendCompletes, Completes
  <2>3. blk' \in [Blocks -> Block]
    BY <2>1, <2>2 DEF TypeOK
  <2> QED BY <2>3 DEF TypeOK, SendCompletes, Completes
<1>2. SingleOwner'
  BY NoneAssumption, LengthAssumption DEF TypeOK, SingleOwner, Busy, SendCompletes,
     Completes, Block, Phases
<1>3. SocketsOwned'
  BY NoneAssumption, LengthAssumption DEF TypeOK, SingleOwner, Busy, SocketsOwned,
     HasSocket, Live, SendCompletes, Completes, Block, Phases
<1>4. PortRegistered'
  BY NoneAssumption, LengthAssumption DEF TypeOK, SingleOwner, Busy, SocketsOwned,
     HasSocket, Live, PortRegistered, WorkerRegistered, MapOwned, Registered, SendCompletes,
     Completes, Block, Phases
<1>5. WorkerRegistered'
  BY NoneAssumption, LengthAssumption DEF TypeOK, SingleOwner, Busy, SocketsOwned,
     HasSocket, Live, PortRegistered, WorkerRegistered, MapOwned, Registered, SendCompletes,
     Completes, Block, Phases
<1>6. MapOwned'
  BY NoneAssumption, LengthAssumption DEF TypeOK, SingleOwner, Busy, SocketsOwned,
     HasSocket, Live, PortRegistered, WorkerRegistered, MapOwned, Registered, SendCompletes,
     Completes, Block, Phases
<1>7. BufferDivided'
  BY NoneAssumption, LengthAssumption DEF TypeOK, BufferDivided, SendCompletes, Completes,
     Block, Phases
<1>8. ReceivedFits'
  BY NoneAssumption, LengthAssumption DEF TypeOK, SingleOwner, Busy, ReceivedFits,
     SendCompletes, Completes, Block, Phases
<1>9. NoThreads'
  BY NoneAssumption, LengthAssumption DEF TypeOK, NoThreads, Joinable, NumThreads, SendCompletes,
     Completes, Block, Phases
<1>10. CallbackPaired'
  BY NoneAssumption, LengthAssumption DEF TypeOK, CallbackPaired, SingleOwner, Busy,
     SocketsOwned, HasSocket, Live, WorkerRegistered, MapOwned, Registered, SendCompletes,
     Completes, Block, Phases
<1> QED BY <1>1, <1>2, <1>3, <1>4, <1>5, <1>6, <1>7, <1>8, <1>9, <1>10

LEMMA DequeueKeeps ==
  ASSUME NetInv, NEW w \in Workers, NEW b \in Blocks, Dequeue(w, b)
  PROVE  NetInv'
<1> USE DEF NetInv
<1>1. TypeOK'
  BY NoneAssumption, LengthAssumption DEF TypeOK, StopPCs, WorkerPCs, NumThreads, Dequeue,
     Block, Phases
<1>2. SingleOwner'
  BY NoneAssumption, LengthAssumption DEF TypeOK, SingleOwner, Busy, Dequeue, Block, Phases
<1>d. /\ \A c \in Blocks : blk'[c].socket = blk[c].socket /\ (HasSocket(c)' <=> HasSocket(c))
      /\ \A v \in Workers : v # w => wpc'[v] = wpc[v] /\ wblk'[v] = wblk[v]
      /\ wpc[w] = "get" /\ stop # "stopped" /\ UNCHANGED <<stop, client, open, known>>
  <2>1. blk' = [blk EXCEPT ![b].phase = "held"] /\ blk[b].phase = "queued"
    BY DEF Dequeue
  <2>2. \A c \in Blocks : blk'[c].socket = blk[c].socket /\ (Live(c)' <=> Live(c))
    BY <2>1 DEF TypeOK, Block, Live
  <2>3. \A v \in Workers : v # w => wpc'[v] = wpc[v] /\ wblk'[v] = wblk[v]
    BY DEF TypeOK, Dequeue
  <2>4. wpc'[w] # "delete" /\ wpc[w] = "get"
    BY DEF TypeOK, Dequeue, Block
  <2>5. \A c \in Blocks : HasSocket(c)' <=> HasSocket(c)
    BY <2>2, <2>3, <2>4 DEF HasSocket
  <2> QED BY <2>2, <2>3, <2>4, <2>5 DEF Dequeue
<1>3. SocketsOwned'
  BY <1>d DEF SocketsOwned
<1>4. PortRegistered'
  BY NoneAssumption, LengthAssumption DEF TypeOK, SingleOwner, Busy, SocketsOwned,
     HasSocket, Live, PortRegistered, WorkerRegistered, MapOwned, Registered, Dequeue,
     Block, Phases
<1>5. WorkerRegistered'
  BY NoneAssumption, LengthAssumption DEF TypeOK, SingleOwner, Busy, SocketsOwned,
     HasSocket, Live, PortRegistered, WorkerRegistered, MapOwned, Registered, Dequeue,
     Block, Phases
<1>6. MapOwned'
  BY NoneAssumption, LengthAssumption DEF TypeOK, SingleOwner, Busy, SocketsOwned,
     HasSocket, Live, PortRegistered, WorkerRegistered, MapOwned, Registered, Dequeue,
     Block, Phases
<1>7. BufferDivided'
  BY NoneAssumption, LengthAssumption DEF TypeOK, BufferDivided, Dequeue, Block, Phases
<1>8. ReceivedFits'
  BY NoneAssumption, LengthAssumption DEF TypeOK, SingleOwner, Busy, ReceivedFits, Dequeue,
     Block, Phases
<1>9. NoThreads'
  BY NoneAssumption, LengthAssumption DEF TypeOK, NoThreads, Joinable, NumThreads, Dequeue, Block,
     Phases
<1>10. CallbackPaired'
  <2>1. wpc'[w] # "inform"
    BY DEF TypeOK, Dequeue, Block
  <2>2. \A v \in Workers : wpc[v] = "inform" => wblk[v] \in Blocks
    BY DEF SingleOwner, Busy
  <2>3. \A v \in Workers : (wpc'[v] = "inform" <=> wpc[v] = "inform")
                         /\ (wpc[v] = "inform" => blk'[wblk'[v]].socket = blk[wblk[v]].socket)
    BY <1>d, <2>1, <2>2
  <2> QED BY <1>d, <2>3 DEF CallbackPaired
<1> QED BY <1>1, <1>2, <1>3, <1>4, <1>5, <1>6, <1>7, <1>8, <1>9, <1>10

LEMMA WorkerEndsKeeps ==
  ASSUME NetInv, NEW w \in Workers, WorkerEnds(w)
  PROVE  NetInv'
<1> USE DEF NetInv
<1>1. TypeOK'
  BY NoneAssumption, LengthAssumption DEF TypeOK, StopPCs, WorkerPCs, NumThreads, WorkerEnds
<1>2. SingleOwner'
  BY NoneAssumption, LengthAssumption DEF TypeOK, SingleOwner, Busy, WorkerEnds
<1>3. SocketsOwned'
  BY NoneAssumption, LengthAssumption DEF TypeOK, SingleOwner, Busy, SocketsOwned,
     HasSocket, Live, WorkerEnds
<1>4. PortRegistered'
  BY NoneAssumption, LengthAssumption DEF TypeOK, SingleOwner, Busy, SocketsOwned,
     HasSocket, Live, PortRegistered, WorkerRegistered, MapOwned, Registered, WorkerEnds
<1>5. WorkerRegistered'
  BY NoneAssumption, LengthAssumption DEF TypeOK, SingleOwner, Busy, SocketsOwned,
     HasSocket, Live, PortRegistered, WorkerRegistered, MapOwned, Registered, WorkerEnds
<1>6. MapOwned'
  BY NoneAssumption, LengthAssumption DEF TypeOK, SingleOwner, Busy, SocketsOwned,
     HasSocket, Live, PortRegistered, WorkerRegistered, MapOwned, Registered, WorkerEnds
<1>7. BufferDivided'
  BY NoneAssumption, LengthAssumption DEF TypeOK, BufferDivided, WorkerEnds
<1>8. ReceivedFits'
  BY NoneAssumption, LengthAssumption DEF TypeOK, SingleOwner, Busy, ReceivedFits,
     WorkerEnds
<1>9. NoThreads'
  BY NoneAssumption, LengthAssumption DEF TypeOK, NoThreads, Joinable, NumThreads, WorkerEnds
<1>10. CallbackPaired'
  BY NoneAssumption, LengthAssumption DEF TypeOK, CallbackPaired, SingleOwner, Busy,
     SocketsOwned, HasSocket, Live, WorkerRegistered, MapOwned, Registered, WorkerEnds
<1> QED BY <1>1, <1>2, <1>3, <1>4, <1>5, <1>6, <1>7, <1>8, <1>9, <1>10

LEMMA OnAccpetKeeps ==
  ASSUME NetInv, NEW w \in Workers, OnAccpet(w)
  PROVE  NetInv'
<1> USE DEF NetInv
<1>1. TypeOK'
  <2>1. wblk[w] \in Blocks
    BY DEF SingleOwner, Busy, OnAccpet
  <2>2. known' \in [Sockets -> Int]
    BY CountUp, 1 \in Int DEF TypeOK, OnAccpet
  <2>3. client' \in [Sockets -> Blocks \cup {None}]
    BY <2>1 DEF TypeOK, OnAccpet
  <2>4. wpc' \in [Workers -> WorkerPCs] /\ locker' \in Workers \cup {None}
    BY DEF TypeOK, OnAccpet, Goto, WorkerPCs
  <2> QED BY <2>2, <2>3, <2>4 DEF TypeOK, OnAccpet
<1>2. SingleOwner'
  BY NoneAssumption, LengthAssumption DEF TypeOK, SingleOwner, Busy, OnAccpet, Goto, Block
<1>3. SocketsOwned'
  BY NoneAssumption, LengthAssumption DEF TypeOK, SingleOwner, Busy, SocketsOwned,
     HasSocket, Live, OnAccpet, Goto, Block
<1>4. PortRegistered'
  BY NoneAssumption, LengthAssumption DEF TypeOK, SingleOwner, Busy, SocketsOwned,
     HasSocket, Live, PortRegistered, WorkerRegistered, MapOwned, Registered, OnAccpet,
     Goto, Block
<1>5. WorkerRegistered'
  BY NoneAssumption, LengthAssumption DEF TypeOK, SingleOwner, Busy, SocketsOwned,
     HasSocket, Live, PortRegistered, WorkerRegistered, MapOwned, Registered, OnAccpet,
     Goto, Block
<1>6. MapOwned'
  <2> SUFFICES ASSUME stop # "stopped", NEW r \in Sockets, client'[r] # None
               PROVE  client'[r] \in Blocks /\ HasSocket(client[r])' /\ blk[client'[r]].socket = r
    BY DEF MapOwned, OnAccpet
  <2> DEFINE b == wblk[w]
  <2>1. b \in Blocks /\ HasSocket(b) /\ wpc[w] = "ACCEPT"
    BY DEF SingleOwner, Busy, HasSocket, Live, OnAccpet
  <2>2. client' = [client EXCEPT ![blk[b].socket] = IF @ = None THEN b ELSE @]
    BY DEF OnAccpet
  <2>3. client'[r] = client[r] \/ (client'[r] = b /\ r = blk[b].socket)
    BY <2>2 DEF TypeOK
  <2>4. \A v \in Workers : wpc'[v] = "delete" => wpc[v] = "delete"
    BY DEF TypeOK, OnAccpet, Goto
  <2>5. \A c \in Blocks : HasSocket(c) =>
          /\ blk'[c].phase \in {"pending", "queued", "held"}
          /\ \A v \in Workers : wpc'[v] = "delete" => wblk'[v] # c
    BY <2>4 DEF HasSocket, Live, OnAccpet
  <2>6. CASE client'[r] = client[r]
    <3>1. client[r] \in Blocks /\ HasSocket(client[r]) /\ blk[client[r]].socket = r
      BY <2>6 DEF MapOwned
    <3> QED BY <2>5, <2>6, <3>1 DEF HasSocket, Live
  <2>7. CASE client'[r] = b /\ r = blk[b].socket
    BY <2>1, <2>5, <2>7 DEF HasSocket, Live
  <2> QED BY <2>3, <2>6, <2>7
<1>7. BufferDivided'
  BY NoneAssumption, LengthAssumption DEF TypeOK, BufferDivided, OnAccpet, Goto, Block
<1>8. ReceivedFits'
  BY NoneAssumption, LengthAssumption DEF TypeOK, SingleOwner, Busy, ReceivedFits, OnAccpet,
     Goto, Block
<1>9. NoThreads'
  BY NoneAssumption, LengthAssumption DEF TypeOK, NoThreads, Joinable, NumThreads, OnAccpet, Goto,
     Block
<1>10. CallbackPaired'
  <2> SUFFICES ASSUME stop # "stopped", NEW s \in Sockets
               PROVE  known'[s] = IF client'[s] # None
                                     \/ \E v \in Workers : wpc'[v] = "inform" /\ blk[wblk[v]].socket = s
                                  THEN 1 ELSE 0
    BY DEF CallbackPaired, OnAccpet
  <2> DEFINE b == wblk[w]
  <2>1. b \in Blocks /\ HasSocket(b) /\ ~Registered(b) /\ wpc[w] = "ACCEPT"
    BY DEF TypeOK, SingleOwner, Busy, HasSocket, Live, WorkerRegistered, OnAccpet
  <2>2. \A v \in Workers : wpc'[v] = "inform" <=> wpc[v] = "inform"
    BY <2>1 DEF TypeOK, OnAccpet, Goto
  <2>3. CASE s = blk[b].socket
    <3>1. client[s] = None
      BY <2>1, <2>3 DEF TypeOK, SocketsOwned, MapOwned, Registered
    <3>2. \A v \in Workers : wpc[v] = "inform" => blk[wblk[v]].socket # s
      <4> SUFFICES ASSUME NEW v \in Workers, wpc[v] = "inform", blk[wblk[v]].socket = s
                   PROVE  FALSE
        OBVIOUS
      <4>1. wblk[v] \in Blocks /\ HasSocket(wblk[v]) /\ wblk[v] # b
        BY <2>1 DEF SingleOwner, Busy, HasSocket, Live
      <4> QED BY <2>1, <2>3, <4>1 DEF SocketsOwned
    <3>3. known[s] = 0
      BY <3>1, <3>2 DEF CallbackPaired
    <3>4. known'[s] = 1 /\ client'[s] = b
      BY <2>3, <3>1, <3>3 DEF TypeOK, OnAccpet
    <3> QED BY <2>1, <3>4, NoneAssumption
  <2>4. CASE s # blk[b].socket
    <3>1. known'[s] = known[s] /\ client'[s] = client[s]
      BY <2>4 DEF TypeOK, OnAccpet
    <3> QED BY <2>2, <3>1 DEF CallbackPaired
  <2> QED BY <2>3, <2>4
<1> QED BY <1>1, <1>2, <1>3, <1>4, <1>5, <1>6, <1>7, <1>8, <1>9, <1>10

LEMMA UnregisterKeeps ==
  ASSUME NetInv, NEW w \in Workers, Unregister(w)
  PROVE  NetInv'
<1> USE DEF NetInv
<1>1. TypeOK'
  BY NoneAssumption, LengthAssumption DEF TypeOK, StopPCs, WorkerPCs, NumThreads,
     Unregister, Goto, Block
<1>2. SingleOwner'
  BY NoneAssumption, LengthAssumption DEF TypeOK, SingleOwner, Busy, Unregister, Goto, Block
<1>3. SocketsOwned'
  BY NoneAssumption, LengthAssumption DEF TypeOK, SingleOwner, Busy, SocketsOwned,
     HasSocket, Live, Unregister, Goto, Block
<1>4. PortRegistered'
  <2> SUFFICES ASSUME stop # "stopped", NEW c \in Blocks, blk[c].phase \in {"pending", "queued"}
               PROVE  client'[blk[c].socket] = c <=> blk[c].event # "ACCEPT"
    BY DEF PortRegistered, Registered, Unregister
  <2> DEFINE b == wblk[w]
  <2>1. b \in Blocks /\ c # b
    BY DEF SingleOwner, Busy, Unregister
  <2>2. client[blk[c].socket] = c <=> blk[c].event # "ACCEPT"
    BY DEF PortRegistered, Registered
  <2>3. client' = client \/ (client[blk[b].socket] = b /\ client' = [client EXCEPT ![blk[b].socket] = None])
    BY DEF Unregister
  <2>4. blk[c].socket \in Sockets
    BY DEF TypeOK, SocketsOwned, SingleOwner, Busy, HasSocket, Live
  <2>5. client'[blk[c].socket] = c <=> client[blk[c].socket] = c
    BY <2>1, <2>3, <2>4, NoneAssumption DEF TypeOK
  <2> QED BY <2>2, <2>5
<1>5. WorkerRegistered'
  <2> SUFFICES ASSUME stop # "stopped", NEW v \in Workers
               PROVE  /\ wpc'[v] = "ACCEPT" => blk[wblk[v]].event = "ACCEPT"
                      /\ wpc'[v] \in {"ACCEPT", "inform", "closesocket", "delete"} =>
                           client'[blk[wblk[v]].socket] # wblk[v]
                      /\ wpc'[v] \in {"first", "RECEIVE", "SEND", "close"} =>
                           client'[blk[wblk[v]].socket] = wblk[v]
    BY DEF WorkerRegistered, Registered, Unregister
  <2> DEFINE s == blk[wblk[w]].socket
  <2>1. wblk[w] \in Blocks /\ client[s] = wblk[w]
    BY DEF SingleOwner, Busy, WorkerRegistered, Registered, Unregister
  <2>2. HasSocket(wblk[w])
    BY DEF SingleOwner, Busy, HasSocket, Live, Unregister
  <2>3. s \in Sockets
    BY <2>1, <2>2 DEF SocketsOwned, TypeOK
  <2>4. client' = [client EXCEPT ![s] = None] /\ wpc' = [wpc EXCEPT ![w] = "inform"]
    BY <2>1 DEF Unregister, Goto
  <2>5. CASE v = w
    BY <2>1, <2>3, <2>4, <2>5, NoneAssumption DEF TypeOK
  <2>6. CASE v # w
    <3>1. wpc'[v] = wpc[v]
      BY <2>4, <2>6 DEF TypeOK
    <3>2. Busy(v) => wblk[v] \in Blocks /\ wblk[v] # wblk[w]
      BY <2>6 DEF SingleOwner, Busy, Unregister
    <3>3. \A r \in Sockets \cup {None} : Busy(v) =>
            (client'[r] = wblk[v] <=> client[r] = wblk[v])
      BY <2>1, <2>3, <2>4, <3>2, NoneAssumption DEF TypeOK
    <3>4. Busy(v) => blk[wblk[v]].socket \in Sockets \cup {None}
      BY <3>2 DEF TypeOK, Block
    <3> QED BY <3>1, <3>3, <3>4 DEF WorkerRegistered, Registered, Busy
  <2> QED BY <2>5, <2>6
<1>6. MapOwned'
  BY NoneAssumption, LengthAssumption DEF TypeOK, SingleOwner, Busy, SocketsOwned,
     HasSocket, Live, PortRegistered, WorkerRegistered, MapOwned, Registered, Unregister,
     Goto, Block
<1>7. BufferDivided'
  BY NoneAssumption, LengthAssumption DEF TypeOK, BufferDivided, Unregister, Goto, Block
<1>8. ReceivedFits'
  BY NoneAssumption, LengthAssumption DEF TypeOK, SingleOwner, Busy, ReceivedFits,
     Unregister, Goto, Block
<1>9. NoThreads'
  BY NoneAssumption, LengthAssumption DEF TypeOK, NoThreads, Joinable, NumThreads, Unregister, Goto,
     Block
<1>10. CallbackPaired'
  BY NoneAssumption, LengthAssumption DEF TypeOK, CallbackPaired, SingleOwner, Busy,
     SocketsOwned, HasSocket, Live, WorkerRegistered, MapOwned, Registered, Unregister,
     Goto, Block
<1> QED BY <1>1, <1>2, <1>3, <1>4, <1>5, <1>6, <1>7, <1>8, <1>9, <1>10

LEMMA InformKeeps ==
  ASSUME NetInv, NEW w \in Workers, Inform(w)
  PROVE  NetInv'
<1> USE DEF NetInv
<1>1. TypeOK'
  <2>1. known' \in [Sockets -> Int]
    <3>1. known' = [known EXCEPT ![blk[wblk[w]].socket] = @ + (-1)]
      BY DEF TypeOK, Inform
    <3> QED BY <3>1, CountUp, -1 \in Int DEF TypeOK
  <2>2. wpc' \in [Workers -> WorkerPCs]
    BY DEF TypeOK, Inform, Goto, WorkerPCs
  <2> QED BY <2>1, <2>2 DEF TypeOK, Inform
<1>2. SingleOwner'
  BY NoneAssumption, LengthAssumption DEF TypeOK, SingleOwner, Busy, Inform, Goto, Block
<1>3. SocketsOwned'
  BY NoneAssumption, LengthAssumption DEF TypeOK, SingleOwner, Busy, SocketsOwned,
     HasSocket, Live, Inform, Goto, Block
<1>4. PortRegistered'
  BY NoneAssumption, LengthAssumption DEF TypeOK, SingleOwner, Busy, SocketsOwned,
     HasSocket, Live, PortRegistered, WorkerRegistered, MapOwned, Registered, Inform, Goto,
     Block
<1>5. WorkerRegistered'
  BY NoneAssumption, LengthAssumption DEF TypeOK, SingleOwner, Busy, SocketsOwned,
     HasSocket, Live, PortRegistered, WorkerRegistered, MapOwned, Registered, Inform, Goto,
     Block
<1>6. MapOwned'
  BY NoneAssumption, LengthAssumption DEF TypeOK, SingleOwner, Busy, SocketsOwned,
     HasSocket, Live, PortRegistered, WorkerRegistered, MapOwned, Registered, Inform, Goto,
     Block
<1>7. BufferDivided'
  BY NoneAssumption, LengthAssumption DEF TypeOK, BufferDivided, Inform, Goto, Block
<1>8. ReceivedFits'
  BY NoneAssumption, LengthAssumption DEF TypeOK, SingleOwner, Busy, ReceivedFits, Inform,
     Goto, Block
<1>9. NoThreads'
  BY NoneAssumption, LengthAssumption DEF TypeOK, NoThreads, Joinable, NumThreads, Inform, Goto, Block
<1>10. CallbackPaired'
  <2> SUFFICES ASSUME stop # "stopped", NEW s \in Sockets
               PROVE  known'[s] = IF client[s] # None
                                     \/ \E v \in Workers : wpc'[v] = "inform" /\ blk[wblk[v]].socket = s
                                  THEN 1 ELSE 0
    BY DEF CallbackPaired, Inform
  <2> DEFINE b == wblk[w]
  <2>1. b \in Blocks /\ HasSocket(b) /\ ~Registered(b) /\ wpc[w] = "inform" /\ wpc'[w] # "inform"
    BY DEF TypeOK, SingleOwner, Busy, HasSocket, Live, WorkerRegistered, Inform, Goto
  <2>2. \A v \in Workers : v # w => (wpc'[v] = "inform" <=> wpc[v] = "inform")
    BY DEF TypeOK, Inform, Goto
  <2>3. CASE s = blk[b].socket
    <3>1. client[s] = None
      BY <2>1, <2>3 DEF TypeOK, SocketsOwned, MapOwned, Registered
    <3>2. \A v \in Workers : wpc'[v] = "inform" => blk[wblk[v]].socket # s
      <4> SUFFICES ASSUME NEW v \in Workers, wpc'[v] = "inform", blk[wblk[v]].socket = s
                   PROVE  FALSE
        OBVIOUS
      <4>1. v # w /\ wpc[v] = "inform"
        BY <2>1, <2>2
      <4>2. wblk[v] \in Blocks /\ HasSocket(wblk[v]) /\ wblk[v] # b
        BY <2>1, <4>1 DEF SingleOwner, Busy, HasSocket, Live
      <4> QED BY <2>1, <2>3, <4>2 DEF SocketsOwned
    <3>3. known[s] = 1
      BY <2>1, <2>3 DEF CallbackPaired
    <3>4. known'[s] = 0
      BY <2>3, <3>3 DEF TypeOK, Inform
    <3> QED BY <3>1, <3>2, <3>4
  <2>4. CASE s # blk[b].socket
    <3>1. known'[s] = known[s]
      BY <2>4 DEF TypeOK, Inform
    <3>2. (\E v \in Workers : wpc'[v] = "inform" /\ blk[wblk[v]].socket = s)
            <=> \E v \in Workers : wpc[v] = "inform" /\ blk[wblk[v]].socket = s
      BY <2>1, <2>2, <2>4
    <3> QED BY <3>1, <3>2 DEF CallbackPaired
  <2> QED BY <2>3, <2>4
<1> QED BY <1>1, <1>2, <1>3, <1>4, <1>5, <1>6, <1>7, <1>8, <1>9, <1>10

LEMMA CloseSocketKeeps ==
  ASSUME NetInv, NEW w \in Workers, CloseSocket(w)
  PROVE  NetInv'
<1> USE DEF NetInv
<1>1. TypeOK'
  BY NoneAssumption, LengthAssumption DEF TypeOK, StopPCs, WorkerPCs, NumThreads,
     CloseSocket, Goto, Block
<1>2. SingleOwner'
  BY NoneAssumption, LengthAssumption DEF TypeOK, SingleOwner, Busy, CloseSocket, Goto,
     Block
<1>3. SocketsOwned'
  BY NoneAssumption, LengthAssumption DEF TypeOK, SingleOwner, Busy, SocketsOwned,
     HasSocket, Live, CloseSocket, Goto, Block
<1>4. PortRegistered'
  BY NoneAssumption, LengthAssumption DEF TypeOK, SingleOwner, Busy, SocketsOwned,
     HasSocket, Live, PortRegistered, WorkerRegistered, MapOwned, Registered, CloseSocket,
     Goto, Block
<1>5. WorkerRegistered'
  BY NoneAssumption, LengthAssumption DEF TypeOK, SingleOwner, Busy, SocketsOwned,
     HasSocket, Live, PortRegistered, WorkerRegistered, MapOwned, Registered, CloseSocket,
     Goto, Block
<1>6. MapOwned'
  BY NoneAssumption, LengthAssumption DEF TypeOK, SingleOwner, Busy, SocketsOwned,
     HasSocket, Live, PortRegistered, WorkerRegistered, MapOwned, Registered, CloseSocket,
     Goto, Block
<1>7. BufferDivided'
  BY NoneAssumption, LengthAssumption DEF TypeOK, BufferDivided, CloseSocket, Goto, Block
<1>8. ReceivedFits'
  BY NoneAssumption, LengthAssumption DEF TypeOK, SingleOwner, Busy, ReceivedFits,
     CloseSocket, Goto, Block
<1>9. NoThreads'
  BY NoneAssumption, LengthAssumption DEF TypeOK, NoThreads, Joinable, NumThreads, CloseSocket, Goto,
     Block
<1>10. CallbackPaired'
  BY NoneAssumption, LengthAssumption DEF TypeOK, CallbackPaired, SingleOwner, Busy,
     SocketsOwned, HasSocket, Live, WorkerRegistered, MapOwned, Registered, CloseSocket,
     Goto, Block
<1> QED BY <1>1, <1>2, <1>3, <1>4, <1>5, <1>6, <1>7, <1>8, <1>9, <1>10

LEMMA DeleteKeeps ==
  ASSUME NetInv, NEW w \in Workers, Delete(w)
  PROVE  NetInv'
<1> USE DEF NetInv
<1>1. TypeOK'
  BY NoneAssumption, LengthAssumption, FreeIsBlock DEF TypeOK, StopPCs, WorkerPCs,
     NumThreads, Delete, Goto, Free
<1>2. SingleOwner'
  BY NoneAssumption, LengthAssumption, FreeIsBlock DEF TypeOK, SingleOwner, Busy, Delete,
     Goto, Free
<1>3. SocketsOwned'
  BY NoneAssumption, LengthAssumption, FreeIsBlock DEF TypeOK, SingleOwner, Busy,
     SocketsOwned, HasSocket, Live, Delete, Goto, Free
<1>4. PortRegistered'
  BY NoneAssumption, LengthAssumption, FreeIsBlock DEF TypeOK, SingleOwner, Busy,
     SocketsOwned, HasSocket, Live, PortRegistered, WorkerRegistered, MapOwned, Registered,
     Delete, Goto, Free
<1>5. WorkerRegistered'
  BY NoneAssumption, LengthAssumption, FreeIsBlock DEF TypeOK, SingleOwner, Busy,
     SocketsOwned, HasSocket, Live, PortRegistered, WorkerRegistered, MapOwned, Registered,
     Delete, Goto, Free
<1>6. MapOwned'
  BY NoneAssumption, LengthAssumption, FreeIsBlock DEF TypeOK, SingleOwner, Busy,
     SocketsOwned, HasSocket, Live, PortRegistered, WorkerRegistered, MapOwned, Registered,
     Delete, Goto, Free
<1>7. BufferDivided'
  BY NoneAssumption, LengthAssumption, FreeIsBlock DEF TypeOK, BufferDivided, Delete, Goto,
     Free
<1>8. ReceivedFits'
  BY NoneAssumption, LengthAssumption, FreeIsBlock DEF TypeOK, SingleOwner, Busy,
     ReceivedFits, Delete, Goto, Free
<1>9. NoThreads'
  BY NoneAssumption, LengthAssumption, FreeIsBlock DEF TypeOK, NoThreads, Joinable, NumThreads,
     Delete, Goto, Free
<1>10. CallbackPaired'
  BY NoneAssumption, LengthAssumption, FreeIsBlock DEF TypeOK, CallbackPaired, SingleOwner,
     Busy, SocketsOwned, HasSocket, Live, WorkerRegistered, MapOwned, Registered, Delete,
     Goto, Free
<1> QED BY <1>1, <1>2, <1>3, <1>4, <1>5, <1>6, <1>7, <1>8, <1>9, <1>10

-----------------------------------------------------------------------------
(* What a handler makes of the block it holds.                               *)

Same(q, r) == q \in Block /\ q.phase = r.phase /\ q.socket = r.socket

Divided(q) == q.event = "RECEIVE" =>
  q.len \in 1..MaxLength /\ q.recvlength + q.len = MaxLength

LEMMA Modulo == \A n \in Int : n % DWORD \in Lengths
BY LengthAssumption DEF Lengths

LEMMA ReceiveNewBlock ==
  ASSUME NEW r \in Block
  PROVE  Same(ReceiveNew(r), r) /\ ReceiveNew(r).event = "RECEIVE" /\ Divided(ReceiveNew(r))
<1> DEFINE q == [r EXCEPT !.event = "RECEIVE", !.len = MaxLength, !.recvlength = 0,
                         !.sendlength = 0]
<1>1. MaxLength \in Lengths /\ 0 \in Lengths /\ 0 \in 0..MaxLength /\ MaxLength \in 1..MaxLength
  BY LengthAssumption DEF Lengths
<1>2. q \in Block
  BY <1>1 DEF Block
<1> HIDE DEF q
<1>3. [q EXCEPT !.total = 0, !.declared = 0, !.reply = 0, !.delivered = 0] \in Block
  BY <1>1, <1>2 DEF Block
<1>4. ReceiveNew(r) = [q EXCEPT !.total = 0, !.declared = 0, !.reply = 0, !.delivered = 0]
  BY DEF ReceiveNew, Block, q
<1>5. /\ ReceiveNew(r).phase = r.phase /\ ReceiveNew(r).socket = r.socket
      /\ ReceiveNew(r).event = "RECEIVE"
      /\ ReceiveNew(r).len = MaxLength /\ ReceiveNew(r).recvlength = 0
  BY DEF ReceiveNew, Block
<1> QED BY <1>1, <1>3, <1>4, <1>5, LengthAssumption DEF Same, Divided

LEMMA ReceiveRestBlock ==
  ASSUME NEW r \in Block, r.event = "RECEIVE", Divided(r), r.recvlength + r.bytes < MaxLength
  PROVE  Same(ReceiveRest(r), r) /\ ReceiveRest(r).event = "RECEIVE" /\ Divided(ReceiveRest(r))
<1>1. r.recvlength + r.bytes \in 0..MaxLength /\ r.len - r.bytes \in 1..MaxLength
  BY LengthAssumption DEF Block, Divided
<1>2. r.len - r.bytes \in Lengths
  BY <1>1, LengthAssumption DEF Lengths
<1>3. ReceiveRest(r) \in Block
  BY <1>1, <1>2 DEF ReceiveRest, Block
<1>4. ReceiveRest(r).recvlength = r.recvlength + r.bytes /\ ReceiveRest(r).len = r.len - r.bytes
  BY DEF ReceiveRest, Block
<1>5. ReceiveRest(r).recvlength + ReceiveRest(r).len = MaxLength
  BY <1>4, LengthAssumption DEF Block, Lengths, Divided
<1> QED BY <1>1, <1>3, <1>4, <1>5 DEF ReceiveRest, Block, Same, Divided

LEMMA SendNewBlock ==
  ASSUME NEW r \in Block, NEW length \in HeaderLength..MaxLength
  PROVE  Same(SendNew(r, length), r) /\ SendNew(r, length).event = "SEND"
<1>1. length \in Lengths /\ length \in 0..MaxLength /\ 0 \in Lengths /\ 0 \in 0..MaxLength
  BY LengthAssumption DEF Lengths
<1>2. SendNew(r, length) \in Block
  BY <1>1 DEF SendNew, Block
<1> QED BY <1>2 DEF SendNew, Block, Same

LEMMA SendRestBlock ==
  ASSUME NEW r \in Block
  PROVE  Same(SendRest(r), r) /\ SendRest(r).event = "SEND"
<1> DEFINE total == (r.total - r.bytes) % DWORD
<1> DEFINE sent == (r.sendlength + r.bytes) % DWORD
<1>1. r.total - r.bytes \in Int /\ r.sendlength + r.bytes \in Int
  BY LengthAssumption DEF Block, Lengths
<1>2. total \in Lengths /\ sent \in Lengths
  BY <1>1, Modulo
<1>3. (total - sent) % DWORD \in Lengths
  BY <1>2, Modulo, LengthAssumption DEF Lengths
<1>4. SendRest(r) = [r EXCEPT !.event = "SEND", !.total = total, !.sendlength = sent,
                              !.len = (total - sent) % DWORD]
  BY DEF SendRest
<1> HIDE DEF total, sent
<1>5. SendRest(r) \in Block
  BY <1>2, <1>3, <1>4 DEF Block
<1> QED BY <1>4, <1>5 DEF Block, Same

-----------------------------------------------------------------------------
(* A handler ends by posting an operation ...                               *)
LEMMA PostedKeeps ==
  ASSUME NetInv, NEW w \in Workers, wpc[w] \in {"first", "RECEIVE", "SEND"},
         NEW q \in Block, q.phase = "pending", q.socket = blk[wblk[w]].socket,
         q.event # "ACCEPT", Divided(q),
         blk' = [blk EXCEPT ![wblk[w]] = q],
         wpc' = [wpc EXCEPT ![w] = "get"], wblk' = [wblk EXCEPT ![w] = None],
         UNCHANGED <<stop, apc, posted, locker, client, open, known, quits>>
  PROVE  NetInv'
<1> USE DEF NetInv
<1>1. TypeOK'
  BY DEF TypeOK, WorkerPCs
<1>2. SingleOwner'
  BY NoneAssumption DEF TypeOK, SingleOwner, Busy
<1>3. SocketsOwned'
  BY NoneAssumption DEF TypeOK, SingleOwner, Busy, SocketsOwned, HasSocket, Live
<1>4. PortRegistered'
  BY NoneAssumption DEF TypeOK, SingleOwner, Busy, SocketsOwned, HasSocket, Live,
     PortRegistered, WorkerRegistered, MapOwned, Registered
<1>5. WorkerRegistered'
  BY NoneAssumption DEF TypeOK, SingleOwner, Busy, SocketsOwned, HasSocket, Live,
     PortRegistered, WorkerRegistered, MapOwned, Registered
<1>6. MapOwned'
  BY NoneAssumption DEF TypeOK, SingleOwner, Busy, SocketsOwned, HasSocket, Live,
     PortRegistered, WorkerRegistered, MapOwned, Registered
<1>7. BufferDivided'
  BY DEF TypeOK, BufferDivided, Divided
<1>8. ReceivedFits'
  BY NoneAssumption DEF TypeOK, SingleOwner, Busy, ReceivedFits
<1>9. NoThreads'
  BY NoneAssumption DEF TypeOK, NoThreads, Joinable, NumThreads
<1>10. CallbackPaired'
  BY NoneAssumption DEF TypeOK, CallbackPaired, SingleOwner, Busy, SocketsOwned, HasSocket,
     Live, WorkerRegistered, MapOwned, Registered
<1> QED BY <1>1, <1>2, <1>3, <1>4, <1>5, <1>6, <1>7, <1>8, <1>9, <1>10

(* ... or by closing the connection.                                        *)
LEMMA ClosingKeeps ==
  ASSUME NetInv, NEW w \in Workers, wpc[w] \in {"first", "RECEIVE", "SEND"},
         NEW q \in Block, q.phase = "held", q.socket = blk[wblk[w]].socket, Divided(q),
         blk' = [blk EXCEPT ![wblk[w]] = q],
         wpc' = [wpc EXCEPT ![w] = "close"],
         UNCHANGED wblk, UNCHANGED <<stop, apc, posted, locker, client, open, known, quits>>
  PROVE  NetInv'
<1> USE DEF NetInv
<1>1. TypeOK'
  BY DEF TypeOK, WorkerPCs
<1>2. SingleOwner'
  BY NoneAssumption DEF TypeOK, SingleOwner, Busy
<1>3. SocketsOwned'
  BY NoneAssumption DEF TypeOK, SingleOwner, Busy, SocketsOwned, HasSocket, Live
<1>4. PortRegistered'
  BY NoneAssumption DEF TypeOK, SingleOwner, Busy, SocketsOwned, HasSocket, Live,
     PortRegistered, WorkerRegistered, MapOwned, Registered
<1>5. WorkerRegistered'
  BY NoneAssumption DEF TypeOK, SingleOwner, Busy, SocketsOwned, HasSocket, Live,
     PortRegistered, WorkerRegistered, MapOwned, Registered
<1>6. MapOwned'
  BY NoneAssumption DEF TypeOK, SingleOwner, Busy, SocketsOwned, HasSocket, Live,
     PortRegistered, WorkerRegistered, MapOwned, Registered
<1>7. BufferDivided'
  BY DEF TypeOK, BufferDivided, Divided
<1>8. ReceivedFits'
  BY NoneAssumption DEF TypeOK, SingleOwner, Busy, ReceivedFits
<1>9. NoThreads'
  BY NoneAssumption DEF TypeOK, NoThreads, Joinable, NumThreads
<1>10. CallbackPaired'
  BY NoneAssumption DEF TypeOK, CallbackPaired, SingleOwner, Busy, SocketsOwned, HasSocket,
     Live, WorkerRegistered, MapOwned, Registered
<1> QED BY <1>1, <1>2, <1>3, <1>4, <1>5, <1>6, <1>7, <1>8, <1>9, <1>10

LEMMA PostKeeps ==
  ASSUME NetInv, NEW w \in Workers, wpc[w] \in {"first", "RECEIVE", "SEND"},
         NEW r, Same(r, blk[wblk[w]]), r.event # "ACCEPT", Divided(r), Post(w, r),
         UNCHANGED <<stop, apc, posted, locker, client, open, known, quits>>
  PROVE  NetInv'
<1>1. r \in Block /\ r.phase = "held" /\ r.socket = blk[wblk[w]].socket
  BY DEF NetInv, SingleOwner, Busy, Same
<1>2. CASE /\ blk' = [blk EXCEPT ![wblk[w]] = [r EXCEPT !.phase = "pending", !.bytes = 0]]
           /\ wpc' = [wpc EXCEPT ![w] = "get"] /\ wblk' = [wblk EXCEPT ![w] = None]
  <2> DEFINE q == [r EXCEPT !.phase = "pending", !.bytes = 0]
  <2>1. q \in Block /\ q.phase = "pending" /\ q.socket = r.socket /\ q.event = r.event
    <3>1. 0 \in 0..MaxLength
      BY LengthAssumption
    <3>2. q \in Block
      BY <1>1, <3>1 DEF Block, Phases
    <3>3. q.phase = "pending" /\ q.socket = r.socket /\ q.event = r.event
      BY <1>1 DEF Block
    <3> QED BY <3>2, <3>3
  <2>2. Divided(q)
    BY <1>1 DEF Divided, Block
  <2> HIDE DEF q
  <2>3. blk' = [blk EXCEPT ![wblk[w]] = q]
    BY <1>2 DEF q
  <2> QED BY <1>1, <1>2, <2>1, <2>2, <2>3, PostedKeeps
<1>3. CASE /\ blk' = [blk EXCEPT ![wblk[w]] = r]
           /\ wpc' = [wpc EXCEPT ![w] = "close"] /\ UNCHANGED wblk
  BY <1>1, <1>3, ClosingKeeps
<1> QED BY <1>2, <1>3 DEF Post, Goto

LEMMA PostSendKeeps ==
  ASSUME NetInv, NEW w \in Workers, wpc[w] \in {"first", "RECEIVE", "SEND"},
         NEW r, Same(r, blk[wblk[w]]), r.event = "SEND", PostSend(w, r),
         UNCHANGED <<stop, apc, posted, locker, client, open, known, quits>>
  PROVE  NetInv'
<1>1. Divided(r)
  BY DEF Divided
<1>2. CASE Post(w, r)
  BY <1>1, <1>2, PostKeeps
<1>3. CASE /\ blk' = [blk EXCEPT ![wblk[w]] = r]
           /\ wpc' = [wpc EXCEPT ![w] = "close"] /\ UNCHANGED wblk
  <2>1. r \in Block /\ r.phase = "held" /\ r.socket = blk[wblk[w]].socket
    BY DEF NetInv, SingleOwner, Busy, Same
  <2> QED BY <1>1, <1>3, <2>1, ClosingKeeps
<1> QED BY <1>2, <1>3 DEF PostSend, Goto

(* The handler only decides to close.                                       *)
LEMMA RefusedKeeps ==
  ASSUME NetInv, NEW w \in Workers, wpc[w] \in {"first", "RECEIVE", "SEND"},
         Goto(w, "close"), UNCHANGED <<blk, wblk>>,
         UNCHANGED <<stop, apc, posted, locker, client, open, known, quits>>
  PROVE  NetInv'
<1> DEFINE q == blk[wblk[w]]
<1>1. wblk[w] \in Blocks /\ q.phase = "held"
  BY DEF NetInv, SingleOwner, Busy
<1>2. q \in Block /\ Divided(q) /\ blk' = [blk EXCEPT ![wblk[w]] = q]
  BY <1>1 DEF NetInv, TypeOK, BufferDivided, Divided
<1> QED BY <1>1, <1>2, ClosingKeeps DEF Goto

LEMMA FirstReceiveKeeps ==
  ASSUME NetInv, NEW w \in Workers, FirstReceive(w)
  PROVE  NetInv'
<1>1. blk[wblk[w]] \in Block
  BY DEF NetInv, TypeOK, SingleOwner, Busy, FirstReceive
<1> QED BY <1>1, ReceiveNewBlock, PostKeeps DEF FirstReceive

LEMMA OnRecevieKeeps ==
  ASSUME NetInv, NEW w \in Workers, OnRecevie(w)
  PROVE  NetInv'
<1> DEFINE r == blk[wblk[w]]
<1> DEFINE received == r.recvlength + r.bytes
<1> DEFINE length == ParasePackage(r.declared, received)
<1>1. /\ wpc[w] = "RECEIVE" /\ wblk[w] \in Blocks /\ r \in Block
      /\ r.event = "RECEIVE" /\ Divided(r)
  BY DEF NetInv, TypeOK, SingleOwner, Busy, ReceivedFits, BufferDivided, Divided, OnRecevie
<1>2. UNCHANGED <<stop, apc, posted, locker, client, open, known, quits>>
  BY DEF OnRecevie
<1>3. CASE Goto(w, "close") /\ UNCHANGED <<blk, wblk>>
  BY <1>1, <1>2, <1>3, RefusedKeeps
<1>4. CASE \E reply \in HeaderLength..MaxLength : PostSend(w, SendNew(r, reply))
  <2>1. PICK reply \in HeaderLength..MaxLength : PostSend(w, SendNew(r, reply))
    BY <1>4
  <2>2. Same(SendNew(r, reply), r) /\ SendNew(r, reply).event = "SEND"
    BY <1>1, SendNewBlock
  <2> QED BY <1>1, <1>2, <2>1, <2>2, PostSendKeeps
<1>5. CASE length > received /\ Post(w, ReceiveRest(r))
  <2>1. length \in 0..MaxLength
    BY <1>1, LengthAssumption DEF ParasePackage, Block
  <2>2. received < MaxLength
    BY <1>1, <1>5, <2>1, LengthAssumption DEF Block
  <2>3. /\ Same(ReceiveRest(r), r) /\ ReceiveRest(r).event = "RECEIVE"
        /\ Divided(ReceiveRest(r))
    BY <1>1, <2>2, ReceiveRestBlock
  <2> QED BY <1>1, <1>2, <1>5, <2>3, PostKeeps
<1> QED BY <1>3, <1>4, <1>5 DEF OnRecevie

LEMMA OnSendKeeps ==
  ASSUME NetInv, NEW w \in Workers, OnSend(w)
  PROVE  NetInv'
<1> DEFINE r == blk[wblk[w]]
<1>1. wpc[w] = "SEND" /\ r \in Block
  BY DEF NetInv, TypeOK, SingleOwner, Busy, OnSend
<1>2. UNCHANGED <<stop, apc, posted, locker, client, open, known, quits>>
  BY DEF OnSend
<1>3. CASE Goto(w, "close") /\ UNCHANGED <<blk, wblk>>
  BY <1>1, <1>2, <1>3, RefusedKeeps
<1>4. CASE Post(w, ReceiveNew(r))
  BY <1>1, <1>2, <1>4, ReceiveNewBlock, PostKeeps
<1>5. CASE PostSend(w, SendRest(r))
  <2>1. Same(SendRest(r), r) /\ SendRest(r).event = "SEND"
    BY <1>1, SendRestBlock
  <2> QED BY <1>1, <1>2, <1>5, <2>1, PostSendKeeps
<1> QED BY <1>3, <1>4, <1>5 DEF OnSend

-----------------------------------------------------------------------------
LEMMA NetInvInitially == Init => NetInv
<1> SUFFICES ASSUME Init PROVE NetInv
  OBVIOUS
<1> USE NoneAssumption, LengthAssumption DEF Init, Free
<1>1. TypeOK
  BY FreeIsBlock DEF TypeOK, StopPCs, WorkerPCs
<1>2. SingleOwner /\ NoThreads
  BY DEF SingleOwner, Busy, NoThreads
<1>3. SocketsOwned /\ PortRegistered
  BY DEF SocketsOwned, HasSocket, Live, PortRegistered
<1>4. WorkerRegistered /\ MapOwned
  BY DEF WorkerRegistered, MapOwned
<1>5. BufferDivided /\ ReceivedFits
  BY DEF BufferDivided, ReceivedFits
<1>6. CallbackPaired
  BY DEF CallbackPaired
<1> QED BY <1>1, <1>2, <1>3, <1>4, <1>5, <1>6 DEF NetInv

LEMMA NetInvInductive == NetInv /\ [Next]_vars => NetInv'
<1> SUFFICES ASSUME NetInv, [Next]_vars PROVE NetInv'
  OBVIOUS
<1>1. CASE Start \/ StartFails \/ CloseListener \/ StopStep
  BY <1>1, StartKeeps, StartFailsKeeps, CloseListenerKeeps, PostQuitsKeeps, CloseAllKeeps
     DEF StopStep
<1>2. CASE AcceptThread \/ AcceptEvent
  BY <1>2, AcceptThreadEndsKeeps, PostAcceptReturnsKeeps, PostAcceptKeeps, AcceptEventKeeps
     DEF AcceptThread
<1>3. CASE System
  BY <1>3, AcceptCompletesKeeps, ReceiveCompletesKeeps, SendCompletesKeeps DEF System
<1>4. ASSUME NEW w \in Workers, Handle(w) PROVE NetInv'
  BY <1>4, OnAccpetKeeps, FirstReceiveKeeps, OnRecevieKeeps, OnSendKeeps, UnregisterKeeps,
     InformKeeps, CloseSocketKeeps, DeleteKeeps DEF Handle
<1>5. ASSUME NEW w \in Workers, WorkerEnds(w) \/ \E b \in Blocks : Dequeue(w, b)
      PROVE  NetInv'
  BY <1>5, WorkerEndsKeeps, DequeueKeeps
<1>6. CASE UNCHANGED vars
  BY <1>6 DEF vars, NetInv, TypeOK, SingleOwner, Busy, SocketsOwned, HasSocket, Live,
     PortRegistered, WorkerRegistered, Registered, MapOwned, BufferDivided, ReceivedFits,
     NoThreads, Joinable, CallbackPaired
<1> QED BY <1>1, <1>2, <1>3, <1>4, <1>5, <1>6 DEF Next, Terminated

LEMMA NetInvInvariant == Spec => []NetInv
BY NetInvInitially, NetInvInductive, PTL DEF Spec

-----------------------------------------------------------------------------
(* Every variable of the network module keeps its type: no length leaves the   *)
(* range of a DWORD, no count that of a buffer.                              *)
THEOREM NetTypeCorrect == Spec => []TypeOK
<1>1. NetInv => TypeOK
  BY DEF NetInv
<1> QED BY <1>1, NetInvInvariant, PTL

(* A connection block has one owner at every moment: it is never handled       *)
(* twice, and never freed (knet.cpp:439) under a pending operation.          *)
THEOREM OneOwner == Spec => []SingleOwner
<1>1. NetInv => SingleOwner
  BY DEF NetInv
<1> QED BY <1>1, NetInvInvariant, PTL

(* The calls of OnAccept and OnClose to the callback are paired, socket values  *)
(* being used again as they are.                                            *)
THEOREM CallbackCallsPaired == Spec => []CallbackPaired
<1>1. NetInv => CallbackPaired
  BY DEF NetInv
<1> QED BY <1>1, NetInvInvariant, PTL

(* A receive asks for what is left of recvbuf and for one byte at least.      *)
THEOREM ReceivesFit == Spec => []ReceiveFits
<1>1. NetInv => ReceiveFits
  BY DEF NetInv, BufferDivided, ReceiveFits
<1> QED BY <1>1, NetInvInvariant, PTL

(* After Stop has returned only a worker that a failed wait has left touches a   *)
(* connection, the one it had taken before.                                   *)
THEOREM StopJoins == Spec => StopLeavesNobody
<1> DEFINE OwnBlocks ==
             \A b \in Blocks : blk'[b] # blk[b] =>
               \/ blk[b].phase = "pending" /\ blk'[b].phase = "queued"
               \/ blk[b].phase = "none" /\ blk'[b].phase = "leaked" /\ ~Joinable
               \/ \E w \in Workers : LeftOver(w) /\ wblk[w] = b
           OwnSockets ==
             \A s \in Sockets :
               client'[s] # client[s] \/ known'[s] # known[s] \/ (s \in open' <=> s \notin open) =>
                 \E w \in Workers : LeftOver(w) /\ blk[wblk[w]].socket = s
<1>1. ASSUME NetInv, [Next]_vars, stop = "stopped" PROVE OwnBlocks /\ OwnSockets
  <2> USE <1>1
  <2>1. apc # "gone" \/ (\E w \in Workers : Busy(w)) => ~Joinable
    BY DEF NetInv, NoThreads, Busy
  <2>2. CASE \/ AcceptThreadEnds \/ PostAcceptReturns \/ UNCHANGED vars
             \/ \E w \in Workers : WorkerEnds(w)
    BY <2>2 DEF AcceptThreadEnds, PostAcceptReturns, WorkerEnds, vars
  <2>3. ASSUME NEW b \in Blocks, NEW s \in Sockets, PostAccept(b, s) PROVE OwnBlocks /\ OwnSockets
    <3>1. /\ blk[b].phase = "none" /\ apc = "post" /\ UNCHANGED <<client, known, open>>
          /\ blk' = [blk EXCEPT ![b] = [Free EXCEPT !.phase = "leaked"]]
      BY <2>3 DEF PostAccept
    <3>2. \A c \in Blocks : blk'[c] # blk[c] => c = b /\ blk'[c].phase = "leaked"
      BY <3>1 DEF NetInv, TypeOK, Free
    <3> QED BY <2>1, <3>1, <3>2
  <2>4. CASE System
    <3>1. PICK b \in Blocks : \E r : r.phase = "queued" /\ blk[b].phase = "pending" /\ Completes(b, r)
      BY <2>4 DEF System, AcceptCompletes, ReceiveCompletes, SendCompletes, NetInv, TypeOK, Block
    <3>2. PICK r : r.phase = "queued" /\ blk[b].phase = "pending" /\ Completes(b, r)
      BY <3>1
    <3>3. \A c \in Blocks : blk'[c] # blk[c] => c = b /\ blk'[c].phase = "queued"
      BY <3>2 DEF Completes, NetInv, TypeOK
    <3>4. UNCHANGED <<client, known, open>>
      BY <3>2 DEF Completes
    <3> QED BY <3>2, <3>3, <3>4
  <2>5. ASSUME NEW w \in Workers, Handle(w) PROVE OwnBlocks /\ OwnSockets
    <3>1. Busy(w)
      BY <2>5 DEF Handle, OnAccpet, FirstReceive, OnRecevie, OnSend, Unregister, Inform,
                  CloseSocket, Delete, Busy
    <3>2. LeftOver(w) /\ wblk[w] \in Blocks
      BY <2>1, <3>1 DEF LeftOver, NetInv, SingleOwner
    <3>3. \A b \in Blocks : b # wblk[w] => blk'[b] = blk[b]
      BY <2>5 DEF Handle, OnAccpet, FirstReceive, OnRecevie, OnSend, Unregister, Inform,
                  CloseSocket, Delete, Post, PostSend, Goto, NetInv, TypeOK
    <3>4. \A s \in Sockets : s # blk[wblk[w]].socket =>
            client'[s] = client[s] /\ known'[s] = known[s] /\ (s \in open' <=> s \in open)
      BY <2>5 DEF Handle, OnAccpet, FirstReceive, OnRecevie, OnSend, Unregister, Inform,
                  CloseSocket, Delete, NetInv, TypeOK
    <3> QED BY <3>2, <3>3, <3>4
  <2>6. ~(Start \/ StartFails \/ CloseListener \/ StopStep \/ AcceptEvent)
    BY DEF Start, StartFails, CloseListener, StopStep, PostQuits, CloseAll, AcceptEvent
  <2>7. \A w \in Workers, b \in Blocks : ~Dequeue(w, b)
    BY DEF Dequeue
  <2> QED BY <2>2, <2>3, <2>4, <2>5, <2>6, <2>7 DEF Next, AcceptThread, Terminated
<1>2. NetInv /\ [Next]_vars => [stop = "stopped" => OwnBlocks /\ OwnSockets]_vars
  BY <1>1
<1> QED BY <1>2, NetInvInvariant, PTL DEF Spec, StopLeavesNobody

(* What GetPeerInfo finds in the map is a live block with an open socket, until  *)
(* Stop has returned after a wait that failed.                                *)
THEOREM MapIsAccurate == Spec => [](stop # "stopped" \/ Joinable => MapAccurate)
<1>1. NetInv => (stop # "stopped" \/ Joinable => MapAccurate)
  <2> SUFFICES ASSUME NetInv, stop # "stopped" \/ Joinable, NEW s \in Sockets, client[s] # None
               PROVE  /\ blk[client[s]].phase \in {"pending", "queued", "held"}
                      /\ blk[client[s]].socket = s /\ s \in open
    BY DEF MapAccurate
  <2>1. stop # "stopped"
    BY DEF NetInv, NoThreads
  <2>2. client[s] \in Blocks /\ HasSocket(client[s]) /\ blk[client[s]].socket = s
    BY <2>1 DEF NetInv, MapOwned
  <2> QED BY <2>1, <2>2 DEF NetInv, SocketsOwned, HasSocket, Live
<1> QED BY <1>1, NetInvInvariant, PTL
-----------------------------------------------------------------------------
(* The sends of a module whose sends complete whole or with nothing.           *)

(* A whole reply is on its way, none of it counted yet.                       *)
Untouched(r) ==
  r.sendlength = 0 /\ r.total = r.reply /\ r.len = r.reply /\ r.delivered = 0

(* It has been sent, or its connection is broken.                             *)
Carried(r) ==
  r.sendlength = 0 /\ r.total = r.reply /\ r.delivered = r.bytes /\ r.bytes \in {0, r.reply}

BlockSends(b) ==
  blk[b].event = "SEND" => /\ blk[b].phase = "pending" => Untouched(blk[b])
                           /\ blk[b].phase = "queued" => Carried(blk[b])

WorkerSends(w) ==
  /\ wpc[w] \in {"ACCEPT", "first"} => blk[wblk[w]].event = "ACCEPT"
  /\ wpc[w] = "SEND" => /\ blk[wblk[w]].event = "SEND" /\ blk[wblk[w]].bytes # 0
                        /\ Carried(blk[wblk[w]])

SendInv == (\A b \in Blocks : BlockSends(b)) /\ (\A w \in Workers : WorkerSends(w))

(* One block moves, whose handler, if it has one, sends what it should.         *)
LEMMA OneBlockSends ==
  ASSUME NetInv, SendInv, NEW b \in Blocks, NEW q, blk' = [blk EXCEPT ![b] = q],
         q.event = "SEND" => /\ q.phase = "pending" => Untouched(q)
                             /\ q.phase = "queued" => Carried(q),
         \A w \in Workers :
           \/ wpc'[w] \notin {"ACCEPT", "first", "SEND"}
           \/ wpc'[w] = wpc[w] /\ wblk'[w] = wblk[w] /\ wblk[w] # b
           \/ WorkerSends(w)'
  PROVE  SendInv'
<1>0. DOMAIN blk = Blocks /\ blk'[b] = q /\ \A c : c # b => blk'[c] = blk[c]
  BY DEF NetInv, TypeOK
<1>1. ASSUME NEW c \in Blocks PROVE BlockSends(c)'
  BY <1>0 DEF SendInv, BlockSends, Untouched, Carried
<1>2. ASSUME NEW w \in Workers PROVE WorkerSends(w)'
  <2>1. CASE wpc'[w] = wpc[w] /\ wblk'[w] = wblk[w] /\ wblk[w] # b
    <3>1. blk'[wblk'[w]] = blk[wblk[w]]
      BY <1>0, <2>1
    <3> QED
      BY <2>1, <3>1 DEF SendInv, WorkerSends, Carried
  <2> QED
    BY <2>1 DEF WorkerSends
<1> QED
  BY <1>1, <1>2 DEF SendInv

(* No block moves, and no worker comes to a handler but from OnAccpet.          *)
LEMMA NoBlockSends ==
  ASSUME SendInv, UNCHANGED blk,
         \A w \in Workers :
           \/ wpc'[w] \notin {"ACCEPT", "first", "SEND"}
           \/ wpc'[w] = wpc[w] /\ wblk'[w] = wblk[w]
           \/ wpc[w] = "ACCEPT" /\ wpc'[w] = "first" /\ wblk'[w] = wblk[w]
  PROVE  SendInv'
<1>1. ASSUME NEW c \in Blocks PROVE BlockSends(c)'
  BY DEF SendInv, BlockSends, Untouched, Carried
<1>2. ASSUME NEW w \in Workers PROVE WorkerSends(w)'
  <2>1. WorkerSends(w)
    BY DEF SendInv
  <2> QED
    BY <2>1 DEF WorkerSends, Carried
<1> QED
  BY <1>1, <1>2 DEF SendInv

(* The block of a worker that goes on to wait or to close.                      *)
LEMMA HandledSends ==
  ASSUME NetInv, SendInv, NEW w \in Workers, Busy(w),
         NEW q, blk' = [blk EXCEPT ![wblk[w]] = q],
         q.event = "SEND" => /\ q.phase = "pending" => Untouched(q)
                             /\ q.phase = "queued" => Carried(q),
         NEW pc, pc \in {"get", "close"}, wpc' = [wpc EXCEPT ![w] = pc],
         wblk' = wblk \/ wblk' = [wblk EXCEPT ![w] = None]
  PROVE  SendInv'
<1>1. wblk[w] \in Blocks /\ wpc \in [Workers -> WorkerPCs] /\ wblk \in [Workers -> Blocks \cup {None}]
  BY DEF NetInv, TypeOK, SingleOwner
<1>2. ASSUME NEW v \in Workers, v # w
      PROVE  wpc'[v] = wpc[v] /\ wblk'[v] = wblk[v] /\ (Busy(v) => wblk[v] # wblk[w])
  BY <1>1, <1>2 DEF NetInv, SingleOwner
<1>3. wpc'[w] \notin {"ACCEPT", "first", "SEND"}
  BY <1>1
<1>4. \A v \in Workers :
        \/ wpc'[v] \notin {"ACCEPT", "first", "SEND"}
        \/ wpc'[v] = wpc[v] /\ wblk'[v] = wblk[v] /\ wblk[v] # wblk[w]
  BY <1>2, <1>3 DEF Busy
<1> QED
  BY <1>1, <1>4, OneBlockSends

LEMMA PostSends ==
  ASSUME NetInv, SendInv, NEW w \in Workers, Busy(w), NEW r \in Block, r.phase = "held",
         r.event = "SEND" => Untouched(r), Post(w, r)
  PROVE  SendInv'
<1>1. CASE /\ blk' = [blk EXCEPT ![wblk[w]] = [r EXCEPT !.phase = "pending", !.bytes = 0]]
           /\ wpc' = [wpc EXCEPT ![w] = "get"] /\ wblk' = [wblk EXCEPT ![w] = None]
  <2> DEFINE q == [r EXCEPT !.phase = "pending", !.bytes = 0]
  <2>1. /\ q.phase = "pending" /\ q.event = r.event
        /\ q.sendlength = r.sendlength /\ q.total = r.total /\ q.len = r.len
        /\ q.reply = r.reply /\ q.delivered = r.delivered
    BY DEF Block
  <2>2. blk' = [blk EXCEPT ![wblk[w]] = q]
    BY <1>1
  <2> HIDE DEF q
  <2>3. q.event = "SEND" => (q.phase = "pending" => Untouched(q)) /\ (q.phase = "queued" => Carried(q))
    BY <2>1 DEF Untouched
  <2> QED
    BY <1>1, <2>2, <2>3, HandledSends
<1>2. CASE /\ blk' = [blk EXCEPT ![wblk[w]] = r]
           /\ wpc' = [wpc EXCEPT ![w] = "close"] /\ UNCHANGED wblk
  BY <1>2, HandledSends
<1> QED
  BY <1>1, <1>2 DEF Post, Goto

(* A handler that has decided to close.                                      *)
LEMMA RefusedSends ==
  ASSUME SendInv, NetInv, NEW w \in Workers, Goto(w, "close"), UNCHANGED <<blk, wblk>>
  PROVE  SendInv'
<1>1. \A v \in Workers : wpc'[v] = "close" \/ wpc'[v] = wpc[v]
  BY DEF Goto, NetInv, TypeOK
<1> QED
  BY <1>1, NoBlockSends

LEMMA OnRecevieSends ==
  ASSUME NetInv, SendInv, NEW w \in Workers, OnRecevie(w)
  PROVE  SendInv'
<1> DEFINE r == blk[wblk[w]]
<1>1. Busy(w) /\ r \in Block /\ r.phase = "held" /\ r.event = "RECEIVE"
  BY DEF NetInv, TypeOK, SingleOwner, Busy, ReceivedFits, OnRecevie
<1>2. CASE Goto(w, "close") /\ UNCHANGED <<blk, wblk>>
  BY <1>2, RefusedSends
<1>3. ASSUME NEW reply \in HeaderLength..MaxLength, PostSend(w, SendNew(r, reply)) PROVE SendInv'
  <2> DEFINE q == SendNew(r, reply)
  <2>1. q \in Block /\ q.phase = "held"
    BY <1>1, SendNewBlock DEF Same
  <2>2. Untouched(q)
    BY <1>1 DEF SendNew, Untouched, Block
  <2> HIDE DEF q
  <2>3. CASE Post(w, q)
    BY <1>1, <2>1, <2>2, <2>3, PostSends
  <2>4. CASE blk' = [blk EXCEPT ![wblk[w]] = q] /\ Goto(w, "close") /\ UNCHANGED wblk
    BY <1>1, <2>1, <2>4, HandledSends DEF Goto
  <2> QED
    BY <1>3, <2>3, <2>4 DEF PostSend, q
<1>4. CASE Post(w, ReceiveRest(r)) /\ ParasePackage(r.declared, r.recvlength + r.bytes) > r.recvlength + r.bytes
  <2>1. ParasePackage(r.declared, r.recvlength + r.bytes) \in 0..MaxLength
    BY <1>1, LengthAssumption DEF ParasePackage, Block
  <2>2. r.recvlength + r.bytes < MaxLength
    BY <1>1, <1>4, <2>1, LengthAssumption DEF Block
  <2>3. Divided(r)
    BY DEF NetInv, TypeOK, SingleOwner, Busy, BufferDivided, Divided, OnRecevie
  <2>4. Same(ReceiveRest(r), r) /\ ReceiveRest(r).event = "RECEIVE"
    BY <1>1, <2>2, <2>3, ReceiveRestBlock
  <2> QED
    BY <1>1, <1>4, <2>4, PostSends DEF Same
<1> QED
  BY <1>2, <1>3, <1>4 DEF OnRecevie

(* A send that has completed is whole: the next operation is a receive.         *)
LEMMA OnSendSends ==
  ASSUME NetInv, SendInv, NEW w \in Workers, OnSend(w)
  PROVE  /\ SendInv' /\ blk[wblk[w]].delivered = blk[wblk[w]].reply
         /\ \A b \in Blocks : b # wblk[w] => blk'[b] = blk[b]
<1> DEFINE r == blk[wblk[w]]
<1>1. Busy(w) /\ r \in Block /\ r.phase = "held" /\ wblk[w] \in Blocks /\ wpc[w] = "SEND"
  BY DEF NetInv, TypeOK, SingleOwner, Busy, OnSend
<1>2. Carried(r) /\ r.bytes # 0
  BY <1>1 DEF SendInv, WorkerSends
<1>3. r.sendlength = 0 /\ r.total = r.reply /\ r.bytes = r.reply /\ r.delivered = r.reply /\ r.reply \in Nat
  BY <1>1, <1>2, LengthAssumption DEF Carried, Block
<1>4. ~(r.sendlength + r.bytes < r.total)
  BY <1>3
<1>5. CASE Goto(w, "close") /\ UNCHANGED <<blk, wblk>>
  BY <1>3, <1>5, RefusedSends
<1>6. CASE Post(w, ReceiveNew(r))
  <2>1. Same(ReceiveNew(r), r) /\ ReceiveNew(r).event = "RECEIVE"
    BY <1>1, ReceiveNewBlock
  <2>2. SendInv'
    BY <1>1, <1>6, <2>1, PostSends DEF Same
  <2>3. \A b \in Blocks : b # wblk[w] => blk'[b] = blk[b]
    BY <1>6 DEF Post, NetInv, TypeOK
  <2> QED
    BY <1>3, <2>2, <2>3
<1> QED
  BY <1>4, <1>5, <1>6 DEF OnSend

LEMMA SendsOnPort ==
  ASSUME PartialSends = FALSE, NetInv, SendInv, NEW b \in Blocks,
         \/ AcceptCompletes(b)
         \/ \E n \in 0..MaxLength, declared \in 0..MaxLength : ReceiveCompletes(b, n, declared)
         \/ \E n \in 0..MaxLength : SendCompletes(b, n)
  PROVE  SendInv' /\ \A c \in Blocks : blk'[c].event = blk[c].event
<1> DEFINE r == blk[b]
<1>1. r \in Block /\ DOMAIN blk = Blocks
  BY DEF NetInv, TypeOK
<1>2. r.phase = "pending" /\ UNCHANGED <<wpc, wblk>>
  BY DEF AcceptCompletes, ReceiveCompletes, SendCompletes, Completes
<1>3. \A w \in Workers : Busy(w) => wblk[w] # b
  BY <1>2 DEF NetInv, SingleOwner
<1>4. ASSUME NEW q, blk' = [blk EXCEPT ![b] = q], q.event = r.event, q.phase = "queued",
             q.event = "SEND" => Carried(q)
      PROVE  SendInv' /\ \A c \in Blocks : blk'[c].event = blk[c].event
  <2>1. \A w \in Workers :
          \/ wpc'[w] \notin {"ACCEPT", "first", "SEND"}
          \/ wpc'[w] = wpc[w] /\ wblk'[w] = wblk[w] /\ wblk[w] # b
    BY <1>2, <1>3 DEF Busy
  <2>2. SendInv'
    BY <1>4, <2>1, OneBlockSends
  <2> QED
    BY <1>1, <1>4, <2>2
<1>5. CASE AcceptCompletes(b)
  <2> DEFINE q == [r EXCEPT !.phase = "queued"]
  <2>1. q.event = r.event /\ q.phase = "queued" /\ r.event = "ACCEPT"
    BY <1>1, <1>5 DEF Block, AcceptCompletes
  <2>2. blk' = [blk EXCEPT ![b] = q]
    BY <1>5 DEF AcceptCompletes, Completes
  <2> QED
    BY <1>4, <2>1, <2>2
<1>6. ASSUME NEW n \in 0..MaxLength, NEW declared \in 0..MaxLength, ReceiveCompletes(b, n, declared)
      PROVE  SendInv' /\ \A c \in Blocks : blk'[c].event = blk[c].event
  <2> DEFINE q == [r EXCEPT !.phase = "queued", !.bytes = n, !.declared = declared]
  <2>1. q.event = r.event /\ q.phase = "queued" /\ r.event = "RECEIVE"
    BY <1>1, <1>6 DEF Block, ReceiveCompletes
  <2>2. blk' = [blk EXCEPT ![b] = q]
    BY <1>6 DEF ReceiveCompletes, Completes
  <2> QED
    BY <1>4, <2>1, <2>2
<1>7. ASSUME NEW n \in 0..MaxLength, SendCompletes(b, n)
      PROVE  SendInv' /\ \A c \in Blocks : blk'[c].event = blk[c].event
  <2> DEFINE q == [r EXCEPT !.phase = "queued", !.bytes = n, !.delivered = @ + n]
  <2>1. Untouched(r) /\ (n = 0 \/ n = r.len) /\ r.event = "SEND"
    BY <1>2, <1>7 DEF SendCompletes, SendInv, BlockSends
  <2>2. /\ q.event = r.event /\ q.phase = "queued" /\ q.bytes = n /\ q.delivered = r.delivered + n
        /\ q.sendlength = r.sendlength /\ q.total = r.total /\ q.reply = r.reply
    BY <1>1 DEF Block
  <2>3. blk' = [blk EXCEPT ![b] = q]
    BY <1>7 DEF SendCompletes, Completes
  <2> HIDE DEF q
  <2>4. r.delivered + n = n /\ n \in {0, r.reply}
    BY <2>1 DEF Untouched
  <2>5. Carried(q)
    BY <2>1, <2>2, <2>4 DEF Untouched, Carried
  <2> QED
    BY <1>4, <2>2, <2>3, <2>5
<1> QED
  BY <1>5, <1>6, <1>7

LEMMA DequeueSends ==
  ASSUME NetInv, SendInv, NEW w \in Workers, NEW b \in Blocks, Dequeue(w, b)
  PROVE  SendInv' /\ \A c \in Blocks : blk'[c].event = blk[c].event
<1> DEFINE r == blk[b]
<1> DEFINE q == [r EXCEPT !.phase = "held"]
<1>1. r \in Block /\ DOMAIN blk = Blocks /\ wpc \in [Workers -> WorkerPCs] /\ wblk \in [Workers -> Blocks \cup {None}]
  BY DEF NetInv, TypeOK
<1>2. /\ q.event = r.event /\ q.phase = "held" /\ q.bytes = r.bytes /\ q.delivered = r.delivered
      /\ q.sendlength = r.sendlength /\ q.total = r.total /\ q.reply = r.reply
  BY <1>1 DEF Block
<1>3. blk' = [blk EXCEPT ![b] = q] /\ r.phase = "queued"
  BY DEF Dequeue
<1> HIDE DEF q
<1>4. blk'[b] = q /\ wblk'[w] = b
  BY <1>1, <1>3 DEF Dequeue
<1>5. /\ wpc'[w] \in {"ACCEPT", "RECEIVE", "SEND", "close"}
      /\ wpc'[w] \in {"ACCEPT", "SEND"} => r.event = wpc'[w]
      /\ wpc'[w] = "SEND" => r.bytes # 0
  BY <1>1 DEF Dequeue, Block
<1>6. r.event = "SEND" => Carried(q)
  BY <1>2, <1>3 DEF SendInv, BlockSends, Carried
<1>7. WorkerSends(w)'
  BY <1>2, <1>4, <1>5, <1>6 DEF WorkerSends, Carried
<1>8. ASSUME NEW v \in Workers, v # w, Busy(v) PROVE wpc'[v] = wpc[v] /\ wblk'[v] = wblk[v] /\ wblk[v] # b
  BY <1>1, <1>3, <1>8 DEF Dequeue, NetInv, SingleOwner
<1>9. ASSUME NEW v \in Workers, v # w, ~Busy(v) PROVE wpc'[v] \notin {"ACCEPT", "first", "SEND"}
  BY <1>1, <1>9 DEF Dequeue, Busy
<1>10. SendInv'
  BY <1>2, <1>3, <1>7, <1>8, <1>9, OneBlockSends
<1> QED
  BY <1>1, <1>2, <1>3, <1>10

(* Every step, with what RepliesWhole says of it.                              *)
LEMMA SendStep ==
  ASSUME PartialSends = FALSE, NetInv, SendInv, [Next]_vars
  PROVE  /\ SendInv'
         /\ \A b \in Blocks :
              blk[b].event = "SEND" /\ blk'[b].event = "RECEIVE" => blk[b].delivered = blk[b].reply
<1> DEFINE Goal == /\ SendInv'
                   /\ \A b \in Blocks : blk[b].event = "SEND" /\ blk'[b].event = "RECEIVE"
                                          => blk[b].delivered = blk[b].reply
<1> USE DEF NetInv, TypeOK
<1>1. CASE Start
  <2>1. \A w \in Workers : wpc'[w] \in {"get", "failed"}
    BY <1>1 DEF Start
  <2> QED
    BY <1>1, <2>1, NoBlockSends DEF Start
<1>2. CASE \/ StartFails \/ CloseListener \/ StopStep \/ AcceptThreadEnds \/ PostAcceptReturns
           \/ AcceptEvent \/ UNCHANGED vars
  <2>1. UNCHANGED <<blk, wpc, wblk>>
    BY <1>2 DEF StartFails, CloseListener, StopStep, PostQuits, CloseAll, AcceptThreadEnds,
                PostAcceptReturns, AcceptEvent, vars
  <2> QED
    BY <2>1, NoBlockSends
<1>3. ASSUME NEW b \in Blocks, NEW s \in Sockets, PostAccept(b, s) PROVE Goal
  <2>1. PICK q : blk' = [blk EXCEPT ![b] = q] /\ q.event = "ACCEPT"
    BY <1>3, AcceptBlocks DEF PostAccept
  <2>2. \A w \in Workers : Busy(w) => wblk[w] # b
    BY <1>3 DEF PostAccept, SingleOwner
  <2>3. \A w \in Workers :
          \/ wpc'[w] \notin {"ACCEPT", "first", "SEND"}
          \/ wpc'[w] = wpc[w] /\ wblk'[w] = wblk[w] /\ wblk[w] # b
    BY <1>3, <2>2 DEF PostAccept, Busy
  <2>4. SendInv'
    BY <2>1, <2>3, OneBlockSends
  <2> QED
    BY <2>1, <2>4
<1>4. CASE System
  <2>1. SendInv' /\ \A c \in Blocks : blk'[c].event = blk[c].event
    BY <1>4, SendsOnPort DEF System
  <2> QED
    BY <2>1
<1>5. ASSUME NEW w \in Workers, OnAccpet(w) \/ Unregister(w) \/ Inform(w) \/ CloseSocket(w) PROVE Goal
  <2>1. UNCHANGED <<blk, wblk>>
    BY <1>5 DEF OnAccpet, Unregister, Inform, CloseSocket
  <2>2. /\ wpc'[w] = "first" => wpc[w] = "ACCEPT"
        /\ wpc'[w] \in {"first", "close", "inform", "closesocket", "delete"}
    BY <1>5 DEF OnAccpet, Unregister, Inform, CloseSocket, Goto
  <2>3. \A v \in Workers : v # w => wpc'[v] = wpc[v]
    BY <1>5 DEF OnAccpet, Unregister, Inform, CloseSocket, Goto
  <2> QED
    BY <2>1, <2>2, <2>3, NoBlockSends
<1>6. ASSUME NEW w \in Workers, FirstReceive(w) PROVE Goal
  <2> DEFINE r == blk[wblk[w]]
  <2>1. r \in Block /\ r.phase = "held" /\ r.event = "ACCEPT" /\ Busy(w) /\ Post(w, ReceiveNew(r))
    BY <1>6 DEF SingleOwner, Busy, FirstReceive, SendInv, WorkerSends
  <2>2. Same(ReceiveNew(r), r) /\ ReceiveNew(r).event = "RECEIVE"
    BY <2>1, ReceiveNewBlock
  <2>3. SendInv'
    BY <2>1, <2>2, PostSends DEF Same
  <2>4. \A b \in Blocks : b # wblk[w] => blk'[b] = blk[b]
    BY <2>1 DEF Post
  <2> QED
    BY <2>1, <2>3, <2>4
<1>7. ASSUME NEW w \in Workers, OnRecevie(w) PROVE Goal
  <2>1. \A b \in Blocks : b # wblk[w] => blk'[b] = blk[b]
    BY <1>7 DEF OnRecevie, PostSend, Post
  <2>2. blk[wblk[w]].event = "RECEIVE"
    BY <1>7 DEF OnRecevie, ReceivedFits
  <2> QED
    BY <1>7, <2>1, <2>2, OnRecevieSends
<1>8. ASSUME NEW w \in Workers, OnSend(w) PROVE Goal
  BY <1>8, OnSendSends
<1>9. ASSUME NEW w \in Workers, Delete(w) PROVE Goal
  <2>1. /\ blk' = [blk EXCEPT ![wblk[w]] = Free] /\ wpc' = [wpc EXCEPT ![w] = "get"]
        /\ wblk' = [wblk EXCEPT ![w] = None] /\ Busy(w)
    BY <1>9 DEF Delete, Goto, Busy
  <2>2. Free.event = "ACCEPT"
    BY DEF Free
  <2>3. SendInv'
    BY <2>1, <2>2, HandledSends
  <2> QED
    BY <2>1, <2>2, <2>3
<1>10. ASSUME NEW w \in Workers, WorkerEnds(w) PROVE Goal
  <2>1. UNCHANGED <<blk, wblk>> /\ \A v \in Workers : wpc'[v] = "gone" \/ wpc'[v] = wpc[v]
    BY <1>10 DEF WorkerEnds
  <2> QED
    BY <2>1, NoBlockSends
<1>11. ASSUME NEW w \in Workers, NEW b \in Blocks, Dequeue(w, b) PROVE Goal
  BY <1>11, DequeueSends
<1> QED
  BY <1>1, <1>2, <1>3, <1>4, <1>5, <1>6, <1>7, <1>8, <1>9, <1>10, <1>11
     DEF Next, AcceptThread, Handle, Terminated

(* Where every send completes whole or fails, a reply is whole when the next     *)
(* receive is posted: what goes wrong in OnSend (knet.cpp:272) goes wrong only    *)
(* with a send that completes in part.                                        *)
THEOREM WholeWithoutParts ==
  ASSUME PartialSends = FALSE
  PROVE  Spec => RepliesWhole
<1>1. Init => SendInv
  BY DEF Init, Free, SendInv, BlockSends, WorkerSends
<1>2. NetInv /\ SendInv /\ [Next]_vars => SendInv'
  BY SendStep
<1>3. NetInv /\ SendInv /\ [Next]_vars =>
        [\A b \in Blocks : blk[b].event = "SEND" /\ blk'[b].event = "RECEIVE"
                             => blk[b].delivered = blk[b].reply]_vars
  BY SendStep
<1> QED
  BY <1>1, <1>2, <1>3, NetInvInvariant, PTL DEF Spec, RepliesWhole
=============================================================================
