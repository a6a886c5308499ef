---------------------------- MODULE ServiceProofs ----------------------------
(***************************************************************************)
(* Proofs about the processes of the service: the listener with its worker *)
(* threads (Admission) and the scripts that start and stop the viewer      *)
(* (Lifecycle).  The two modules share nothing and are next to each other  *)
(* here.                                                                   *)
(*                                                                         *)
(* The listener: for every number of connections, every max_active in      *)
(* 1..32 and every backlog size.  IInv is the inductive invariant: TypeOK  *)
(* and SlotsConserved alone are not, because a slot is counted once only   *)
(* if the connection the accept loop has in hand, and every connection in  *)
(* the backlog, has no worker yet.  The refinement of WorkerPool follows   *)
(* from the same invariant.                                                *)
(*                                                                         *)
(* The scripts: for any number of operators and process numbers.  As long  *)
(* as nothing is tangled there is one script at work, and its position     *)
(* tells which viewers there are and what the PID file says of them; what  *)
(* a restart found loaded is loaded until it is killed.                    *)
(***************************************************************************)
EXTENDS Admission, Lifecycle, FiniteSetTheorems, TLAPS

\* The accept loop holds an open connection that has no worker yet.
HandInv ==
    /\ loop.pc = "select" => loop.conn = NoConn
    /\ loop.pc # "select" =>
          /\ loop.conn \in Conns
          /\ sock[loop.conn] = "open"
          /\ worker[loop.conn] = "none"

\* The backlog names each connection that waits in it once.
BacklogInv ==
    /\ \A i \in 1..Len(backlog) : sock[backlog[i]] = "backlog"
    /\ \A i, j \in 1..Len(backlog) : backlog[i] = backlog[j] => i = j

\* A worker closes its connection before it gives the slot back.
WorkerInv ==
    \A c \in Conns :
        /\ worker[c] \in {"read", "run", "write", "shutdown"} => sock[c] = "open"
        /\ worker[c] = "release" => sock[c] = "closed"

\* Everything but the count: where each connection is and who has it.
Shape == TypeOK /\ HandInv /\ BacklogInv /\ WorkerInv /\ OpenSocketsOwned

IInv == Shape /\ SlotsConserved

---------------------------------------------------------------------------
(* The holders of slots are finitely many, and counting them follows the   *)
(* semaphore.                                                              *)

\* Holders and Workers are finite, and no more than max_active (the release
\* in the code never exceeds the semaphore's initial value).
LEMMA HoldersFinite ==
    ASSUME IInv
    PROVE  /\ IsFiniteSet(Holders) /\ IsFiniteSet(Workers)
           /\ Cardinality(Holders) \in Nat
           /\ slots \in Nat /\ MaxActive \in Nat
<1>1. Holders \in SUBSET Conns /\ Workers \in SUBSET Conns
  BY DEF IInv, Shape, HandInv, Holders, Workers
<1>2. IsFiniteSet(Holders) /\ IsFiniteSet(Workers)
  BY <1>1, FS_Subset, ConnsAssumption
<1>3. slots \in Nat /\ MaxActive \in Nat
  BY MaxActiveAssumption DEF IInv, Shape, TypeOK
<1> QED
  BY <1>2, <1>3, FS_CardinalityType

\* A step that changes neither the holders nor the semaphore keeps the sum.
LEMMA CountKept ==
    ASSUME IInv, Holders' = Holders, slots' = slots
    PROVE  SlotsConserved'
BY DEF IInv, SlotsConserved

\* A step that takes a slot and adds one holder keeps the sum.
LEMMA CountTaken ==
    ASSUME IInv, NEW c, c \notin Holders,
           Holders' = Holders \union {c}, slots' = slots - 1
    PROVE  SlotsConserved'
<1>1. Cardinality(Holders') = Cardinality(Holders) + 1
  BY HoldersFinite, FS_AddElement
<1> QED
  BY <1>1, HoldersFinite DEF IInv, SlotsConserved

\* A step that removes one holder and releases keeps the sum: while somebody
\* holds a slot the semaphore is below max_active, so release() adds one.
LEMMA CountReleased ==
    ASSUME IInv, NEW c, c \in Holders,
           Holders' = Holders \ {c}, Release
    PROVE  SlotsConserved'
<1>1. Cardinality(Holders') = Cardinality(Holders) - 1
  BY HoldersFinite, FS_RemoveElement
<1>2. Cardinality(Holders') \in Nat
  BY HoldersFinite, FS_RemoveElement, FS_CardinalityType
<1>3. slots + Cardinality(Holders) = MaxActive
  BY DEF IInv, SlotsConserved
<1>4. slots < MaxActive
  BY <1>1, <1>2, <1>3, HoldersFinite
<1>5. slots' = slots + 1
  BY <1>4 DEF Release
<1> QED
  BY <1>1, <1>3, <1>5, HoldersFinite DEF SlotsConserved

---------------------------------------------------------------------------
(* Initially *)

LEMMA InitIInv == Init => IInv
<1> SUFFICES ASSUME Init PROVE IInv
  OBVIOUS
<1>1. Shape
  BY ConnsAssumption, MaxActiveAssumption
  DEF Init, Shape, TypeOK, HandInv, BacklogInv, WorkerInv, OpenSocketsOwned,
      LoopPCs, WorkerPCs, SockStates, ClientActs, Replies
<1>2. Holders = {}
  BY DEF Init, Holders, Workers
<1> QED
  BY <1>1, <1>2, FS_EmptySet, MaxActiveAssumption DEF Init, IInv, SlotsConserved

---------------------------------------------------------------------------
(* The shape is kept by every step *)

LEMMA ShapeOfClients ==
    ASSUME Shape, NEW c \in Conns, ClientNext(c)
    PROVE  Shape'
<1> USE DEF Shape, TypeOK, HandInv, BacklogInv, WorkerInv, OpenSocketsOwned,
            LoopPCs, WorkerPCs, SockStates, ClientActs, Replies
<1>1. CASE Connect(c)
  BY <1>1, ConnsAssumption DEF Connect
<1>2. CASE ClientSends(c) \/ ClientDrains(c) \/ ClientGoes(c)
  BY <1>2 DEF ClientSends, ClientDrains, ClientGoes, ClientMoves
<1>3. CASE Reconnect(c)
  BY <1>3 DEF Reconnect
<1> QED
  BY <1>1, <1>2, <1>3 DEF ClientNext

LEMMA ShapeOfWorkers ==
    ASSUME Shape, NEW c \in Conns, WorkerNext(c), MaxActive \in Nat
    PROVE  Shape'
<1> USE DEF Shape, TypeOK, HandInv, BacklogInv, WorkerInv, OpenSocketsOwned,
            LoopPCs, WorkerPCs, SockStates, ClientActs, Replies, WorkerStep
<1>1. CASE ReadRequest(c)
  BY <1>1 DEF ReadRequest
<1>2. CASE AnswerShort(c)
  BY <1>2 DEF AnswerShort
<1>3. CASE AnswerLong(c)
  BY <1>3 DEF AnswerLong
<1>4. CASE WriteOn(c)
  BY <1>4 DEF WriteOn
<1>5. CASE EndOnPeer(c)
  BY <1>5 DEF EndOnPeer
<1>6. CASE HandlerRaises(c)
  BY <1>6 DEF HandlerRaises
<1>7. CASE ShutdownRequest(c)
  BY <1>7 DEF ShutdownRequest
<1>8. CASE ReleaseSlot(c)
  BY <1>8 DEF ReleaseSlot, Release
<1> QED
  BY <1>1, <1>2, <1>3, <1>4, <1>5, <1>6, <1>7, <1>8 DEF WorkerNext

LEMMA ShapeOfLoop ==
    ASSUME Shape, LoopNext, MaxActive \in Nat
    PROVE  Shape'
<1> USE DEF Shape, TypeOK, HandInv, BacklogInv, WorkerInv, OpenSocketsOwned,
            LoopPCs, WorkerPCs, SockStates, ClientActs, Replies
<1>1. CASE Accept
  <2> DEFINE h == Head(backlog)
  <2>1. /\ h \in Conns /\ h = backlog[1] /\ 1 \in 1..Len(backlog)
        /\ Tail(backlog) \in Seq(Conns)
        /\ Len(Tail(backlog)) = Len(backlog) - 1
        /\ \A i \in 1..Len(Tail(backlog)) :
              Tail(backlog)[i] = backlog[i + 1] /\ i + 1 \in 1..Len(backlog)
    BY <1>1 DEF Accept
  <2>2. sock[h] = "backlog" /\ worker[h] = "none"
    BY <2>1
  <2> HIDE DEF h
  <2>3. TypeOK'
    BY <1>1, <2>1 DEF Accept, h
  <2>4. HandInv'
    BY <1>1, <2>1, <2>2, ConnsAssumption DEF Accept, h
  <2>5. \A i \in 1..Len(Tail(backlog)) : Tail(backlog)[i] # h
    BY <2>1
  <2>6. BacklogInv'
    BY <1>1, <2>1, <2>5 DEF Accept, h
  <2>7. /\ loop.conn = NoConn /\ loop'.conn = h /\ worker' = worker
        /\ sock' = [sock EXCEPT ![h] = "open"]
    BY <1>1 DEF Accept, h
  <2>8. WorkerInv'
    BY <2>1, <2>2, <2>7
  <2>9. OpenSocketsOwned'
    BY <2>1, <2>2, <2>7, ConnsAssumption
  <2> QED
    BY <2>3, <2>4, <2>6, <2>8, <2>9
<1>2. CASE AcquireSlot
  BY <1>2 DEF AcquireSlot
<1>3. CASE FindNoSlot
  BY <1>3 DEF FindNoSlot
<1>4. CASE ArmTimeout
  BY <1>4 DEF ArmTimeout
<1>5. CASE SpawnWorker
  BY <1>5, ConnsAssumption DEF SpawnWorker
<1>6. CASE SpawnFails
  BY <1>6 DEF SpawnFails, Release
<1>7. CASE HandleError
  BY <1>7, ConnsAssumption DEF HandleError
<1>8. CASE RejectOverCapacity
  BY <1>8, ConnsAssumption DEF RejectOverCapacity
<1>9. CASE ArmRefusal
  BY <1>9 DEF ArmRefusal
<1> QED
  BY <1>1, <1>2, <1>3, <1>4, <1>5, <1>6, <1>7, <1>8, <1>9 DEF LoopNext

---------------------------------------------------------------------------
(* The count is kept by every step *)

LEMMA CountOfLoop ==
    ASSUME IInv, LoopNext
    PROVE  SlotsConserved'
<1> USE DEF IInv, Shape, TypeOK, HandInv, WorkerInv, LoopPCs
<1>1. CASE Accept
  <2>1. Holders' = Holders
    BY <1>1 DEF Accept, Holders, Workers
  <2> QED
    BY <1>1, <2>1, CountKept DEF Accept
<1>2. CASE AcquireSlot
  <2>1. loop.conn \notin Holders /\ Holders' = Holders \union {loop.conn}
    BY <1>2 DEF AcquireSlot, Holders, Workers
  <2> QED
    BY <1>2, <2>1, CountTaken DEF AcquireSlot
<1>3. CASE FindNoSlot
  <2>1. Holders' = Holders
    BY <1>3 DEF FindNoSlot, Holders, Workers
  <2> QED
    BY <1>3, <2>1, CountKept DEF FindNoSlot
<1>4. CASE ArmTimeout
  <2>1. Holders' = Holders
    BY <1>4 DEF ArmTimeout, Holders, Workers
  <2> QED
    BY <1>4, <2>1, CountKept DEF ArmTimeout
<1>5. CASE SpawnWorker
  <2>1. Workers' = Workers \union {loop.conn}
    BY <1>5 DEF SpawnWorker, Workers
  <2>2. Holders' = Holders
    BY <1>5, <2>1 DEF SpawnWorker, Holders
  <2> QED
    BY <1>5, <2>2, CountKept DEF SpawnWorker
<1>6. CASE SpawnFails
  <2>1. loop.conn \in Holders /\ Holders' = Holders \ {loop.conn}
    BY <1>6 DEF SpawnFails, Holders, Workers
  <2> QED
    BY <1>6, <2>1, CountReleased DEF SpawnFails
<1>7. CASE HandleError
  <2>1. Holders' = Holders
    BY <1>7 DEF HandleError, Holders, Workers
  <2> QED
    BY <1>7, <2>1, CountKept DEF HandleError
<1>8. CASE RejectOverCapacity
  <2>1. Holders' = Holders
    BY <1>8 DEF RejectOverCapacity, Holders, Workers
  <2> QED
    BY <1>8, <2>1, CountKept DEF RejectOverCapacity
<1>9. CASE ArmRefusal
  <2>1. Holders' = Holders
    BY <1>9 DEF ArmRefusal, Holders, Workers
  <2> QED
    BY <1>9, <2>1, CountKept DEF ArmRefusal
<1> QED
  BY <1>1, <1>2, <1>3, <1>4, <1>5, <1>6, <1>7, <1>8, <1>9 DEF LoopNext

\* Every worker step but the last leaves the set of workers alone.
LEMMA WorkerMoves ==
    ASSUME IInv, NEW c \in Conns, NEW from \in WorkerPCs \ {"none"},
           NEW to \in WorkerPCs \ {"none"}, WorkerStep(c, from, to),
           UNCHANGED <<loop, slots>>
    PROVE  SlotsConserved'
<1>1. Holders' = Holders
  BY DEF IInv, Shape, TypeOK, WorkerStep, Holders, Workers
<1> QED
  BY <1>1, CountKept

LEMMA CountOfWorkers ==
    ASSUME IInv, NEW c \in Conns, WorkerNext(c)
    PROVE  SlotsConserved'
<1>1. CASE ReleaseSlot(c)
  <2>1. c \in Holders /\ Holders' = Holders \ {c}
    BY <1>1 DEF ReleaseSlot, WorkerStep, IInv, Shape, TypeOK, HandInv, LoopPCs,
                Holders, Workers
  <2> QED
    BY <1>1, <2>1, CountReleased DEF ReleaseSlot
<1>2. CASE EndOnPeer(c)
  <2>1. PICK at \in {"read", "write"} : WorkerStep(c, at, "shutdown")
    BY <1>2 DEF EndOnPeer
  <2> QED
    BY <1>2, <2>1, WorkerMoves DEF EndOnPeer, WorkerPCs
<1>3. CASE ReadRequest(c) \/ AnswerShort(c) \/ AnswerLong(c) \/ WriteOn(c)
           \/ HandlerRaises(c) \/ ShutdownRequest(c)
  BY <1>3, WorkerMoves DEF ReadRequest, AnswerShort, AnswerLong, WriteOn,
     HandlerRaises, ShutdownRequest, WorkerPCs
<1> QED
  BY <1>1, <1>2, <1>3 DEF WorkerNext

LEMMA CountOfClients ==
    ASSUME IInv, NEW c \in Conns, ClientNext(c)
    PROVE  SlotsConserved'
<1>1. UNCHANGED <<loop, slots, worker>>
  BY DEF ClientNext, Connect, ClientSends, ClientDrains, ClientGoes,
         ClientMoves, Reconnect
<1>2. Holders' = Holders
  BY <1>1 DEF Holders, Workers
<1> QED
  BY <1>1, <1>2, CountKept

---------------------------------------------------------------------------
LEMMA StepIInv == IInv /\ [Next]_vars => IInv'
<1> SUFFICES ASSUME IInv, [Next]_vars PROVE IInv'
  OBVIOUS
<1>1. MaxActive \in Nat
  BY MaxActiveAssumption
<1>2. CASE LoopNext
  BY <1>1, <1>2, ShapeOfLoop, CountOfLoop DEF IInv
<1>3. ASSUME NEW c \in Conns, WorkerNext(c) PROVE IInv'
  BY <1>1, <1>3, ShapeOfWorkers, CountOfWorkers DEF IInv
<1>4. ASSUME NEW c \in Conns, ClientNext(c) PROVE IInv'
  BY <1>4, ShapeOfClients, CountOfClients DEF IInv
<1>5. CASE UNCHANGED vars
  BY <1>5 DEF vars, IInv, Shape, TypeOK, HandInv, BacklogInv, WorkerInv,
     SlotsConserved, OpenSocketsOwned, Holders, Workers
<1> QED
  BY <1>2, <1>3, <1>4, <1>5 DEF Next

\* IInv is an invariant of the listener.
THEOREM Inductive == Spec => []IInv
<1> QED
  BY InitIInv, StepIInv, PTL DEF Spec

\* The listener's variables keep their types: in particular the semaphore
\* stays within 0..max_active, so no acquire or release leaves that range.
THEOREM TypeCorrect == Spec => []TypeOK
<1>1. IInv => TypeOK
  BY DEF IInv, Shape
<1> QED
  BY <1>1, Inductive, PTL

\* No path of process_request or process_request_thread loses or makes up a
\* worker slot (request_limits.py:32-51).
THEOREM SlotsNeverLeak == Spec => []SlotsConserved
<1>1. IInv => SlotsConserved
  BY DEF IInv
<1> QED
  BY <1>1, Inductive, PTL

\* No path forgets an accepted socket or frees its slot before closing it.
THEOREM NoSocketForgotten == Spec => []OpenSocketsOwned
<1>1. IInv => OpenSocketsOwned
  BY DEF IInv, Shape
<1> QED
  BY <1>1, Inductive, PTL

\* The 503 of _reject_over_capacity is decided only while max_active worker
\* threads exist (request_limits.py:36-38).
THEOREM RefusalMeansFull == Spec => RefusedOnlyWhenFull
<1>1. IInv /\ [Next]_vars =>
          [loop.pc = "admit" /\ loop'.pc = "reject" => Cardinality(Workers) = MaxActive]_vars
  <2> SUFFICES ASSUME IInv, Next, loop.pc = "admit", loop'.pc = "reject"
               PROVE  Cardinality(Workers) = MaxActive
    BY DEF vars
  <2>1. slots = 0
    BY DEF Next, LoopNext, Accept, AcquireSlot, FindNoSlot, ArmTimeout, SpawnWorker,
       SpawnFails, HandleError, ArmRefusal, RejectOverCapacity, WorkerNext, ReadRequest,
       AnswerShort, AnswerLong, WriteOn, EndOnPeer, HandlerRaises, ShutdownRequest,
       ReleaseSlot, ClientNext, Connect, ClientSends, ClientDrains, ClientGoes,
       ClientMoves, Reconnect, IInv, Shape, TypeOK
  <2>2. Holders = Workers
    BY DEF Holders
  <2> QED
    BY <2>1, <2>2, HoldersFinite DEF IInv, SlotsConserved
<1> QED
  BY <1>1, Inductive, PTL DEF Spec, RefusedOnlyWhenFull
---------------------------------------------------------------------------
(* The listener implements WorkerPool under stageBar.  The active           *)
(* connections of the pool are the holders of slots, so its guards on their *)
(* number follow from SlotsConserved; every other step of the listener      *)
(* moves one connection along the pool's stages or none.                    *)

\* The stage of one connection, as stageBar defines it.
StageOf(c) ==
    IF c \in Holders THEN "active"
    ELSE IF loop.conn = c /\ loop.pc \in {"reject", "refuse"} THEN "refused"
    ELSE IF loop.conn = c /\ loop.pc = "error" THEN "failed"
    ELSE IF sock[c] = "off" THEN "outside"
    ELSE IF sock[c] = "closed" THEN "settled"
    ELSE "waiting"

LEMMA StageBar == TypeOK => stageBar = [c \in Conns |-> StageOf(c)]
BY DEF TypeOK, SockStates, stageBar, StageOf

LEMMA StageBarNext == TypeOK' => stageBar' = [c \in Conns |-> StageOf(c)']
BY DEF TypeOK, SockStates, stageBar, StageOf

\* The pool's active connections are the holders of worker slots.
LEMMA ActiveAreHolders == IInv => Pool!Active = Holders
<1> SUFFICES ASSUME IInv PROVE Pool!Active = Holders
  OBVIOUS
<1>1. Holders \subseteq Conns
  BY DEF IInv, Shape, HandInv, Holders, Workers
<1>2. \A c \in Conns : StageOf(c) = "active" <=> c \in Holders
  BY DEF StageOf
<1>3. \A c \in Conns : stageBar[c] = StageOf(c)
  BY StageBar DEF IInv, Shape
<1> QED
  BY <1>1, <1>2, <1>3 DEF Pool!Active

\* WorkerPool counts with its own instance of FiniteSets.
LEMMA PoolCounts == IInv => Pool!Cardinality(Pool!Active) = Cardinality(Holders)
<1>1. \A S : Pool!Cardinality(S) = Cardinality(S)
  BY DEF Pool!Cardinality, Cardinality
<1> QED
  BY <1>1, ActiveAreHolders

\* A step that moves one connection from a stage to the next is the pool's Move.
LEMMA MovesOne ==
    ASSUME TypeOK, TypeOK', NEW c \in Conns, NEW from, NEW to,
           StageOf(c) = from, StageOf(c)' = to,
           \A d \in Conns \ {c} : StageOf(d)' = StageOf(d)
    PROVE  Pool!Move(c, from, to)
BY StageBar, StageBarNext DEF Pool!Move

\* A step that moves none is a stutter of the pool.
LEMMA MovesNone ==
    ASSUME TypeOK, TypeOK', \A d \in Conns : StageOf(d)' = StageOf(d)
    PROVE  stageBar' = stageBar
BY StageBar, StageBarNext

---------------------------------------------------------------------------
LEMMA LoopRefines ==
    ASSUME IInv, IInv', LoopNext
    PROVE  [Pool!Next]_stageBar
<1> USE DEF IInv, Shape, TypeOK, HandInv, WorkerInv, LoopPCs, SockStates
<1>1. CASE Accept
  <2>1. Head(backlog) \in Conns /\ sock[Head(backlog)] = "backlog"
    BY <1>1 DEF Accept, BacklogInv
  <2>2. Holders' = Holders
    BY <1>1 DEF Accept, Holders, Workers
  <2>3. \A d \in Conns : StageOf(d)' = StageOf(d)
    BY <1>1, <2>1, <2>2 DEF Accept, StageOf
  <2> QED
    BY <2>3, MovesNone
<1>2. CASE AcquireSlot
  <2>1. PICK c \in Conns : c = loop.conn
    BY <1>2 DEF AcquireSlot
  <2>2. c \notin Holders /\ Holders' = Holders \union {c}
    BY <1>2, <2>1 DEF AcquireSlot, Holders, Workers
  <2>3. Cardinality(Holders) < MaxActive
    BY <1>2, HoldersFinite DEF AcquireSlot, SlotsConserved
  <2>4. StageOf(c) = "waiting" /\ StageOf(c)' = "active"
    BY <1>2, <2>1, <2>2 DEF AcquireSlot, StageOf
  <2>5. \A d \in Conns \ {c} : StageOf(d)' = StageOf(d)
    BY <1>2, <2>1, <2>2 DEF AcquireSlot, StageOf
  <2>6. Pool!Move(c, "waiting", "active")
    BY <2>4, <2>5, MovesOne
  <2> QED
    BY <2>3, <2>6, PoolCounts DEF Pool!Next, Pool!Activate
<1>3. CASE FindNoSlot
  <2>1. PICK c \in Conns : c = loop.conn
    BY <1>3 DEF FindNoSlot
  <2>2. c \notin Holders /\ Holders' = Holders
    BY <1>3, <2>1 DEF FindNoSlot, Holders, Workers
  <2>3. Cardinality(Holders) = MaxActive
    BY <1>3, HoldersFinite DEF FindNoSlot, SlotsConserved
  <2>4. StageOf(c) = "waiting" /\ StageOf(c)' = "refused"
    BY <1>3, <2>1, <2>2 DEF FindNoSlot, StageOf
  <2>5. \A d \in Conns \ {c} : StageOf(d)' = StageOf(d)
    BY <1>3, <2>1, <2>2 DEF FindNoSlot, StageOf
  <2>6. Pool!Move(c, "waiting", "refused")
    BY <2>4, <2>5, MovesOne
  <2> QED
    BY <2>3, <2>6, PoolCounts DEF Pool!Next, Pool!Refuse
<1>4. CASE ArmTimeout
  <2>1. Holders' = Holders
    BY <1>4 DEF ArmTimeout, Holders, Workers
  <2>2. \A d \in Conns : StageOf(d)' = StageOf(d)
    BY <1>4, <2>1 DEF ArmTimeout, StageOf, Holders
  <2> QED
    BY <2>2, MovesNone
<1>5. CASE SpawnWorker
  <2>1. Workers' = Workers \union {loop.conn}
    BY <1>5 DEF SpawnWorker, Workers
  <2>2. Holders' = Holders
    BY <1>5, <2>1 DEF SpawnWorker, Holders
  <2>3. \A d \in Conns : StageOf(d)' = StageOf(d)
    BY <1>5, <2>1, <2>2, ConnsAssumption DEF SpawnWorker, StageOf
  <2> QED
    BY <2>3, MovesNone
<1>6. CASE SpawnFails
  <2>1. loop.conn \in Holders /\ Holders' = Holders \ {loop.conn}
    BY <1>6 DEF SpawnFails, Holders, Workers
  <2>2. Pool!Move(loop.conn, "active", "failed")
    BY <1>6, <2>1, MovesOne DEF SpawnFails, StageOf
  <2> QED
    BY <1>6, <2>2 DEF SpawnFails, Pool!Next, Pool!Fail
<1>7. CASE HandleError
  <2>1. loop.conn \notin Holders /\ Holders' = Holders
    BY <1>7 DEF HandleError, Holders, Workers
  <2>2. Pool!Move(loop.conn, "failed", "settled")
    BY <1>7, <2>1, MovesOne, ConnsAssumption DEF HandleError, StageOf
  <2> QED
    BY <1>7, <2>2 DEF HandleError, Pool!Next, Pool!Settle
<1>8. CASE RejectOverCapacity
  <2>1. loop.conn \notin Holders /\ Holders' = Holders
    BY <1>8 DEF RejectOverCapacity, Holders, Workers
  <2>2. Pool!Move(loop.conn, "refused", "settled")
    BY <1>8, <2>1, MovesOne, ConnsAssumption DEF RejectOverCapacity, StageOf
  <2> QED
    BY <1>8, <2>2 DEF RejectOverCapacity, Pool!Next, Pool!Settle
<1>9. CASE ArmRefusal
  <2>1. Holders' = Holders
    BY <1>9 DEF ArmRefusal, Holders, Workers
  <2>2. \A d \in Conns : StageOf(d)' = StageOf(d)
    BY <1>9, <2>1 DEF ArmRefusal, StageOf, Holders
  <2> QED
    BY <2>2, MovesNone
<1> QED
  BY <1>1, <1>2, <1>3, <1>4, <1>5, <1>6, <1>7, <1>8, <1>9 DEF LoopNext

\* A worker keeps its connection active until the slot is back.
LEMMA WorkerStays ==
    ASSUME IInv, IInv', NEW c \in Conns, NEW from \in WorkerPCs \ {"none"},
           NEW to \in WorkerPCs \ {"none"}, WorkerStep(c, from, to),
           UNCHANGED loop, sock' \in {sock, [sock EXCEPT ![c] = "closed"]}
    PROVE  stageBar' = stageBar
<1>1. Holders' = Holders /\ c \in Holders
  BY DEF IInv, Shape, TypeOK, WorkerStep, Holders, Workers
<1>2. \A d \in Conns : StageOf(d)' = StageOf(d)
  BY <1>1 DEF StageOf, IInv, Shape, TypeOK
<1> QED
  BY <1>2, MovesNone DEF IInv, Shape

LEMMA WorkersRefine ==
    ASSUME IInv, IInv', NEW c \in Conns, WorkerNext(c)
    PROVE  [Pool!Next]_stageBar
<1>1. CASE ReleaseSlot(c)
  <2>1. /\ c \in Holders /\ Holders' = Holders \ {c}
        /\ sock[c] = "closed" /\ sock' = sock /\ loop' = loop
    BY <1>1 DEF ReleaseSlot, WorkerStep, IInv, Shape, TypeOK, HandInv, LoopPCs,
                WorkerInv, Holders, Workers
  <2>2. StageOf(c) = "active" /\ StageOf(c)' = "settled"
    BY <2>1 DEF StageOf, IInv, Shape, HandInv, TypeOK, LoopPCs
  <2>3. \A d \in Conns \ {c} : StageOf(d)' = StageOf(d)
    BY <2>1 DEF StageOf
  <2>4. Pool!Move(c, "active", "settled")
    BY <2>2, <2>3, MovesOne DEF IInv, Shape
  <2> QED
    BY <2>4 DEF Pool!Next, Pool!Settle
<1>2. CASE EndOnPeer(c)
  <2>1. PICK at \in {"read", "write"} : WorkerStep(c, at, "shutdown")
    BY <1>2 DEF EndOnPeer
  <2> QED
    BY <1>2, <2>1, WorkerStays DEF EndOnPeer, WorkerPCs
<1>3. CASE ReadRequest(c) \/ AnswerShort(c) \/ AnswerLong(c) \/ WriteOn(c)
           \/ HandlerRaises(c) \/ ShutdownRequest(c)
  BY <1>3, WorkerStays DEF ReadRequest, AnswerShort, AnswerLong, WriteOn,
     HandlerRaises, ShutdownRequest, WorkerPCs
<1> QED
  BY <1>1, <1>2, <1>3 DEF WorkerNext

LEMMA ClientsRefine ==
    ASSUME IInv, IInv', NEW c \in Conns, ClientNext(c)
    PROVE  [Pool!Next]_stageBar
<1>1. Holders' = Holders /\ loop' = loop
  BY DEF ClientNext, Connect, ClientSends, ClientDrains, ClientGoes,
         ClientMoves, Reconnect, Holders, Workers
<1>2. c \in Holders => sock[c] \in {"open", "closed"}
  BY DEF Holders, Workers, IInv, Shape, TypeOK, HandInv, WorkerInv, WorkerPCs
<1>3. CASE Connect(c)
  <2>1. StageOf(c) = "outside" /\ StageOf(c)' = "waiting"
    BY <1>1, <1>2, <1>3 DEF Connect, StageOf, IInv, Shape, TypeOK, HandInv
  <2>2. \A d \in Conns \ {c} : StageOf(d)' = StageOf(d)
    BY <1>1, <1>3 DEF Connect, StageOf, IInv, Shape, TypeOK
  <2>3. Pool!Move(c, "outside", "waiting")
    BY <2>1, <2>2, MovesOne DEF IInv, Shape
  <2> QED
    BY <2>3 DEF Pool!Next, Pool!Arrive
<1>4. CASE ClientSends(c) \/ ClientDrains(c) \/ ClientGoes(c)
  <2>1. \A d \in Conns : StageOf(d)' = StageOf(d)
    BY <1>1, <1>4 DEF ClientSends, ClientDrains, ClientGoes, ClientMoves, StageOf
  <2> QED
    BY <2>1, MovesNone DEF IInv, Shape
<1>5. CASE Reconnect(c)
  <2>1. c \notin Holders
    BY <1>5 DEF Reconnect, Holders, Workers, IInv, Shape, HandInv
  <2>2. StageOf(c) = "settled" /\ StageOf(c)' = "outside"
    BY <1>1, <1>5, <2>1 DEF Reconnect, StageOf, IInv, Shape, TypeOK, HandInv
  <2>3. \A d \in Conns \ {c} : StageOf(d)' = StageOf(d)
    BY <1>1, <1>5 DEF Reconnect, StageOf, IInv, Shape, TypeOK
  <2>4. Pool!Move(c, "settled", "outside")
    BY <2>2, <2>3, MovesOne DEF IInv, Shape
  <2> QED
    BY <2>4 DEF Pool!Next, Pool!Leave
<1> QED
  BY <1>3, <1>4, <1>5 DEF ClientNext

---------------------------------------------------------------------------
LEMMA InitRefines == Init => Pool!Init
<1> SUFFICES ASSUME Init PROVE Pool!Init
  OBVIOUS
<1>1. TypeOK
  BY InitIInv DEF IInv, Shape
<1>2. \A c \in Conns : StageOf(c) = "outside"
  BY DEF Init, StageOf, Holders, Workers
<1> QED
  BY <1>1, <1>2, StageBar DEF Pool!Init

LEMMA StepRefines == IInv /\ IInv' /\ [Next]_vars => [Pool!Next]_stageBar
<1> SUFFICES ASSUME IInv, IInv', [Next]_vars PROVE [Pool!Next]_stageBar
  OBVIOUS
<1>1. ASSUME NEW c \in Conns, WorkerNext(c) PROVE [Pool!Next]_stageBar
  BY <1>1, WorkersRefine
<1>2. ASSUME NEW c \in Conns, ClientNext(c) PROVE [Pool!Next]_stageBar
  BY <1>2, ClientsRefine
<1>3. CASE UNCHANGED vars
  <2>1. \A d \in Conns : StageOf(d)' = StageOf(d)
    BY <1>3 DEF vars, StageOf, Holders, Workers
  <2> QED
    BY <2>1, MovesNone DEF IInv, Shape
<1> QED
  BY <1>1, <1>2, <1>3, LoopRefines DEF Next

\* The listener keeps the promise of WorkerPool: a waiting connection is made
\* active only while fewer than max_active are, is refused only while exactly
\* max_active are, and leaves by being settled (request_limits.py:32-68).
THEOREM PoolImplemented == Spec => ImplementsPool
<1> QED
  BY InitRefines, StepRefines, Inductive, PTL DEF Spec, ImplementsPool, Pool!Spec

---------------------------------------------------------------------------
(* The scripts *)

OneScript == ~tangled => \A o, u \in Active : o = u

\* Which viewers there are while nothing is tangled.
Known ==
    ~tangled =>
        /\ (\A o \in Operators : pc[o] # "record") => \A p \in Viewers : file = p
        /\ \A o \in Operators : pc[o] = "record" => \A p \in Viewers : pid[o] = p
        /\ \A o \in Operators :
              pc[o] \in {"startSweep", "spawn", "again", "hard", "remove", "stopSweep"} =>
                  Viewers = {}
        /\ \A o \in Operators :
              pc[o] \in {"startProbe", "stopProbe", "term", "again", "hard"} => pid[o] = file

\* The PID file names no dead process, but while a script is about to change it.
Named ==
    ~tangled /\ ~lost =>
        /\ (\A o \in Operators :
                pc[o] \notin {"startSweep", "spawn", "record", "again", "hard", "remove"}) =>
              file = None \/ file \in Viewers
        /\ \A o \in Operators : pc[o] = "record" => pid[o] \in Viewers
        /\ \A o \in Operators : pc[o] \in {"startProbe", "stopProbe", "term", "check"} => file # None

\* Whom a SIGTERM of stop.sh has reached is on its way out until its number is free.
Doomed ==
    ~tangled /\ ~lost =>
        \A o \in Operators :
            pc[o] \in {"again", "hard"} /\ o \notin freed =>
                pid[o] \in Pids /\ proc[pid[o]] \in {"dying", "closing"}

\* What a restart found loaded is loaded still, or gone; and gone after its sweep.
OldInv ==
    \A o \in Operators :
        /\ old[o] \subseteq Loaded
        /\ pc[o] \in {"startRead", "startProbe", "startSweep", "spawn", "record", "check",
                      "restarted"} => old[o] = {}

ScriptInv == ScriptTypeOK /\ OneScript /\ Known /\ Named /\ Doomed /\ OldInv

---------------------------------------------------------------------------
LEMMA ScriptInitInv == ScriptInit => ScriptInv
BY NoneAssumption, ZenonT(40) DEF ScriptInit, ScriptInv, ScriptTypeOK, OneScript, Known, Named, Doomed, OldInv, Active, Steps, Loaded,
   Viewers, Listening

\* What processes do by themselves.
LEMMA ProcessStep ==
    ASSUME ScriptInv, NEW q \in Pids, ProcessNext(q)
    PROVE  ScriptInv'
<1> USE NoneAssumption
    DEF ScriptInv, ScriptTypeOK, OneScript, Known, Named, Doomed, OldInv, Active, Steps, Loaded, Viewers,
        Listening, Strangers, Alive, Gone, Signal, Goes, Sweep, StartSucceeds, scripts, history
<1>1. CASE ViewerLoads(q)
  BY <1>1 DEF ViewerLoads
<1>2. CASE ViewerListens(q)
  BY <1>2 DEF ViewerListens
<1>3. CASE ViewerDies(q)
  BY <1>3 DEF ViewerDies
<1>4. CASE StrangerStarts(q)
  BY <1>4 DEF StrangerStarts
<1>5. CASE StrangerExits(q)
  BY <1>5 DEF StrangerExits
<1>6. CASE ViewerEnds(q)
  BY <1>6 DEF ViewerEnds
<1> QED
  BY <1>1, <1>2, <1>3, <1>4, <1>5, <1>6 DEF ProcessNext

\* The steps of start.sh.
LEMMA StartStep ==
    ASSUME ScriptInv, NEW x \in Operators, StartNext(x)
    PROVE  ScriptInv'
<1> USE NoneAssumption
    DEF ScriptInv, ScriptTypeOK, OneScript, Known, Named, Doomed, OldInv, Active, Steps, Loaded, Viewers,
        Listening, Strangers, Alive, Gone, Signal, Goes, Sweep, StartSucceeds, scripts, history
<1>1. CASE StartReads(x)
  BY <1>1 DEF StartReads
<1>2. CASE AlreadyRunning(x)
  BY <1>2 DEF AlreadyRunning
<1>3. CASE NotRunning(x)
  BY <1>3 DEF NotRunning
<1>4. CASE StartSweeps(x)
  <2> USE <1>4 DEF StartSweeps
  <2>1. ScriptTypeOK'
    <3>1. PICK N \in SUBSET Strangers : Signal(Loaded \union N)
      BY Zenon
    <3>2. /\ proc' \in [Pids -> {"none", "forked", "loading", "listening", "dying", "closing",
                                "stranger"}]
          /\ \A p, q \in Listening' : p = q
          /\ old' \in [Operators -> SUBSET Pids]
      BY <3>1
    <3>3. /\ job' \in [Operators -> {"start", "stop", "restart"}]
          /\ pc' \in [Operators -> Steps \union {"idle", "restarted"}]
          /\ pid' \in [Operators -> Pids \union {None}]
      OBVIOUS
    <3>4. file' = file /\ freed' = freed
      BY Zenon
    <3>5. tangled' \in BOOLEAN /\ lost' \in BOOLEAN
      BY Zenon
    <3> QED
      BY <3>2, <3>3, <3>4, <3>5, SMTT(20)
  <2>2. OneScript'
    OBVIOUS
  <2>3. Known'
    OBVIOUS
  <2>4. Named'
    OBVIOUS
  <2>5. Doomed'
    OBVIOUS
  <2>6. OldInv'
    OBVIOUS
  <2> QED
    BY <2>1, <2>2, <2>3, <2>4, <2>5, <2>6
<1>5. CASE Spawns(x)
  BY <1>5 DEF Spawns
<1>6. CASE Records(x)
  BY <1>6 DEF Records
<1>7. CASE Checks(x)
  BY <1>7 DEF Checks
<1>8. CASE RecordFails(x)
  BY <1>8 DEF RecordFails
<1> QED
  BY <1>1, <1>2, <1>3, <1>4, <1>5, <1>6, <1>7, <1>8 DEF StartNext

\* The steps of stop.sh.
LEMMA StopStep ==
    ASSUME ScriptInv, NEW x \in Operators, StopNext(x)
    PROVE  ScriptInv'
<1> USE NoneAssumption
    DEF ScriptInv, ScriptTypeOK, OneScript, Known, Named, Doomed, OldInv, Active, Steps, Loaded, Viewers,
        Listening, Strangers, Alive, Gone, Signal, Goes, Sweep, StartSucceeds, scripts, history
<1>1. CASE StopReads(x)
  BY <1>1 DEF StopReads
<1>2. CASE StopProbes(x)
  BY <1>2 DEF StopProbes
<1>3. CASE Terminates(x)
  BY <1>3 DEF Terminates
<1>4. CASE ProbesAgain(x)
  BY <1>4 DEF ProbesAgain
<1>5. CASE Kills(x)
  BY <1>5 DEF Kills
<1>6. CASE Aborts(x)
  BY <1>6 DEF Aborts
<1>7. CASE Removes(x)
  BY <1>7 DEF Removes
<1>8. CASE StopSweeps(x)
  <2> USE <1>8 DEF StopSweeps
  <2>1. ScriptTypeOK'
    <3>1. PICK N \in SUBSET Strangers : Signal(Loaded \union N)
      BY Zenon
    <3>2. /\ proc' \in [Pids -> {"none", "forked", "loading", "listening", "dying", "closing",
                                "stranger"}]
          /\ \A p, q \in Listening' : p = q
          /\ old' \in [Operators -> SUBSET Pids]
      BY <3>1
    <3>3. /\ job' \in [Operators -> {"start", "stop", "restart"}]
          /\ pc' \in [Operators -> Steps \union {"idle", "restarted"}]
          /\ pid' \in [Operators -> Pids \union {None}]
      OBVIOUS
    <3>4. file' = file /\ freed' = freed
      BY Zenon
    <3>5. tangled' \in BOOLEAN /\ lost' \in BOOLEAN
      BY Zenon
    <3> QED
      BY <3>2, <3>3, <3>4, <3>5, SMTT(20)
  <2>2. OneScript'
    OBVIOUS
  <2>3. Known'
    OBVIOUS
  <2>4. Named'
    OBVIOUS
  <2>5. Doomed'
    OBVIOUS
  <2>6. OldInv'
    OBVIOUS
  <2> QED
    BY <2>1, <2>2, <2>3, <2>4, <2>5, <2>6
<1> QED
  BY <1>1, <1>2, <1>3, <1>4, <1>5, <1>6, <1>7, <1>8 DEF StopNext

\* Scripts are called, interrupted and over.
LEMMA CallStep ==
    ASSUME ScriptInv, NEW x \in Operators, Begin(x) \/ Interrupted(x) \/ Dismissed(x)
    PROVE  ScriptInv'
<1> USE NoneAssumption
    DEF ScriptInv, ScriptTypeOK, OneScript, Known, Named, Doomed, OldInv, Active, Steps, Loaded, Viewers,
        Listening, Strangers, Alive, Gone, Signal, Goes, Sweep, StartSucceeds, scripts, history
<1>1. CASE Begin(x)
  <2> USE <1>1 DEF Begin
  <2>1. ScriptTypeOK'
    OBVIOUS
  <2>2. OneScript'
    <3>1. tangled' => OneScript'
      BY Zenon DEF OneScript
    <3>2. ASSUME ~tangled' PROVE OneScript'
      <4>1. Active = {}
        BY <3>2
      <4>2. \A o \in Operators : o # x => pc'[o] = pc[o]
        OBVIOUS
      <4> QED
        BY <4>1, <4>2
    <3> QED
      BY <3>1, <3>2
  <2>3. Known'
    OBVIOUS
  <2>4. Named'
    OBVIOUS
  <2>5. Doomed'
    OBVIOUS
  <2>6. OldInv'
    OBVIOUS
  <2> QED
    BY <2>1, <2>2, <2>3, <2>4, <2>5, <2>6
<1>2. CASE Interrupted(x)
  BY <1>2 DEF Interrupted
<1>3. CASE Dismissed(x)
  BY <1>3 DEF Dismissed
<1> QED
  BY <1>1, <1>2, <1>3 DEF ScriptTypeOK

LEMMA RebootStep == ScriptInv /\ Reboot => ScriptInv'
<1> SUFFICES ASSUME ScriptInv, Reboot PROVE ScriptInv'
  OBVIOUS
<1>1. /\ \A p \in Pids : proc'[p] = "none"
      /\ \A x \in Operators : pc'[x] = "idle" /\ pid'[x] = None /\ old'[x] = {}
      /\ Active' = {} /\ Viewers' = {} /\ Loaded' = {} /\ Listening' = {}
  BY DEF Reboot, Gone, Active, Steps, Viewers, Loaded, Listening, ScriptInv, OldInv
<1>2. ScriptTypeOK'
  BY <1>1 DEF Reboot, Gone, ScriptInv, ScriptTypeOK
<1>3. OneScript' /\ Known' /\ Doomed' /\ OldInv'
  BY <1>1 DEF OneScript, Known, Doomed, OldInv
<1>4. Named'
  BY <1>1 DEF Reboot, ScriptInv, Named, Active, Steps
<1> QED
  BY <1>2, <1>3, <1>4 DEF ScriptInv

LEMMA ScriptStutter == ScriptInv /\ UNCHANGED scriptVars => ScriptInv'
BY DEF ScriptInv, ScriptTypeOK, OneScript, Known, Named, Doomed, OldInv, Active, Loaded, Viewers, Listening, scriptVars,
   scripts, history

LEMMA ScriptInvariance == ScriptSpec => []ScriptInv
<1>1. ScriptInv /\ [ScriptNext]_scriptVars => ScriptInv'
  BY ProcessStep, StartStep, StopStep, CallStep, RebootStep, ScriptStutter DEF ScriptNext, OperatorNext
<1> QED
  BY ScriptInitInv, <1>1, PTL DEF ScriptSpec

---------------------------------------------------------------------------
\* Every variable keeps its type, and one viewer listens at most.
THEOREM ScriptsTyped == ScriptSpec => []ScriptTypeOK
BY ScriptInvariance, PTL DEF ScriptInv

\* Scripts that do not overlap leave a PID file that names the viewer, whatever
\* dies, however numbers are used again, and one of them repairs what overlapping
\* ones have left (start.sh:7-20, stop.sh:5-14).
THEOREM FileCorrect == ScriptSpec => []FileNamesViewer
<1>1. ScriptInv => FileNamesViewer
  BY DEF ScriptInv, Known, FileNamesViewer, Active, Steps
<1> QED
  BY ScriptInvariance, <1>1, PTL

\* With any number of operators at work, a restart that says it is through has
\* replaced whatever was loaded before (restart.sh:4-6).
THEOREM RestartCorrect == ScriptSpec => []RestartReplaces
<1>1. ScriptInv => RestartReplaces
  BY DEF ScriptInv, OldInv, RestartReplaces
<1> QED
  BY ScriptInvariance, <1>1, PTL

\* Who has the number in the PID file when stop.sh kills it is the viewer, unless
\* scripts overlapped or its number was given up; and what it kills for good is
\* that viewer still, unless it has ended within the second (stop.sh:6-10).
THEOREM KillsItsOwn == ScriptSpec => []StrangersSpared
<1>1. ScriptInv => StrangersSpared
  BY DEF ScriptInv, ScriptTypeOK, OneScript, Known, Named, Doomed, StrangersSpared, Strangers, Active, Steps, Viewers,
     Loaded
<1> QED
  BY ScriptInvariance, <1>1, PTL
=============================================================================
