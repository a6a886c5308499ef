----------------------------- MODULE Admission -----------------------------
(***************************************************************************)
(* request_limits.BoundedViewerServer: the accept loop of a                *)
(* ThreadingHTTPServer that takes a slot of a BoundedSemaphore, without    *)
(* blocking, before it starts a worker thread, and answers 503 itself when *)
(* there is none.  One thread runs the accept loop; every admitted         *)
(* connection has a daemon thread of its own.                              *)
(*                                                                         *)
(* socketserver's part (the listen queue, _handle_request_noblock, the     *)
(* handler's reads and writes) is external and modelled from how           *)
(* request_limits.py overrides it.  What the handler computes is the       *)
(* subject of the other modules; here it is only short or long.            *)
(***************************************************************************)
EXTENDS Naturals, FiniteSets, Sequences

CONSTANTS
    Conns,      \* connections; a closed one may be opened again by its client
    NoConn,     \* the accept loop has no connection in hand
    MaxActive,  \* max_active: worker slots
    QueueSize   \* request_queue_size: the listen backlog

ASSUME ConnsAssumption == IsFiniteSet(Conns) /\ NoConn \notin Conns
\* The constructor raises ValueError outside this range.
ASSUME MaxActiveAssumption == MaxActive \in 1..32
ASSUME QueueAssumption == QueueSize \in Nat \ {0}

VARIABLES
    backlog,    \* connections the kernel completed and nobody accepted yet
    loop,       \* the accept loop: where it is and the connection it has
    slots,      \* the value of _worker_slots
    worker,     \* worker[c]: the thread serving c, "none" when there is none
    armed,      \* armed[c]: settimeout(socket_timeout_s) was called on c
    sock,       \* sock[c]: the server's end of the connection
    client,     \* client[c]: what the client has done so far
    reply       \* reply[c]: what the client was sent

vars == <<backlog, loop, slots, worker, armed, sock, client, reply>>

LoopPCs    == {"select", "admit", "arm", "spawn", "error", "reject", "refuse"}
WorkerPCs  == {"none", "read", "run", "write", "shutdown", "release"}
SockStates == {"off", "backlog", "open", "closed"}
ClientActs == {"silent", "sent", "draining", "gone"}
Replies    == {"none", "response", "503"}

Workers == {c \in Conns : worker[c] # "none"}

\* Connections between a successful acquire() and the matching release().
Holders == Workers \union
           (IF loop.pc \in {"arm", "spawn"} THEN {loop.conn} ELSE {})

TypeOK ==
    /\ backlog \in Seq(Conns)
    /\ loop \in [pc : LoopPCs, conn : Conns \union {NoConn}]
    /\ slots \in 0..MaxActive
    /\ worker \in [Conns -> WorkerPCs]
    /\ armed \in [Conns -> BOOLEAN]
    /\ sock \in [Conns -> SockStates]
    /\ client \in [Conns -> ClientActs]
    /\ reply \in [Conns -> Replies]

Init ==
    /\ backlog = <<>>
    /\ loop = [pc |-> "select", conn |-> NoConn]
    /\ slots = MaxActive
    /\ worker = [c \in Conns |-> "none"]
    /\ armed = [c \in Conns |-> FALSE]
    /\ sock = [c \in Conns |-> "off"]
    /\ client = [c \in Conns |-> "silent"]
    /\ reply = [c \in Conns |-> "none"]

---------------------------------------------------------------------------
(* Clients. They owe the server nothing: none of these steps is fair. *)

Connect(c) ==
    /\ sock[c] = "off"
    /\ Len(backlog) < QueueSize
    /\ sock' = [sock EXCEPT ![c] = "backlog"]
    /\ backlog' = Append(backlog, c)
    /\ UNCHANGED <<loop, slots, worker, armed, client, reply>>

ClientMoves(c, from, to) ==
    /\ sock[c] \in {"backlog", "open"}
    /\ client[c] \in from
    /\ client' = [client EXCEPT ![c] = to]
    /\ UNCHANGED <<backlog, loop, slots, worker, armed, sock, reply>>

\* The request head arrives; the client reads its answer; it disconnects.
ClientSends(c)  == ClientMoves(c, {"silent"}, "sent")
ClientDrains(c) == ClientMoves(c, {"sent"}, "draining")
ClientGoes(c)   == ClientMoves(c, {"silent", "sent", "draining"}, "gone")

\* A client whose connection is closed may come back with a fresh one.
Reconnect(c) ==
    /\ sock[c] = "closed" /\ worker[c] = "none"
    /\ sock' = [sock EXCEPT ![c] = "off"]
    /\ client' = [client EXCEPT ![c] = "silent"]
    /\ reply' = [reply EXCEPT ![c] = "none"]
    /\ armed' = [armed EXCEPT ![c] = FALSE]
    /\ UNCHANGED <<backlog, loop, slots, worker>>

---------------------------------------------------------------------------
(* The accept loop: serve_forever, _handle_request_noblock and             *)
(* process_request, all in one thread.                                     *)

\* BoundedSemaphore.release: past its initial value it raises instead.
Release == slots' = IF slots < MaxActive THEN slots + 1 ELSE slots

Accept ==
    /\ loop.pc = "select" /\ backlog # <<>>
    /\ loop' = [pc |-> "admit", conn |-> Head(backlog)]
    /\ backlog' = Tail(backlog)
    /\ sock' = [sock EXCEPT ![Head(backlog)] = "open"]
    /\ UNCHANGED <<slots, worker, armed, client, reply>>

\* Variant of AcquireSlot: the answer of acquire() is not looked at.
AcquireSlotUnchecked ==
    /\ loop.pc = "admit"
    /\ slots' = slots - 1
    /\ loop' = [loop EXCEPT !.pc = "arm"]
    /\ UNCHANGED <<backlog, worker, armed, sock, client, reply>>

\* acquire(blocking=False) succeeds ...
AcquireSlot ==
    /\ loop.pc = "admit" /\ slots > 0
    /\ slots' = slots - 1
    /\ loop' = [loop EXCEPT !.pc = "arm"]
    /\ UNCHANGED <<backlog, worker, armed, sock, client, reply>>

\* ... or fails, and the connection will be answered by the loop itself.
FindNoSlot ==
    /\ loop.pc = "admit" /\ slots = 0
    /\ loop' = [loop EXCEPT !.pc = "reject"]
    /\ UNCHANGED <<backlog, slots, worker, armed, sock, client, reply>>

\* Variant of ArmTimeout: the socket keeps no timeout.
ArmTimeoutForgotten ==
    /\ loop.pc = "arm"
    /\ loop' = [loop EXCEPT !.pc = "spawn"]
    /\ UNCHANGED <<backlog, slots, worker, armed, sock, client, reply>>

\* request.settimeout(socket_timeout_s)
ArmTimeout ==
    /\ loop.pc = "arm"
    /\ armed' = [armed EXCEPT ![loop.conn] = TRUE]
    /\ loop' = [loop EXCEPT !.pc = "spawn"]
    /\ UNCHANGED <<backlog, slots, worker, sock, client, reply>>

\* super().process_request: the worker thread starts, the loop goes on.
SpawnWorker ==
    /\ loop.pc = "spawn"
    /\ worker' = [worker EXCEPT ![loop.conn] = "read"]
    /\ loop' = [pc |-> "select", conn |-> NoConn]
    /\ UNCHANGED <<backlog, slots, armed, sock, client, reply>>

\* Variant of SpawnFails: no release() on the way out.
SpawnFailsKeepingSlot ==
    /\ loop.pc \in {"arm", "spawn"}
    /\ loop' = [loop EXCEPT !.pc = "error"]
    /\ UNCHANGED <<backlog, slots, worker, armed, sock, client, reply>>

\* settimeout or the thread start raises: release() and raise again.
SpawnFails ==
    /\ loop.pc \in {"arm", "spawn"}
    /\ Release
    /\ loop' = [loop EXCEPT !.pc = "error"]
    /\ UNCHANGED <<backlog, worker, armed, sock, client, reply>>

\* Variant of HandleError: the connection is not shut down.
HandleErrorLeavingOpen ==
    /\ loop.pc = "error"
    /\ loop' = [pc |-> "select", conn |-> NoConn]
    /\ UNCHANGED <<backlog, slots, worker, armed, sock, client, reply>>

\* _handle_request_noblock's except clause: handle_error, shutdown_request.
HandleError ==
    /\ loop.pc = "error"
    /\ sock' = [sock EXCEPT ![loop.conn] = "closed"]
    /\ loop' = [pc |-> "select", conn |-> NoConn]
    /\ UNCHANGED <<backlog, slots, worker, armed, client, reply>>

\* _reject_over_capacity: settimeout(0.2) ...
ArmRefusal ==
    /\ loop.pc = "reject"
    /\ armed' = [armed EXCEPT ![loop.conn] = TRUE]
    /\ loop' = [loop EXCEPT !.pc = "refuse"]
    /\ UNCHANGED <<backlog, slots, worker, sock, client, reply>>

\* ... and sendall, which ends when the client has taken the 503, is gone, or lets
\* the timeout pass; an OSError of either drops it, and the connection is shut down.
RejectOverCapacity ==
    /\ \/ loop.pc = "reject" /\ UNCHANGED reply
       \/ /\ loop.pc = "refuse"
          /\ client[loop.conn] \in {"draining", "gone"} \/ armed[loop.conn]
          /\ \E sent \in {"none", "503"} : reply' = [reply EXCEPT ![loop.conn] = sent]
    /\ sock' = [sock EXCEPT ![loop.conn] = "closed"]
    /\ loop' = [pc |-> "select", conn |-> NoConn]
    /\ UNCHANGED <<backlog, slots, worker, armed, client>>

---------------------------------------------------------------------------
(* A worker thread: process_request_thread around the request handler.     *)

WorkerStep(c, from, to) ==
    /\ worker[c] = from
    /\ worker' = [worker EXCEPT ![c] = to]

\* The request line and headers are there.
ReadRequest(c) ==
    /\ client[c] \in {"sent", "draining"}
    /\ WorkerStep(c, "read", "run")
    /\ UNCHANGED <<backlog, loop, slots, armed, sock, client, reply>>

\* The answer fits the socket buffer ...
AnswerShort(c) ==
    /\ WorkerStep(c, "run", "shutdown")
    /\ reply' = [reply EXCEPT ![c] = "response"]
    /\ UNCHANGED <<backlog, loop, slots, armed, sock, client>>

\* ... or needs the client to read on.
AnswerLong(c) ==
    /\ WorkerStep(c, "run", "write")
    /\ reply' = [reply EXCEPT ![c] = "response"]
    /\ UNCHANGED <<backlog, loop, slots, armed, sock, client>>

WriteOn(c) ==
    /\ client[c] = "draining"
    /\ WorkerStep(c, "write", "shutdown")
    /\ UNCHANGED <<backlog, loop, slots, armed, sock, client, reply>>

\* The handler ends on a peer that is gone, or on a silent one when the
\* socket has a timeout; do_GET and handle_one_request swallow the exception.
EndOnPeer(c) ==
    /\ \E at \in {"read", "write"} : WorkerStep(c, at, "shutdown")
    /\ \/ client[c] = "gone"
       \/ armed[c] /\ client[c] = (IF worker[c] = "read" THEN "silent" ELSE "sent")
    /\ UNCHANGED <<backlog, loop, slots, armed, sock, client, reply>>

\* The handler raises past its own boundary: process_request_thread's except.
HandlerRaises(c) ==
    /\ WorkerStep(c, "run", "shutdown")
    /\ UNCHANGED <<backlog, loop, slots, armed, sock, client, reply>>

\* shutdown_request, in the finally of socketserver's process_request_thread.
ShutdownRequest(c) ==
    /\ WorkerStep(c, "shutdown", "release")
    /\ sock' = [sock EXCEPT ![c] = "closed"]
    /\ UNCHANGED <<backlog, loop, slots, armed, client, reply>>

\* release(), in the finally of BoundedViewerServer.process_request_thread.
ReleaseSlot(c) ==
    /\ WorkerStep(c, "release", "none")
    /\ Release
    /\ UNCHANGED <<backlog, loop, armed, sock, client, reply>>

---------------------------------------------------------------------------
LoopNext ==
    \/ Accept \/ AcquireSlot \/ FindNoSlot \/ ArmTimeout \/ SpawnWorker
    \/ SpawnFails \/ HandleError \/ ArmRefusal \/ RejectOverCapacity

WorkerNext(c) ==
    \/ ReadRequest(c) \/ AnswerShort(c) \/ AnswerLong(c) \/ WriteOn(c)
    \/ EndOnPeer(c) \/ HandlerRaises(c) \/ ShutdownRequest(c) \/ ReleaseSlot(c)

ClientNext(c) ==
    \/ Connect(c) \/ ClientSends(c) \/ ClientDrains(c) \/ ClientGoes(c)
    \/ Reconnect(c)

Next == LoopNext \/ \E c \in Conns : WorkerNext(c) \/ ClientNext(c)

Spec == Init /\ [][Next]_vars

\* The scheduler runs the accept loop and every worker thread; the socket
\* timeouts make EndOnPeer one of a worker's own steps and RejectOverCapacity one
\* of the loop's.  What a handler does between reading and writing ends (a file
\* that blocks when it is opened, a FIFO say, would hold its slot).  Clients are
\* not fair.
Fairness == WF_vars(LoopNext) /\ \A c \in Conns : WF_vars(WorkerNext(c))

FairSpec == Spec /\ Fairness

---------------------------------------------------------------------------
(* Properties *)

\* No slot is lost or made up on any path (spawn failure, handler error,
\* refusal, timeout): the semaphore and the connections that hold a slot
\* always add up to max_active (request_limits.py:32-51).
SlotsConserved == slots + Cardinality(Holders) = MaxActive

\* A refusal is decided only while max_active real worker threads exist, so
\* the 503 is "a capacity signal" and never the effect of a leaked slot.
RefusedOnlyWhenFull ==
    [][loop.pc = "admit" /\ loop'.pc = "reject" => Cardinality(Workers) = MaxActive]_vars

\* Every connection the server accepted and did not close is in the hands of
\* the accept loop or of a worker that holds a slot: no path forgets a socket,
\* and no socket outlives its slot.
OpenSocketsOwned ==
    \A c \in Conns : sock[c] = "open" => worker[c] # "none" \/ loop.conn = c

\* The listener implements the promise of WorkerPool.
stageBar == [c \in Conns |->
    IF c \in Holders THEN "active"
    ELSE IF loop.conn = c /\ loop.pc \in {"reject", "refuse"} THEN "refused"
    ELSE IF loop.conn = c /\ loop.pc = "error" THEN "failed"
    ELSE CASE sock[c] = "off" -> "outside"
           [] sock[c] \in {"backlog", "open"} -> "waiting"
           [] sock[c] = "closed" -> "settled"]

Pool == INSTANCE WorkerPool WITH stage <- stageBar

ImplementsPool == Pool!Spec

\* Whatever its client does or leaves undone, a connection that reached the
\* backlog is closed by the server in the end, and has no worker slot any more
\* (request_limits.py:39-51, the socket timeout and the two finally clauses).
EveryConnectionSettles ==
    \A c \in Conns :
        sock[c] = "backlog" ~> sock[c] = "closed" /\ worker[c] = "none"
============================================================================
