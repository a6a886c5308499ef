---------------------------- MODULE WorkerPool ----------------------------
(***************************************************************************)
(* What the bounded listener of request_limits.py promises, without its    *)
(* semaphore, its threads or its sockets: a connection that waits is made  *)
(* active while fewer than MaxActive are, is turned away only while        *)
(* exactly MaxActive are, and leaves by being settled.  That it does leave *)
(* is a property of the listener (EveryConnectionSettles of Admission).    *)
(***************************************************************************)
EXTENDS Naturals, FiniteSets

CONSTANTS
    Conns,      \* the connections clients may open
    MaxActive   \* the most that may be active at once

VARIABLE stage  \* stage[c]: how far connection c has come

Stages == {"outside", "waiting", "active", "refused", "failed", "settled"}

Active == {c \in Conns : stage[c] = "active"}

Init == stage = [c \in Conns |-> "outside"]

Move(c, from, to) ==
    /\ stage[c] = from
    /\ stage' = [stage EXCEPT ![c] = to]

Arrive(c) == Move(c, "outside", "waiting")

\* A slot is taken: only while one is free.
Activate(c) == Cardinality(Active) < MaxActive /\ Move(c, "waiting", "active")

\* A connection is turned away: only while every slot is taken.
Refuse(c) == Cardinality(Active) = MaxActive /\ Move(c, "waiting", "refused")

\* The worker could not be started; the slot is given back.
Fail(c) == Move(c, "active", "failed")

Settle(c) == \E s \in {"active", "refused", "failed"} : Move(c, s, "settled")

\* The same client may come back with a new connection.
Leave(c) == Move(c, "settled", "outside")

Next == \E c \in Conns :
            Arrive(c) \/ Activate(c) \/ Refuse(c) \/ Fail(c) \/ Settle(c) \/ Leave(c)

Spec == Init /\ [][Next]_stage
===========================================================================
