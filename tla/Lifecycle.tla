------------------------------ MODULE Lifecycle ------------------------------
(***************************************************************************)
(* The service scripts start.sh, stop.sh and restart.sh, called by several *)
(* operators at any time, and the viewer processes they start and kill.    *)
(* They meet in the process table, the PID file and the port.  status.sh   *)
(* only reads.                                                             *)
(*                                                                         *)
(* env.sh, which every script sources, turns errexit on in all of them: a  *)
(* kill of a process that is gone ends stop.sh, and restart.sh with it.    *)
(* A signalled process ends some time later.  The process table and the    *)
(* programs of others are external.                                        *)
(***************************************************************************)
CONSTANTS
    Operators,  \* who calls the scripts, one script each at a time
    Pids,       \* process numbers; one that is free is used again
    None        \* no PID file

ASSUME NoneAssumption == None \notin Pids

VARIABLES
    proc,       \* the process table
    file,       \* the PID file
    job,        \* the script each operator runs
    pc, pid,    \* its position, and its $PID, later $!
    old,        \* history: viewers with their code loaded when this restart began
    tangled,    \* history: scripts overlapped or were cut short, not yet made good
    lost,       \* history: a viewer died by itself or stop.sh broke off, likewise
    freed       \* history: whose SIGTERM has ended the process, its number free since

scripts == <<job, pc, pid>>
history == <<tangled, lost, freed>>
scriptVars == <<proc, file, scripts, old, history>>

\* A child of start.sh has start.sh's command line until it has become python.
\* A viewer on its way out, "dying" or "closing", is none any more; the latter
\* has the port to its end.
Loaded    == {p \in Pids : proc[p] \in {"loading", "listening"}}
Viewers   == {p \in Pids : proc[p] = "forked"} \union Loaded
Listening == {p \in Pids : proc[p] \in {"listening", "closing"}}
Strangers == {p \in Pids : proc[p] = "stranger"}
Alive(p)  == proc[p] # "none"

Steps == {"startRead", "startProbe", "startSweep", "spawn", "record", "check",
          "stopRead", "stopProbe", "term", "again", "hard", "remove", "stopSweep"}
Active == {o \in Operators : pc[o] \in Steps}

ScriptTypeOK ==
    /\ proc \in [Pids -> {"none", "forked", "loading", "listening", "dying", "closing",
                         "stranger"}]
    /\ \A p, q \in Listening : p = q
    /\ file \in Pids \union {None}
    /\ job \in [Operators -> {"start", "stop", "restart"}]
    /\ pc \in [Operators -> Steps \union {"idle", "restarted"}]
    /\ pid \in [Operators -> Pids \union {None}]
    /\ old \in [Operators -> SUBSET Pids]
    /\ tangled \in BOOLEAN
    /\ lost \in BOOLEAN
    /\ freed \subseteq Operators

ScriptInit ==
    /\ proc = [p \in Pids |-> "none"]
    /\ file = None
    /\ job = [o \in Operators |-> "start"]
    /\ pc = [o \in Operators |-> "idle"]
    /\ pid = [o \in Operators |-> None]
    /\ old = [o \in Operators |-> {}]
    /\ tangled = FALSE
    /\ lost = FALSE
    /\ freed = {}

\* The processes of S are gone, and their numbers free.
Gone(S) ==
    /\ proc' = [p \in Pids |-> IF p \in S THEN "none" ELSE proc[p]]
    /\ old' = [o \in Operators |-> old[o] \ S]

\* The processes of S get a deadly signal: a viewer will end, somebody else's has.
Signal(S) ==
    /\ proc' = [p \in Pids |->
                  CASE p \in S /\ proc[p] \in {"forked", "loading"} -> "dying"
                    [] p \in S /\ proc[p] = "listening" -> "closing"
                    [] p \in S /\ proc[p] = "stranger" -> "none"
                    [] OTHER -> proc[p]]
    /\ old' = [o \in Operators |-> old[o] \ S]

---------------------------------------------------------------------------
(* Processes *)

\* The child becomes nohup and then python with osf_viewer/app.py ...
ViewerLoads(p) ==
    /\ proc[p] = "forked"
    /\ proc' = [proc EXCEPT ![p] = "loading"]
    /\ UNCHANGED <<file, scripts, old, history>>

\* Variant of ViewerListens: a listener that shares its port.
ViewerShares(p) ==
    /\ proc[p] = "loading"
    /\ proc' = [proc EXCEPT ![p] = "listening"]
    /\ UNCHANGED <<file, scripts, old, history>>

\* ... and main binds the port, ...
ViewerListens(p) ==
    /\ proc[p] = "loading" /\ Listening = {}
    /\ proc' = [proc EXCEPT ![p] = "listening"]
    /\ UNCHANGED <<file, scripts, old, history>>

\* ... or raises, because another has it or the policy is missing; a viewer
\* that serves may be killed by the system as well.
ViewerDies(p) ==
    /\ p \in Viewers
    /\ Gone({p})
    /\ lost' = TRUE
    /\ UNCHANGED <<file, scripts, tangled, freed>>

\* A viewer that was signalled ends.
ViewerEnds(p) ==
    /\ proc[p] \in {"dying", "closing"}
    /\ Gone({p})
    /\ freed' = freed \union {o \in Operators : pc[o] \in {"again", "hard"} /\ pid[o] = p}
    /\ UNCHANGED <<file, scripts, tangled, lost>>

StrangerStarts(p) ==
    /\ ~Alive(p)
    /\ proc' = [proc EXCEPT ![p] = "stranger"]
    /\ UNCHANGED <<file, scripts, old, history>>

StrangerExits(p) ==
    /\ proc[p] = "stranger"
    /\ Gone({p})
    /\ UNCHANGED <<file, scripts, history>>

\* The machine goes down and comes up; the PID file is still there.
Reboot ==
    /\ \E p \in Pids : Alive(p)
    /\ Gone(Pids)
    /\ pc' = [o \in Operators |-> "idle"]
    /\ lost' = (lost \/ Viewers # {})
    /\ tangled' = (tangled \/ Active # {})
    /\ job' = [o \in Operators |-> "start"]
    /\ pid' = [o \in Operators |-> None]
    /\ freed' = {}
    /\ UNCHANGED file

---------------------------------------------------------------------------
(* Scripts *)

\* A script that has ended has no locals.
Goes(o, from, to) ==
    /\ pc[o] = from
    /\ pc' = [pc EXCEPT ![o] = to]
    /\ IF to \in Steps
         THEN UNCHANGED <<job, pid>>
         ELSE /\ job' = [job EXCEPT ![o] = "start"]
              /\ pid' = [pid EXCEPT ![o] = None]

Begin(o) ==
    /\ pc[o] = "idle"
    /\ \E j \in {"start", "stop", "restart"} :
         /\ job' = [job EXCEPT ![o] = j]
         /\ pc' = [pc EXCEPT ![o] = IF j = "start" THEN "startRead" ELSE "stopRead"]
         /\ old' = [old EXCEPT ![o] = IF j = "restart" THEN Loaded ELSE {}]
    /\ tangled' = (tangled \/ Active # {})
    /\ UNCHANGED <<proc, file, pid, lost, freed>>

\* The operator's terminal is closed, or ^C: the child does not get it.
Interrupted(o) ==
    /\ \E at \in Steps : Goes(o, at, "idle")
    /\ old' = [old EXCEPT ![o] = {}]
    /\ tangled' = TRUE
    /\ freed' = freed \ {o}
    /\ UNCHANGED <<proc, file, lost>>

Dismissed(o) ==
    /\ Goes(o, "restarted", "idle")
    /\ old' = [old EXCEPT ![o] = {}]
    /\ UNCHANGED <<proc, file, history>>

\* start.sh ends with exit 0, which is the end of restart.sh too.
StartSucceeds(o, from) ==
    Goes(o, from, IF job[o] = "restart" THEN "restarted" ELSE "idle")

\* pkill -f osf_viewer/app.py: the viewers, and whoever else has that in the
\* command line (an editor, say).  It makes good what went wrong before when it
\* misses no viewer and nobody else is at work.
Sweep(o) ==
    /\ \E namesakes \in SUBSET Strangers : Signal(Loaded \union namesakes)
    /\ UNCHANGED freed
    /\ IF Active = {o} /\ Viewers = Loaded /\ (file = None \/ pc[o] = "startSweep")
         THEN tangled' = FALSE /\ lost' = FALSE
         ELSE UNCHANGED <<tangled, lost>>

---------------------------------------------------------------------------
(* start.sh *)

StartReads(o) ==
    /\ pc[o] = "startRead"
    /\ pc' = [pc EXCEPT ![o] = IF file = None THEN "startSweep" ELSE "startProbe"]
    /\ pid' = [pid EXCEPT ![o] = file]
    /\ UNCHANGED <<proc, file, job, old, history>>

\* kill -0: whoever has the number now.
AlreadyRunning(o) ==
    /\ StartSucceeds(o, "startProbe")
    /\ Alive(pid[o])
    /\ UNCHANGED <<proc, file, old, history>>

NotRunning(o) ==
    /\ Goes(o, "startProbe", "startSweep")
    /\ ~Alive(pid[o])
    /\ UNCHANGED <<proc, file, old, history>>

StartSweeps(o) ==
    /\ Goes(o, "startSweep", "spawn")
    /\ Sweep(o)
    /\ UNCHANGED file

Spawns(o) ==
    /\ pc[o] = "spawn"
    /\ pc' = [pc EXCEPT ![o] = "record"]
    /\ \E p \in Pids :
         /\ ~Alive(p)
         /\ proc' = [proc EXCEPT ![p] = "forked"]
         /\ pid' = [pid EXCEPT ![o] = p]
    /\ UNCHANGED <<file, job, old, history>>

\* Variant of Records: only a viewer that listens is written down.
RecordsListener(o) ==
    /\ Goes(o, "record", "check")
    /\ file' = IF pid[o] \in Listening THEN pid[o] ELSE file
    /\ UNCHANGED <<proc, old, history>>

Records(o) ==
    /\ Goes(o, "record", "check")
    /\ file' = pid[o]
    /\ UNCHANGED <<proc, old, history>>

\* The file cannot be opened, or not be written after it was emptied: errexit, and
\* the child is on its own.
RecordFails(o) ==
    /\ Goes(o, "record", "idle")
    /\ file' \in {file, None}
    /\ old' = [old EXCEPT ![o] = {}]
    /\ tangled' = TRUE
    /\ UNCHANGED <<proc, lost, freed>>

\* After 2.5 seconds, in which the child has become python.  Anybody's listening
\* is good enough.
Checks(o) ==
    /\ pc[o] = "check" /\ proc[pid[o]] # "forked"
    /\ IF Listening # {} THEN StartSucceeds(o, "check") ELSE Goes(o, "check", "idle")
    /\ UNCHANGED <<proc, file, old, history>>

---------------------------------------------------------------------------
(* stop.sh *)

StopReads(o) ==
    /\ pc[o] = "stopRead"
    /\ pc' = [pc EXCEPT ![o] = IF file = None THEN "stopSweep" ELSE "stopProbe"]
    /\ pid' = [pid EXCEPT ![o] = file]
    /\ UNCHANGED <<proc, file, job, old, history>>

StopProbes(o) ==
    /\ Goes(o, "stopProbe", IF Alive(pid[o]) THEN "term" ELSE "remove")
    /\ UNCHANGED <<proc, file, old, history>>

\* The viewer does not handle SIGTERM and will die of it; others may go on.
Terminates(o) ==
    /\ Goes(o, "term", "again")
    /\ Alive(pid[o])
    /\ \/ Signal({pid[o]})
       \/ pid[o] \in Strangers /\ UNCHANGED <<proc, old>>
    /\ UNCHANGED <<file, history>>

\* One second later: kill -0 once more, ...
ProbesAgain(o) ==
    /\ Goes(o, "again", IF Alive(pid[o]) THEN "hard" ELSE "remove")
    /\ UNCHANGED <<proc, file, old, history>>

\* ... and kill -9.
Kills(o) ==
    /\ Goes(o, "hard", "remove")
    /\ Alive(pid[o])
    /\ Signal({pid[o]})
    /\ UNCHANGED <<file, history>>

\* Either kill finds nobody: errexit, and the PID file stays.
Aborts(o) ==
    /\ \E at \in {"term", "hard"} : Goes(o, at, "idle")
    /\ ~Alive(pid[o])
    /\ lost' = TRUE
    /\ old' = [old EXCEPT ![o] = {}]
    /\ freed' = freed \ {o}
    /\ UNCHANGED <<proc, file, tangled>>

\* Variant of Removes: the file is left for start.sh to find out.
RemovesNothing(o) ==
    /\ Goes(o, "remove", "stopSweep")
    /\ freed' = freed \ {o}
    /\ UNCHANGED <<proc, file, old, tangled, lost>>

Removes(o) ==
    /\ Goes(o, "remove", "stopSweep")
    /\ file' = None
    /\ freed' = freed \ {o}
    /\ UNCHANGED <<proc, old, tangled, lost>>

\* Variant of StopSweeps: the process of the PID file was all there is.
StopSweepsNobody(o) ==
    /\ Goes(o, "stopSweep", IF job[o] = "restart" THEN "startRead" ELSE "idle")
    /\ UNCHANGED <<proc, file, old, history>>

StopSweeps(o) ==
    /\ Goes(o, "stopSweep", IF job[o] = "restart" THEN "startRead" ELSE "idle")
    /\ Sweep(o)
    /\ UNCHANGED file

---------------------------------------------------------------------------
ProcessNext(p) ==
    \/ ViewerLoads(p) \/ ViewerListens(p) \/ ViewerDies(p) \/ ViewerEnds(p)
    \/ StrangerStarts(p) \/ StrangerExits(p)

StartNext(o) ==
    \/ StartReads(o) \/ AlreadyRunning(o) \/ NotRunning(o) \/ StartSweeps(o)
    \/ Spawns(o) \/ Records(o) \/ RecordFails(o) \/ Checks(o)

StopNext(o) ==
    \/ StopReads(o) \/ StopProbes(o) \/ Terminates(o) \/ ProbesAgain(o)
    \/ Kills(o) \/ Aborts(o) \/ Removes(o) \/ StopSweeps(o)

OperatorNext(o) ==
    Begin(o) \/ Interrupted(o) \/ Dismissed(o) \/ StartNext(o) \/ StopNext(o)

ScriptNext ==
    \/ Reboot
    \/ \E p \in Pids : ProcessNext(p)
    \/ \E o \in Operators : OperatorNext(o)

ScriptSpec == ScriptInit /\ [][ScriptNext]_scriptVars

---------------------------------------------------------------------------
(* Properties *)

\* Between two scripts the PID file names the viewer, if there is one, so that
\* start.sh is a "no-op if already running" and stop.sh and status.sh mean the
\* right process: whatever died meanwhile, as long as scripts did not overlap and
\* none was cut short, and again after one that ran alone (start.sh:7-20,
\* stop.sh:5-14).
FileNamesViewer == ~tangled /\ Active = {} => \A p \in Viewers : file = p

\* When restart.sh is through, no viewer that had loaded the code before it began
\* is left but on its way out, whoever else runs which script (restart.sh:4-6,
\* stop.sh:14).
RestartReplaces == \A o \in Operators : pc[o] = "restarted" => old[o] = {}

\* The two kills by number.  stop.sh is about to SIGTERM a process of somebody
\* else only when the file's number was used again after a viewer died by itself
\* or a stop.sh broke off, or after scripts overlapped or were cut short; and to
\* SIGKILL one only then, or when its SIGTERM has ended the process and the number
\* was used again within the second between (stop.sh:6-10).  pkill goes by the
\* command line and may hit others at any time.
StrangersSpared ==
    \A o \in Operators : pid[o] \in Strangers =>
        /\ pc[o] = "term" => tangled \/ lost
        /\ pc[o] = "hard" => tangled \/ lost \/ o \in freed
=============================================================================
