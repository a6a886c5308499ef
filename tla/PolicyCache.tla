---------------------------- MODULE PolicyCache ----------------------------
(***************************************************************************)
(* The access policy of the viewer: security.load_denylist, its cache in   *)
(* app.denylist() and the requests decided with it.  denylist() takes no   *)
(* lock: main and every worker thread run it side by side on two module    *)
(* globals, while an operator edits denylist.txt by rename or in place.    *)
(*                                                                         *)
(* A line of the file is a rule, or Unsafe: absolute, with a ".." or "."   *)
(* part, or leading out of the root.  Blank lines and comments are left    *)
(* out.  The clock is the wall clock, and runs forward.                    *)
(***************************************************************************)
EXTENDS Integers, Sequences, SequencesExt

CONSTANTS
    Main,       \* the thread that calls denylist() before it binds the port
    Workers,    \* request worker threads
    Required,   \* REQUIRED_DENY_PATHS
    CacheDir,   \* CACHE_DIRNAME, denied whatever the file says
    Unsafe,     \* a line load_denylist refuses
    Policies,   \* the files an operator writes
    Missing,    \* there is no such file
    TTL,        \* how long a loaded policy is used without looking (30 s)
    MaxCall,    \* the longest a call of denylist() may take
    MaxTime     \* bound on the clock

ASSUME MainAssumption == Main \notin Workers
ASSUME TimeAssumption == TTL \in Nat /\ MaxCall \in Nat /\ MaxTime \in Nat
ASSUME LinesAssumption == Unsafe \notin Required /\ Missing \notin Policies

Lines == UNION {ToSet(p) : p \in Policies}

ASSUME PoliciesAssumption == Policies \subseteq Seq(Lines)

Threads == Workers \union {Main}

VARIABLES
    file,       \* what denylist.txt contains, or Missing
    rest,       \* the lines an edit in place has still to write
    clock,      \* time.time()
    up,         \* the process: "down", "starting" or "serving"
    cached,     \* _DENYLIST_CACHE
    loadedAt,   \* _DENYLIST_LOADED_AT
    pc, now, mine   \* each thread's position and locals; mine is what it returns

globals == <<cached, loadedAt>>
threads == <<pc, now, mine>>
vars    == <<file, rest, clock, up, globals, threads>>

\* A policy as a list of denied paths, with the time it was read (history).
Policy(rules, at) == [rules |-> rules, readAt |-> at]
NoPolicy == Policy({}, 0)

PCs == {"idle", "sample", "check", "load", "assign", "stamp", "return",
        "decide", "unavailable"}

Rules == (Lines \ {Unsafe}) \union {CacheDir}

Baseline == Required \union {CacheDir}

TypeOK ==
    /\ file = Missing \/ file \in Seq(Lines)
    /\ rest \in Seq(Lines)
    /\ clock \in Nat
    /\ up \in {"down", "starting", "serving"}
    /\ cached \in [rules : SUBSET Rules, readAt : Nat]
    /\ loadedAt \in Nat
    /\ pc \in [Threads -> PCs]
    /\ now \in [Threads -> Nat]
    /\ mine \in [Threads -> [rules : SUBSET Rules, readAt : Nat]]

\* The epoch is long past: a process that has loaded nothing will load.
Init ==
    /\ file \in Policies \union {Missing}
    /\ rest = <<>>
    /\ clock = TTL + 1
    /\ up = "down"
    /\ cached = NoPolicy
    /\ loadedAt = 0
    /\ pc = [t \in Threads |-> "idle"]
    /\ now = [t \in Threads |-> 0]
    /\ mine = [t \in Threads |-> NoPolicy]

---------------------------------------------------------------------------
(* The operator, the clock, the process *)

Replaced ==
    /\ file' \in Policies \union {Missing}
    /\ rest' = <<>>
    /\ UNCHANGED <<clock, up, globals, threads>>

\* The file is opened for writing, truncated, and written line by line.
Truncated ==
    /\ file' = <<>>
    /\ rest' \in Policies
    /\ UNCHANGED <<clock, up, globals, threads>>

LineWritten ==
    /\ rest # <<>> /\ file # Missing
    /\ file' = Append(file, Head(rest))
    /\ rest' = Tail(rest)
    /\ UNCHANGED <<clock, up, globals, threads>>

InCall(t) == pc[t] \in {"check", "load", "assign", "stamp", "return"}

\* Time passes; no call of denylist() lasts longer than MaxCall.
Tick ==
    /\ clock < MaxTime
    /\ \A t \in Threads : InCall(t) => clock < now[t] + MaxCall
    /\ clock' = clock + 1
    /\ UNCHANGED <<file, rest, up, globals, threads>>

Boot ==
    /\ up = "down"
    /\ up' = "starting"
    /\ pc' = [pc EXCEPT ![Main] = "sample"]
    /\ UNCHANGED <<file, rest, clock, globals, now, mine>>

Kill ==
    /\ up # "down"
    /\ up' = "down"
    /\ cached' = NoPolicy /\ loadedAt' = 0
    /\ pc' = [t \in Threads |-> "idle"]
    /\ now' = [t \in Threads |-> 0]
    /\ mine' = [t \in Threads |-> NoPolicy]
    /\ UNCHANGED <<file, rest, clock>>

---------------------------------------------------------------------------
(* security.load_denylist *)

\* Variants of Loadable: a mandatory exclusion may be missing; a line may lead
\* out of the root.
LoadableLacking == file # Missing /\ Unsafe \notin ToSet(file)
LoadableEscaping == file # Missing /\ Required \subseteq ToSet(file)

\* Every line is safe and the mandatory exclusions are all declared.
Loadable ==
    /\ file # Missing
    /\ Unsafe \notin ToSet(file)
    /\ Required \subseteq ToSet(file)

Loaded == Policy(ToSet(file) \union {CacheDir}, clock)

---------------------------------------------------------------------------
(* app.denylist() and its callers *)

Goes(t, from, to) == pc[t] = from /\ pc' = [pc EXCEPT ![t] = to]

\* A request comes in: _dispatch asks for the policy before anything else.
Request(t) ==
    /\ t \in Workers /\ up = "serving"
    /\ Goes(t, "idle", "sample")
    /\ UNCHANGED <<file, rest, clock, up, globals, now, mine>>

\* now = time.time()
Sample(t) ==
    /\ Goes(t, "sample", "check")
    /\ now' = [now EXCEPT ![t] = clock]
    /\ UNCHANGED <<file, rest, clock, up, globals, mine>>

StillFresh(t) ==
    /\ now[t] - loadedAt <= TTL
    /\ Goes(t, "check", "return")
    /\ UNCHANGED <<file, rest, clock, up, globals, now, mine>>

\* Variant of Expired: the time stamp is set before the file is read.
ExpiredStampedFirst(t) ==
    /\ now[t] - loadedAt > TTL
    /\ Goes(t, "check", "load")
    /\ loadedAt' = now[t]
    /\ UNCHANGED <<file, rest, clock, up, cached, now, mine>>

Expired(t) ==
    /\ now[t] - loadedAt > TTL
    /\ Goes(t, "check", "load")
    /\ UNCHANGED <<file, rest, clock, up, globals, now, mine>>

Load(t) ==
    /\ Loadable
    /\ Goes(t, "load", "assign")
    /\ mine' = [mine EXCEPT ![t] = Loaded]
    /\ UNCHANGED <<file, rest, clock, up, globals, now>>

\* DenylistUnavailable, or an OSError of is_file() or resolve(), which a good file
\* can have as well: neither global is touched, the next call tries again.
LoadRaises(t) ==
    /\ Goes(t, "load", "unavailable")
    /\ UNCHANGED <<file, rest, clock, up, globals, now, mine>>

AssignCache(t) ==
    /\ Goes(t, "assign", "stamp")
    /\ cached' = mine[t]
    /\ UNCHANGED <<file, rest, clock, up, loadedAt, now, mine>>

\* _DENYLIST_LOADED_AT = now
Stamp(t) ==
    /\ Goes(t, "stamp", "return")
    /\ loadedAt' = now[t]
    /\ UNCHANGED <<file, rest, clock, up, cached, now, mine>>

\* return _DENYLIST_CACHE: the global, not what this call has loaded.
Return(t) ==
    /\ Goes(t, "return", "decide")
    /\ mine' = [mine EXCEPT ![t] = cached]
    /\ UNCHANGED <<file, rest, clock, up, globals, now>>

\* The request is answered by the policy it was given; main goes on to listen.
Decide(t) ==
    /\ Goes(t, "decide", "idle")
    /\ up' = "serving"
    /\ now' = [now EXCEPT ![t] = 0]
    /\ mine' = [mine EXCEPT ![t] = NoPolicy]
    /\ UNCHANGED <<file, rest, clock, globals>>

\* The hub and the /text listing ask again (_denied_predicate).
AskAgain(t) ==
    /\ t \in Workers
    /\ Goes(t, "decide", "sample")
    /\ UNCHANGED <<file, rest, clock, up, globals, now, mine>>

\* do_GET answers 503, or 500 for the OSError; main does not survive the exception.
Unavailable(t) ==
    /\ Goes(t, "unavailable", "idle")
    /\ up' = IF t = Main THEN "down" ELSE up
    /\ now' = [now EXCEPT ![t] = 0]
    /\ mine' = [mine EXCEPT ![t] = NoPolicy]
    /\ UNCHANGED <<file, rest, clock, globals>>

---------------------------------------------------------------------------
ThreadNext(t) ==
    \/ Request(t) \/ Sample(t) \/ StillFresh(t) \/ Expired(t) \/ Load(t)
    \/ LoadRaises(t) \/ AssignCache(t) \/ Stamp(t) \/ Return(t) \/ Decide(t)
    \/ AskAgain(t) \/ Unavailable(t)

WorldNext == Replaced \/ Truncated \/ LineWritten \/ Tick \/ Boot \/ Kill

Next == WorldNext \/ \E t \in Threads : ThreadNext(t)

Spec == Init /\ [][Next]_vars

---------------------------------------------------------------------------
(* Properties *)

\* Fail closed: whatever happens to the file, no request is decided with a
\* list that lacks a mandatory exclusion, least of all the empty list the
\* process starts with (security.py:45-48, 78-82; app.py:45, 165-167, 293).
FailClosed ==
    \A t \in Threads : pc[t] = "decide" => Baseline \subseteq mine[t].rules

\* A policy is used for at most TTL after it was read from the file, plus the
\* duration of one call, which a second thread reloading at the same time can
\* add (app.py:49-55).  So a file that stays missing or invalid does end in 503.
BoundedStaleness ==
    \A t \in Threads : pc[t] = "decide" => now[t] - mine[t].readAt <= TTL + MaxCall

\* DOCS.md: "A successfully loaded policy is cached for up to 30 seconds".
CachedAtMostTTL ==
    \A t \in Threads : pc[t] = "decide" => now[t] - mine[t].readAt <= TTL
============================================================================
