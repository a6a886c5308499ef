------------------------------- MODULE Listing -------------------------------
(***************************************************************************)
(* Directory pages: the hub's <ul> (app._handle_hub) and the /text report  *)
(* (inspectors._text_directory), both made by                              *)
(* directory_listing.bounded_visible_entries, a scan that keeps the Limit  *)
(* smallest visible names and counts them all.  The tree may change at any *)
(* step of a scan, and the policy may be loaded anew.                      *)
(*                                                                         *)
(* The pages of one thread are modelled: scans share nothing.              *)
(***************************************************************************)
EXTENDS Access

CONSTANTS
    Trees,      \* the trees there may be
    MaxDepth,   \* bound: names in a path that clients ask for
    Limit       \* MAX_DISPLAY

ASSUME LimitAssumption == Limit \in Nat \ {0}
ASSUME DepthAssumption == MaxDepth \in Nat
\* Links lead to paths below the root or out of it.
ASSUME TreesAssumption ==
    \A t \in Trees : \A p \in DOMAIN t :
        /\ p \in Seq(Names)
        /\ t[p].kind \in {"file", "dir", "link"} /\ (t[p].kind = "link" => IsPath(t[p].to))
\* The cache directory is one the viewer has made, and below no link.
ASSUME CacheAssumption == \A t \in Trees : Links(t, CacheDir) = {}
\* The bound on links is no restriction: who needs more of them needs no end.
ASSUME FollowAssumption ==
    \A t \in Trees : \A p \in SeqOf(Names, MaxDepth + 1) :
        Links(t, Trail(t, p)[2 * MaxFollow]) = {} => Links(t, Resolved(t, p)) = {}

VARIABLES
    tree,       \* the file system under the root
    policy,     \* what denylist() returns
    pc, asked, dir, pred,           \* the request: its path, the real one,
                                    \* and the policy its predicate is bound to
    at,         \* the directory that is open
    offered,    \* names the iterator may return, also some that are gone by now
    scanned, selected, count,       \* the scan: names returned, kept, counted
    steady,     \* history: names in at, and not denied, all through the scan
    fresh,      \* history: the tree has not changed since the policy was loaded
    calm        \* history: nor has it since then and during the request

request == <<pc, asked, dir, pred>>
found   == <<scanned, selected, count>>
scan    == <<at, offered, found, steady>>
vars    == <<tree, policy, request, scan, fresh, calm>>

\* Paths clients ask for.
Paths == SeqOf(Names, MaxDepth)

TypeOK ==
    /\ tree \in Trees
    /\ policy \in SUBSET Seq(Names)
    /\ pc \in {"idle", "predicate", "open", "scan", "page", "failed"}
    /\ asked \in Paths /\ dir \in Seq(Names)
    /\ pred \in SUBSET Seq(Names)
    /\ IsPath(at)
    /\ offered \in SUBSET Names
    /\ scanned \in SUBSET Names
    /\ selected \in SUBSET scanned /\ Cardinality(selected) <= Limit
    /\ count \in Cardinality(selected)..Cardinality(scanned)
    /\ steady \in SUBSET Names
    /\ fresh \in BOOLEAN /\ calm \in BOOLEAN

Init ==
    /\ tree \in {t \in Trees : PolicyLoadable(t)}
    /\ policy = LoadedPolicy(tree)
    /\ pc = "idle" /\ asked = Root /\ dir = Root /\ pred = {}
    /\ at = Root /\ offered = {} /\ steady = {}
    /\ scanned = {} /\ selected = {} /\ count = 0
    /\ fresh = TRUE /\ calm = FALSE

Goes(from, to) == pc = from /\ pc' = to

Visible(t, n) == ~IsDenied(t, Below(dir, n), pred)

\* Between two scans.
NoScan ==
    /\ at' = Root /\ offered' = {} /\ steady' = {}
    /\ scanned' = {} /\ selected' = {} /\ count' = 0

---------------------------------------------------------------------------
(* The world outside *)

\* One entry is created, removed or becomes something else.
Edit(old, new) ==
    LET both == DOMAIN old \union DOMAIN new IN
    \E p \in both : \A q \in both \ {p} :
        q \in DOMAIN old \intersect DOMAIN new /\ old[q] = new[q]

Edits == [old \in Trees |-> {new \in Trees \ {old} : Edit(old, new)}]

TreeChanges ==
    /\ tree' \in Edits[tree]
    /\ offered' = IF pc = "scan" THEN offered \union Children(tree', at) ELSE offered
    /\ steady' = {n \in steady : n \in Children(tree', at) /\ Visible(tree', n)}
    /\ fresh' = FALSE /\ calm' = FALSE
    /\ UNCHANGED <<policy, request, at, found>>

\* denylist() loads the policy again, in this thread's request or another's.
PolicyReloaded ==
    /\ PolicyLoadable(tree)
    /\ policy' = LoadedPolicy(tree)
    /\ fresh' = TRUE
    /\ UNCHANGED <<tree, request, scan, calm>>

---------------------------------------------------------------------------
(* A request for the page of a directory *)

\* _dispatch: the path is resolved with the policy of its first denylist().
Ask(p) ==
    /\ Goes("idle", "predicate")
    /\ SafeResolve(tree, p, policy) = "200"
    /\ Is(tree, Resolved(tree, p), "dir")
    /\ asked' = p
    /\ dir' = Resolved(tree, p)
    /\ calm' = fresh
    /\ UNCHANGED <<tree, policy, pred, scan, fresh>>

\* _denied_predicate: the policy of a second denylist().
BindPredicate ==
    /\ Goes("predicate", "open")
    /\ pred' = policy
    /\ UNCHANGED <<tree, policy, asked, dir, scan, fresh, calm>>

\* os.scandir opens the directory, or what a link that has taken its place leads
\* to, which may be out of the root and have any names in it.
OpenScan ==
    /\ Goes("open", "scan")
    /\ at' = Resolved(tree, dir)
    /\ \/ Is(tree, at', "dir") /\ offered' = Children(tree, at')
       \/ ~Inside(at') /\ offered' = Names
    /\ steady' = {n \in Children(tree, at') : Visible(tree, n)}
    /\ UNCHANGED <<tree, policy, asked, dir, pred, found, fresh, calm>>

\* Opening it or reading it raises, and the answer is an error.
ScanRaises ==
    /\ \E from \in {"open", "scan"} : Goes(from, "failed")
    /\ NoScan
    /\ UNCHANGED <<tree, policy, asked, dir, pred, fresh, calm>>

\* Variant of Kept: nothing is dropped.
KeptAll(names) == names

\* heapq.nsmallest: one more name has come.
Kept(names) ==
    IF Cardinality(names) <= Limit THEN names
    ELSE names \ {CHOOSE n \in names : \A m \in names : m <= n}

\* Variant of ScanEntry: the first names that come are kept.
ScanEntryFirst(n) ==
    /\ pc = "scan" /\ n \in offered \ scanned
    /\ scanned' = scanned \union {n}
    /\ selected' = IF Visible(tree, n) /\ Cardinality(selected) < Limit
                   THEN selected \union {n} ELSE selected
    /\ count' = IF Visible(tree, n) THEN count + 1 ELSE count
    /\ UNCHANGED <<tree, policy, request, at, offered, steady, fresh, calm>>

\* The iterator returns a name; what may be shown is counted and kept.
ScanEntry(n) ==
    /\ pc = "scan" /\ n \in offered \ scanned
    /\ scanned' = scanned \union {n}
    /\ IF Visible(tree, n)
       THEN selected' = Kept(selected \union {n}) /\ count' = count + 1
       ELSE UNCHANGED <<selected, count>>
    /\ UNCHANGED <<tree, policy, request, at, offered, steady, fresh, calm>>

\* It is exhausted: names that were there all the time have been returned.
ScanEnd ==
    /\ Goes("scan", "page")
    /\ steady \subseteq scanned
    /\ UNCHANGED <<tree, policy, asked, dir, pred, scan, fresh, calm>>

\* The hub goes on to get_text, which scans once more.
ScanAgain ==
    /\ Goes("page", "open")
    /\ NoScan
    /\ UNCHANGED <<tree, policy, asked, dir, pred, fresh, calm>>

Answered ==
    /\ \E from \in {"page", "failed"} : Goes(from, "idle")
    /\ asked' = Root /\ dir' = Root /\ pred' = {}
    /\ NoScan
    /\ calm' = FALSE
    /\ UNCHANGED <<tree, policy, fresh>>

---------------------------------------------------------------------------
PageNext ==
    \/ \E p \in Paths : Ask(p)
    \/ BindPredicate \/ OpenScan \/ ScanRaises
    \/ \E n \in Names : ScanEntry(n)
    \/ ScanEnd \/ ScanAgain \/ Answered

Next == TreeChanges \/ PolicyReloaded \/ PageNext

Spec == Init /\ [][Next]_vars

---------------------------------------------------------------------------
(* Properties *)

\* "a listing can never show a name that a direct request for that name would
\* deny" (app.py:61-66), and it shows, or counts, all the others: when the
\* tree stays as it is, the page of a directory, asked for by its own path or
\* through a link, agrees with safe_resolve on every entry.
ListingMatchesFetch ==
    pc = "page" /\ calm =>
        LET open == {n \in Children(tree, dir) :
                        SafeResolve(tree, Below(asked, n), policy) # "403"}
        IN  /\ selected \subseteq open
            /\ count = Cardinality(open)
            /\ Cardinality(selected) < Limit => selected = open

\* However the directory changes during the scan, a name that was there and
\* visible all the time is on the page, unless Limit smaller ones are
\* (directory_listing.py:35-48).
NoSteadyNameLost ==
    pc = "page" =>
        \A n \in steady \ selected :
            Cardinality(selected) = Limit /\ \A m \in selected : m < n

\* An alias gives no access that the file's own path does not give: what is
\* served under any name is served under its real path too, also while the
\* policy is older than the tree (security.py:139-157).
NoAliasAround ==
    \A p \in Paths :
        SafeResolve(tree, p, policy) = "200" =>
            SafeResolve(tree, Resolved(tree, p), policy) = "200"
==============================================================================
