------------------------------- MODULE Access -------------------------------
(***************************************************************************)
(* The access decisions of security.py on a file tree with symbolic links: *)
(* load_denylist's resolution of the declared paths, is_denied (what a     *)
(* listing asks of an entry) and safe_resolve (what a direct request       *)
(* asks).  They decide by the same lists but look at different paths: a    *)
(* listing at an entry below a directory's real path, a request at the     *)
(* path as it was written.                                                 *)
(*                                                                         *)
(* A path is the sequence of its names below the root; <<Outside>> stands  *)
(* for whatever is not below the root.  The target of a link is given as   *)
(* the path it leads to, which may go through links again.                 *)
(***************************************************************************)
EXTENDS Naturals, FiniteSets, Sequences, SequencesExt

CONSTANTS
    Names,      \* file names, as numbers in their alphabetical order
    HiddenName, \* DENIED_BASENAMES: refused wherever it appears
    Outside,    \* what a path out of the root begins with
    Declared,   \* the paths denylist.txt declares
    CacheDir,   \* the viewer's own cache directory, denied whatever is declared
    MaxFollow   \* bound: links followed before a path counts as a loop

ASSUME NamesAssumption == Names \subseteq Nat /\ IsFiniteSet(Names) /\ Outside \notin Names
ASSUME HiddenAssumption == HiddenName \in Names
ASSUME DeclaredAssumption == Declared \subseteq Seq(Names) /\ CacheDir \in Seq(Names)
ASSUME MaxFollowAssumption == MaxFollow \in Nat

Root == <<>>

\* What is out of the root is so from its first name on.
IsPath(p) == p \in Seq(Names \union {Outside}) /\ \A i \in 2..Len(p) : p[i] # Outside

File == [kind |-> "file"]
Dir  == [kind |-> "dir"]
Link(to) == [kind |-> "link", to |-> to]

\* A tree maps the paths that are there to what is there.
Is(tree, p, kind) == p \in DOMAIN tree /\ tree[p].kind = kind

Below(p, n) == Append(p, n)

Children(tree, p) == {n \in Names : Below(p, n) \in DOMAIN tree}

\* Where a path goes through a link, or ends in one.
Links(tree, p) == {k \in 1..Len(p) : Is(tree, SubSeq(p, 1, k), "link")}

\* The names up to the first link, its own among them, are replaced.
Followed(tree, p) ==
    LET links == Links(tree, p)
        k     == CHOOSE i \in links : \A j \in links : i <= j
    IN  IF links = {} THEN p
        ELSE tree[SubSeq(p, 1, k)].to \o SubSeq(p, k + 1, Len(p))

\* The path, and what it becomes when link after link is followed.
Trail(tree, p) ==
    LET at[i \in Nat] == IF i = 0 THEN p ELSE Followed(tree, at[i - 1])
    IN  at

\* Path.resolve(strict=False): the real path; a loop is left with links in it.
Resolved(tree, p) == Trail(tree, p)[MaxFollow]

Inside(p) == p = Root \/ Head(p) # Outside

\* It could be resolved, and leads to a path under the root.
Sound(tree, real) == Links(tree, real) = {} /\ Inside(real)

\* _is_denied: on a list or below an entry of it, or a hidden name in it.
OnList(p, policy) ==
    \/ \E d \in policy : IsPrefix(d, p)
    \/ HiddenName \in ToSet(p)

\* load_denylist resolves what is declared and refuses what leads out or loops.
PolicyLoadable(tree) == \A d \in Declared : Sound(tree, Resolved(tree, d))

LoadedPolicy(tree) == {Resolved(tree, d) : d \in Declared \union {CacheDir}}

\* Variant of IsDenied: only what the entry leads to is looked at.
IsDeniedByTarget(tree, p, policy) ==
    LET real == Resolved(tree, p) IN ~Sound(tree, real) \/ OnList(real, policy)

\* is_denied: by its own name, or by what it leads to.
IsDenied(tree, p, policy) ==
    \/ OnList(p, policy)
    \/ LET real == Resolved(tree, p) IN ~Sound(tree, real) \/ OnList(real, policy)

\* Variant of SafeResolve: the real path is not held against the list again.
SafeResolveByName(tree, p, policy) ==
    LET real == Resolved(tree, p) IN
    IF OnList(p, policy) \/ ~Sound(tree, real) THEN "403"
    ELSE IF real \in DOMAIN tree THEN "200" ELSE "404"

\* safe_resolve, as the status it leads to.  Paths with "..", which are
\* refused, and "." or empty names, which are dropped, are not represented.
SafeResolve(tree, p, policy) ==
    LET real == Resolved(tree, p) IN
    IF OnList(p, policy) \/ ~Sound(tree, real) \/ OnList(real, policy) THEN "403"
    ELSE IF real \in DOMAIN tree THEN "200" ELSE "404"
=============================================================================
