--------------------------- MODULE ListingProofs ---------------------------
(***************************************************************************)
(* Theorems about Listing, for trees, paths and links of every number.     *)
(*                                                                         *)
(* A path is resolved by following one link after the other, a recursion   *)
(* over numbers, and the proofs go by induction over them: that a set of   *)
(* numbers with 0 and all successors is Nat (Induction) follows from the   *)
(* well-foundedness of <.  What a page shows is compared with what a       *)
(* request is answered by a fact about trails: an entry below a path       *)
(* passes through the entry below the real path (PassesDirectory), so both *)
(* lead to the same (SameEntry) and are decided alike (DecideAlike).       *)
(***************************************************************************)
EXTENDS Listing, FiniteSetTheorems, SequenceTheorems, WellFoundedInduction, TLAPS

---------------------------------------------------------------------------
(* Induction, and what is defined by it *)

\* A set of numbers with 0 and every successor has them all: in any other there
\* would be a least number that is left out.
LEMMA Induction ==
    ASSUME NEW S, 0 \in S, \A n \in Nat : n \in S => n + 1 \in S
    PROVE  Nat \subseteq S
<1> DEFINE Rest == Nat \ S
<1> SUFFICES ASSUME Rest # {} PROVE FALSE
  OBVIOUS
<1>1. \E x \in Rest : \A y \in Rest : <<y, x>> \notin OpToRel(<, Nat)
  <2>1. Rest \subseteq Nat
    OBVIOUS
  <2> HIDE DEF Rest
  <2> QED
    BY <2>1, WFMin, NatLessThanWellFounded
<1>2. PICK x \in Rest : \A y \in Rest : ~(y < x)
  BY <1>1 DEF OpToRel
<1>3. x - 1 \in Nat /\ x - 1 \notin Rest
  BY <1>2
<1> QED
  BY <1>3

\* The first n steps of a trail.
Begins(f, tr, p, n) == f = [i \in 0..n |-> IF i = 0 THEN p ELSE Followed(tr, f[i - 1])]

LEMMA TrailBegins ==
    ASSUME NEW tr, NEW p
    PROVE  \A n \in Nat : \E f : Begins(f, tr, p, n)
<1> DEFINE S == {n \in Nat : \E f : Begins(f, tr, p, n)}
<1>1. 0 \in S
  <2>1. Begins([i \in 0..0 |-> p], tr, p, 0)
    BY DEF Begins
  <2> QED
    BY <2>1
<1>2. ASSUME NEW n \in Nat, n \in S PROVE n + 1 \in S
  <2>1. PICK f : Begins(f, tr, p, n)
    BY <1>2
  <2> DEFINE g == [i \in 0..(n + 1) |-> IF i = 0 THEN p ELSE Followed(tr, f[i - 1])]
  <2>2. \A i \in 0..n : g[i] = f[i]
    BY <2>1 DEF Begins
  <2>3. g = [i \in 0..(n + 1) |-> IF i = 0 THEN p ELSE Followed(tr, g[i - 1])]
    <3>1. ASSUME NEW i \in 0..(n + 1), i # 0 PROVE f[i - 1] = g[i - 1]
      <4>1. i - 1 \in 0..n
        BY <3>1
      <4> HIDE DEF g
      <4> QED
        BY <4>1, <2>2
    <3> QED
      BY <3>1
  <2>4. Begins(g, tr, p, n + 1)
    BY <2>3 DEF Begins
  <2> QED
    BY <2>4
<1>3. Nat \subseteq S
  <2> HIDE DEF S
  <2> QED
    BY <1>1, <1>2, Induction
<1> QED
  BY <1>3

LEMMA TrailUnique ==
    ASSUME NEW tr, NEW p, NEW m \in Nat, NEW n \in Nat, NEW f, NEW g,
           Begins(f, tr, p, m), Begins(g, tr, p, n)
    PROVE  \A i \in Nat : i <= m /\ i <= n => f[i] = g[i]
<1> DEFINE S == {i \in Nat : i <= m /\ i <= n => f[i] = g[i]}
<1>1. 0 \in S
  BY DEF Begins
<1>2. ASSUME NEW i \in Nat, i \in S PROVE i + 1 \in S
  <2> SUFFICES ASSUME i + 1 <= m, i + 1 <= n PROVE f[i + 1] = g[i + 1]
    OBVIOUS
  <2>1. f[i] = g[i]
    BY <1>2
  <2>2. f[i + 1] = Followed(tr, f[i]) /\ g[i + 1] = Followed(tr, g[i])
    BY DEF Begins
  <2> QED
    BY <2>1, <2>2
<1>3. Nat \subseteq S
  <2> HIDE DEF S
  <2> QED
    BY <1>1, <1>2, Induction
<1> QED
  BY <1>3

\* The recursion of Trail has a solution, so Trail is one.
LEMMA TrailSteps ==
    ASSUME NEW tr, NEW p
    PROVE  /\ Trail(tr, p)[0] = p
           /\ \A n \in Nat : Trail(tr, p)[n + 1] = Followed(tr, Trail(tr, p)[n])
<1> DEFINE Part(n) == CHOOSE f : Begins(f, tr, p, n)
           steps == [i \in Nat |-> Part(i)[i]]
<1>1. ASSUME NEW n \in Nat PROVE Begins(Part(n), tr, p, n)
  BY TrailBegins
<1>2. steps[0] = p
  <2>1. Begins(Part(0), tr, p, 0)
    BY <1>1
  <2> HIDE DEF Part
  <2> QED
    BY <2>1 DEF Begins
<1>3. ASSUME NEW n \in Nat PROVE steps[n + 1] = Followed(tr, steps[n])
  <2>1. Begins(Part(n), tr, p, n) /\ Begins(Part(n + 1), tr, p, n + 1)
    BY <1>1
  <2> HIDE DEF Part
  <2>2. Part(n)[n] = Part(n + 1)[n]
    BY <2>1, TrailUnique
  <2>3. Part(n + 1)[n + 1] = Followed(tr, Part(n + 1)[n])
    BY <2>1 DEF Begins
  <2> QED
    BY <2>2, <2>3
<1>4. steps = [i \in Nat |-> IF i = 0 THEN p ELSE Followed(tr, steps[i - 1])]
  <2> HIDE DEF Part
  <2>1. ASSUME NEW i \in Nat PROVE steps[i] = IF i = 0 THEN p ELSE Followed(tr, steps[i - 1])
    <3>1. CASE i = 0
      BY <3>1, <1>2
    <3>2. CASE i # 0
      <4>1. i - 1 \in Nat /\ (i - 1) + 1 = i
        BY <3>2
      <4>2. steps[(i - 1) + 1] = Followed(tr, steps[i - 1])
        BY <4>1, <1>3
      <4> QED
        BY <3>2, <4>1, <4>2
    <3> QED
      BY <3>1, <3>2
  <2> QED
    BY <2>1
<1>5. Trail(tr, p) = [i \in Nat |-> IF i = 0 THEN p ELSE Followed(tr, Trail(tr, p)[i - 1])]
  <2> HIDE DEF steps
  <2> QED
    BY <1>4 DEF Trail
<1> HIDE DEF steps
<1>6. ASSUME NEW n \in Nat PROVE Trail(tr, p)[n + 1] = Followed(tr, Trail(tr, p)[n])
  BY <1>5
<1>7. Trail(tr, p)[0] = p
  BY <1>5
<1> QED
  BY <1>6, <1>7

---------------------------------------------------------------------------
(* Resolution.  tr is a tree there may be, and p a path in it.             *)

\* The names before the first link of a path are those of a path in the tree.
LEMMA LinkFacts ==
    ASSUME NEW tr \in Trees, NEW p, IsPath(p), NEW k \in Links(tr, p)
    PROVE  k \in 1..Len(p) /\ IsPath(tr[SubSeq(p, 1, k)].to)
<1>1. k \in 1..Len(p) /\ SubSeq(p, 1, k) \in DOMAIN tr /\ tr[SubSeq(p, 1, k)].kind = "link"
  BY DEF Links, Is
<1> QED
  BY <1>1, TreesAssumption

LEMMA FirstLink ==
    ASSUME NEW tr, NEW p, Links(tr, p) # {}
    PROVE  \E k \in Links(tr, p) : \A j \in Links(tr, p) : k <= j
<1>1. Links(tr, p) \subseteq Nat
  BY DEF Links
<1>2. PICK k \in Links(tr, p) : \A j \in Links(tr, p) : <<j, k>> \notin OpToRel(<, Nat)
  BY <1>1, WFMin, NatLessThanWellFounded
<1>3. \A j \in Links(tr, p) : ~(j < k)
  BY <1>1, <1>2 DEF OpToRel
<1> QED
  BY <1>1, <1>3

\* Followed takes the first link.
LEMMA FollowsFirst ==
    ASSUME NEW tr \in Trees, NEW p, IsPath(p), Links(tr, p) # {}
    PROVE  \E k \in Links(tr, p) :
              /\ \A j \in Links(tr, p) : k <= j
              /\ Followed(tr, p) = tr[SubSeq(p, 1, k)].to \o SubSeq(p, k + 1, Len(p))
<1> DEFINE k == CHOOSE i \in Links(tr, p) : \A j \in Links(tr, p) : i <= j
<1>1. k \in Links(tr, p) /\ \A j \in Links(tr, p) : k <= j
  BY FirstLink
<1>2. Followed(tr, p) = tr[SubSeq(p, 1, k)].to \o SubSeq(p, k + 1, Len(p))
  BY DEF Followed
<1> HIDE DEF k
<1> QED
  BY <1>1, <1>2

\* What follows a link is a path again.
LEMMA FollowedIsPath ==
    ASSUME NEW tr \in Trees, NEW p, IsPath(p)
    PROVE  IsPath(Followed(tr, p))
<1> DEFINE N == Names \union {Outside}
<1>1. CASE Links(tr, p) = {}
  BY <1>1 DEF Followed
<1>2. CASE Links(tr, p) # {}
  <2>1. PICK k \in Links(tr, p) :
            Followed(tr, p) = tr[SubSeq(p, 1, k)].to \o SubSeq(p, k + 1, Len(p))
    BY <1>2, FollowsFirst
  <2> DEFINE to == tr[SubSeq(p, 1, k)].to
             after == SubSeq(p, k + 1, Len(p))
  <2>2. k \in 1..Len(p) /\ IsPath(to)
    BY LinkFacts
  <2>3. p \in Seq(N) /\ to \in Seq(N)
    BY <2>2 DEF IsPath
  <2>4. after \in Seq(N) /\ \A i \in 1..Len(after) : after[i] = p[k + i] /\ k + i \in 2..Len(p)
    BY <2>2, <2>3
  <2> HIDE DEF to, after, N
  <2>5. to \o after \in Seq(N)
    BY <2>3, <2>4
  <2>6. ASSUME NEW i \in 2..Len(to \o after) PROVE (to \o after)[i] # Outside
    <3>1. i \in 1..(Len(to) + Len(after)) /\ Len(to) \in Nat /\ Len(after) \in Nat
      BY <2>3, <2>4
    <3>2. (to \o after)[i] = IF i <= Len(to) THEN to[i] ELSE after[i - Len(to)]
      BY <2>3, <2>4, <3>1
    <3>3. CASE i <= Len(to)
      BY <3>2, <3>3, <2>2 DEF IsPath
    <3>4. CASE i > Len(to)
      <4>1. i - Len(to) \in 1..Len(after)
        BY <3>1, <3>4
      <4>2. after[i - Len(to)] # Outside
        BY <4>1, <2>4 DEF IsPath
      <4> QED
        BY <3>1, <3>2, <3>4, <4>2
    <3> QED
      BY <3>1, <3>3, <3>4
  <2> QED
    BY <2>1, <2>5, <2>6 DEF IsPath, to, after, N
<1> QED
  BY <1>1, <1>2

LEMMA TrailIsPath ==
    ASSUME NEW tr \in Trees, NEW p, IsPath(p)
    PROVE  \A n \in Nat : IsPath(Trail(tr, p)[n])
<1> DEFINE S == {n \in Nat : IsPath(Trail(tr, p)[n])}
<1>1. 0 \in S
  BY TrailSteps
<1>2. ASSUME NEW n \in Nat, n \in S PROVE n + 1 \in S
  BY <1>2, TrailSteps, FollowedIsPath
<1>3. Nat \subseteq S
  <2> HIDE DEF S
  <2> QED
    BY <1>1, <1>2, Induction
<1> QED
  BY <1>3

\* Without a link in it a path stays as it is.
LEMMA TrailStays ==
    ASSUME NEW tr, NEW p, NEW m \in Nat, Links(tr, Trail(tr, p)[m]) = {}
    PROVE  \A n \in Nat : Trail(tr, p)[m + n] = Trail(tr, p)[m]
<1> DEFINE S == {n \in Nat : Trail(tr, p)[m + n] = Trail(tr, p)[m]}
<1>1. 0 \in S
  OBVIOUS
<1>2. ASSUME NEW n \in Nat, n \in S PROVE n + 1 \in S
  <2>1. Trail(tr, p)[(m + n) + 1] = Followed(tr, Trail(tr, p)[m + n])
    BY TrailSteps
  <2>2. Followed(tr, Trail(tr, p)[m]) = Trail(tr, p)[m]
    BY DEF Followed
  <2> QED
    BY <1>2, <2>1, <2>2
<1>3. Nat \subseteq S
  <2> HIDE DEF S
  <2> QED
    BY <1>1, <1>2, Induction
<1> QED
  BY <1>3

\* Two parts of a trail are one trail.
LEMMA TrailGoesOn ==
    ASSUME NEW tr, NEW p, NEW q, NEW m \in Nat, q = Trail(tr, p)[m]
    PROVE  \A n \in Nat : Trail(tr, q)[n] = Trail(tr, p)[m + n]
<1> DEFINE S == {n \in Nat : Trail(tr, q)[n] = Trail(tr, p)[m + n]}
<1>1. 0 \in S
  BY TrailSteps
<1>2. ASSUME NEW n \in Nat, n \in S PROVE n + 1 \in S
  <2>1. Trail(tr, p)[(m + n) + 1] = Followed(tr, Trail(tr, p)[m + n])
    BY TrailSteps
  <2>2. Trail(tr, q)[n + 1] = Followed(tr, Trail(tr, q)[n])
    BY TrailSteps
  <2> QED
    BY <1>2, <2>1, <2>2
<1>3. Nat \subseteq S
  <2> HIDE DEF S
  <2> QED
    BY <1>1, <1>2, Induction
<1> QED
  BY <1>3

\* A name below a path with links changes nothing of how they are followed.
LEMMA FollowedBelow ==
    ASSUME NEW tr \in Trees, NEW p, IsPath(p), Links(tr, p) # {}, NEW n \in Names
    PROVE  Followed(tr, Below(p, n)) = Below(Followed(tr, p), n)
<1> DEFINE N == Names \union {Outside}
           q == Append(p, n)
<1>1. p \in Seq(N) /\ n \in N
  BY DEF IsPath
<1>2. /\ q \in Seq(N) /\ Len(q) = Len(p) + 1 /\ q[Len(p) + 1] = n
      /\ \A i \in 1..Len(p) : q[i] = p[i]
  BY <1>1
<1>3. IsPath(q)
  <2>1. \A i \in 2..Len(q) : q[i] # Outside
    BY <1>1, <1>2, NamesAssumption DEF IsPath
  <2> QED
    BY <1>2, <2>1 DEF IsPath
<1>4. \A i \in 1..Len(p) : SubSeq(q, 1, i) = SubSeq(p, 1, i)
  BY <1>1, <1>2
<1>5. Links(tr, p) = Links(tr, q) \intersect 1..Len(p)
  <2> HIDE DEF q
  <2>1. Len(p) \in Nat /\ Len(q) = Len(p) + 1
    BY <1>1, <1>2
  <2>2. \A i \in 1..Len(p) : Is(tr, SubSeq(q, 1, i), "link") <=> Is(tr, SubSeq(p, 1, i), "link")
    BY <1>4
  <2> QED
    BY <2>1, <2>2 DEF Links
<1> HIDE DEF q, N
<1>6. Links(tr, q) # {}
  BY <1>5
<1>7. PICK k \in Links(tr, p) :
          /\ \A j \in Links(tr, p) : k <= j
          /\ Followed(tr, p) = tr[SubSeq(p, 1, k)].to \o SubSeq(p, k + 1, Len(p))
  BY FollowsFirst
<1>8. PICK l \in Links(tr, q) :
          /\ \A j \in Links(tr, q) : l <= j
          /\ Followed(tr, q) = tr[SubSeq(q, 1, l)].to \o SubSeq(q, l + 1, Len(q))
  BY <1>3, <1>6, FollowsFirst
<1>9. k = l /\ k \in 1..Len(p) /\ SubSeq(q, 1, l) = SubSeq(p, 1, k) /\ IsPath(tr[SubSeq(p, 1, k)].to)
  <2>1. k \in 1..Len(p) /\ l \in 1..Len(q) /\ IsPath(tr[SubSeq(p, 1, k)].to)
    BY <1>3, LinkFacts
  <2>2. l <= k
    BY <1>5, <1>8
  <2>3. l \in Links(tr, p)
    BY <2>1, <2>2, <1>5, <1>1
  <2> QED
    BY <2>1, <2>2, <2>3, <1>1, <1>4, <1>7
<1> DEFINE to == tr[SubSeq(p, 1, k)].to
           after == SubSeq(p, k + 1, Len(p))
<1>10. SubSeq(q, k + 1, Len(q)) = Append(after, n)
  <2>0. k + 1 \in 1..Len(q) /\ Len(q) \in (k + 1)..Len(q)
    BY <1>1, <1>2, <1>9
  <2>1. SubSeq(q, k + 1, Len(q)) = SubSeq(q, k + 1, Len(q) - 1) \o <<q[Len(q)]>>
    BY <1>2, <2>0, SubSeqRecursiveSecond, ZenonT(40)
  <2>2. SubSeq(q, k + 1, Len(p)) = after
    BY <1>1, <1>2, <1>9
  <2>3. after \in Seq(N)
    BY <1>1, <1>9
  <2>4. after \o <<n>> = Append(after, n)
    BY <2>3, <1>1, AppendIsConcat
  <2>5. Len(q) - 1 = Len(p)
    BY <1>1, <1>2
  <2> QED
    BY <1>2, <2>1, <2>2, <2>4, <2>5
<1>11. to \in Seq(N) /\ after \in Seq(N) /\ <<n>> \in Seq(N)
  BY <1>1, <1>9 DEF IsPath, N
<1>12. to \o Append(after, n) = Append(to \o after, n)
  <2> HIDE DEF to, after
  <2>1. Append(after, n) = after \o <<n>> /\ Append(to \o after, n) = (to \o after) \o <<n>>
    BY <1>1, <1>11, AppendIsConcat, ConcatProperties
  <2> QED
    BY <1>11, <2>1, ConcatAssociative
<1> QED
  BY <1>7, <1>8, <1>9, <1>10, <1>12 DEF Below, q

\* The name goes along until the path above it has no links left.
LEMMA TrailBelow ==
    ASSUME NEW tr \in Trees, NEW p, IsPath(p), NEW n \in Names
    PROVE  \A i \in Nat :
              (\A j \in Nat : j < i => Links(tr, Trail(tr, p)[j]) # {}) =>
                  Trail(tr, Below(p, n))[i] = Below(Trail(tr, p)[i], n)
<1> DEFINE Linked(i) == \A j \in Nat : j < i => Links(tr, Trail(tr, p)[j]) # {}
           S == {i \in Nat : Linked(i) => Trail(tr, Below(p, n))[i] = Below(Trail(tr, p)[i], n)}
<1>1. 0 \in S
  BY TrailSteps
<1>2. ASSUME NEW i \in Nat, i \in S PROVE i + 1 \in S
  <2> SUFFICES ASSUME Linked(i + 1)
               PROVE  Trail(tr, Below(p, n))[i + 1] = Below(Trail(tr, p)[i + 1], n)
    OBVIOUS
  <2>1. Links(tr, Trail(tr, p)[i]) # {} /\ Linked(i)
    OBVIOUS
  <2>2. Trail(tr, Below(p, n))[i] = Below(Trail(tr, p)[i], n)
    BY <1>2, <2>1
  <2>3. IsPath(Trail(tr, p)[i])
    BY TrailIsPath
  <2>4. Followed(tr, Below(Trail(tr, p)[i], n)) = Below(Followed(tr, Trail(tr, p)[i]), n)
    BY <2>1, <2>3, FollowedBelow
  <2> QED
    BY <2>2, <2>4, TrailSteps
<1>3. Nat \subseteq S
  <2> HIDE DEF S
  <2> QED
    BY <1>1, <1>2, Induction
<1> QED
  BY <1>3

\* What a path leads to is a step on the way of everything below it.
LEMMA PassesDirectory ==
    ASSUME NEW tr \in Trees, NEW p, IsPath(p), NEW n \in Names,
           Links(tr, Resolved(tr, p)) = {}
    PROVE  \E k \in 0..MaxFollow : Trail(tr, Below(p, n))[k] = Below(Resolved(tr, p), n)
<1> DEFINE Free == {i \in Nat : Links(tr, Trail(tr, p)[i]) = {}}
<1>1. MaxFollow \in Free
  BY MaxFollowAssumption DEF Resolved
<1>2. PICK k \in Free : \A j \in Free : ~(j < k)
  <2>1. Free \subseteq Nat /\ Free # {}
    BY <1>1
  <2> HIDE DEF Free
  <2>2. PICK k \in Free : \A j \in Free : <<j, k>> \notin OpToRel(<, Nat)
    BY <2>1, WFMin, NatLessThanWellFounded
  <2>3. \A j \in Free : ~(j < k)
    BY <2>1, <2>2 DEF OpToRel
  <2> QED
    BY <2>3
<1>3. k \in Nat /\ k <= MaxFollow
  BY <1>1, <1>2, MaxFollowAssumption
<1>4. Trail(tr, p)[k + (MaxFollow - k)] = Trail(tr, p)[k]
  BY <1>2, <1>3, MaxFollowAssumption, TrailStays
<1>5. Trail(tr, p)[k] = Resolved(tr, p)
  <2>1. k + (MaxFollow - k) = MaxFollow
    BY <1>3, MaxFollowAssumption
  <2> QED
    BY <1>4, <2>1 DEF Resolved
<1>6. \A j \in Nat : j < k => Links(tr, Trail(tr, p)[j]) # {}
  BY <1>2
<1>7. Trail(tr, Below(p, n))[k] = Below(Trail(tr, p)[k], n)
  BY <1>3, <1>6, TrailBelow
<1> QED
  BY <1>3, <1>5, <1>7, MaxFollowAssumption

\* A path of the requests, and what is one name longer.
LEMMA AskedPaths ==
    ASSUME NEW p \in Paths, NEW n \in Names
    PROVE  /\ p \in Seq(Names) /\ IsPath(p)
           /\ Below(p, n) \in Seq(Names) /\ IsPath(Below(p, n))
           /\ Below(p, n) \in SeqOf(Names, MaxDepth + 1)
<1>1. PICK m \in 0..MaxDepth : p \in [1..m -> Names]
  BY DEF Paths, SeqOf
<1>2. p \in Seq(Names) /\ Len(p) = m
  BY <1>1
<1>3. Below(p, n) \in Seq(Names) /\ Len(Below(p, n)) = m + 1
  BY <1>2 DEF Below
<1>4. Below(p, n) \in [1..(m + 1) -> Names] /\ m + 1 \in 0..(MaxDepth + 1)
  BY <1>1, <1>3, DepthAssumption
<1>5. \A q \in Seq(Names) : IsPath(q)
  BY NamesAssumption DEF IsPath
<1> QED
  BY <1>2, <1>3, <1>4, <1>5 DEF SeqOf

\* An entry of a directory leads to the same, whether it is looked up below the
\* path that was asked for or below the real path of the directory.
LEMMA SameEntry ==
    ASSUME NEW tr \in Trees, NEW p \in Paths, NEW n \in Names,
           Links(tr, Resolved(tr, p)) = {}
    PROVE  LET below == Resolved(tr, Below(Resolved(tr, p), n))
               asIs  == Resolved(tr, Below(p, n))
           IN  /\ Links(tr, below) = {} <=> Links(tr, asIs) = {}
               /\ Links(tr, asIs) = {} => below = asIs
<1> DEFINE q == Below(p, n)
           d == Below(Resolved(tr, p), n)
<1>1. PICK k \in 0..MaxFollow : Trail(tr, q)[k] = d
  BY AskedPaths, PassesDirectory
<1> HIDE DEF q, d
<1>2. k \in Nat /\ MaxFollow \in Nat /\ k <= MaxFollow
  BY <1>1, MaxFollowAssumption
<1>3. Trail(tr, d)[MaxFollow] = Trail(tr, q)[k + MaxFollow]
  BY <1>1, <1>2, TrailGoesOn
<1>4. ASSUME Links(tr, Resolved(tr, q)) = {}
      PROVE  Resolved(tr, d) = Resolved(tr, q)
  <2>1. Trail(tr, q)[MaxFollow + k] = Trail(tr, q)[MaxFollow]
    BY <1>2, <1>4, TrailStays DEF Resolved
  <2>2. MaxFollow + k = k + MaxFollow
    BY <1>2
  <2> QED
    BY <2>1, <2>2, <1>3 DEF Resolved
<1>5. ASSUME Links(tr, Resolved(tr, d)) = {}
      PROVE  Links(tr, Resolved(tr, q)) = {}
  <2>1. Links(tr, Trail(tr, q)[k + MaxFollow]) = {}
    BY <1>3, <1>5 DEF Resolved
  <2>2. Trail(tr, q)[(k + MaxFollow) + (MaxFollow - k)] = Trail(tr, q)[k + MaxFollow]
    BY <2>1, <1>2, TrailStays
  <2>3. (k + MaxFollow) + (MaxFollow - k) = 2 * MaxFollow
    BY <1>2
  <2>4. q \in SeqOf(Names, MaxDepth + 1)
    BY AskedPaths DEF q
  <2> QED
    BY <2>1, <2>2, <2>3, <2>4, FollowAssumption
<1> QED
  BY <1>4, <1>5 DEF q, d

\* A path without links is its own real path.
LEMMA RealIsReal ==
    ASSUME NEW tr, NEW p, Links(tr, p) = {}
    PROVE  Resolved(tr, p) = p
<1>1. Trail(tr, p)[0] = p
  BY TrailSteps
<1>2. Trail(tr, p)[0 + MaxFollow] = Trail(tr, p)[0]
  BY <1>1, MaxFollowAssumption, TrailStays
<1> QED
  BY <1>1, <1>2, MaxFollowAssumption DEF Resolved

---------------------------------------------------------------------------
(* Decisions *)

LEMMA InsideIsInRoot ==
    ASSUME NEW p, IsPath(p), Inside(p)
    PROVE  p \in Seq(Names)
<1> DEFINE N == Names \union {Outside}
<1>1. p \in Seq(N) /\ Len(p) \in Nat
  BY DEF IsPath
<1>2. ASSUME NEW i \in 1..Len(p) PROVE p[i] \in Names
  <2>1. p[i] \in N
    BY <1>1
  <2>2. CASE i = 1
    <3>1. p # Root /\ Head(p) = p[1]
      BY <1>1, <2>2 DEF Root
    <3> QED
      BY <2>1, <2>2, <3>1 DEF Inside
  <2>3. CASE i # 1
    BY <1>1, <2>1, <2>3 DEF IsPath
  <2> QED
    BY <2>2, <2>3
<1>3. p \in [1..Len(p) -> Names]
  BY <1>1, <1>2
<1> QED
  BY <1>1, <1>3

\* A policy that was loaded has real paths on it.
LEMMA LoadedIsReal ==
    ASSUME NEW tr \in Trees, PolicyLoadable(tr), NEW d \in LoadedPolicy(tr)
    PROVE  d \in Seq(Names) /\ Links(tr, d) = {}
<1>1. CASE d = Resolved(tr, CacheDir)
  BY <1>1, DeclaredAssumption, CacheAssumption, RealIsReal
<1>2. CASE \E e \in Declared : d = Resolved(tr, e)
  <2>1. PICK e \in Declared : d = Resolved(tr, e)
    BY <1>2
  <2>2. IsPath(e)
    BY NamesAssumption, DeclaredAssumption DEF IsPath
  <2>3. IsPath(d)
    BY <2>1, <2>2, TrailIsPath, MaxFollowAssumption DEF Resolved
  <2> QED
    BY <2>1, <2>3, InsideIsInRoot DEF PolicyLoadable, Sound
<1> QED
  BY <1>1, <1>2 DEF LoadedPolicy

\* What is denied below a path: what is denied there, what is declared itself,
\* and what is hidden.
LEMMA OnListBelow ==
    ASSUME NEW p \in Seq(Names), NEW n \in Names, NEW pol \in SUBSET Seq(Names)
    PROVE  OnList(Below(p, n), pol) <=> OnList(p, pol) \/ Below(p, n) \in pol \/ n = HiddenName
<1> DEFINE q == Append(p, n)
<1>1. /\ q \in Seq(Names) /\ Len(p) \in Nat /\ Len(q) = Len(p) + 1 /\ q[Len(p) + 1] = n
      /\ \A i \in 1..Len(p) : q[i] = p[i]
  OBVIOUS
<1> HIDE DEF q
<1>2. ASSUME NEW d \in Seq(Names)
      PROVE  IsPrefix(d, q) <=> IsPrefix(d, p) \/ d = q
  <2>1. Len(d) \in Nat /\ SubSeq(d, 1, Len(d)) = d
    BY SubSeqFull
  <2>2. CASE Len(d) <= Len(p)
    <3>1. SubSeq(q, 1, Len(d)) = SubSeq(p, 1, Len(d))
      BY <1>1, <2>1, <2>2
    <3> QED
      BY <1>1, <2>1, <2>2, <3>1 DEF IsPrefix
  <2>3. CASE Len(d) = Len(p) + 1
    <3>1. SubSeq(q, 1, Len(d)) = q
      BY <1>1, <2>3, SubSeqFull
    <3> QED
      BY <1>1, <2>1, <2>3, <3>1 DEF IsPrefix
  <2>4. CASE Len(d) > Len(p) + 1
    BY <1>1, <2>1, <2>4 DEF IsPrefix
  <2>5. Len(d) <= Len(p) \/ Len(d) = Len(p) + 1 \/ Len(d) > Len(p) + 1
    <3>1. Len(d) \in Nat /\ Len(p) \in Nat
      OBVIOUS
    <3> QED
      BY <3>1
  <2> QED
    BY <2>2, <2>3, <2>4, <2>5, Zenon
<1>3. HiddenName \in ToSet(q) <=> HiddenName \in ToSet(p) \/ n = HiddenName
  <2>1. DOMAIN p = 1..Len(p) /\ DOMAIN q = 1..(Len(p) + 1)
    BY <1>1
  <2> QED
    BY <1>1, <2>1 DEF ToSet
<1> QED
  BY <1>2, <1>3 DEF OnList, Below, q

\* A path without links has no link above it.
LEMMA NoLinkAbove ==
    ASSUME NEW tr, NEW p \in Seq(Names), NEW n \in Names, Links(tr, Below(p, n)) = {}
    PROVE  Links(tr, p) = {}
<1> DEFINE q == Append(p, n)
<1>1. Len(p) \in Nat /\ Len(q) = Len(p) + 1
  OBVIOUS
<1>2. \A i \in 1..Len(p) : SubSeq(q, 1, i) = SubSeq(p, 1, i)
  OBVIOUS
<1> HIDE DEF q
<1>3. \A i \in 1..Len(p) : i \in Links(tr, p) => i \in Links(tr, q)
  <2>1. \A i \in 1..Len(p) : Is(tr, SubSeq(q, 1, i), "link") <=> Is(tr, SubSeq(p, 1, i), "link")
    BY <1>2
  <2> QED
    BY <1>1, <2>1 DEF Links
<1> QED
  BY <1>3 DEF Links, Below, q

\* A listing and a request decide alike, when both know the policy of the tree
\* and the directory may be seen.
LEMMA DecideAlike ==
    ASSUME NEW tr \in Trees, PolicyLoadable(tr), NEW p \in Paths, NEW n \in Names,
           SafeResolve(tr, p, LoadedPolicy(tr)) = "200"
    PROVE  IsDenied(tr, Below(Resolved(tr, p), n), LoadedPolicy(tr))
              <=> SafeResolve(tr, Below(p, n), LoadedPolicy(tr)) = "403"
<1> DEFINE pol  == LoadedPolicy(tr)
           real == Resolved(tr, p)
           here == Below(real, n)
           asIs == Below(p, n)
<1>1. pol \in SUBSET Seq(Names) /\ \A d \in pol : Links(tr, d) = {}
  BY LoadedIsReal
<1>2. ~OnList(p, pol) /\ Sound(tr, real) /\ ~OnList(real, pol)
  BY DEF SafeResolve
<1>3. p \in Seq(Names) /\ asIs \in Seq(Names)
  BY AskedPaths
<1>4. real \in Seq(Names)
  <2>1. IsPath(real)
    BY AskedPaths, TrailIsPath, MaxFollowAssumption DEF Resolved
  <2> QED
    BY <1>2, <2>1, InsideIsInRoot DEF Sound
<1>5. /\ OnList(here, pol) <=> here \in pol \/ n = HiddenName
      /\ OnList(asIs, pol) <=> asIs \in pol \/ n = HiddenName
  BY <1>1, <1>2, <1>3, <1>4, OnListBelow
<1>6. /\ Links(tr, Resolved(tr, here)) = {} <=> Links(tr, Resolved(tr, asIs)) = {}
      /\ Links(tr, Resolved(tr, asIs)) = {} => Resolved(tr, here) = Resolved(tr, asIs)
  BY <1>2, SameEntry DEF Sound
<1>7. ASSUME asIs \in pol PROVE here \in pol
  <2>1. Links(tr, p) = {}
    BY <1>1, <1>3, <1>7, NoLinkAbove
  <2> QED
    BY <2>1, <1>7, RealIsReal
<1>8. ASSUME here \in pol PROVE OnList(Resolved(tr, here), pol)
  <2>1. Resolved(tr, here) = here
    BY <1>1, <1>8, RealIsReal
  <2>2. IsPrefix(here, here)
    BY <1>1, <1>8 DEF IsPrefix
  <2> QED
    BY <1>8, <2>1, <2>2 DEF OnList
<1>9. IsDenied(tr, here, pol)
          <=> OnList(here, pol) \/ ~Sound(tr, Resolved(tr, here)) \/ OnList(Resolved(tr, here), pol)
  BY DEF IsDenied
<1>10. SafeResolve(tr, asIs, pol) = "403"
          <=> OnList(asIs, pol) \/ ~Sound(tr, Resolved(tr, asIs)) \/ OnList(Resolved(tr, asIs), pol)
  BY DEF SafeResolve
<1> HIDE DEF pol, real, here, asIs
<1> QED
  BY <1>5, <1>6, <1>7, <1>8, <1>9, <1>10 DEF Sound, pol, real, here, asIs

---------------------------------------------------------------------------
(* The scan *)

LEMMA LargestExists ==
    ASSUME NEW T \in SUBSET Nat, IsFiniteSet(T), T # {}
    PROVE  \E n \in T : \A m \in T : m <= n
<1> DEFINE HasLargest(U) == \E n \in U : \A m \in U : m <= n
           S == {k \in Nat : \A U \in SUBSET Nat :
                   IsFiniteSet(U) /\ Cardinality(U) = k /\ U # {} => HasLargest(U)}
<1>1. 0 \in S
  BY FS_EmptySet
<1>2. ASSUME NEW k \in Nat, k \in S PROVE k + 1 \in S
  <2> SUFFICES ASSUME NEW U \in SUBSET Nat, IsFiniteSet(U), Cardinality(U) = k + 1, U # {}
               PROVE  HasLargest(U)
    OBVIOUS
  <2>1. PICK x \in U : TRUE
    OBVIOUS
  <2>2. IsFiniteSet(U \ {x}) /\ Cardinality(U \ {x}) = k
    <3>1. IsFiniteSet(U \ {x}) /\ Cardinality(U \ {x}) = Cardinality(U) - 1
      BY FS_RemoveElement
    <3> QED
      BY <3>1
  <2>3. CASE U \ {x} = {}
    BY <2>3
  <2>4. CASE U \ {x} # {}
    <3>1. PICK y \in U \ {x} : \A m \in U \ {x} : m <= y
      BY <1>2, <2>2, <2>4
    <3>2. CASE x <= y
      BY <3>1, <3>2
    <3>3. CASE ~(x <= y)
      BY <3>1, <3>3
    <3> QED
      BY <3>2, <3>3
  <2> QED
    BY <2>3, <2>4
<1>3. Nat \subseteq S
  <2> HIDE DEF S
  <2> QED
    BY <1>1, <1>2, Induction
<1>4. Cardinality(T) \in S
  BY <1>3, FS_CardinalityType
<1> QED
  BY <1>4

\* nsmallest drops the largest name, and only when there is one too many.
LEMMA KeptFacts ==
    ASSUME NEW names \in SUBSET Nat, IsFiniteSet(names), Cardinality(names) <= Limit + 1
    PROVE  /\ Cardinality(names) <= Limit => Kept(names) = names
           /\ Cardinality(names) > Limit =>
                 /\ Cardinality(Kept(names)) = Limit
                 /\ \E x \in names : Kept(names) = names \ {x} /\ \A m \in names : m <= x
<1>1. Cardinality(names) \in Nat /\ Limit \in Nat \ {0}
  BY FS_CardinalityType, LimitAssumption
<1>2. CASE Cardinality(names) <= Limit
  BY <1>1, <1>2 DEF Kept
<1>3. CASE Cardinality(names) > Limit
  <2> DEFINE x == CHOOSE n \in names : \A m \in names : m <= n
  <2>1. names # {}
    BY <1>1, <1>3, FS_EmptySet
  <2>2. x \in names /\ \A m \in names : m <= x
    BY <2>1, LargestExists
  <2>3. Kept(names) = names \ {x}
    BY <1>1, <1>3 DEF Kept
  <2> HIDE DEF x
  <2>4. Cardinality(names \ {x}) = Cardinality(names) - 1
    BY <2>2, FS_RemoveElement
  <2> QED
    BY <1>1, <1>3, <2>2, <2>3, <2>4
<1> QED
  BY <1>1, <1>2, <1>3

\* Outside of a scan there is none; a steady name may be shown, and one that the
\* iterator has returned was kept unless Limit smaller ones were.
ScanInv ==
    /\ pc \in {"idle", "predicate", "open", "failed"} =>
          scanned = {} /\ selected = {} /\ count = 0 /\ steady = {}
    /\ \A n \in steady : n \in Children(tree, at) /\ Visible(tree, n)
    /\ \A n \in steady : n \in scanned /\ n \notin selected =>
          Cardinality(selected) = Limit /\ \A m \in selected : m < n
    /\ pc = "page" => steady \subseteq scanned

\* What a policy that is up to date, and a tree that stays as it is, are good for.
CalmInv ==
    /\ fresh => PolicyLoadable(tree) /\ policy = LoadedPolicy(tree)
    /\ calm => /\ fresh
               /\ SafeResolve(tree, asked, policy) = "200"
               /\ dir = Resolved(tree, asked)
    /\ calm /\ pc \in {"open", "scan", "page"} => pred = policy

\* Then all that was counted is visible, and all of it is kept while there is room.
CountInv ==
    calm /\ pc \in {"scan", "page"} =>
        LET seen == {n \in scanned : Visible(tree, n)}
        IN  /\ at = dir /\ offered = Children(tree, dir)
            /\ scanned \subseteq Children(tree, dir)
            /\ steady = {n \in Children(tree, dir) : Visible(tree, n)}
            /\ selected \subseteq seen
            /\ count = Cardinality(seen)
            /\ Cardinality(selected) < Limit => selected = seen

IInv == TypeOK /\ ScanInv /\ CalmInv /\ CountInv

LEMMA FiniteNames ==
    ASSUME NEW T \in SUBSET Names
    PROVE  IsFiniteSet(T) /\ Cardinality(T) \in Nat /\ T \in SUBSET Nat
BY NamesAssumption, FS_Subset, FS_CardinalityType

LEMMA PolicyTyped ==
    ASSUME NEW tr \in Trees, PolicyLoadable(tr)
    PROVE  LoadedPolicy(tr) \in SUBSET Seq(Names)
BY LoadedIsReal

\* The real path of a request that is answered is below the root.
LEMMA RealPathTyped ==
    ASSUME NEW tr \in Trees, NEW p \in Paths, NEW pol, SafeResolve(tr, p, pol) = "200"
    PROVE  Resolved(tr, p) \in Seq(Names)
<1>1. IsPath(Resolved(tr, p))
  <2> PICK n \in Names : TRUE
    BY HiddenAssumption
  <2> QED
    BY AskedPaths, TrailIsPath, MaxFollowAssumption DEF Resolved
<1> QED
  BY <1>1, InsideIsInRoot DEF SafeResolve, Sound

LEMMA RootIsAsked == Root \in Paths /\ Root \in Seq(Names)
<1>1. << >> \in [1..0 -> Names] /\ 0 \in 0..MaxDepth
  BY DepthAssumption
<1> QED
  BY <1>1 DEF Root, Paths, SeqOf

LEMMA RootIsPath == IsPath(Root)
BY RootIsAsked, AskedPaths, HiddenAssumption

---------------------------------------------------------------------------
(* The invariant is inductive *)

LEMMA InitInv == Init => IInv
<1> SUFFICES ASSUME Init PROVE IInv
  OBVIOUS
<1>1. TypeOK
  <2>1. policy \in SUBSET Seq(Names)
    BY PolicyTyped DEF Init
  <2>2. /\ selected \in SUBSET scanned /\ Cardinality(selected) <= Limit
        /\ count \in Cardinality(selected)..Cardinality(scanned)
    <3>1. selected = {} /\ scanned = {} /\ count = 0 /\ Cardinality({}) = 0
      BY FS_EmptySet DEF Init
    <3> QED
      BY <3>1, LimitAssumption
  <2>3. asked \in Paths /\ dir \in Seq(Names)
    BY RootIsAsked DEF Init
  <2>4. IsPath(at) /\ offered \in SUBSET Names
    BY RootIsPath DEF Init
  <2> QED
    BY <2>1, <2>2, <2>3, <2>4 DEF Init, TypeOK
<1>2. ScanInv /\ CalmInv /\ CountInv
  BY DEF Init, ScanInv, CalmInv, CountInv
<1> QED
  BY <1>1, <1>2 DEF IInv

LEMMA StutterInv == IInv /\ UNCHANGED vars => IInv'
BY DEF vars, request, scan, found, IInv, TypeOK, ScanInv, CalmInv, CountInv, Visible

LEMMA TreeChangesInv == IInv /\ TreeChanges => IInv'
<1> SUFFICES ASSUME IInv, TreeChanges PROVE IInv'
  OBVIOUS
<1>1. TypeOK'
  <2>1. tree' \in Trees
    BY DEF TreeChanges, Edits, IInv, TypeOK
  <2>2. steady' \in SUBSET Names
    BY DEF TreeChanges, IInv, TypeOK
  <2>3. offered' \in SUBSET Names
    BY DEF TreeChanges, Children, IInv, TypeOK
  <2> QED
    BY <2>1, <2>2, <2>3 DEF TreeChanges, request, found, IInv, TypeOK
<1>2. ScanInv'
  <2>1. \A n \in steady' : n \in steady /\ n \in Children(tree', at) /\ Visible(tree', n)
    BY DEF TreeChanges
  <2> QED
    BY <2>1 DEF TreeChanges, request, found, IInv, ScanInv, Visible
<1>3. CalmInv' /\ CountInv'
  BY DEF TreeChanges, CalmInv, CountInv
<1> QED
  BY <1>1, <1>2, <1>3 DEF IInv

\* Loaded once more from the same tree, the policy is the same.
LEMMA PolicyReloadedInv == IInv /\ PolicyReloaded => IInv'
<1> SUFFICES ASSUME IInv, PolicyReloaded PROVE IInv'
  OBVIOUS
<1>1. TypeOK'
  <2>1. policy' \in SUBSET Seq(Names)
    BY PolicyTyped DEF PolicyReloaded, IInv, TypeOK
  <2> QED
    BY <2>1 DEF PolicyReloaded, request, scan, found, IInv, TypeOK
<1>2. ScanInv'
  BY DEF PolicyReloaded, request, scan, found, IInv, ScanInv, Visible
<1>3. CalmInv'
  BY DEF PolicyReloaded, request, scan, found, IInv, CalmInv
<1>4. CountInv'
  BY DEF PolicyReloaded, request, scan, found, IInv, CountInv, Visible
<1> QED
  BY <1>1, <1>2, <1>3, <1>4 DEF IInv

LEMMA AskInv == ASSUME IInv, NEW p \in Paths, Ask(p) PROVE IInv'
<1>1. TypeOK'
  <2>1. Resolved(tree, p) \in Seq(Names)
    BY RealPathTyped DEF Ask, IInv, TypeOK
  <2> QED
    BY <2>1 DEF Ask, Goes, scan, found, IInv, TypeOK
<1>2. ScanInv'
  BY DEF Ask, Goes, scan, found, IInv, ScanInv
<1>3. CalmInv' /\ CountInv'
  BY DEF Ask, Goes, scan, found, IInv, CalmInv, CountInv
<1> QED
  BY <1>1, <1>2, <1>3 DEF IInv

LEMMA BindPredicateInv == IInv /\ BindPredicate => IInv'
<1> SUFFICES ASSUME IInv, BindPredicate PROVE IInv'
  OBVIOUS
<1>1. TypeOK'
  BY DEF BindPredicate, Goes, scan, found, IInv, TypeOK
<1>2. ScanInv'
  BY DEF BindPredicate, Goes, scan, found, IInv, ScanInv
<1>3. CalmInv' /\ CountInv'
  BY DEF BindPredicate, Goes, scan, found, IInv, CalmInv, CountInv
<1> QED
  BY <1>1, <1>2, <1>3 DEF IInv

LEMMA OpenScanInv == IInv /\ OpenScan => IInv'
<1> SUFFICES ASSUME IInv, OpenScan PROVE IInv'
  OBVIOUS
<1>1. scanned' = {} /\ selected' = {} /\ count' = 0
  BY DEF OpenScan, Goes, found, IInv, ScanInv
<1>2. steady' = {n \in Children(tree', at') : Visible(tree, n)'}
  BY DEF OpenScan, Visible
<1>3. TypeOK'
  <2>1. steady' \in SUBSET Names /\ offered' \in SUBSET Names
    BY DEF OpenScan, Children
  <2>2. IsPath(at')
    <3>1. IsPath(dir)
      BY NamesAssumption DEF IsPath, IInv, TypeOK
    <3> QED
      BY <3>1, TrailIsPath, MaxFollowAssumption DEF OpenScan, Resolved, IInv, TypeOK
  <2> QED
    BY <2>1, <2>2 DEF OpenScan, Goes, found, IInv, TypeOK
<1>4. ScanInv'
  BY <1>1, <1>2 DEF OpenScan, Goes, ScanInv
<1>5. CalmInv'
  BY DEF OpenScan, Goes, IInv, CalmInv
<1>6. CountInv'
  <2> SUFFICES ASSUME calm' PROVE CountInv'
    BY DEF CountInv
  <2>1. at' = dir /\ offered' = Children(tree, dir)
    <3>1. dir = Resolved(tree, asked) /\ Sound(tree, dir)
      BY DEF OpenScan, IInv, CalmInv, SafeResolve
    <3>2. at' = dir
      BY <3>1, RealIsReal DEF OpenScan, Sound
    <3> QED
      BY <3>1, <3>2 DEF OpenScan, Sound
  <2>2. dir' = dir /\ tree' = tree
    BY DEF OpenScan
  <2> QED
    BY <1>1, <1>2, <2>1, <2>2, FS_EmptySet DEF CountInv
<1> QED
  BY <1>3, <1>4, <1>5, <1>6 DEF IInv

LEMMA NothingScanned ==
    {} \in SUBSET {} /\ Cardinality({}) <= Limit /\ 0 \in Cardinality({})..Cardinality({})
BY FS_EmptySet, LimitAssumption

LEMMA ScanRaisesInv == IInv /\ ScanRaises => IInv'
<1> SUFFICES ASSUME IInv, ScanRaises PROVE IInv'
  OBVIOUS
<1>1. TypeOK'
  BY NothingScanned, RootIsPath DEF ScanRaises, NoScan, Goes, IInv, TypeOK
<1>2. ScanInv'
  BY DEF ScanRaises, NoScan, Goes, ScanInv
<1>3. CalmInv' /\ CountInv'
  BY DEF ScanRaises, NoScan, Goes, IInv, CalmInv, CountInv
<1> QED
  BY <1>1, <1>2, <1>3 DEF IInv

\* What a name does to the selection: it is kept while there is room, and else
\* the largest of the names goes, be it this one or an earlier one.
LEMMA SelectionOfEntry ==
    ASSUME IInv, NEW n \in Names, ScanEntry(n), Visible(tree, n)
    PROVE  /\ n \notin selected /\ selected' \subseteq selected \union {n}
           /\ count' = count + 1
           /\ Cardinality(selected) < Limit =>
                 /\ selected' = selected \union {n}
                 /\ Cardinality(selected') = Cardinality(selected) + 1
           /\ Cardinality(selected) = Limit =>
                 /\ Cardinality(selected') = Limit
                 /\ \E x \in selected \union {n} :
                       /\ selected' = (selected \union {n}) \ {x}
                       /\ \A m \in selected \union {n} : m <= x
<1> DEFINE both == selected \union {n}
<1>1. selected \in SUBSET Names /\ n \notin selected /\ selected' = Kept(both) /\ count' = count + 1
  BY DEF ScanEntry, IInv, TypeOK
<1>2. /\ IsFiniteSet(selected) /\ Cardinality(selected) \in Nat
      /\ Cardinality(selected) <= Limit /\ Limit \in Nat \ {0}
  BY <1>1, FiniteNames, LimitAssumption DEF IInv, TypeOK
<1>3. both \in SUBSET Nat /\ IsFiniteSet(both)
  BY <1>1, FiniteNames
<1>4. Cardinality(both) = Cardinality(selected) + 1
  BY <1>1, <1>2, FS_AddElement
<1> HIDE DEF both
<1>5. Cardinality(both) <= Limit + 1
  BY <1>2, <1>4
<1>6. CASE Cardinality(selected) < Limit
  <2>1. Cardinality(both) <= Limit
    BY <1>2, <1>4, <1>6
  <2>2. Kept(both) = both
    BY <1>3, <1>5, <2>1, KeptFacts
  <2> QED
    BY <1>1, <1>2, <1>4, <1>6, <2>2 DEF both
<1>7. CASE Cardinality(selected) = Limit
  <2>1. Cardinality(both) > Limit
    BY <1>2, <1>4, <1>7
  <2>2. /\ Cardinality(Kept(both)) = Limit
        /\ \E x \in both : Kept(both) = both \ {x} /\ \A m \in both : m <= x
    BY <1>3, <1>5, <2>1, KeptFacts
  <2> QED
    BY <1>1, <1>2, <1>7, <2>2 DEF both
<1> QED
  BY <1>2, <1>6, <1>7

LEMMA ScanEntryTyped == ASSUME IInv, NEW n \in Names, ScanEntry(n) PROVE TypeOK'
<1>1. scanned' = scanned \union {n} /\ scanned \in SUBSET Names /\ n \notin scanned
  BY DEF ScanEntry, IInv, TypeOK
<1>2. /\ IsFiniteSet(scanned) /\ Cardinality(scanned) \in Nat
      /\ Cardinality(selected) \in Nat /\ Cardinality(selected) <= Limit /\ Limit \in Nat
      /\ count \in Cardinality(selected)..Cardinality(scanned)
      /\ selected \in SUBSET scanned
  BY <1>1, FiniteNames, LimitAssumption DEF IInv, TypeOK
<1>3. Cardinality(scanned') = Cardinality(scanned) + 1
  BY <1>1, <1>2, FS_AddElement
<1>4. /\ selected' \in SUBSET scanned' /\ Cardinality(selected') <= Limit
      /\ count' \in Cardinality(selected')..Cardinality(scanned')
  <2>1. CASE Visible(tree, n)
    <3>1. selected' \in SUBSET scanned' /\ count' = count + 1
      BY <1>1, <1>2, <2>1, SelectionOfEntry
    <3>2. CASE Cardinality(selected) < Limit
      <4>1. Cardinality(selected') = Cardinality(selected) + 1
        BY <2>1, <3>2, SelectionOfEntry
      <4> QED
        BY <1>2, <1>3, <3>1, <3>2, <4>1
    <3>3. CASE Cardinality(selected) = Limit
      <4>1. Cardinality(selected') = Limit
        BY <2>1, <3>3, SelectionOfEntry
      <4> QED
        BY <1>2, <1>3, <3>1, <3>3, <4>1
    <3> QED
      BY <1>2, <3>2, <3>3
  <2>2. CASE ~Visible(tree, n)
    <3>1. selected' = selected /\ count' = count
      BY <2>2 DEF ScanEntry
    <3> QED
      BY <1>1, <1>2, <1>3, <3>1
  <2> QED
    BY <2>1, <2>2
<1> QED
  BY <1>1, <1>4 DEF ScanEntry, request, IInv, TypeOK

LEMMA ScanEntryScan == ASSUME IInv, NEW n \in Names, ScanEntry(n) PROVE ScanInv'
<1>1. /\ pc = "scan" /\ pc' = "scan" /\ steady' = steady /\ tree' = tree /\ dir' = dir /\ pred' = pred
      /\ scanned' = scanned \union {n} /\ at' = at
  BY DEF ScanEntry, request
<1>2. \A s \in steady' : s \in Children(tree', at') /\ Visible(tree, s)'
  BY <1>1 DEF IInv, ScanInv, Visible
<1>3. ASSUME NEW s \in steady', s \in scanned', s \notin selected'
      PROVE  Cardinality(selected') = Limit /\ \A m \in selected' : m < s
  <2>1. Visible(tree, s)
    BY <1>1 DEF IInv, ScanInv
  <2>2. s \in Nat /\ n \in Nat /\ selected \in SUBSET Nat
    BY <1>1, FiniteNames DEF IInv, TypeOK
  <2>3. s \in scanned /\ s \notin selected =>
            Cardinality(selected) = Limit /\ \A m \in selected : m < s
    BY <1>1 DEF IInv, ScanInv
  <2>4. CASE ~Visible(tree, n)
    <3>1. selected' = selected /\ s # n
      BY <2>1, <2>4 DEF ScanEntry
    <3> QED
      BY <1>1, <1>3, <2>3, <3>1
  <2>5. CASE Visible(tree, n) /\ Cardinality(selected) < Limit
    <3>1. selected' = selected \union {n}
      BY <2>5, SelectionOfEntry
    <3>2. s \in scanned /\ s \notin selected
      BY <1>1, <1>3, <3>1
    <3>3. Cardinality(selected) \in Nat /\ Limit \in Nat
      BY FiniteNames, LimitAssumption DEF IInv, TypeOK
    <3> QED
      BY <2>3, <2>5, <3>2, <3>3
  <2>6. CASE Visible(tree, n) /\ Cardinality(selected) = Limit
    <3>1. PICK x \in selected \union {n} :
              /\ selected' = (selected \union {n}) \ {x}
              /\ \A m \in selected \union {n} : m <= x
      BY <2>6, SelectionOfEntry
    <3>2. Cardinality(selected') = Limit
      BY <2>6, SelectionOfEntry
    <3>3. CASE s = x
      BY <2>2, <3>1, <3>2, <3>3
    <3>4. CASE s # x
      <4>1. s \in scanned /\ s \notin selected
        BY <1>1, <1>3, <3>1, <3>4
      <4>2. ASSUME NEW m \in selected' PROVE m < s
        <5>1. CASE m \in selected
          BY <2>3, <4>1, <5>1
        <5>2. CASE m \notin selected
          <6>1. m = n /\ n # x /\ x \in selected /\ n <= x
            BY <3>1, <4>2, <5>2
          <6>2. x < s
            BY <2>3, <4>1, <6>1
          <6> QED
            BY <2>2, <6>1, <6>2
        <5> QED
          BY <5>1, <5>2
      <4> QED
        BY <3>2, <4>2
    <3> QED
      BY <3>3, <3>4
  <2>7. Cardinality(selected) < Limit \/ Cardinality(selected) = Limit
    <3>1. Cardinality(selected) \in Nat /\ Limit \in Nat /\ Cardinality(selected) <= Limit
      BY FiniteNames, LimitAssumption DEF IInv, TypeOK
    <3> QED
      BY <3>1
  <2> QED
    BY <2>4, <2>5, <2>6, <2>7
<1> QED
  BY <1>1, <1>2, <1>3 DEF ScanInv

LEMMA ScanEntryCount == ASSUME IInv, NEW n \in Names, ScanEntry(n) PROVE CountInv'
<1> SUFFICES ASSUME calm' PROVE CountInv'
  BY DEF CountInv
<1>1. /\ pc = "scan" /\ pc' = "scan" /\ steady' = steady /\ tree' = tree /\ dir' = dir /\ pred' = pred
      /\ scanned' = scanned \union {n} /\ n \notin scanned /\ n \in offered /\ calm
      /\ at' = at /\ offered' = offered
  BY DEF ScanEntry, request
<1>2. \A m : Visible(tree, m)' <=> Visible(tree, m)
  BY <1>1 DEF Visible
<1> DEFINE seen == {m \in scanned : Visible(tree, m)}
           then == {m \in scanned' : Visible(tree, m)'}
<1>3. /\ at = dir /\ offered = Children(tree, dir)
      /\ scanned \subseteq Children(tree, dir)
      /\ steady = {m \in Children(tree, dir) : Visible(tree, m)}
      /\ selected \subseteq seen
      /\ count = Cardinality(seen)
      /\ Cardinality(selected) < Limit => selected = seen
  BY <1>1 DEF IInv, CountInv
<1>4. IsFiniteSet(seen) /\ n \notin seen
  BY <1>1, FiniteNames DEF IInv, TypeOK
<1>5. /\ Cardinality(selected) \in Nat /\ Cardinality(selected) <= Limit /\ Limit \in Nat
  BY FiniteNames, LimitAssumption DEF IInv, TypeOK
<1>6. steady' = {m \in Children(tree', dir') : Visible(tree, m)'}
  BY <1>1, <1>2, <1>3
<1>7. CASE Visible(tree, n)
  <2>1. then = seen \union {n}
    BY <1>1, <1>2, <1>7
  <2>2. Cardinality(then) = Cardinality(seen) + 1
    BY <1>4, <2>1, FS_AddElement
  <2> HIDE DEF seen, then
  <2>3. selected' \subseteq then /\ count' = Cardinality(then)
    BY <1>3, <1>7, <2>1, <2>2, SelectionOfEntry
  <2>4. Cardinality(selected') < Limit => selected' = then
    <3>1. CASE Cardinality(selected) < Limit
      BY <1>3, <1>7, <2>1, <3>1, SelectionOfEntry
    <3>2. CASE Cardinality(selected) = Limit
      <4>1. Cardinality(selected') = Limit
        BY <1>7, <3>2, SelectionOfEntry
      <4> QED
        BY <1>5, <4>1
    <3> QED
      BY <1>5, <3>1, <3>2
  <2> QED
    BY <1>1, <1>3, <1>6, <2>3, <2>4 DEF CountInv, then
<1>8. CASE ~Visible(tree, n)
  <2>1. then = seen
    BY <1>1, <1>2, <1>8
  <2>2. selected' = selected /\ count' = count
    BY <1>8 DEF ScanEntry
  <2> QED
    BY <1>1, <1>3, <1>6, <2>1, <2>2 DEF CountInv
<1> QED
  BY <1>7, <1>8

LEMMA ScanEntryInv == ASSUME IInv, NEW n \in Names, ScanEntry(n) PROVE IInv'
<1>1. CalmInv'
  BY DEF ScanEntry, request, IInv, CalmInv
<1> QED
  BY <1>1, ScanEntryTyped, ScanEntryScan, ScanEntryCount DEF IInv

LEMMA ScanEndInv == IInv /\ ScanEnd => IInv'
<1> SUFFICES ASSUME IInv, ScanEnd PROVE IInv'
  OBVIOUS
<1>1. TypeOK'
  BY DEF ScanEnd, Goes, scan, found, IInv, TypeOK
<1>2. ScanInv'
  BY DEF ScanEnd, Goes, scan, found, IInv, ScanInv, Visible
<1>3. CalmInv'
  BY DEF ScanEnd, Goes, scan, found, IInv, CalmInv
<1>4. CountInv'
  BY DEF ScanEnd, Goes, scan, found, IInv, CountInv, Visible
<1> QED
  BY <1>1, <1>2, <1>3, <1>4 DEF IInv

LEMMA ScanAgainInv == IInv /\ ScanAgain => IInv'
<1> SUFFICES ASSUME IInv, ScanAgain PROVE IInv'
  OBVIOUS
<1>1. TypeOK'
  BY NothingScanned, RootIsPath DEF ScanAgain, NoScan, Goes, IInv, TypeOK
<1>2. ScanInv'
  BY DEF ScanAgain, NoScan, Goes, ScanInv
<1>3. CalmInv' /\ CountInv'
  BY DEF ScanAgain, NoScan, Goes, IInv, CalmInv, CountInv
<1> QED
  BY <1>1, <1>2, <1>3 DEF IInv

LEMMA AnsweredInv == IInv /\ Answered => IInv'
<1> SUFFICES ASSUME IInv, Answered PROVE IInv'
  OBVIOUS
<1>1. TypeOK'
  BY NothingScanned, RootIsAsked, RootIsPath DEF Answered, NoScan, Goes, IInv, TypeOK
<1>2. ScanInv'
  BY DEF Answered, NoScan, Goes, ScanInv
<1>3. CalmInv' /\ CountInv'
  BY DEF Answered, NoScan, Goes, IInv, CalmInv, CountInv
<1> QED
  BY <1>1, <1>2, <1>3 DEF IInv

\* However the tree changes and whenever the policy is loaded, the scan, the
\* history of its directory and the policies at hand stay as IInv says
\* (app.py:159-177, directory_listing.py:35-48, security.py:31-77).
THEOREM Inductive == Spec => []IInv
<1>1. IInv /\ [Next]_vars => IInv'
  <2> SUFFICES ASSUME IInv, [Next]_vars PROVE IInv'
    OBVIOUS
  <2>1. CASE TreeChanges
    BY <2>1, TreeChangesInv
  <2>2. CASE PolicyReloaded
    BY <2>2, PolicyReloadedInv
  <2>3. CASE \E p \in Paths : Ask(p)
    BY <2>3, AskInv
  <2>4. CASE BindPredicate
    BY <2>4, BindPredicateInv
  <2>5. CASE OpenScan
    BY <2>5, OpenScanInv
  <2>6. CASE ScanRaises
    BY <2>6, ScanRaisesInv
  <2>7. CASE \E n \in Names : ScanEntry(n)
    BY <2>7, ScanEntryInv
  <2>8. CASE ScanEnd
    BY <2>8, ScanEndInv
  <2>9. CASE ScanAgain
    BY <2>9, ScanAgainInv
  <2>10. CASE Answered
    BY <2>10, AnsweredInv
  <2>11. CASE UNCHANGED vars
    BY <2>11, StutterInv
  <2> QED
    BY <2>1, <2>2, <2>3, <2>4, <2>5, <2>6, <2>7, <2>8, <2>9, <2>10, <2>11 DEF Next, PageNext
<1> QED
  BY InitInv, <1>1, PTL DEF Spec

---------------------------------------------------------------------------
(* The properties of the pages *)

\* The names of a page are among those its scan returned and no more than
\* MAX_DISPLAY, and the number on it lies between the two (directory_listing.py:20-48).
THEOREM TypeCorrect == Spec => []TypeOK
BY Inductive, PTL DEF IInv

\* At the end of a calm scan what the iterator returned are the entries, and
\* what was visible to the listing is what a request would not be denied.
LEMMA CalmPageMatches == IInv => ListingMatchesFetch
<1> SUFFICES ASSUME IInv, pc = "page", calm
             PROVE  LET open == {n \in Children(tree, dir) :
                                    SafeResolve(tree, Below(asked, n), policy) # "403"}
                    IN  /\ selected \subseteq open
                        /\ count = Cardinality(open)
                        /\ Cardinality(selected) < Limit => selected = open
  BY DEF ListingMatchesFetch
<1>1. /\ tree \in Trees /\ asked \in Paths
      /\ PolicyLoadable(tree) /\ policy = LoadedPolicy(tree) /\ pred = policy
      /\ SafeResolve(tree, asked, policy) = "200" /\ dir = Resolved(tree, asked)
  BY DEF IInv, TypeOK, CalmInv
<1>2. ASSUME NEW n \in Names
      PROVE  Visible(tree, n) <=> SafeResolve(tree, Below(asked, n), policy) # "403"
  BY <1>1, DecideAlike DEF Visible
<1>3. /\ steady \subseteq scanned /\ scanned \subseteq Children(tree, dir)
      /\ steady = {n \in Children(tree, dir) : Visible(tree, n)}
  BY DEF IInv, ScanInv, CountInv
<1>4. {n \in scanned : Visible(tree, n)}
          = {n \in Children(tree, dir) : SafeResolve(tree, Below(asked, n), policy) # "403"}
  <2>1. Children(tree, dir) \subseteq Names
    BY DEF Children
  <2> QED
    BY <1>2, <1>3, <2>1
<1> QED
  BY <1>4 DEF IInv, CountInv

\* A page of a tree that stays as it is shows, or counts, exactly the entries
\* that a direct request would not be denied, asked for by the directory's own
\* path or by an alias, with any links inside and out of it (app.py:61-66).
THEOREM ListingCorrect == Spec => []ListingMatchesFetch
BY Inductive, CalmPageMatches, PTL

\* Of a tree that changes under the scan: a name that was there and visible
\* throughout is on the page, unless MAX_DISPLAY smaller ones are
\* (directory_listing.py:35-48).
THEOREM SteadyCorrect == Spec => []NoSteadyNameLost
<1>1. IInv => NoSteadyNameLost
  BY DEF IInv, ScanInv, NoSteadyNameLost
<1> QED
  BY <1>1, Inductive, PTL

\* What safe_resolve serves under an alias it serves under the real path, with
\* a policy of any age (security.py:139-157).
THEOREM AliasCorrect == Spec => []NoAliasAround
<1>1. TypeOK => NoAliasAround
  <2> SUFFICES ASSUME TypeOK, NEW p \in Paths, SafeResolve(tree, p, policy) = "200"
               PROVE  SafeResolve(tree, Resolved(tree, p), policy) = "200"
    BY DEF NoAliasAround
  <2> DEFINE real == Resolved(tree, p)
  <2>1. ~OnList(real, policy) /\ Sound(tree, real) /\ real \in DOMAIN tree
    BY DEF SafeResolve
  <2>2. Resolved(tree, real) = real
    BY <2>1, RealIsReal DEF Sound
  <2> QED
    BY <2>1, <2>2 DEF SafeResolve
<1> QED
  BY <1>1, TypeCorrect, PTL
=============================================================================
