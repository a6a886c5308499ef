--------------------------- MODULE DispatchProofs ---------------------------
(***************************************************************************)
(* Both things that happen to a request before any file is opened, for any *)
(* number of workers, any policy files, any tree and names of any length.  *)
(* The two components share nothing: PolicyCache and Routes.               *)
(*                                                                         *)
(* The policy cache fails closed and is never much older than its TTL.     *)
(* Nothing orders the threads; what carries the argument is that a time    *)
(* stamp is written only after some thread has assigned the list           *)
(* (StampInv), and that whoever overwrites the list is in a call that      *)
(* began at most MaxCall ago (AgeInv).                                     *)
(*                                                                         *)
(* A link leads to what it is shown for exactly if that is unambiguous.    *)
(* What is needed to show it is that the relpath of a page stands for what *)
(* the page is of (PageInv); the rest is what the operators on addresses   *)
(* do to strings of any length, shown by induction over the string.        *)
(***************************************************************************)
EXTENDS PolicyCache, Routes, SequenceTheorems, WellFoundedInduction, TLAPS

---------------------------------------------------------------------------
(* The policy cache *)

\* The clock has passed TTL, so a stamp that is still fresh is not the zero
\* the process starts with; a call lasts at most MaxCall.
ClockInv ==
    /\ clock > TTL
    /\ loadedAt <= clock
    /\ \A t \in Threads :
         /\ now[t] <= clock
         /\ InCall(t) => now[t] > TTL /\ clock <= now[t] + MaxCall

\* Whoever may stamp, return or be decided by a list has a complete one.
StampInv ==
    /\ loadedAt # 0 => Baseline \subseteq cached.rules
    /\ \A t \in Threads :
         /\ pc[t] = "assign" => Baseline \subseteq mine[t].rules
         /\ pc[t] \in {"stamp", "return"} => Baseline \subseteq cached.rules

\* The list is not older than the stamp, or than a call under way, allows.
AgeInv ==
    /\ loadedAt # 0 => loadedAt <= cached.readAt + MaxCall
    /\ \A t \in Threads :
         /\ pc[t] = "assign" => now[t] <= mine[t].readAt
         /\ pc[t] = "stamp" => now[t] <= cached.readAt + MaxCall
         /\ pc[t] = "return" => now[t] <= cached.readAt + TTL + MaxCall

IInv == TypeOK /\ ClockInv /\ StampInv /\ AgeInv /\ FailClosed /\ BoundedStaleness

---------------------------------------------------------------------------
\* What load_denylist returns is a list of rules and contains the baseline.
LEMMA LoadedFacts ==
    ASSUME TypeOK, Loadable
    PROVE  /\ Loaded \in [rules : SUBSET Rules, readAt : Nat]
           /\ Baseline \subseteq Loaded.rules /\ Loaded.readAt = clock
<1>1. file \in Seq(Lines)
  BY DEF TypeOK, Loadable
<1>2. ToSet(file) \subseteq Lines
  BY <1>1 DEF ToSet
<1> QED
  BY <1>2 DEF TypeOK, Loadable, Loaded, Policy, Rules, Baseline

LEMMA NoPolicyTyped == NoPolicy \in [rules : SUBSET Rules, readAt : Nat]
BY DEF NoPolicy, Policy

---------------------------------------------------------------------------
(* Steps of a thread *)

LEMMA TypeStep ==
    ASSUME TypeOK, NEW t \in Threads, ThreadNext(t)
    PROVE  TypeOK'
<1> USE DEF TypeOK, PCs, globals, threads, Goes
<1>1. CASE Request(t)
  BY <1>1 DEF Request
<1>2. CASE Sample(t)
  BY <1>2 DEF Sample
<1>3. CASE StillFresh(t)
  BY <1>3 DEF StillFresh
<1>4. CASE Expired(t)
  BY <1>4 DEF Expired
<1>5. CASE Load(t)
  BY <1>5, LoadedFacts DEF Load
<1>6. CASE LoadRaises(t)
  BY <1>6 DEF LoadRaises
<1>7. CASE AssignCache(t)
  BY <1>7 DEF AssignCache
<1>8. CASE Stamp(t)
  BY <1>8 DEF Stamp
<1>9. CASE Return(t)
  BY <1>9 DEF Return
<1>10. CASE Decide(t)
  BY <1>10, NoPolicyTyped DEF Decide
<1>11. CASE AskAgain(t)
  BY <1>11 DEF AskAgain
<1>12. CASE Unavailable(t)
  BY <1>12, NoPolicyTyped DEF Unavailable
<1> QED
  BY <1>1, <1>2, <1>3, <1>4, <1>5, <1>6, <1>7, <1>8, <1>9, <1>10, <1>11, <1>12
  DEF ThreadNext

LEMMA ClockStep ==
    ASSUME TypeOK, ClockInv, NEW t \in Threads, ThreadNext(t)
    PROVE  ClockInv'
<1> USE TimeAssumption DEF TypeOK, ClockInv, InCall, PCs, globals, threads, Goes
<1>1. CASE Request(t)
  BY <1>1 DEF Request
<1>2. CASE Sample(t)
  BY <1>2 DEF Sample
<1>3. CASE StillFresh(t)
  BY <1>3 DEF StillFresh
<1>4. CASE Expired(t)
  BY <1>4 DEF Expired
<1>5. CASE Load(t)
  BY <1>5 DEF Load
<1>6. CASE LoadRaises(t)
  BY <1>6 DEF LoadRaises
<1>7. CASE AssignCache(t)
  BY <1>7 DEF AssignCache
<1>8. CASE Stamp(t)
  BY <1>8 DEF Stamp
<1>9. CASE Return(t)
  BY <1>9 DEF Return
<1>10. CASE Decide(t)
  BY <1>10 DEF Decide
<1>11. CASE AskAgain(t)
  BY <1>11 DEF AskAgain
<1>12. CASE Unavailable(t)
  BY <1>12 DEF Unavailable
<1> QED
  BY <1>1, <1>2, <1>3, <1>4, <1>5, <1>6, <1>7, <1>8, <1>9, <1>10, <1>11, <1>12
  DEF ThreadNext

LEMMA StampStep ==
    ASSUME TypeOK, ClockInv, StampInv, NEW t \in Threads, ThreadNext(t)
    PROVE  StampInv'
<1> USE TimeAssumption DEF TypeOK, ClockInv, StampInv, InCall, PCs, globals, threads, Goes
<1>1. CASE Request(t)
  BY <1>1 DEF Request
<1>2. CASE Sample(t)
  BY <1>2 DEF Sample
<1>3. CASE StillFresh(t)
  BY <1>3 DEF StillFresh
<1>4. CASE Expired(t)
  BY <1>4 DEF Expired
<1>5. CASE Load(t)
  BY <1>5, LoadedFacts DEF Load
<1>6. CASE LoadRaises(t)
  BY <1>6 DEF LoadRaises
<1>7. CASE AssignCache(t)
  BY <1>7 DEF AssignCache
<1>8. CASE Stamp(t)
  BY <1>8 DEF Stamp
<1>9. CASE Return(t)
  BY <1>9 DEF Return
<1>10. CASE Decide(t)
  BY <1>10 DEF Decide
<1>11. CASE AskAgain(t)
  BY <1>11 DEF AskAgain
<1>12. CASE Unavailable(t)
  BY <1>12 DEF Unavailable
<1> QED
  BY <1>1, <1>2, <1>3, <1>4, <1>5, <1>6, <1>7, <1>8, <1>9, <1>10, <1>11, <1>12
  DEF ThreadNext

LEMMA AgeStep ==
    ASSUME TypeOK, ClockInv, AgeInv, NEW t \in Threads, ThreadNext(t)
    PROVE  AgeInv'
<1> USE TimeAssumption DEF TypeOK, ClockInv, AgeInv, InCall, PCs, globals, threads, Goes
<1>1. CASE Request(t)
  BY <1>1 DEF Request
<1>2. CASE Sample(t)
  BY <1>2 DEF Sample
<1>3. CASE StillFresh(t)
  BY <1>3 DEF StillFresh
<1>4. CASE Expired(t)
  BY <1>4 DEF Expired
<1>5. CASE Load(t)
  BY <1>5, LoadedFacts DEF Load
<1>6. CASE LoadRaises(t)
  BY <1>6 DEF LoadRaises
<1>7. CASE AssignCache(t)
  BY <1>7, SMTT(30) DEF AssignCache
<1>8. CASE Stamp(t)
  BY <1>8 DEF Stamp
<1>9. CASE Return(t)
  BY <1>9 DEF Return
<1>10. CASE Decide(t)
  BY <1>10 DEF Decide
<1>11. CASE AskAgain(t)
  BY <1>11 DEF AskAgain
<1>12. CASE Unavailable(t)
  BY <1>12 DEF Unavailable
<1> QED
  BY <1>1, <1>2, <1>3, <1>4, <1>5, <1>6, <1>7, <1>8, <1>9, <1>10, <1>11, <1>12
  DEF ThreadNext

LEMMA DecideStep ==
    ASSUME TypeOK, StampInv, AgeInv, FailClosed, BoundedStaleness, NEW t \in Threads, ThreadNext(t)
    PROVE  FailClosed' /\ BoundedStaleness'
<1> USE TimeAssumption DEF TypeOK, StampInv, AgeInv, FailClosed, BoundedStaleness, PCs, globals, threads, Goes
<1>1. CASE Request(t)
  BY <1>1 DEF Request
<1>2. CASE Sample(t)
  BY <1>2 DEF Sample
<1>3. CASE StillFresh(t)
  BY <1>3 DEF StillFresh
<1>4. CASE Expired(t)
  BY <1>4 DEF Expired
<1>5. CASE Load(t)
  BY <1>5 DEF Load
<1>6. CASE LoadRaises(t)
  BY <1>6 DEF LoadRaises
<1>7. CASE AssignCache(t)
  BY <1>7 DEF AssignCache
<1>8. CASE Stamp(t)
  BY <1>8 DEF Stamp
<1>9. CASE Return(t)
  BY <1>9 DEF Return
<1>10. CASE Decide(t)
  BY <1>10 DEF Decide
<1>11. CASE AskAgain(t)
  BY <1>11 DEF AskAgain
<1>12. CASE Unavailable(t)
  BY <1>12 DEF Unavailable
<1> QED
  BY <1>1, <1>2, <1>3, <1>4, <1>5, <1>6, <1>7, <1>8, <1>9, <1>10, <1>11, <1>12
  DEF ThreadNext

---------------------------------------------------------------------------
(* Steps of the operator, the clock and the process *)

LEMMA WorldStep ==
    ASSUME IInv, WorldNext
    PROVE  IInv'
<1> USE DEF IInv, globals, threads
<1>1. CASE Replaced \/ Truncated \/ LineWritten
  <2>1. UNCHANGED <<clock, up, globals, threads>>
    BY <1>1 DEF Replaced, Truncated, LineWritten
  <2>2. (file' = Missing \/ file' \in Seq(Lines)) /\ rest' \in Seq(Lines)
    <3>1. <<>> \in Seq(Lines) /\ \A p \in Policies : p \in Seq(Lines)
      BY PoliciesAssumption
    <3>2. CASE Replaced
      BY <3>1, <3>2 DEF Replaced
    <3>3. CASE Truncated
      BY <3>1, <3>3 DEF Truncated
    <3>4. CASE LineWritten
      <4>1. file \in Seq(Lines) /\ rest \in Seq(Lines) /\ rest # <<>>
        BY <3>4 DEF LineWritten, TypeOK
      <4> QED
        BY <3>4, <4>1 DEF LineWritten
    <3> QED
      BY <1>1, <3>2, <3>3, <3>4
  <2> QED
    BY <2>1, <2>2 DEF TypeOK, ClockInv, StampInv, AgeInv, FailClosed,
       BoundedStaleness, InCall
<1>2. CASE Tick
  BY <1>2, TimeAssumption DEF Tick, TypeOK, ClockInv, StampInv, AgeInv, FailClosed,
     BoundedStaleness, InCall
<1>3. CASE Boot
  BY <1>3 DEF Boot, TypeOK, PCs, ClockInv, StampInv, AgeInv, FailClosed,
     BoundedStaleness, InCall
<1>4. CASE Kill
  BY <1>4, NoPolicyTyped DEF Kill, TypeOK, PCs, ClockInv, StampInv, AgeInv, FailClosed,
     BoundedStaleness, InCall
<1> QED
  BY <1>1, <1>2, <1>3, <1>4 DEF WorldNext

---------------------------------------------------------------------------
LEMMA InitIInv == Init => IInv
<1> SUFFICES ASSUME Init PROVE IInv
  OBVIOUS
<1>1. TypeOK
  BY PoliciesAssumption, TimeAssumption, NoPolicyTyped DEF Init, TypeOK, PCs
<1>2. ClockInv /\ StampInv /\ AgeInv /\ FailClosed /\ BoundedStaleness
  BY TimeAssumption DEF Init, ClockInv, StampInv, AgeInv, FailClosed, BoundedStaleness, InCall
<1> QED
  BY <1>1, <1>2 DEF IInv

LEMMA StepIInv == IInv /\ [Next]_vars => IInv'
<1> SUFFICES ASSUME IInv, [Next]_vars PROVE IInv'
  OBVIOUS
<1>1. ASSUME NEW t \in Threads, ThreadNext(t) PROVE IInv'
  BY <1>1, TypeStep, ClockStep, StampStep, AgeStep, DecideStep DEF IInv
<1>2. CASE WorldNext
  BY <1>2, WorldStep
<1>3. CASE UNCHANGED vars
  BY <1>3 DEF vars, globals, threads, IInv, TypeOK, ClockInv, StampInv, AgeInv,
     FailClosed, BoundedStaleness, InCall
<1> QED
  BY <1>1, <1>2, <1>3 DEF Next

\* IInv is an invariant of the policy cache.
THEOREM Inductive == Spec => []IInv
<1> QED
  BY InitIInv, StepIInv, PTL DEF Spec

\* The globals keep their types; no list ever contains an unsafe rule.
THEOREM TypeCorrect == Spec => []TypeOK
<1>1. IInv => TypeOK
  BY DEF IInv
<1> QED
  BY <1>1, Inductive, PTL

\* No request is decided with a list that lacks a mandatory exclusion, for
\* any file at any time (security.py:45-48, 78-82; app.py:45, 165-167, 293).
THEOREM NeverOpen == Spec => []FailClosed
<1>1. IInv => FailClosed
  BY DEF IInv
<1> QED
  BY <1>1, Inductive, PTL

\* A list in use was read at most TTL + MaxCall before the request sampled
\* its clock, however many threads reload at once (app.py:49-55).
THEOREM NeverLongStale == Spec => []BoundedStaleness
<1>1. IInv => BoundedStaleness
  BY DEF IInv
<1> QED
  BY <1>1, Inductive, PTL

---------------------------------------------------------------------------
(* Induction over numbers and over strings *)

\* Induction over the numbers, from the well-foundedness of <.
LEMMA Induction ==
    ASSUME NEW S, 0 \in S, \A n \in Nat : n \in S => n + 1 \in S
    PROVE  Nat \subseteq S
<1> DEFINE Rest == Nat \ S
<1> SUFFICES ASSUME Rest # {} PROVE FALSE
  OBVIOUS
<1>1. \E x \in Rest : \A y \in Rest : <<y, x>> \notin OpToRel(<, Nat)
  <2>1. Rest \subseteq Nat
    OBVIOUS
  <2> HIDE DEF Rest
  <2> QED
    BY <2>1, WFMin, NatLessThanWellFounded
<1>2. PICK x \in Rest : \A y \in Rest : ~(y < x)
  BY <1>1 DEF OpToRel
<1>3. x - 1 \in Nat /\ x - 1 \notin Rest
  BY <1>2
<1> QED
  BY <1>3

\* The strings over A: the empty one, and every one with one character more.
LEMMA StringInduction ==
    ASSUME NEW A, NEW S, <<>> \in S, \A s \in Seq(A) : \A c \in A : s \in S => Append(s, c) \in S
    PROVE  Seq(A) \subseteq S
<1> DEFINE T == {n \in Nat : \A s \in Seq(A) : Len(s) = n => s \in S}
<1>1. 0 \in T
  BY EmptySeq
<1>2. ASSUME NEW n \in Nat, n \in T PROVE n + 1 \in T
  <2> SUFFICES ASSUME NEW s \in Seq(A), Len(s) = n + 1 PROVE s \in S
    OBVIOUS
  <2>1. PICK t \in Seq(A), c \in A : s = Append(t, c)
    <3>1. s # <<>>
      OBVIOUS
    <3> QED
      BY <3>1, SequenceEmptyOrAppend
  <2>2. Len(t) = n
    <3>1. Len(s) = Len(t) + 1 /\ Len(t) \in Nat
      BY <2>1, AppendProperties, LenProperties
    <3> QED
      BY <3>1
  <2> QED
    BY <1>2, <2>1, <2>2
<1>3. Nat \subseteq T
  <2> HIDE DEF T
  <2> QED
    BY <1>1, <1>2, Induction
<1> QED
  BY <1>3, LenProperties

\* Facts about Append that the library does not state.
LEMMA AppendOfConcat ==
    ASSUME NEW A, NEW s \in Seq(A), NEW t \in Seq(A), NEW c \in A
    PROVE  s \o Append(t, c) = Append(s \o t, c)
<1>1. Append(t, c) = t \o <<c>> /\ Append(s \o t, c) = (s \o t) \o <<c>> /\ <<c>> \in Seq(A)
  BY AppendIsConcat, ConcatProperties
<1> QED
  BY <1>1, ConcatAssociative

\* Appending and taking the last element away.
LEMMA LastOfAppend ==
    ASSUME NEW B, NEW p \in Seq(B), NEW n \in B
    PROVE  Front(Append(p, n)) = p /\ Last(Append(p, n)) = n
<1>1. /\ Append(p, n) \in Seq(B) /\ Len(Append(p, n)) = Len(p) + 1 /\ Len(p) \in Nat
      /\ \A i \in 1..Len(p) : Append(p, n)[i] = p[i]
      /\ Append(p, n)[Len(p) + 1] = n
  BY AppendProperties, LenProperties
<1>2. Last(Append(p, n)) = n
  BY <1>1 DEF Last
<1>3. Front(Append(p, n)) \in Seq(B) /\ Len(Front(Append(p, n))) = Len(p)
      /\ \A i \in 1..Len(p) : Front(Append(p, n))[i] = p[i]
  <2> DEFINE q == Append(p, n)
  <2>1. q \in Seq(B) /\ Len(q) - 1 = Len(p) /\ \A i \in 1..Len(p) : q[i] = p[i] /\ q[i] \in B
    BY <1>1
  <2> HIDE DEF q
  <2>2. /\ SubSeq(q, 1, Len(p)) \in Seq(B) /\ Len(SubSeq(q, 1, Len(p))) = Len(p)
        /\ \A i \in 1..Len(p) : SubSeq(q, 1, Len(p))[i] = q[i]
    BY <1>1, <2>1, SubSeqProperties
  <2> QED
    BY <2>1, <2>2 DEF Front, q
<1> QED
  BY <1>2, <1>3, SeqEqual

---------------------------------------------------------------------------
(* The components of a path *)

\* What Parts does with the i-th character of s.
PartsStep(before, s, i) ==
    IF s[i] = Slash THEN before
    ELSE IF i = 1 \/ s[i - 1] = Slash THEN Append(before, <<s[i]>>)
    ELSE Append(Front(before), Append(Last(before), s[i]))

PartsUpTo(f, s, n) == f = [i \in 0..n |-> IF i = 0 THEN <<>> ELSE PartsStep(f[i - 1], s, i)]

\* The recursion of Parts has a solution.
LEMMA PartsExist ==
    ASSUME NEW s
    PROVE  \A n \in Nat : \E f : PartsUpTo(f, s, n)
<1> DEFINE S == {n \in Nat : \E f : PartsUpTo(f, s, n)}
<1>1. 0 \in S
  <2>1. PartsUpTo([i \in 0..0 |-> <<>>], s, 0)
    BY DEF PartsUpTo
  <2> QED
    BY <2>1
<1>2. ASSUME NEW n \in Nat, n \in S PROVE n + 1 \in S
  <2>1. PICK f : PartsUpTo(f, s, n)
    BY <1>2
  <2> DEFINE g == [i \in 0..(n + 1) |-> IF i = 0 THEN <<>> ELSE PartsStep(f[i - 1], s, i)]
  <2>2. \A i \in 0..n : g[i] = f[i]
    BY <2>1 DEF PartsUpTo
  <2>3. g = [i \in 0..(n + 1) |-> IF i = 0 THEN <<>> ELSE PartsStep(g[i - 1], s, i)]
    <3>1. ASSUME NEW i \in 0..(n + 1), i # 0 PROVE f[i - 1] = g[i - 1]
      <4>1. i - 1 \in 0..n
        BY <3>1
      <4> HIDE DEF g
      <4> QED
        BY <4>1, <2>2
    <3> QED
      BY <3>1
  <2>4. PartsUpTo(g, s, n + 1)
    BY <2>3 DEF PartsUpTo
  <2> QED
    BY <2>4
<1>3. Nat \subseteq S
  <2> HIDE DEF S
  <2> QED
    BY <1>1, <1>2, Induction
<1> QED
  BY <1>3

\* Strings that begin alike have the same components up to there.
LEMMA PartsUnique ==
    ASSUME NEW s, NEW t, NEW m \in Nat, NEW n \in Nat, m <= n, NEW f, NEW g,
           \A i \in 1..m : s[i] = t[i],
           PartsUpTo(f, s, m), PartsUpTo(g, t, n)
    PROVE  f[m] = g[m]
<1> DEFINE S == {i \in Nat : i <= m => f[i] = g[i]}
<1>1. 0 \in S
  BY DEF PartsUpTo
<1>2. ASSUME NEW i \in Nat, i \in S PROVE i + 1 \in S
  <2> SUFFICES ASSUME i + 1 <= m PROVE f[i + 1] = g[i + 1]
    OBVIOUS
  <2>1. f[i] = g[i]
    BY <1>2
  <2>2. f[i + 1] = PartsStep(f[i], s, i + 1) /\ g[i + 1] = PartsStep(g[i], t, i + 1)
    BY DEF PartsUpTo
  <2>3. PartsStep(f[i], s, i + 1) = PartsStep(f[i], t, i + 1)
    <3>1. s[i + 1] = t[i + 1] /\ (i # 0 => s[(i + 1) - 1] = t[(i + 1) - 1])
      OBVIOUS
    <3> QED
      BY <3>1 DEF PartsStep
  <2> QED
    BY <2>1, <2>2, <2>3
<1>3. Nat \subseteq S
  <2> HIDE DEF S
  <2> QED
    BY <1>1, <1>2, Induction
<1> QED
  BY <1>3

\* The recursion of Parts has this solution only.
LEMMA PartsIs ==
    ASSUME NEW s, NEW f, Len(s) \in Nat, PartsUpTo(f, s, Len(s))
    PROVE  Parts(s) = f[Len(s)]
<1> DEFINE parts == CHOOSE g : PartsUpTo(g, s, Len(s))
<1>1. PartsUpTo(parts, s, Len(s))
  BY PartsExist
<1>2. Parts(s) = parts[Len(s)]
  BY DEF Parts, PartsUpTo, PartsStep
<1> HIDE DEF parts
<1>3. parts[Len(s)] = f[Len(s)]
  BY <1>1, PartsUnique
<1> QED
  BY <1>2, <1>3

\* The empty address is the root.
LEMMA PartsOfNothing == Parts(<<>>) = <<>>
<1>1. PartsUpTo([i \in 0..0 |-> <<>>], <<>>, 0)
  BY DEF PartsUpTo
<1> QED
  BY <1>1, PartsIs

\* One character more: a slash says nothing, the first after one begins a
\* component, and any other goes on with the last.
LEMMA PartsOfAppend ==
    ASSUME NEW A, NEW s \in Seq(A), NEW c \in A
    PROVE  Parts(Append(s, c)) =
              IF c = Slash THEN Parts(s)
              ELSE IF s = <<>> \/ Last(s) = Slash THEN Append(Parts(s), <<c>>)
              ELSE Append(Front(Parts(s)), Append(Last(Parts(s)), c))
<1> DEFINE t == Append(s, c)
           n == Len(s)
<1>1. n \in Nat /\ Len(t) = n + 1 /\ t[n + 1] = c /\ \A i \in 1..n : s[i] = t[i]
  BY AppendProperties, LenProperties
<1>2. PICK f : PartsUpTo(f, s, n)
  BY <1>1, PartsExist
<1>3. PICK g : PartsUpTo(g, t, n + 1)
  <2>1. n + 1 \in Nat
    BY <1>1
  <2> QED
    BY <2>1, PartsExist
<1> HIDE DEF t
<1>4. Parts(s) = f[n] /\ Parts(t) = g[n + 1]
  BY <1>1, <1>2, <1>3, PartsIs
<1>5. f[n] = g[n]
  <2>1. PartsUpTo([i \in 0..n |-> g[i]], t, n)
    <3>1. \A i \in 0..(n + 1) : g[i] = IF i = 0 THEN <<>> ELSE PartsStep(g[i - 1], t, i)
      BY <1>3 DEF PartsUpTo
    <3>2. ASSUME NEW i \in 0..n
          PROVE  g[i] = IF i = 0 THEN <<>> ELSE PartsStep([j \in 0..n |-> g[j]][i - 1], t, i)
      <4>1. i \in 0..(n + 1) /\ (i # 0 => i - 1 \in 0..n)
        BY <1>1
      <4>2. i # 0 => [j \in 0..n |-> g[j]][i - 1] = g[i - 1]
        BY <4>1
      <4> QED
        BY <3>1, <4>1, <4>2
    <3> QED
      BY <3>2 DEF PartsUpTo
  <2>2. f[n] = [i \in 0..n |-> g[i]][n]
    <3> DEFINE h == [i \in 0..n |-> g[i]]
    <3>1. PartsUpTo(h, t, n)
      BY <2>1
    <3> HIDE DEF h
    <3>2. f[n] = h[n]
      BY <1>1, <1>2, <3>1, PartsUnique, SMTT(30)
    <3> QED
      BY <3>2 DEF h
  <2> QED
    BY <1>1, <2>2
<1>6. g[n + 1] = PartsStep(g[n], t, n + 1)
  BY <1>1, <1>3 DEF PartsUpTo
<1>7. s = <<>> \/ Last(s) = Slash <=> n + 1 = 1 \/ t[(n + 1) - 1] = Slash
  <2>1. s = <<>> <=> n = 0
    BY EmptySeq, <1>1
  <2>2. n # 0 => Last(s) = t[(n + 1) - 1]
    BY <1>1 DEF Last
  <2> QED
    BY <1>1, <2>1, <2>2
<1> HIDE DEF n
<1> QED
  BY <1>1, <1>4, <1>5, <1>6, <1>7 DEF PartsStep, t

\* The components are made of the characters of the string, and after one that
\* is no slash there is a component.
LEMMA PartsTyped ==
    ASSUME NEW A, NEW s \in Seq(A)
    PROVE  /\ Parts(s) \in Seq(Seq(A))
           /\ s # <<>> /\ Last(s) # Slash => Parts(s) # <<>>
<1> DEFINE S == {t \in Seq(A) : /\ Parts(t) \in Seq(Seq(A))
                                /\ t # <<>> /\ Last(t) # Slash => Parts(t) # <<>>}
<1>1. <<>> \in S
  <2>1. <<>> \in Seq(A) /\ <<>> \in Seq(Seq(A))
    OBVIOUS
  <2> QED
    BY <2>1, PartsOfNothing
<1>2. ASSUME NEW t \in Seq(A), NEW c \in A, t \in S PROVE Append(t, c) \in S
  <2> DEFINE P == Parts(t)
  <2>1. P \in Seq(Seq(A)) /\ (t # <<>> /\ Last(t) # Slash => P # <<>>)
    BY <1>2
  <2>2. Append(t, c) \in Seq(A) /\ Last(Append(t, c)) = c
    BY AppendProperties DEF Last
  <2>3. <<c>> \in Seq(A)
    OBVIOUS
  <2> HIDE DEF P
  <2>4. Append(P, <<c>>) \in Seq(Seq(A)) /\ Append(P, <<c>>) # <<>>
    <3> DEFINE B == Seq(A)
    <3>1. P \in Seq(B) /\ <<c>> \in B
      BY <2>1, <2>3
    <3> HIDE DEF B
    <3>2. Append(P, <<c>>) \in Seq(B) /\ Append(P, <<c>>) # <<>>
      BY <3>1, AppendProperties
    <3> QED
      BY <3>2 DEF B
  <2>5. ASSUME P # <<>>
        PROVE  /\ Append(Front(P), Append(Last(P), c)) \in Seq(Seq(A))
               /\ Append(Front(P), Append(Last(P), c)) # <<>>
    <3> DEFINE B == Seq(A)
               x == Append(Last(P), c)
    <3>1. Len(P) \in Nat \ {0}
      BY <2>1, <2>5, EmptySeq
    <3>2. Last(P) \in Seq(A)
      BY <2>1, <3>1, ElementOfSeq DEF Last
    <3>3. x \in B
      BY <3>2, AppendProperties
    <3>4. Front(P) \in Seq(B)
      BY <2>1, <3>1 DEF Front
    <3> HIDE DEF B, x
    <3>5. Append(Front(P), x) \in Seq(B) /\ Append(Front(P), x) # <<>>
      BY <3>3, <3>4, AppendProperties
    <3> QED
      BY <3>5 DEF B, x
  <2>6. Parts(Append(t, c)) =
              IF c = Slash THEN P
              ELSE IF t = <<>> \/ Last(t) = Slash THEN Append(P, <<c>>)
              ELSE Append(Front(P), Append(Last(P), c))
    BY PartsOfAppend DEF P
  <2> QED
    BY <2>1, <2>2, <2>4, <2>5, <2>6
<1>3. Seq(A) \subseteq S
  <2> HIDE DEF S
  <2> QED
    BY <1>1, <1>2, StringInduction
<1> QED
  BY <1>3

\* Slashes at the end of a path, or before it, say nothing.
LEMMA PartsOfSlashes ==
    ASSUME NEW A, NEW s \in Seq(A), Slash \in A, NEW u \in Seq({Slash})
    PROVE  Parts(s \o u) = Parts(s) /\ Parts(u \o s) = Parts(s)
<1>1. \A v \in Seq({Slash}) : v \in Seq(A)
  BY SeqMonotonic
<1>2. \A t \in Seq(A) : \A v \in Seq({Slash}) : Parts(t \o v) = Parts(t)
  <2> SUFFICES ASSUME NEW t \in Seq(A) PROVE \A v \in Seq({Slash}) : Parts(t \o v) = Parts(t)
    OBVIOUS
  <2> DEFINE S == {v \in Seq({Slash}) : Parts(t \o v) = Parts(t)}
  <2>1. <<>> \in S
    BY ConcatEmptySeq
  <2>2. ASSUME NEW v \in Seq({Slash}), NEW c \in {Slash}, v \in S PROVE Append(v, c) \in S
    <3>1. t \o Append(v, c) = Append(t \o v, c) /\ t \o v \in Seq(A) /\ c \in A
      BY <1>1, AppendOfConcat, ConcatProperties
    <3>2. Parts(Append(t \o v, c)) = Parts(t \o v)
      BY <3>1, PartsOfAppend
    <3> QED
      BY <2>2, <3>1, <3>2, AppendProperties
  <2>3. Seq({Slash}) \subseteq S
    <3> HIDE DEF S
    <3> QED
      BY <2>1, <2>2, StringInduction
  <2> QED
    BY <2>3
<1> DEFINE S == {t \in Seq(A) : Parts(u \o t) = Parts(t)}
<1>3. <<>> \in S
  <2>1. Parts(<<>> \o u) = Parts(<<>>) /\ <<>> \o u = u /\ u \o <<>> = u /\ <<>> \in Seq(A)
    BY <1>2, ConcatEmptySeq, EmptySeq
  <2> QED
    BY <2>1
<1>4. ASSUME NEW t \in Seq(A), NEW c \in A, t \in S PROVE Append(t, c) \in S
  <2>1. u \o Append(t, c) = Append(u \o t, c) /\ u \in Seq(A) /\ u \o t \in Seq(A)
    BY <1>1, AppendOfConcat, ConcatProperties
  <2>2. u \o t = <<>> \/ Last(u \o t) = Slash <=> t = <<>> \/ Last(t) = Slash
    <3>1. Len(u) \in Nat /\ Len(t) \in Nat /\ Len(u \o t) = Len(u) + Len(t)
      BY <2>1, ConcatProperties
    <3>2. CASE t = <<>>
      <4>1. u \o t = u /\ (u # <<>> => Last(u) = Slash)
        BY <3>2, ConcatEmptySeq, EmptySeq, ElementOfSeq DEF Last
      <4> QED
        BY <3>2, <4>1
    <3>3. CASE t # <<>>
      <4>1. Len(t) > 0
        BY <3>3, EmptySeq
      <4>2. Last(u \o t) = Last(t)
        BY <2>1, <3>1, <4>1, ConcatProperties DEF Last
      <4>3. u \o t # <<>>
        BY <2>1, <3>3, ConcatEqualIffEmpty
      <4> QED
        BY <3>3, <4>2, <4>3
    <3> QED
      BY <3>2, <3>3
  <2>3. Parts(u \o t) = Parts(t)
    BY <1>4
  <2>4. Parts(Append(u \o t, c)) = Parts(Append(t, c))
    <3>1. Parts(Append(t, c)) =
              IF c = Slash THEN Parts(t)
              ELSE IF t = <<>> \/ Last(t) = Slash THEN Append(Parts(t), <<c>>)
              ELSE Append(Front(Parts(t)), Append(Last(Parts(t)), c))
      BY PartsOfAppend
    <3>2. Parts(Append(u \o t, c)) =
              IF c = Slash THEN Parts(u \o t)
              ELSE IF u \o t = <<>> \/ Last(u \o t) = Slash THEN Append(Parts(u \o t), <<c>>)
              ELSE Append(Front(Parts(u \o t)), Append(Last(Parts(u \o t)), c))
      BY <2>1, PartsOfAppend
    <3> QED
      BY <2>2, <2>3, <3>1, <3>2
  <2> QED
    BY <2>1, <2>4, AppendProperties
<1>5. Seq(A) \subseteq S
  <2> HIDE DEF S
  <2> QED
    BY <1>3, <1>4, StringInduction
<1> QED
  BY <1>2, <1>5

\* A name behind a slash is the next component.
LEMMA PartsOfName ==
    ASSUME NEW A, NEW s \in Seq(A), s = <<>> \/ Last(s) = Slash,
           NEW n \in Seq(A), n # <<>>, ~Contains(n, Slash)
    PROVE  Parts(s \o n) = Append(Parts(s), n)
<1> DEFINE S == {m \in Seq(A) : m # <<>> /\ ~Contains(m, Slash) => Parts(s \o m) = Append(Parts(s), m)}
<1>1. <<>> \in S
  BY EmptySeq
<1>2. ASSUME NEW m \in Seq(A), NEW c \in A, m \in S PROVE Append(m, c) \in S
  <2> SUFFICES ASSUME ~Contains(Append(m, c), Slash)
               PROVE  Parts(s \o Append(m, c)) = Append(Parts(s), Append(m, c))
    BY AppendProperties
  <2>1. c # Slash /\ ~Contains(m, Slash)
    <3>1. /\ Len(m) \in Nat /\ Len(Append(m, c)) = Len(m) + 1 /\ Append(m, c)[Len(m) + 1] = c
          /\ \A i \in 1..Len(m) : Append(m, c)[i] = m[i]
      BY AppendProperties, LenProperties
    <3> QED
      BY <3>1 DEF Contains
  <2>2. s \o Append(m, c) = Append(s \o m, c) /\ s \o m \in Seq(A)
    BY AppendOfConcat, ConcatProperties
  <2>3. Parts(s) \in Seq(Seq(A))
    BY PartsTyped
  <2>4. CASE m = <<>>
    <3>1. s \o m = s /\ Append(m, c) = <<c>>
      BY <2>4, ConcatEmptySeq
    <3> QED
      BY <2>1, <2>2, <3>1, PartsOfAppend
  <2>5. CASE m # <<>>
    <3>1. Parts(s \o m) = Append(Parts(s), m)
      BY <1>2, <2>1, <2>5
    <3>2. s \o m # <<>> /\ Last(s \o m) # Slash
      <4>1. Len(s) \in Nat /\ Len(m) \in Nat \ {0} /\ Len(s \o m) = Len(s) + Len(m)
        BY <2>5, EmptySeq, ConcatProperties
      <4>2. Last(s \o m) = m[Len(m)]
        BY <4>1, ConcatProperties DEF Last
      <4> QED
        BY <2>1, <2>5, <4>1, <4>2, ConcatEqualIffEmpty DEF Contains
    <3>3. Front(Append(Parts(s), m)) = Parts(s) /\ Last(Append(Parts(s), m)) = m
      BY <2>3, LastOfAppend
    <3>4. Parts(Append(s \o m, c)) = Append(Front(Parts(s \o m)), Append(Last(Parts(s \o m)), c))
      BY <2>1, <2>2, <3>2, PartsOfAppend
    <3> QED
      BY <2>2, <3>1, <3>3, <3>4
  <2> QED
    BY <2>4, <2>5
<1>3. Seq(A) \subseteq S
  <2> HIDE DEF S
  <2> QED
    BY <1>1, <1>2, StringInduction
<1> QED
  BY <1>3

---------------------------------------------------------------------------
(* The address of a path *)

JoinStep(before, path, i) == before \o <<Slash>> \o path[i]

JoinedUpTo(f, path, n) == f = [i \in 0..n |-> IF i = 0 THEN <<>> ELSE JoinStep(f[i - 1], path, i)]

\* The recursion of JoinPath has a solution ...
LEMMA JoinedExist ==
    ASSUME NEW path
    PROVE  \A n \in Nat : \E f : JoinedUpTo(f, path, n)
<1> DEFINE S == {n \in Nat : \E f : JoinedUpTo(f, path, n)}
<1>1. 0 \in S
  <2>1. JoinedUpTo([i \in 0..0 |-> <<>>], path, 0)
    BY DEF JoinedUpTo
  <2> QED
    BY <2>1
<1>2. ASSUME NEW n \in Nat, n \in S PROVE n + 1 \in S
  <2>1. PICK f : JoinedUpTo(f, path, n)
    BY <1>2
  <2> DEFINE g == [i \in 0..(n + 1) |-> IF i = 0 THEN <<>> ELSE JoinStep(f[i - 1], path, i)]
  <2>2. \A i \in 0..n : g[i] = f[i]
    BY <2>1 DEF JoinedUpTo
  <2>3. g = [i \in 0..(n + 1) |-> IF i = 0 THEN <<>> ELSE JoinStep(g[i - 1], path, i)]
    <3>1. ASSUME NEW i \in 0..(n + 1), i # 0 PROVE f[i - 1] = g[i - 1]
      <4>1. i - 1 \in 0..n
        BY <3>1
      <4> HIDE DEF g
      <4> QED
        BY <4>1, <2>2
    <3> QED
      BY <3>1
  <2>4. JoinedUpTo(g, path, n + 1)
    BY <2>3 DEF JoinedUpTo
  <2> QED
    BY <2>4
<1>3. Nat \subseteq S
  <2> HIDE DEF S
  <2> QED
    BY <1>1, <1>2, Induction
<1> QED
  BY <1>3

\* ... and paths that begin alike have the same address up to there.
LEMMA JoinedUnique ==
    ASSUME NEW p, NEW q, NEW m \in Nat, NEW n \in Nat, m <= n, NEW f, NEW g,
           \A i \in 1..m : p[i] = q[i],
           JoinedUpTo(f, p, m), JoinedUpTo(g, q, n)
    PROVE  f[m] = g[m]
<1> DEFINE S == {i \in Nat : i <= m => f[i] = g[i]}
<1>1. 0 \in S
  BY DEF JoinedUpTo
<1>2. ASSUME NEW i \in Nat, i \in S PROVE i + 1 \in S
  <2> SUFFICES ASSUME i + 1 <= m PROVE f[i + 1] = g[i + 1]
    OBVIOUS
  <2>1. f[i] = g[i] /\ p[i + 1] = q[i + 1]
    BY <1>2
  <2>2. f[i + 1] = JoinStep(f[i], p, i + 1) /\ g[i + 1] = JoinStep(g[i], q, i + 1)
    BY DEF JoinedUpTo
  <2> QED
    BY <2>1, <2>2 DEF JoinStep
<1>3. Nat \subseteq S
  <2> HIDE DEF S
  <2> QED
    BY <1>1, <1>2, Induction
<1> QED
  BY <1>3

\* Hence JoinPath is any solution.
LEMMA JoinPathIs ==
    ASSUME NEW p, NEW f, Len(p) \in Nat, JoinedUpTo(f, p, Len(p))
    PROVE  JoinPath(p) = f[Len(p)]
<1> DEFINE joined == CHOOSE g : JoinedUpTo(g, p, Len(p))
<1>1. JoinedUpTo(joined, p, Len(p))
  BY JoinedExist
<1>2. JoinPath(p) = joined[Len(p)]
  BY DEF JoinPath, JoinedUpTo, JoinStep
<1> HIDE DEF joined
<1>3. joined[Len(p)] = f[Len(p)]
  BY <1>1, JoinedUnique
<1> QED
  BY <1>2, <1>3

\* One name more: it follows a slash.
LEMMA JoinPathSteps ==
    /\ JoinPath(<<>>) = <<>>
    /\ \A p \in Seq(Names) : \A n \in Names :
          JoinPath(Append(p, n)) = JoinPath(p) \o <<Slash>> \o n
<1>1. JoinPath(<<>>) = <<>>
  <2>1. JoinedUpTo([i \in 0..0 |-> <<>>], <<>>, 0)
    BY DEF JoinedUpTo
  <2> QED
    BY <2>1, JoinPathIs
<1>2. ASSUME NEW p \in Seq(Names), NEW n \in Names
      PROVE  JoinPath(Append(p, n)) = JoinPath(p) \o <<Slash>> \o n
  <2> DEFINE q == Append(p, n)
             k == Len(p)
  <2>1. k \in Nat /\ k + 1 \in Nat /\ Len(q) = k + 1 /\ q[k + 1] = n /\ \A i \in 1..k : p[i] = q[i]
    BY AppendProperties, LenProperties
  <2>2. PICK f : JoinedUpTo(f, p, k)
    BY <2>1, JoinedExist
  <2>3. PICK g : JoinedUpTo(g, q, k + 1)
    BY <2>1, JoinedExist
  <2> HIDE DEF q
  <2>4. JoinPath(p) = f[k] /\ JoinPath(q) = g[k + 1]
    BY <2>1, <2>2, <2>3, JoinPathIs
  <2> HIDE DEF k
  <2> DEFINE h == [i \in 0..k |-> g[i]]
  <2>5. JoinedUpTo(h, q, k)
    <3>1. \A i \in 0..(k + 1) : g[i] = IF i = 0 THEN <<>> ELSE JoinStep(g[i - 1], q, i)
      BY <2>3 DEF JoinedUpTo
    <3>2. ASSUME NEW i \in 0..k
          PROVE  g[i] = IF i = 0 THEN <<>> ELSE JoinStep(h[i - 1], q, i)
      <4>1. i \in 0..(k + 1) /\ (i # 0 => i - 1 \in 0..k)
        BY <2>1
      <4>2. i # 0 => h[i - 1] = g[i - 1]
        BY <4>1
      <4> QED
        BY <3>1, <4>1, <4>2
    <3>3. h = [i \in 0..k |-> IF i = 0 THEN <<>> ELSE JoinStep(h[i - 1], q, i)]
      BY <3>2
    <3> QED
      BY <3>3 DEF JoinedUpTo
  <2>6. h[k] = g[k]
    BY <2>1
  <2> HIDE DEF h
  <2>7. f[k] = h[k]
    BY <2>1, <2>2, <2>5, JoinedUnique
  <2>8. g[k + 1] = JoinStep(g[k], q, k + 1)
    BY <2>1, <2>3 DEF JoinedUpTo
  <2> QED
    BY <2>1, <2>4, <2>6, <2>7, <2>8 DEF q, JoinStep
<1> QED
  BY <1>1, <1>2

---------------------------------------------------------------------------
(* Characters and strings *)

\* Every character there may be, however often encoded, and the strings over
\* them.
Letter  == [sym : Symbols, esc : Nat]
Text == Seq(Letter)

\* What the assumptions on the constants say of names.
LEMMA NamesAreText ==
    /\ Slash \in Letter /\ Bang \in Letter /\ Slash # Bang
    /\ \A n \in Names : n \in Text /\ n # <<>> /\ ~Contains(n, Slash)
    /\ \A n \in MemberNames : n \in Text /\ n # <<>> /\ Last(n) # Slash
<1>1. Characters \subseteq Letter
  BY EscAssumption DEF Characters, Letter
<1>2. Slash \in Letter /\ Bang \in Letter /\ Slash # Bang
  BY DEF Slash, Bang, Plain, Letter, Symbols
<1>3. \A n \in Seq(Characters) : n \in Text
  BY <1>1, SeqMonotonic DEF Text
<1> QED
  BY <1>2, <1>3, NamesAssumption, MembersAssumption

\* A character is in a concatenation if it is in one of the strings.
LEMMA ContainsIn ==
    ASSUME NEW A, NEW s \in Seq(A), NEW t \in Seq(A), NEW c
    PROVE  Contains(s \o t, c) <=> Contains(s, c) \/ Contains(t, c)
<1>1. Len(s) \in Nat /\ Len(t) \in Nat /\ Len(s \o t) = Len(s) + Len(t)
      /\ \A i \in 1..Len(s) + Len(t) : (s \o t)[i] = IF i <= Len(s) THEN s[i] ELSE t[i - Len(s)]
  BY ConcatProperties, LenProperties
<1>2. ASSUME Contains(s \o t, c) PROVE Contains(s, c) \/ Contains(t, c)
  <2>1. PICK i \in 1..Len(s) + Len(t) : (s \o t)[i] = c
    BY <1>1, <1>2 DEF Contains
  <2>2. CASE i <= Len(s)
    BY <1>1, <2>1, <2>2 DEF Contains
  <2>3. CASE ~(i <= Len(s))
    <3>1. i - Len(s) \in 1..Len(t) /\ t[i - Len(s)] = c
      BY <1>1, <2>1, <2>3
    <3> QED
      BY <3>1 DEF Contains
  <2> QED
    BY <2>2, <2>3
<1>3. ASSUME Contains(s, c) PROVE Contains(s \o t, c)
  <2>1. PICK i \in 1..Len(s) : s[i] = c
    BY <1>3 DEF Contains
  <2>2. i \in 1..Len(s) + Len(t) /\ (s \o t)[i] = c
    BY <1>1, <2>1
  <2> QED
    BY <1>1, <2>2 DEF Contains
<1>4. ASSUME Contains(t, c) PROVE Contains(s \o t, c)
  <2>1. PICK i \in 1..Len(t) : t[i] = c
    BY <1>4 DEF Contains
  <2>2. Len(s) + i \in 1..Len(s) + Len(t) /\ ~(Len(s) + i <= Len(s)) /\ (Len(s) + i) - Len(s) = i
    BY <1>1, <2>1
  <2>3. (s \o t)[Len(s) + i] = c
    BY <1>1, <2>1, <2>2
  <2> QED
    BY <1>1, <2>2, <2>3 DEF Contains
<1> QED
  BY <1>2, <1>3, <1>4

LEMMA ContainsOne == \A c, d : Contains(<<d>>, c) <=> c = d
BY DEF Contains

Exclaimed(path) == \E i \in 1..Len(path) : Contains(path[i], Bang)

\* A path has a "!" in a name if the rest of it has or its last name.
LEMMA ExclaimedAppend ==
    ASSUME NEW p \in Seq(Text), NEW n \in Text
    PROVE  Exclaimed(Append(p, n)) <=> Exclaimed(p) \/ Contains(n, Bang)
<1> DEFINE q == Append(p, n)
<1>1. Len(p) \in Nat /\ Len(q) = Len(p) + 1 /\ q[Len(p) + 1] = n /\ \A i \in 1..Len(p) : q[i] = p[i]
  BY AppendProperties, LenProperties
<1> HIDE DEF q
<1>2. \A i : i \in 1..Len(q) <=> i \in 1..Len(p) \/ i = Len(p) + 1
  BY <1>1
<1>3. Exclaimed(q) <=> Exclaimed(p) \/ Contains(n, Bang)
  BY <1>1, <1>2 DEF Exclaimed
<1> QED
  BY <1>3 DEF q

LEMMA NamesPath == \A p \in Seq(Names) : p \in Seq(Text)
BY NamesAreText, SeqMonotonic

\* The address of a path has its names as components, and a "!" if one has it.
LEMMA JoinPathFacts ==
    ASSUME NEW p \in Seq(Names)
    PROVE  /\ JoinPath(p) \in Text /\ Parts(JoinPath(p)) = p
           /\ Contains(JoinPath(p), Bang) <=> Exclaimed(p)
<1> DEFINE S == {q \in Seq(Names) : /\ JoinPath(q) \in Text /\ Parts(JoinPath(q)) = q
                                    /\ Contains(JoinPath(q), Bang) <=> Exclaimed(q)}
<1>1. <<>> \in S
  <2>1. <<>> \in Text /\ ~Contains(<<>>, Bang) /\ ~Exclaimed(<<>>) /\ <<>> \in Seq(Names)
    BY EmptySeq DEF Contains, Exclaimed, Text
  <2> QED
    BY <2>1, JoinPathSteps, PartsOfNothing
<1>2. ASSUME NEW q \in Seq(Names), NEW n \in Names, q \in S PROVE Append(q, n) \in S
  <2> DEFINE s == JoinPath(q)
             t == s \o <<Slash>>
  <2>1. /\ s \in Seq(Letter) /\ n \in Seq(Letter) /\ Slash \in Letter /\ <<Slash>> \in Seq(Letter)
        /\ n # <<>> /\ ~Contains(n, Slash)
    BY <1>2, NamesAreText DEF Text
  <2>2. Parts(s) = q /\ (Contains(s, Bang) <=> Exclaimed(q)) /\ JoinPath(Append(q, n)) = t \o n
    BY <1>2, JoinPathSteps
  <2> HIDE DEF s
  <2>3. t \in Seq(Letter) /\ Last(t) = Slash
    <3>1. t = Append(s, Slash) /\ Append(s, Slash) \in Seq(Letter)
      BY <2>1, AppendIsConcat, AppendProperties
    <3>2. Last(Append(s, Slash)) = Slash
      BY <2>1, LastOfAppend
    <3> QED
      BY <3>1, <3>2
  <2>4. Parts(t) = q
    <3>1. <<Slash>> \in Seq({Slash})
      OBVIOUS
    <3> QED
      BY <2>1, <2>2, <3>1, PartsOfSlashes
  <2>5. Contains(t, Bang) <=> Exclaimed(q)
    BY <2>1, <2>2, ContainsIn, ContainsOne, NamesAreText
  <2> HIDE DEF t
  <2>6. Parts(t \o n) = Append(q, n)
    BY <2>1, <2>3, <2>4, PartsOfName
  <2>7. t \o n \in Seq(Letter) /\ (Contains(t \o n, Bang) <=> Contains(t, Bang) \/ Contains(n, Bang))
    BY <2>1, <2>3, ConcatProperties, ContainsIn
  <2>8. Append(q, n) \in Seq(Names) /\ (Exclaimed(Append(q, n)) <=> Exclaimed(q) \/ Contains(n, Bang))
    <3>1. q \in Seq(Text) /\ n \in Text
      BY NamesPath, NamesAreText
    <3> QED
      BY <3>1, ExclaimedAppend, AppendProperties
  <2> QED
    BY <2>2, <2>5, <2>6, <2>7, <2>8 DEF Text
<1>3. Seq(Names) \subseteq S
  <2> HIDE DEF S
  <2> QED
    BY <1>1, <1>2, StringInduction
<1> QED
  BY <1>3

---------------------------------------------------------------------------
(* Percent-encoding *)

\* Encoding a character and decoding it.
LEMMA Encoded ==
    ASSUME NEW c \in Letter
    PROVE  /\ [c EXCEPT !.esc = @ + 1] \in Letter /\ [c EXCEPT !.esc = @ + 1].esc # 0
           /\ [[c EXCEPT !.esc = @ + 1] EXCEPT !.esc = @ - 1] = c
           /\ c.esc # 0 => [c EXCEPT !.esc = @ - 1] \in Letter /\ [c EXCEPT !.esc = @ - 1] # c
<1> DEFINE enc == [c EXCEPT !.esc = @ + 1]
<1>1. PICK x \in Symbols, n \in Nat : c = [sym |-> x, esc |-> n]
  BY DEF Letter
<1>2. enc = [sym |-> x, esc |-> n + 1]
  BY <1>1
<1>3. [c EXCEPT !.esc = @ - 1] = [sym |-> x, esc |-> n - 1]
  BY <1>1
<1>4. (n + 1) - 1 = n /\ n + 1 \in Nat /\ n + 1 # 0 /\ (n # 0 => n - 1 \in Nat /\ n - 1 # n)
  OBVIOUS
<1> HIDE DEF enc
<1>5. [enc EXCEPT !.esc = @ - 1] = c
  BY <1>1, <1>2, <1>4
<1>6. enc \in Letter /\ enc.esc # 0
  BY <1>2, <1>4 DEF Letter
<1>7. c.esc # 0 => [c EXCEPT !.esc = @ - 1] \in Letter /\ [c EXCEPT !.esc = @ - 1] # c
  BY <1>1, <1>3, <1>4 DEF Letter
<1> QED
  BY <1>5, <1>6, <1>7 DEF enc

\* unquote() undoes quote(), whatever the string.
LEMMA QuoteFacts ==
    ASSUME NEW s \in Text
    PROVE  Quote(s) \in Text /\ Unquote(Quote(s)) = s
<1>1. Len(s) \in Nat /\ DOMAIN s = 1..Len(s) /\ \A i \in 1..Len(s) : s[i] \in Letter
  BY LenProperties, ElementOfSeq DEF Text
<1> DEFINE q == Quote(s)
<1>3. DOMAIN q = 1..Len(s) /\ \A i \in 1..Len(s) :
          q[i] = IF s[i].esc = 0 /\ s[i] # Bang THEN s[i] ELSE [s[i] EXCEPT !.esc = @ + 1]
  BY <1>1 DEF Quote
<1>4. q \in Text
  <2> HIDE DEF q
  <2>1. ASSUME NEW i \in 1..Len(s) PROVE q[i] \in Letter
    <3>1. s[i] \in Letter /\ [s[i] EXCEPT !.esc = @ + 1] \in Letter
      BY <1>1, Encoded
    <3> QED
      BY <1>3, <3>1
  <2>2. q = [i \in 1..Len(s) |-> q[i]]
    BY <1>1 DEF q, Quote
  <2>3. q \in [1..Len(s) -> Letter]
    BY <2>1, <2>2
  <2> QED
    BY <1>1, <2>3 DEF Text
<1>5. Unquote(q) = s
  <2>1. DOMAIN Unquote(q) = 1..Len(s) /\ \A i \in 1..Len(s) :
            Unquote(q)[i] = IF q[i].esc = 0 THEN q[i] ELSE [q[i] EXCEPT !.esc = @ - 1]
    BY <1>3 DEF Unquote
  <2>2. ASSUME NEW i \in 1..Len(s) PROVE Unquote(q)[i] = s[i]
    <3> HIDE DEF q
    <3>1. CASE s[i].esc = 0 /\ s[i] # Bang
      BY <1>3, <2>1, <3>1
    <3>2. CASE ~(s[i].esc = 0 /\ s[i] # Bang)
      <4>1. q[i] = [s[i] EXCEPT !.esc = @ + 1] /\ s[i] \in Letter
        BY <1>1, <1>3, <3>2
      <4>2. q[i].esc # 0 /\ [q[i] EXCEPT !.esc = @ - 1] = s[i]
        BY <4>1, Encoded
      <4> QED
        BY <2>1, <4>2
    <3> QED
      BY <3>1, <3>2
  <2>3. Unquote(q) = [i \in 1..Len(s) |-> Unquote(q)[i]]
    BY <1>3 DEF Unquote
  <2>4. s = [i \in 1..Len(s) |-> s[i]]
    BY LenProperties DEF Text
  <2> HIDE DEF q
  <2> QED
    BY <2>2, <2>3, <2>4
<1> QED
  BY <1>4, <1>5

\* unquote() changes exactly the strings with an encoded character.
LEMMA UnquoteTyped ==
    ASSUME NEW s \in Text
    PROVE  /\ Unquote(s) \in Text /\ Len(Unquote(s)) = Len(s)
           /\ \A i \in 1..Len(s) : Unquote(s)[i] = IF s[i].esc = 0 THEN s[i] ELSE [s[i] EXCEPT !.esc = @ - 1]
           /\ Unquote(s) = s <=> \A i \in 1..Len(s) : s[i].esc = 0
<1>1. Len(s) \in Nat /\ DOMAIN s = 1..Len(s) /\ \A i \in 1..Len(s) : s[i] \in Letter
  BY LenProperties, ElementOfSeq DEF Text
<1> DEFINE u == Unquote(s)
<1>3. u = [i \in 1..Len(s) |-> IF s[i].esc = 0 THEN s[i] ELSE [s[i] EXCEPT !.esc = @ - 1]]
  BY <1>1 DEF Unquote
<1> HIDE DEF u
<1>4. u \in [1..Len(s) -> Letter]
  BY <1>1, <1>3, Encoded
<1>5. u \in Text /\ Len(u) = Len(s)
  BY <1>1, <1>4 DEF Text
<1>6. u = s <=> \A i \in 1..Len(s) : s[i].esc = 0
  <2>1. ASSUME \A i \in 1..Len(s) : s[i].esc = 0 PROVE u = s
    <3>1. \A i \in 1..Len(s) : u[i] = s[i]
      BY <1>3, <2>1
    <3> QED
      BY <1>5, <3>1, SeqEqual DEF Text
  <2>2. ASSUME NEW i \in 1..Len(s), s[i].esc # 0 PROVE u # s
    <3>1. u[i] = [s[i] EXCEPT !.esc = @ - 1]
      BY <1>3, <2>2
    <3>2. u[i] # s[i]
      BY <1>1, <2>2, <3>1, Encoded
    <3> QED
      BY <3>2
  <2> QED
    BY <2>1, <2>2
<1> QED
  BY <1>3, <1>5, <1>6 DEF u

\* unquote() of two strings is that of each.
LEMMA UnquoteConcat ==
    ASSUME NEW s \in Text, NEW t \in Text
    PROVE  Unquote(s \o t) = Unquote(s) \o Unquote(t)
<1>1. /\ Len(s) \in Nat /\ Len(t) \in Nat /\ Len(s \o t) = Len(s) + Len(t) /\ s \o t \in Text
      /\ \A i \in 1..Len(s) + Len(t) : (s \o t)[i] = IF i <= Len(s) THEN s[i] ELSE t[i - Len(s)]
  BY ConcatProperties, LenProperties DEF Text
<1> DEFINE u == Unquote(s)
           v == Unquote(t)
           w == Unquote(s \o t)
<1>2. u \in Text /\ v \in Text /\ w \in Text /\ Len(u) = Len(s) /\ Len(v) = Len(t) /\ Len(w) = Len(s \o t)
  BY <1>1, UnquoteTyped
<1>3. /\ u \o v \in Text /\ Len(u \o v) = Len(s) + Len(t)
      /\ \A i \in 1..Len(s) + Len(t) : (u \o v)[i] = IF i <= Len(s) THEN u[i] ELSE v[i - Len(s)]
  <2> HIDE DEF u, v
  <2> QED
    BY <1>2, ConcatProperties DEF Text
<1>4. ASSUME NEW i \in 1..Len(s) + Len(t) PROVE w[i] = (u \o v)[i]
  <2> DEFINE c == (s \o t)[i]
  <2>1. w[i] = IF c.esc = 0 THEN c ELSE [c EXCEPT !.esc = @ - 1]
    BY <1>1, UnquoteTyped
  <2>2. CASE i <= Len(s)
    <3>1. i \in 1..Len(s) /\ c = s[i]
      BY <1>1, <2>2
    <3>2. u[i] = IF s[i].esc = 0 THEN s[i] ELSE [s[i] EXCEPT !.esc = @ - 1]
      BY <3>1, UnquoteTyped
    <3> HIDE DEF u, v, w, c
    <3> QED
      BY <1>3, <2>1, <2>2, <3>1, <3>2
  <2>3. CASE ~(i <= Len(s))
    <3>1. i - Len(s) \in 1..Len(t) /\ c = t[i - Len(s)]
      BY <1>1, <2>3
    <3>2. v[i - Len(s)] = IF t[i - Len(s)].esc = 0 THEN t[i - Len(s)]
                          ELSE [t[i - Len(s)] EXCEPT !.esc = @ - 1]
      BY <3>1, UnquoteTyped
    <3> HIDE DEF u, v, w, c
    <3> QED
      BY <1>3, <2>1, <2>3, <3>1, <3>2
  <2> QED
    BY <2>2, <2>3
<1> HIDE DEF u, v, w
<1>5. w = u \o v
  BY <1>1, <1>2, <1>3, <1>4, SeqEqual DEF Text
<1> QED
  BY <1>5 DEF u, v, w

---------------------------------------------------------------------------
(* Where addresses are cut *)

\* Every string is what is before a place in it and what is from there on.
LEMMA Cut ==
    ASSUME NEW A, NEW s \in Seq(A), NEW k \in 0..Len(s)
    PROVE  /\ s = SubSeq(s, 1, k) \o SubSeq(s, k + 1, Len(s))
           /\ SubSeq(s, 1, k) \in Seq(A) /\ Len(SubSeq(s, 1, k)) = k
           /\ \A i \in 1..k : SubSeq(s, 1, k)[i] = s[i]
           /\ SubSeq(s, k + 1, Len(s)) \in Seq(A) /\ Len(SubSeq(s, k + 1, Len(s))) = Len(s) - k
           /\ \A i \in 1..(Len(s) - k) : SubSeq(s, k + 1, Len(s))[i] = s[k + i]
<1>1. Len(s) \in Nat /\ k \in Nat /\ k <= Len(s) /\ \A i \in 1..Len(s) : s[i] \in A
  BY LenProperties, ElementOfSeq
<1>2. SubSeq(s, 1, k) \o SubSeq(s, k + 1, Len(s)) = SubSeq(s, 1, Len(s))
  <2>1. 1 \in 1..Len(s) + 1 /\ k \in (1 - 1)..Len(s) /\ Len(s) \in k..Len(s)
    BY <1>1
  <2> QED
    BY <2>1, ConcatAdjacentSubSeq
<1>3. SubSeq(s, 1, Len(s)) = s
  BY SubSeqFull
<1>4. /\ SubSeq(s, 1, k) \in Seq(A) /\ Len(SubSeq(s, 1, k)) = k
      /\ \A i \in 1..k : SubSeq(s, 1, k)[i] = s[i]
  <2>1. \A i \in 1..k : s[i] \in A
    BY <1>1
  <2>2. /\ SubSeq(s, 1, k) \in Seq(A) /\ Len(SubSeq(s, 1, k)) = IF 1 <= k THEN k - 1 + 1 ELSE 0
        /\ \A i \in 1..(k - 1 + 1) : SubSeq(s, 1, k)[i] = s[1 + i - 1]
    BY <1>1, <2>1, SubSeqProperties
  <2> QED
    BY <1>1, <2>2
<1>5. /\ SubSeq(s, k + 1, Len(s)) \in Seq(A) /\ Len(SubSeq(s, k + 1, Len(s))) = Len(s) - k
      /\ \A i \in 1..(Len(s) - k) : SubSeq(s, k + 1, Len(s))[i] = s[k + i]
  <2>1. k + 1 \in Int /\ Len(s) \in Int /\ \A i \in (k + 1)..Len(s) : s[i] \in A
    BY <1>1
  <2>2. /\ SubSeq(s, k + 1, Len(s)) \in Seq(A)
        /\ Len(SubSeq(s, k + 1, Len(s))) = IF k + 1 <= Len(s) THEN Len(s) - (k + 1) + 1 ELSE 0
        /\ \A i \in 1..(Len(s) - (k + 1) + 1) : SubSeq(s, k + 1, Len(s))[i] = s[(k + 1) + i - 1]
    BY <2>1, SubSeqProperties
  <2>3. \A i \in Int : (k + 1) + i - 1 = k + i
    BY <1>1
  <2> QED
    BY <1>1, <2>2, <2>3
<1> QED
  BY <1>2, <1>3, <1>4, <1>5

\* Of the places in a string that have a property, one is the first and one the
\* last.
LEMMA FirstAndLast ==
    ASSUME NEW n \in Nat, NEW T \in SUBSET (1..n), T # {}
    PROVE  /\ Min(T) \in T /\ \A j \in T : Min(T) <= j
           /\ Max(T) \in T /\ \A j \in T : Max(T) >= j
<1>1. \A U \in SUBSET Nat : U # {} => \E i \in U : \A j \in U : i <= j
  <2> SUFFICES ASSUME NEW U \in SUBSET Nat, U # {} PROVE \E i \in U : \A j \in U : i <= j
    OBVIOUS
  <2>1. U \subseteq Nat
    OBVIOUS
  <2>2. \E i \in U : \A j \in U : <<j, i>> \notin OpToRel(<, Nat)
    BY <2>1, WFMin, NatLessThanWellFounded
  <2>3. PICK i \in U : \A j \in U : ~(j < i)
    BY <2>2 DEF OpToRel
  <2>4. \A j \in U : i <= j
    BY <2>3
  <2> QED
    BY <2>4
<1>2. \E i \in T : \A j \in T : i <= j
  BY <1>1
<1>3. \E i \in T : \A j \in T : i >= j
  <2> DEFINE U == {n - j : j \in T}
  <2>1. U # {} /\ U \in SUBSET Nat
    <3>1. \A j \in T : n - j \in Nat
      OBVIOUS
    <3> QED
      BY <3>1
  <2>2. PICK i \in U : \A j \in U : i <= j
    <3> HIDE DEF U
    <3> QED
      BY <1>1, <2>1
  <2>3. PICK k \in T : i = n - k
    BY <2>2
  <2>4. ASSUME NEW j \in T PROVE k >= j
    <3>1. n - j \in U
      OBVIOUS
    <3>2. n - k <= n - j
      <4> HIDE DEF U
      <4> QED
        BY <2>2, <2>3, <3>1
    <3>3. j \in Nat /\ k \in Nat
      OBVIOUS
    <3> QED
      BY <3>2, <3>3
  <2> QED
    BY <2>4
<1> QED
  BY <1>2, <1>3 DEF Min, Max

\* lstrip("/") and rstrip("/") take slashes away, and all of them.
LEMMA StripFacts ==
    ASSUME NEW s \in Text
    PROVE  /\ LStrip(s) \in Text /\ \E u \in Seq({Slash}) : s = u \o LStrip(s)
           /\ RStrip(s) \in Text /\ \E u \in Seq({Slash}) : s = RStrip(s) \o u
           /\ RStrip(s) = <<>> \/ Last(RStrip(s)) # Slash
<1> DEFINE T == {i \in DOMAIN s : s[i] # Slash}
<1>1. Len(s) \in Nat /\ DOMAIN s = 1..Len(s) /\ s \in Seq(Letter) /\ <<>> \in Text
  BY LenProperties, EmptySeq DEF Text
<1>2. CASE T = {}
  <2>1. LStrip(s) = <<>> /\ RStrip(s) = <<>>
    BY <1>2 DEF LStrip, RStrip
  <2>2. s \in Seq({Slash}) /\ <<>> \o s = s
    <3>1. s = [i \in 1..Len(s) |-> s[i]] /\ \A i \in 1..Len(s) : s[i] \in {Slash}
      BY <1>1, <1>2, LenProperties DEF Text
    <3>2. s \in [1..Len(s) -> {Slash}]
      BY <3>1
    <3> QED
      BY <1>1, <3>2, ConcatEmptySeq
  <2> QED
    BY <1>1, <2>1, <2>2
<1>3. CASE T # {}
  <2> DEFINE lo == Min(T)
             hi == Max(T)
  <2>1. lo \in T /\ hi \in T /\ (\A j \in T : lo <= j) /\ \A j \in T : hi >= j
    <3>1. T \in SUBSET (1..Len(s))
      BY <1>1
    <3> HIDE DEF T
    <3> QED
      BY <1>1, <1>3, <3>1, FirstAndLast
  <2>2. LStrip(s) = SubSeq(s, lo, Len(s)) /\ RStrip(s) = SubSeq(s, 1, hi)
    BY <1>3 DEF LStrip, RStrip
  <2>3. lo \in 1..Len(s) /\ hi \in 1..Len(s) /\ s[hi] # Slash
    BY <1>1, <2>1
  <2>4. /\ \A i \in 1..Len(s) : i < lo => s[i] = Slash
        /\ \A i \in 1..Len(s) : i > hi => s[i] = Slash
    <3>1. ASSUME NEW i \in 1..Len(s), s[i] # Slash PROVE lo <= i /\ hi >= i
      <4>1. i \in T
        BY <1>1, <3>1
      <4> QED
        BY <2>1, <4>1
    <3> HIDE DEF lo, hi
    <3> QED
      BY <1>1, <2>3, <3>1
  <2> HIDE DEF lo, hi
  <2>5. LStrip(s) \in Text /\ \E u \in Seq({Slash}) : s = u \o LStrip(s)
    <3> DEFINE k == lo - 1
               u == SubSeq(s, 1, k)
               l == SubSeq(s, k + 1, Len(s))
    <3>1. k \in 0..Len(s) /\ k + 1 = lo
      BY <1>1, <2>3
    <3>2. s = u \o l /\ l \in Seq(Letter) /\ u \in Seq(Letter) /\ Len(u) = k /\ \A i \in 1..k : u[i] = s[i]
      BY <1>1, <3>1, Cut, ZenonT(40)
    <3>3. LStrip(s) = l
      BY <2>2, <3>1
    <3> HIDE DEF u, l
    <3>4. u \in Seq({Slash})
      <4>1. \A i \in 1..k : u[i] = Slash
        BY <1>1, <2>3, <2>4, <3>1, <3>2
      <4>2. u \in [1..k -> {Slash}]
        <5>1. u = [i \in 1..k |-> u[i]]
          BY <3>2, LenProperties
        <5> QED
          BY <4>1, <5>1
      <4> QED
        BY <3>1, <4>2
    <3> QED
      BY <3>2, <3>3, <3>4 DEF Text
  <2>6. /\ RStrip(s) \in Text /\ \E u \in Seq({Slash}) : s = RStrip(s) \o u
        /\ Last(RStrip(s)) # Slash
    <3> DEFINE r == SubSeq(s, 1, hi)
               u == SubSeq(s, hi + 1, Len(s))
    <3>1. hi \in 0..Len(s)
      BY <1>1, <2>3
    <3>2. /\ s = r \o u /\ r \in Seq(Letter) /\ Len(r) = hi /\ (\A i \in 1..hi : r[i] = s[i])
          /\ u \in Seq(Letter) /\ Len(u) = Len(s) - hi /\ \A i \in 1..(Len(s) - hi) : u[i] = s[hi + i]
      BY <1>1, <3>1, Cut, ZenonT(40)
    <3> HIDE DEF r, u
    <3>3. u \in Seq({Slash})
      <4>1. \A i \in 1..(Len(s) - hi) : u[i] = Slash
        BY <1>1, <2>3, <2>4, <3>2
      <4>2. u \in [1..(Len(s) - hi) -> {Slash}]
        <5>1. u = [i \in 1..(Len(s) - hi) |-> u[i]]
          BY <3>2, LenProperties
        <5> QED
          BY <4>1, <5>1
      <4>3. Len(s) - hi \in Nat
        BY <1>1, <3>1
      <4> QED
        BY <4>2, <4>3
    <3>4. Last(r) # Slash
      BY <2>3, <3>2 DEF Last
    <3> QED
      BY <2>2, <3>2, <3>3, <3>4 DEF Text, r
  <2> QED
    BY <2>5, <2>6
<1> QED
  BY <1>2, <1>3

\* Slashes are no "!".
LEMMA NoBangInSlashes ==
    \A u \in Seq({Slash}) : u \in Text /\ ~Contains(u, Bang)
<1> SUFFICES ASSUME NEW u \in Seq({Slash}) PROVE u \in Text /\ ~Contains(u, Bang)
  OBVIOUS
<1>1. u \in Text
  BY NamesAreText, SeqMonotonic DEF Text
<1>2. \A i \in 1..Len(u) : u[i] = Slash
  BY ElementOfSeq
<1> QED
  BY <1>1, <1>2, NamesAreText DEF Contains

\* Taking the slashes before or behind an address away changes neither its
\* components nor whether there is a "!"; without any it stays as it is.
LEMMA StripKeeps ==
    ASSUME NEW s \in Text
    PROVE  /\ Parts(LStrip(s)) = Parts(s) /\ (Contains(LStrip(s), Bang) <=> Contains(s, Bang))
           /\ Parts(RStrip(s)) = Parts(s) /\ (Contains(RStrip(s), Bang) <=> Contains(s, Bang))
           /\ s = <<>> \/ Last(s) # Slash => RStrip(s) = s
<1>1. PICK u \in Seq({Slash}) : s = u \o LStrip(s)
  BY StripFacts
<1>2. PICK v \in Seq({Slash}) : s = RStrip(s) \o v
  BY StripFacts
<1> DEFINE l == LStrip(s)
           r == RStrip(s)
<1>3. l \in Seq(Letter) /\ r \in Seq(Letter) /\ u \in Seq(Letter) /\ v \in Seq(Letter)
      /\ ~Contains(u, Bang) /\ ~Contains(v, Bang) /\ Slash \in Letter
  BY StripFacts, NoBangInSlashes, NamesAreText DEF Text
<1> HIDE DEF l, r
<1>4. Parts(u \o l) = Parts(l) /\ Parts(r \o v) = Parts(r)
  BY <1>3, PartsOfSlashes
<1>5. Contains(u \o l, Bang) <=> Contains(l, Bang)
  BY <1>3, ContainsIn
<1>6. Contains(r \o v, Bang) <=> Contains(r, Bang)
  BY <1>3, ContainsIn
<1>7. ASSUME s = <<>> \/ Last(s) # Slash PROVE r = s
  <2>1. v = <<>>
    <3> SUFFICES ASSUME v # <<>> PROVE FALSE
      OBVIOUS
    <3>1. Len(r) \in Nat /\ Len(v) \in Nat \ {0} /\ Len(r \o v) = Len(r) + Len(v)
          /\ \A i \in 1..Len(r) + Len(v) : (r \o v)[i] = IF i <= Len(r) THEN r[i] ELSE v[i - Len(r)]
      BY <1>3, EmptySeq, LenProperties, ConcatProperties
    <3>2. Last(r \o v) = v[Len(v)]
      BY <3>1 DEF Last
    <3>3. v[Len(v)] = Slash
      BY <3>1, ElementOfSeq
    <3>4. s = r \o v
      BY <1>2 DEF r
    <3>5. r \o v # <<>>
      BY <1>3, ConcatEqualIffEmpty
    <3> QED
      BY <1>7, <3>2, <3>3, <3>4, <3>5
  <2> QED
    BY <1>2, <1>3, <2>1, ConcatEmptySeq DEF r
<1> QED
  BY <1>1, <1>2, <1>4, <1>5, <1>6, <1>7 DEF l, r

---------------------------------------------------------------------------
(* What an address ends in *)

Word(mode) == Plain(SUFFIXES[mode])

\* The modes, their words and their suffixes differ.
LEMMA WordFacts ==
    /\ DOMAIN SUFFIXES = {"text", "preview_pdf", "raw"} /\ "hub" \notin DOMAIN SUFFIXES
    /\ Modes = {"text", "preview_pdf", "raw", "hub"}
    /\ \A m \in DOMAIN SUFFIXES : /\ Word(m) \in Letter /\ Word(m) # Slash /\ Word(m) # Bang
                                  /\ Suffix(m) = <<Slash, Word(m)>> /\ Suffix(m) \in Text
    /\ \A m, n \in DOMAIN SUFFIXES : Word(m) = Word(n) => m = n
    /\ Suffix("hub") = <<>>
<1>1. DOMAIN SUFFIXES = {"text", "preview_pdf", "raw"}
  BY DEF SUFFIXES
<1>2. /\ SUFFIXES["text"] = "text" /\ SUFFIXES["preview_pdf"] = "preview.pdf"
      /\ SUFFIXES["raw"] = "raw"
  BY DEF SUFFIXES
<1>3. \A m \in DOMAIN SUFFIXES :
         Word(m) \in Letter /\ Word(m) # Slash /\ Word(m) # Bang /\ m # "hub"
  BY <1>1, <1>2 DEF Word, Plain, Slash, Bang, Letter, Symbols
<1>4. \A m \in DOMAIN SUFFIXES : Suffix(m) = <<Slash, Word(m)>>
  BY <1>3 DEF Suffix, Word
<1>5. \A c \in Letter : <<Slash, c>> \in Seq(Letter)
  BY NamesAreText
<1> QED
  BY <1>1, <1>2, <1>3, <1>4, <1>5 DEF Modes, Word, Plain, Suffix, Text

\* A slash and the word of a mode at the end.
LEMMA EndsInIs ==
    ASSUME NEW s \in Text, NEW m \in DOMAIN SUFFIXES
    PROVE  EndsIn(s, m) <=> Len(s) >= 2 /\ s[Len(s) - 1] = Slash /\ s[Len(s)] = Word(m)
<1> DEFINE w == <<Slash, Word(m)>>
           r == Reverse(s)
           k == Len(s)
<1>1. EndsIn(s, m) <=> IsPrefix(Reverse(w), r)
  BY WordFacts DEF EndsIn, IsSuffix
<1>2. k \in Nat /\ r = [i \in 1..k |-> s[(k - i) + 1]] /\ \A i \in 1..k : s[i] \in Letter
  BY LenProperties, ElementOfSeq DEF Text, Reverse
<1>3. r \in Seq(Letter) /\ Len(r) = k
  <2>1. \A i \in 1..k : (k - i) + 1 \in 1..k
    BY <1>2
  <2>2. r \in [1..k -> Letter]
    BY <1>2, <2>1
  <2> QED
    BY <1>2, <2>2
<1>4. /\ Reverse(w) \in Seq(Letter) /\ Len(Reverse(w)) = 2
      /\ Reverse(w)[1] = Word(m) /\ Reverse(w)[2] = Slash
  <2>1. Len(w) = 2 /\ w[1] = Slash /\ w[2] = Word(m)
    OBVIOUS
  <2>2. Reverse(w) = [i \in 1..2 |-> w[(2 - i) + 1]]
    BY <2>1 DEF Reverse
  <2>3. Reverse(w) \in [1..2 -> Letter]
    BY <2>1, <2>2, WordFacts, NamesAreText
  <2> HIDE DEF w
  <2> QED
    BY <2>1, <2>2, <2>3
<1> HIDE DEF w, r
<1>5. CASE k < 2
  BY <1>1, <1>3, <1>4, <1>5 DEF IsPrefix
<1>6. CASE k >= 2
  <2> DEFINE p == SubSeq(Reverse(w), 1, 2)
             q == SubSeq(r, 1, 2)
  <2>1. p = Reverse(w)
    BY <1>4, SubSeqFull
  <2>2. q \in Seq(Letter) /\ Len(q) = 2 /\ \A i \in 1..2 : q[i] = r[i]
    <3>1. 2 \in 0..Len(r)
      BY <1>2, <1>3, <1>6
    <3> QED
      BY <1>3, <3>1, Cut
  <2>3. r[1] = s[k] /\ r[2] = s[k - 1]
    <3>1. 1 \in 1..k /\ 2 \in 1..k /\ (k - 1) + 1 = k /\ (k - 2) + 1 = k - 1
      BY <1>2, <1>6
    <3> QED
      BY <1>2, <3>1
  <2>4. EndsIn(s, m) <=> p = q
    BY <1>1, <1>2, <1>3, <1>4, <1>6 DEF IsPrefix
  <2> HIDE DEF p, q
  <2>5. p = q <=> q[1] = Word(m) /\ q[2] = Slash
    <3>1. ASSUME q[1] = Word(m), q[2] = Slash PROVE p = q
      <4>1. Len(p) = 2 /\ p[1] = q[1] /\ p[2] = q[2]
        BY <1>4, <2>1, <3>1
      <4>2. \A i \in 1..Len(p) : p[i] = q[i]
        <5>1. \A i \in 1..2 : i = 1 \/ i = 2
          OBVIOUS
        <5> QED
          BY <4>1, <5>1
      <4> QED
        BY <1>4, <2>1, <2>2, <4>2, SeqEqual
    <3> QED
      BY <1>4, <2>1, <3>1
  <2> QED
    BY <1>6, <2>2, <2>3, <2>4, <2>5
<1> QED
  BY <1>2, <1>5, <1>6

\* What the part of an address that parse_route sees ends in: the mode's word,
\* after a slash or with nothing before it.
Ending(s, m) == s # <<>> /\ Last(s) = Word(m) /\ (Len(s) = 1 \/ s[Len(s) - 1] = Slash)

\* parse_route puts a slash before the address to find a mode.
LEMMA EndingIs ==
    ASSUME NEW s \in Text, NEW m \in DOMAIN SUFFIXES
    PROVE  EndsIn(<<Slash>> \o s, m) <=> Ending(s, m)
<1> DEFINE t == <<Slash>> \o s
           k == Len(s)
<1>1. <<Slash>> \in Seq(Letter) /\ Len(<<Slash>>) = 1 /\ <<Slash>>[1] = Slash /\ s \in Seq(Letter)
      /\ k \in Nat /\ (s = <<>> <=> k = 0)
  BY NamesAreText, EmptySeq, LenProperties DEF Text
<1>2. t \in Text /\ Len(t) = k + 1 /\ t[1] = Slash /\ \A i \in 1..k : t[i + 1] = s[i]
  <2>1. t \in Seq(Letter) /\ Len(t) = 1 + k
        /\ \A i \in 1..1 + k : t[i] = IF i <= 1 THEN <<Slash>>[i] ELSE s[i - 1]
    BY <1>1, ConcatProperties
  <2> HIDE DEF t
  <2>2. \A i \in 1..k : t[i + 1] = s[i]
    <3> SUFFICES ASSUME NEW i \in 1..k PROVE t[i + 1] = s[i]
      OBVIOUS
    <3>1. i + 1 \in 1..1 + k /\ ~(i + 1 <= 1) /\ (i + 1) - 1 = i
      BY <1>1
    <3> QED
      BY <2>1, <3>1
  <2> QED
    BY <1>1, <2>1, <2>2 DEF Text
<1> HIDE DEF t
<1>3. EndsIn(t, m) <=> Len(t) >= 2 /\ t[Len(t) - 1] = Slash /\ t[Len(t)] = Word(m)
  BY <1>2, EndsInIs
<1>4. k >= 1 => t[Len(t)] = s[k] /\ (k > 1 => t[Len(t) - 1] = s[k - 1])
                /\ (k = 1 => t[Len(t) - 1] = Slash)
  <2> SUFFICES ASSUME k >= 1
               PROVE  t[k + 1] = s[k] /\ (k > 1 => t[k] = s[k - 1]) /\ (k = 1 => t[k] = Slash)
    BY <1>1, <1>2
  <2>1. k \in 1..k /\ (k > 1 => k - 1 \in 1..k /\ (k - 1) + 1 = k)
    BY <1>1
  <2> QED
    BY <1>2, <2>1
<1>5. EndsIn(t, m) <=> Ending(s, m)
  <2>1. CASE k = 0
    BY <1>1, <1>2, <1>3, <2>1 DEF Ending
  <2>2. CASE k >= 1
    <3>1. EndsIn(t, m) <=> t[Len(t) - 1] = Slash /\ s[k] = Word(m)
      BY <1>1, <1>2, <1>3, <1>4, <2>2
    <3>2. Ending(s, m) <=> s[k] = Word(m) /\ (k = 1 \/ s[k - 1] = Slash)
      BY <1>1, <2>2 DEF Ending, Last
    <3>3. CASE k = 1
      <4>1. t[Len(t) - 1] = Slash
        <5> HIDE DEF k
        <5> QED
          BY <1>4, <2>2, <3>3
      <4> QED
        BY <3>1, <3>2, <3>3, <4>1
    <3>4. CASE k # 1
      <4>1. k > 1
        <5>1. k \in Nat
          BY <1>1
        <5> HIDE DEF k
        <5> QED
          BY <2>2, <3>4, <5>1
      <4>2. t[Len(t) - 1] = s[k - 1]
        BY <1>4, <2>2, <4>1
      <4> QED
        BY <3>1, <3>2, <3>4, <4>2
    <3> QED
      BY <3>3, <3>4
  <2> QED
    BY <1>1, <2>1, <2>2
<1> QED
  BY <1>5 DEF t

\* parse_route, by what the address ends in.
LEMMA ParseRouteIs ==
    ASSUME NEW s \in Text
    PROVE  /\ \A m \in DOMAIN SUFFIXES :
                 Ending(s, m) => ParseRoute(s) = [rel |-> SubSeq(s, 1, Len(s) - 2), mode |-> m]
           /\ (\A m \in DOMAIN SUFFIXES : ~Ending(s, m)) => ParseRoute(s) = [rel |-> s, mode |-> "hub"]
<1> DEFINE t == <<Slash>> \o s
<1>1. \A m \in Modes : EndsIn(t, m) <=> m \in DOMAIN SUFFIXES /\ Ending(s, m)
  BY EndingIs, WordFacts DEF EndsIn
<1>2. ASSUME NEW m \in DOMAIN SUFFIXES, Ending(s, m)
      PROVE  ParseRoute(s) = [rel |-> SubSeq(s, 1, Len(s) - 2), mode |-> m]
  <2>1. m \in Modes /\ EndsIn(t, m)
    BY <1>1, <1>2, WordFacts
  <2>2. \A n \in Modes : EndsIn(t, n) => n = m
    BY <1>1, <1>2, WordFacts DEF Ending
  <2>3. (CHOOSE n \in Modes : EndsIn(t, n)) = m
    BY <2>1, <2>2
  <2> QED
    BY <2>1, <2>3 DEF ParseRoute
<1>3. ASSUME \A m \in DOMAIN SUFFIXES : ~Ending(s, m)
      PROVE  ParseRoute(s) = [rel |-> s, mode |-> "hub"]
  BY <1>1, <1>3 DEF ParseRoute
<1> QED
  BY <1>2, <1>3

\* An address of a representation is read as what it was made from.
LEMMA ParseRouteOfSuffix ==
    ASSUME NEW s \in Text, NEW m \in DOMAIN SUFFIXES
    PROVE  ParseRoute(s \o Suffix(m)) = [rel |-> s, mode |-> m]
<1> DEFINE w == Suffix(m)
           t == s \o w
           k == Len(s)
<1>1. k \in Nat /\ Len(w) = 2 /\ w[1] = Slash /\ w[2] = Word(m) /\ w \in Seq(Letter) /\ s \in Seq(Letter)
  BY WordFacts, LenProperties DEF Text
<1> HIDE DEF w
<1>2. /\ t \in Seq(Letter) /\ Len(t) = k + 2
      /\ \A i \in 1..k + 2 : t[i] = IF i <= k THEN s[i] ELSE w[i - k]
  <2>1. /\ t \in Seq(Letter) /\ Len(t) = k + Len(w)
        /\ \A i \in 1..k + Len(w) : t[i] = IF i <= k THEN s[i] ELSE w[i - k]
    BY <1>1, ConcatProperties
  <2> QED
    BY <1>1, <2>1
<1> HIDE DEF t
<1>3. t[k + 1] = Slash /\ t[k + 2] = Word(m) /\ t # <<>>
  <2>1. k + 1 \in 1..k + 2 /\ ~(k + 1 <= k) /\ (k + 1) - k = 1
        /\ k + 2 \in 1..k + 2 /\ ~(k + 2 <= k) /\ (k + 2) - k = 2
    BY <1>1
  <2> QED
    BY <1>1, <1>2, <2>1, EmptySeq
<1>4. Ending(t, m)
  BY <1>1, <1>2, <1>3 DEF Ending, Last
<1>5. SubSeq(t, 1, Len(t) - 2) = s
  <2>1. k \in 0..Len(t) /\ Len(t) - 2 = k
    BY <1>1, <1>2
  <2>2. SubSeq(t, 1, k) \in Seq(Letter) /\ Len(SubSeq(t, 1, k)) = k /\ \A i \in 1..k : SubSeq(t, 1, k)[i] = t[i]
    BY <1>2, <2>1, Cut
  <2>3. \A i \in 1..k : t[i] = s[i]
    BY <1>1, <1>2
  <2> QED
    BY <1>1, <2>1, <2>2, <2>3, SeqEqual
<1>6. ParseRoute(t) = [rel |-> s, mode |-> m]
  BY <1>2, <1>4, <1>5, ParseRouteIs DEF Text
<1> QED
  BY <1>6 DEF t, w

\* How an address ends depends only on what is behind a slash in it.
LEMMA EndingBehind ==
    ASSUME NEW s \in Text, NEW n \in Text, n # <<>>, NEW c \in {Slash, Bang}, NEW m \in DOMAIN SUFFIXES
    PROVE  Ending(s \o <<c>> \o n, m) <=> (c = Slash /\ n = <<Word(m)>>) \/ EndsIn(n, m)
<1> DEFINE v == s \o <<c>>
           t == v \o n
           k == Len(v)
           l == Len(n)
<1>1. c \in Letter /\ s \in Seq(Letter) /\ n \in Seq(Letter) /\ v = Append(s, c) /\ Word(m) \in Letter
  BY NamesAreText, AppendIsConcat, WordFacts DEF Text
<1>2. v \in Seq(Letter) /\ k \in Nat \ {0} /\ v[k] = c /\ l \in Nat \ {0}
  <2>1. v \in Seq(Letter) /\ k = Len(s) + 1 /\ v[Len(s) + 1] = c /\ Len(s) \in Nat
    BY <1>1, AppendProperties, LenProperties
  <2> QED
    BY <1>1, <2>1, EmptySeq
<1> HIDE DEF v
<1>3. /\ t \in Seq(Letter) /\ Len(t) = k + l
      /\ \A i \in 1..k + l : t[i] = IF i <= k THEN v[i] ELSE n[i - k]
  BY <1>1, <1>2, ConcatProperties
<1> HIDE DEF t, k, l
<1>4. t # <<>> /\ Len(t) # 1
  BY <1>2, <1>3, EmptySeq
<1>5. t[k + l] = n[l] /\ t[(k + l) - 1] = IF l = 1 THEN c ELSE n[l - 1]
  <2>1. k + l \in 1..k + l /\ ~(k + l <= k) /\ (k + l) - k = l
        /\ (k + l) - 1 \in 1..k + l /\ ((k + l) - 1 <= k <=> l = 1)
        /\ (l = 1 => (k + l) - 1 = k) /\ ((k + l) - 1) - k = l - 1
    BY <1>2
  <2> QED
    BY <1>2, <1>3, <2>1
<1>6. EndsIn(n, m) <=> l >= 2 /\ n[l - 1] = Slash /\ n[l] = Word(m)
  BY EndsInIs DEF l
<1>7. n = <<Word(m)>> <=> l = 1 /\ n[l] = Word(m)
  <2>1. ASSUME l = 1, n[l] = Word(m) PROVE n = <<Word(m)>>
    <3>1. <<Word(m)>> \in Seq(Letter) /\ Len(<<Word(m)>>) = 1 /\ <<Word(m)>>[1] = Word(m)
      BY <1>1
    <3>2. Len(n) = 1 /\ \A i \in 1..Len(n) : n[i] = <<Word(m)>>[i]
      BY <2>1, <3>1 DEF l
    <3> QED
      BY <1>1, <3>1, <3>2, SeqEqual
  <2> QED
    BY <2>1 DEF l
<1>8. Ending(t, m) <=> n[l] = Word(m) /\ (IF l = 1 THEN c = Slash ELSE n[l - 1] = Slash)
  BY <1>3, <1>4, <1>5 DEF Ending, Last
<1>9. Ending(t, m) <=> (c = Slash /\ n = <<Word(m)>>) \/ EndsIn(n, m)
  BY <1>2, <1>6, <1>7, <1>8
<1> QED
  BY <1>9 DEF t, v

---------------------------------------------------------------------------
(* What an address is taken for *)

\* split_archive_member cuts at the first "!" and decodes what follows.
LEMMA SplitOfMember ==
    ASSUME NEW a \in Text, NEW m \in Text, ~Contains(a, Bang)
    PROVE  SplitArchiveMember(a \o <<Bang>> \o m) = [archive |-> a, member |-> <<Unquote(m)>>]
<1> DEFINE b == a \o <<Bang>>
           s == b \o m
           k == Len(a)
           T == {j \in DOMAIN s : s[j] = Bang}
<1>1. a \in Seq(Letter) /\ m \in Seq(Letter) /\ Bang \in Letter /\ k \in Nat /\ Len(m) \in Nat
  BY NamesAreText, LenProperties DEF Text
<1>2. b \in Seq(Letter) /\ Len(b) = k + 1 /\ b[k + 1] = Bang /\ \A i \in 1..k : b[i] = a[i]
  <2>1. b = Append(a, Bang)
    BY <1>1, AppendIsConcat
  <2> QED
    BY <1>1, <2>1, AppendProperties
<1> HIDE DEF b
<1>3. /\ s \in Seq(Letter) /\ Len(s) = (k + 1) + Len(m) /\ DOMAIN s = 1..Len(s)
      /\ \A i \in 1..(k + 1) + Len(m) : s[i] = IF i <= k + 1 THEN b[i] ELSE m[i - (k + 1)]
  <2>1. /\ s \in Seq(Letter) /\ Len(s) = Len(b) + Len(m)
        /\ \A i \in 1..Len(b) + Len(m) : s[i] = IF i <= Len(b) THEN b[i] ELSE m[i - Len(b)]
    BY <1>1, <1>2, ConcatProperties
  <2>2. DOMAIN s = 1..Len(s)
    BY <2>1, LenProperties
  <2> QED
    BY <1>2, <2>1, <2>2
<1> HIDE DEF s
<1>4. s[k + 1] = Bang /\ \A i \in 1..k : s[i] = a[i] /\ s[i] # Bang
  <2>1. s[k + 1] = Bang
    BY <1>1, <1>2, <1>3
  <2>2. \A i \in 1..k : s[i] = a[i]
    BY <1>1, <1>2, <1>3
  <2> QED
    BY <2>1, <2>2 DEF Contains
<1>5. Contains(s, Bang) /\ Min(T) = k + 1
  <2>1. k + 1 \in T /\ \A j \in T : j >= k + 1
    BY <1>1, <1>3, <1>4
  <2>2. \A i \in T : (\A j \in T : i <= j) => i = k + 1
    BY <1>1, <1>3, <2>1, SMTT(30)
  <2>3. Min(T) = k + 1
    <3> HIDE DEF T
    <3> QED
      BY <2>1, <2>2 DEF Min
  <2> QED
    BY <1>1, <1>3, <1>4, <2>3 DEF Contains
<1>6. SubSeq(s, 1, (k + 1) - 1) = a /\ SubSeq(s, (k + 1) + 1, Len(s)) = m
  <2>1. k \in 0..Len(s) /\ k + 1 \in 0..Len(s) /\ (k + 1) - 1 = k /\ Len(s) - (k + 1) = Len(m)
    BY <1>1, <1>3
  <2>2. SubSeq(s, 1, k) \in Seq(Letter) /\ Len(SubSeq(s, 1, k)) = k /\ \A i \in 1..k : SubSeq(s, 1, k)[i] = s[i]
    BY <1>3, <2>1, Cut
  <2>3. SubSeq(s, 1, k) = a
    BY <1>1, <1>4, <2>2, SeqEqual
  <2> DEFINE r == SubSeq(s, (k + 1) + 1, Len(s))
  <2>4. r \in Seq(Letter) /\ Len(r) = Len(m) /\ \A i \in 1..Len(m) : r[i] = s[(k + 1) + i]
    BY <1>3, <2>1, Cut
  <2>5. \A i \in 1..Len(m) : s[(k + 1) + i] = m[i]
    <3> SUFFICES ASSUME NEW i \in 1..Len(m) PROVE s[(k + 1) + i] = m[i]
      OBVIOUS
    <3>1. /\ (k + 1) + i \in 1..(k + 1) + Len(m) /\ ~((k + 1) + i <= k + 1)
          /\ ((k + 1) + i) - (k + 1) = i
      BY <1>1
    <3> QED
      BY <1>3, <3>1
  <2> HIDE DEF r
  <2>6. r = m
    BY <1>1, <2>4, <2>5, SeqEqual
  <2> QED
    BY <2>1, <2>3, <2>6 DEF r
<1>7. SplitArchiveMember(s) = [archive |-> a, member |-> <<Unquote(m)>>]
  BY <1>5, <1>6 DEF SplitArchiveMember
<1> QED
  BY <1>7 DEF s, b

\* Every address is split at its first "!", if it has one.
LEMMA SplitFacts ==
    ASSUME NEW s \in Text
    PROVE  /\ ~Contains(s, Bang) => SplitArchiveMember(s) = [archive |-> s, member |-> <<>>]
           /\ Contains(s, Bang) =>
                \E a, m \in Text : /\ ~Contains(a, Bang) /\ s = a \o <<Bang>> \o m
                                   /\ SplitArchiveMember(s) = [archive |-> a, member |-> <<Unquote(m)>>]
<1>1. ~Contains(s, Bang) => SplitArchiveMember(s) = [archive |-> s, member |-> <<>>]
  BY DEF SplitArchiveMember
<1>2. ASSUME Contains(s, Bang)
      PROVE  \E a, m \in Text : ~Contains(a, Bang) /\ s = a \o <<Bang>> \o m
  <2> DEFINE T == {i \in 1..Len(s) : s[i] = Bang}
             k == Min(T)
  <2>1. Len(s) \in Nat /\ s \in Seq(Letter) /\ Bang \in Letter
    BY LenProperties, NamesAreText DEF Text
  <2>2. k \in T /\ \A j \in T : k <= j
    <3>1. T # {} /\ T \in SUBSET (1..Len(s))
      BY <1>2 DEF Contains
    <3> HIDE DEF T
    <3> QED
      BY <2>1, <3>1, FirstAndLast
  <2>3. k \in 1..Len(s) /\ s[k] = Bang /\ \A i \in 1..Len(s) : s[i] = Bang => k <= i
    BY <2>2
  <2> HIDE DEF k
  <2> DEFINE a == SubSeq(s, 1, k - 1)
             b == SubSeq(s, 1, k)
             m == SubSeq(s, k + 1, Len(s))
  <2>4. a \in Seq(Letter) /\ Len(a) = k - 1 /\ \A i \in 1..k - 1 : a[i] = s[i]
    <3>1. k - 1 \in 0..Len(s)
      BY <2>1, <2>3
    <3> QED
      BY <2>1, <3>1, Cut
  <2>5. /\ s = b \o m /\ b \in Seq(Letter) /\ Len(b) = k /\ (\A i \in 1..k : b[i] = s[i])
        /\ m \in Seq(Letter)
    <3>1. k \in 0..Len(s)
      BY <2>1, <2>3
    <3> QED
      BY <2>1, <3>1, Cut, ZenonT(40)
  <2> HIDE DEF a, b, m
  <2>6. b = a \o <<Bang>>
    <3>1. Append(a, Bang) \in Seq(Letter) /\ Len(Append(a, Bang)) = k /\ Append(a, Bang)[k] = Bang
          /\ \A i \in 1..k - 1 : Append(a, Bang)[i] = a[i]
      <4>1. (k - 1) + 1 = k
        BY <2>3
      <4> QED
        BY <2>1, <2>4, <4>1, AppendProperties
    <3>2. \A i \in 1..k : Append(a, Bang)[i] = b[i]
      <4>1. \A i \in 1..k : i \in 1..k - 1 \/ i = k
        BY <2>3
      <4> QED
        BY <2>3, <2>4, <2>5, <3>1, <4>1
    <3>3. Append(a, Bang) = b
      BY <2>5, <3>1, <3>2, SeqEqual
    <3> QED
      BY <2>1, <2>4, <3>3, AppendIsConcat
  <2>7. ~Contains(a, Bang)
    <3>1. \A i \in 1..k - 1 : a[i] # Bang
      BY <2>1, <2>3, <2>4
    <3> QED
      BY <2>4, <3>1 DEF Contains
  <2> QED
    BY <2>4, <2>5, <2>6, <2>7 DEF Text
<1>3. ASSUME NEW a \in Text, NEW m \in Text, ~Contains(a, Bang), s = a \o <<Bang>> \o m
      PROVE  SplitArchiveMember(s) = [archive |-> a, member |-> <<Unquote(m)>>]
  BY <1>3, SplitOfMember
<1> QED
  BY <1>1, <1>2, <1>3

\* A path without "!" has none in its components.
LEMMA PlainPath ==
    ASSUME NEW s \in Text, ~Contains(s, Bang)
    PROVE  ~Exclaimed(Parts(s))
<1> DEFINE B == Letter \ {Bang}
<1>1. s \in Seq(B)
  <2>1. s \in Seq(Letter) /\ Len(s) \in Nat /\ s \in [1..Len(s) -> Letter]
    BY LenProperties DEF Text
  <2>2. \A i \in 1..Len(s) : s[i] \in B
    BY <2>1 DEF Contains
  <2>3. s \in [1..Len(s) -> B]
    <3> HIDE DEF B
    <3> QED
      BY <2>1, <2>2
  <2> QED
    BY <2>1, <2>3
<1>2. Parts(s) \in Seq(Seq(B))
  <2> HIDE DEF B
  <2> QED
    BY <1>1, PartsTyped
<1>3. ASSUME NEW i \in 1..Len(Parts(s)), Contains(Parts(s)[i], Bang) PROVE FALSE
  <2> DEFINE C == Seq(B)
  <2>1. Parts(s)[i] \in C
    <3>1. Parts(s) \in Seq(C)
      BY <1>2
    <3> HIDE DEF C
    <3> QED
      BY <3>1, ElementOfSeq
  <2>2. PICK j \in 1..Len(Parts(s)[i]) : Parts(s)[i][j] = Bang
    BY <1>3 DEF Contains
  <2>3. Parts(s)[i][j] \in B
    <3> HIDE DEF B
    <3> QED
      BY <2>1, ElementOfSeq
  <2> QED
    BY <2>2, <2>3
<1> QED
  BY <1>3 DEF Exclaimed

---------------------------------------------------------------------------
(* The inductive invariant *)

\* What the server takes a relpath and a mode for, and a decoded address.
Taken(t, st, rel, mode) ==
    LET split == SplitArchiveMember(rel)
        path  == Parts(split.archive)
    IN  IF /\ path \in DOMAIN t
           /\ split.member # <<>> => t[path] = "archive" /\ split.member[1] \in st
        THEN [entry |-> [path |-> path, member |-> split.member], mode |-> mode]
        ELSE Nowhere
Reading(t, st, s) == Taken(t, st, ParseRoute(s).rel, ParseRoute(s).mode)

\* No percent-encoded character in the names of members.
Clear(member) == \A n \in ToSet(member) : \A c \in ToSet(n) : c.esc = 0

\* The relpath of a page, which its links are made from, stands for what the
\* page is of.
PageInv ==
    /\ page \in [entry : Entries, rel : Text]
    /\ page.entry.path \in DOMAIN tree
    /\ page.rel = <<>> \/ Last(page.rel) # Slash
    /\ page.entry.member = <<>> =>
          ~Contains(page.rel, Bang) /\ Parts(page.rel) = page.entry.path
    /\ page.entry.member # <<>> =>
          /\ tree[page.entry.path] = "archive"
          /\ \E a \in Text, m \in stored :
                /\ page.entry.member = <<m>> /\ page.rel = a \o <<Bang>> \o m
                /\ ~Contains(a, Bang) /\ Parts(a) = page.entry.path

\* What the server will take the last request for.
AskedInv ==
    turn = "server" =>
        LET s == Unquote(request) IN
        /\ request \in Text
        /\ Reading(tree, stored, s) = Answered(link) <=> Unambiguous(link)
        /\ link.mode \in DOMAIN SUFFIXES =>
              /\ ParseRoute(s).mode = link.mode
              /\ Clear(page.entry.member) =>
                    Reading(tree, stored, s) = [entry |-> page.entry, mode |-> link.mode]

RouteInv == RouteTypeOK /\ PageInv /\ AskedInv /\ LinksLeadHome /\ ModeLinksAgree

\* An address without "!" is of a file, if there is one.
LEMMA TakenPlain ==
    ASSUME NEW t, NEW st, NEW rel \in Text, NEW mode, ~Contains(rel, Bang)
    PROVE  Taken(t, st, rel, mode) = IF Parts(rel) \in DOMAIN t
              THEN [entry |-> [path |-> Parts(rel), member |-> <<>>], mode |-> mode] ELSE Nowhere
BY SplitFacts DEF Taken

\* An address with one is of a member, if it is stored in an archive.
LEMMA TakenMember ==
    ASSUME NEW t, NEW st, NEW a \in Text, NEW m \in Text, NEW mode, ~Contains(a, Bang)
    PROVE  Taken(t, st, a \o <<Bang>> \o m, mode) =
              IF Parts(a) \in DOMAIN t /\ t[Parts(a)] = "archive" /\ Unquote(m) \in st
              THEN [entry |-> [path |-> Parts(a), member |-> <<Unquote(m)>>], mode |-> mode]
              ELSE Nowhere
<1> DEFINE split == SplitArchiveMember(a \o <<Bang>> \o m)
<1>1. split = [archive |-> a, member |-> <<Unquote(m)>>]
  BY SplitOfMember
<1>2. split.archive = a /\ split.member = <<Unquote(m)>> /\ split.member # <<>>
      /\ split.member[1] = Unquote(m)
  BY <1>1
<1> HIDE DEF split
<1> QED
  BY <1>2 DEF Taken, split

\* Unambiguous in terms of the lemmas above.
LEMMA SetsOfNames ==
    /\ \A p \in Seq(Names) : (\A n \in ToSet(p) : ~Contains(n, Bang)) <=> ~Exclaimed(p)
    /\ ToSet(<<>>) = {} /\ \A m : ToSet(<<m>>) = {m}
    /\ \A n \in Text : (\A c \in ToSet(n) : c.esc = 0) <=> Unquote(n) = n
<1>1. ASSUME NEW p \in Seq(Names) PROVE (\A n \in ToSet(p) : ~Contains(n, Bang)) <=> ~Exclaimed(p)
  <2>1. DOMAIN p = 1..Len(p)
    BY LenProperties
  <2> QED
    BY <2>1 DEF ToSet, Exclaimed
<1>2. ToSet(<<>>) = {} /\ \A m : ToSet(<<m>>) = {m}
  BY DEF ToSet
<1>3. ASSUME NEW n \in Text PROVE (\A c \in ToSet(n) : c.esc = 0) <=> Unquote(n) = n
  <2>1. DOMAIN n = 1..Len(n)
    BY LenProperties DEF Text
  <2> QED
    BY <2>1, UnquoteTyped DEF ToSet
<1> QED
  BY <1>1, <1>2, <1>3

\* The members without encoded characters are those that decoding leaves alone.
LEMMA ClearIs ==
    Clear(<<>>) /\ \A m \in Text : Clear(<<m>>) <=> Unquote(m) = m
BY SetsOfNames DEF Clear

\* Stored members and paths of the tree are made of names.
LEMMA StoredAreText ==
    ASSUME RouteTypeOK
    PROVE  /\ \A n \in stored : n \in MemberNames /\ n \in Text /\ n # <<>> /\ Last(n) # Slash
           /\ \A p \in DOMAIN tree : p \in Seq(Names) /\ tree[p] \in {"directory", "file", "archive"}
BY NamesAreText, TreesAssumption DEF RouteTypeOK

\* A link is followed: what will be said of it is what holds of its address.
LEMMA Clicked ==
    ASSUME NEW e, NEW mode \in Modes \union {"typed"}, NEW url \in Text, NEW s \in Text,
           RouteTypeOK, PageInv, Click(e, mode, url), Unquote(url) = s,
           Reading(tree, stored, s) = Answered([entry |-> e, mode |-> mode])
              <=> Unambiguous([entry |-> e, mode |-> mode]),
           mode \in DOMAIN SUFFIXES =>
              /\ ParseRoute(s).mode = mode
              /\ Clear(page.entry.member) =>
                    Reading(tree, stored, s) = [entry |-> page.entry, mode |-> mode]
    PROVE  RouteInv'
<1>1. /\ link' = [entry |-> e, mode |-> mode] /\ request' = url /\ got' = Nowhere
      /\ tree' = tree /\ stored' = stored /\ nested' = nested /\ page' = page /\ turn' = "server"
  BY DEF Click, files
<1>2. link'.mode = mode
  BY <1>1
<1>3. RouteTypeOK'
  BY <1>1, <1>2 DEF RouteTypeOK
<1>4. PageInv'
  BY <1>1 DEF PageInv
<1>5. AskedInv'
  BY <1>1, <1>2 DEF AskedInv
<1>6. LinksLeadHome' /\ ModeLinksAgree'
  BY <1>1 DEF LinksLeadHome, ModeLinksAgree
<1> QED
  BY <1>3, <1>4, <1>5, <1>6 DEF RouteInv

---------------------------------------------------------------------------
(* Every link is asked for what the invariant says *)

\* The addresses of the hub and of the representations, decoded.
LEMMA UrlFacts ==
    ASSUME NEW rel \in Text
    PROVE  /\ viewer_url(rel, "hub") \in Text /\ Unquote(viewer_url(rel, "hub")) = rel
           /\ \A m \in DOMAIN SUFFIXES : /\ viewer_url(rel, m) \in Text
                                         /\ Unquote(viewer_url(rel, m)) = rel \o Suffix(m)
<1>1. Quote(rel) \in Text /\ Unquote(Quote(rel)) = rel
  BY QuoteFacts
<1>2. viewer_url(rel, "hub") = Quote(rel)
  BY <1>1, WordFacts, ConcatEmptySeq DEF viewer_url, Text
<1>3. ASSUME NEW m \in DOMAIN SUFFIXES
      PROVE  viewer_url(rel, m) \in Text /\ Unquote(viewer_url(rel, m)) = rel \o Suffix(m)
  <2>1. Suffix(m) \in Text
    BY WordFacts
  <2>2. Unquote(Suffix(m)) = Suffix(m)
    <3>1. Suffix(m) = <<Slash, Word(m)>> /\ Len(Suffix(m)) = 2
      BY WordFacts
    <3>2. Slash.esc = 0 /\ Word(m).esc = 0
      BY DEF Slash, Word, Plain
    <3>3. \A i \in 1..Len(Suffix(m)) : Suffix(m)[i].esc = 0
      BY <3>1, <3>2
    <3> QED
      BY <2>1, <3>3, UnquoteTyped
  <2>3. Quote(rel) \o Suffix(m) \in Text
    BY <1>1, <2>1, ConcatProperties DEF Text
  <2>4. Unquote(Quote(rel) \o Suffix(m)) = rel \o Suffix(m)
    BY <1>1, <2>1, <2>2, UnquoteConcat
  <2> QED
    BY <2>3, <2>4 DEF viewer_url
<1> QED
  BY <1>1, <1>2, <1>3

\* The links every page begins with.
LEMMA FollowModeKeeps ==
    ASSUME RouteInv, FollowMode
    PROVE  RouteInv'
<1>1. RouteTypeOK /\ PageInv
  BY DEF RouteInv
<1>2. PICK mode \in DOMAIN SUFFIXES : Click(page.entry, mode, viewer_url(page.rel, mode))
  BY DEF FollowMode
<1> DEFINE rel == page.rel
           e   == page.entry
           s   == rel \o Suffix(mode)
           r   == Reading(tree, stored, s)
<1>3. rel \in Text /\ e \in Entries /\ e = [path |-> e.path, member |-> e.member]
      /\ e.path \in DOMAIN tree /\ e.path \in Seq(Names)
  BY <1>1, StoredAreText DEF PageInv, Entries
<1>4. /\ viewer_url(rel, mode) \in Text /\ Unquote(viewer_url(rel, mode)) = s /\ s \in Text
      /\ ParseRoute(s) = [rel |-> rel, mode |-> mode]
  <2>1. s \in Text
    BY <1>3, WordFacts, ConcatProperties DEF Text
  <2> QED
    BY <1>3, <2>1, UrlFacts, ParseRouteOfSuffix
<1>5. mode # "hub" /\ mode # "typed" /\ mode \in Modes
  BY WordFacts
<1>6. r = Taken(tree, stored, rel, mode)
  BY <1>4 DEF Reading
<1> HIDE DEF s
<1>7. CASE e.member = <<>>
  <2>1. r = [entry |-> e, mode |-> mode]
    BY <1>1, <1>3, <1>6, <1>7, TakenPlain DEF PageInv
  <2>2. ~Exclaimed(e.path)
    BY <1>1, <1>3, <1>7, PlainPath DEF PageInv
  <2> DEFINE l == [entry |-> e, mode |-> mode]
  <2>3. l.entry = e /\ l.mode = mode
    OBVIOUS
  <2> HIDE DEF l, e
  <2>4. Unambiguous(l)
    <3>1. Len(<<>>) <= 1
      BY EmptySeq
    <3> QED
      BY <1>3, <1>5, <1>7, <2>2, <2>3, <3>1, SetsOfNames DEF Unambiguous
  <2>5. Answered(l) = l
    BY <1>5, <2>3 DEF l, Answered
  <2> HIDE DEF r, rel
  <2> QED
    BY <1>1, <1>2, <1>4, <1>5, <2>1, <2>4, <2>5, Clicked DEF e, l, r, rel
<1>8. CASE e.member # <<>>
  <2>1. PICK a \in Text, m \in stored :
            /\ e.member = <<m>> /\ rel = a \o <<Bang>> \o m
            /\ ~Contains(a, Bang) /\ Parts(a) = e.path
    BY <1>1, <1>8 DEF PageInv
  <2>2. tree[e.path] = "archive" /\ m \in Text
    BY <1>1, <1>8, StoredAreText DEF PageInv
  <2>3. r = IF Unquote(m) \in stored
            THEN [entry |-> [path |-> e.path, member |-> <<Unquote(m)>>], mode |-> mode]
            ELSE Nowhere
    BY <1>3, <1>6, <2>1, <2>2, TakenMember
  <2> DEFINE l == [entry |-> e, mode |-> mode]
  <2>4. l.entry = e /\ l.mode = mode
    OBVIOUS
  <2>5. ~Exclaimed(e.path)
    BY <2>1, PlainPath
  <2>6. r = l <=> Unquote(m) = m
    <3>1. ASSUME Unquote(m) = m PROVE r = l
      BY <1>3, <2>1, <2>3, <3>1
    <3>2. ASSUME r = l PROVE Unquote(m) = m
      <4>1. r.entry.member = <<m>>
        BY <2>1, <2>4, <3>2
      <4>2. CASE Unquote(m) \in stored
        BY <2>3, <4>1, <4>2
      <4>3. CASE Unquote(m) \notin stored
        <5>1. r.entry.member = <<>>
          BY <2>3, <4>3 DEF Nowhere, NoLink
        <5> QED
          BY <4>1, <5>1
      <4> QED
        BY <4>2, <4>3
    <3> QED
      BY <3>1, <3>2
  <2> HIDE DEF l, e, r
  <2>7. Unambiguous(l) <=> Unquote(m) = m
    <3>1. Len(<<m>>) = 1 /\ ToSet(<<m>>) = {m}
      BY SetsOfNames
    <3> QED
      BY <1>3, <1>5, <2>1, <2>2, <2>4, <2>5, <3>1, SetsOfNames DEF Unambiguous
  <2>8. Answered(l) = l
    BY <1>5, <2>4 DEF l, Answered
  <2>9. Clear(e.member) <=> Unquote(m) = m
    BY <2>1, <2>2, ClearIs
  <2> HIDE DEF rel
  <2> QED
    BY <1>1, <1>2, <1>4, <1>5, <2>6, <2>7, <2>8, <2>9, Clicked DEF e, l, r, rel
<1> QED
  BY <1>7, <1>8

\* The address of a directory that is typed.
LEMMA TypeDirectoryKeeps ==
    ASSUME RouteInv, TypeDirectory
    PROVE  RouteInv'
<1>1. RouteTypeOK /\ PageInv
  BY DEF RouteInv
<1>2. PICK p \in DOMAIN tree :
          Click([path |-> p, member |-> <<>>], "typed", Quote(JoinPath(p)) \o <<Slash>>)
  BY DEF TypeDirectory
<1> DEFINE j   == JoinPath(p)
           url == Quote(j) \o <<Slash>>
           s   == j \o <<Slash>>
           e   == [path |-> p, member |-> <<>>]
           l   == [entry |-> e, mode |-> "typed"]
           r   == Reading(tree, stored, s)
<1>3. p \in Seq(Names) /\ j \in Text /\ Parts(j) = p /\ (Contains(j, Bang) <=> Exclaimed(p))
  BY <1>1, StoredAreText, JoinPathFacts
<1>4. Quote(j) \in Text /\ Unquote(Quote(j)) = j
  BY <1>3, QuoteFacts
<1>5. <<Slash>> \in Text /\ Unquote(<<Slash>>) = <<Slash>> /\ <<Slash>> \in Seq({Slash})
  <2>1. <<Slash>> \in Text /\ <<Slash>> \in Seq({Slash}) /\ Len(<<Slash>>) = 1 /\ <<Slash>>[1] = Slash
    BY NamesAreText DEF Text
  <2>2. \A i \in 1..Len(<<Slash>>) : <<Slash>>[i].esc = 0
    BY <2>1 DEF Slash, Plain
  <2> QED
    BY <2>1, <2>2, UnquoteTyped
<1> HIDE DEF j
<1>6. url \in Text /\ Unquote(url) = s /\ s \in Text
  BY <1>3, <1>4, <1>5, UnquoteConcat, ConcatProperties DEF Text
<1>7. Parts(s) = p /\ (Contains(s, Bang) <=> Exclaimed(p)) /\ Last(s) = Slash
  <2>1. Parts(s) = p
    BY <1>3, <1>5, NamesAreText, PartsOfSlashes DEF Text
  <2>2. Contains(s, Bang) <=> Exclaimed(p)
    BY <1>3, <1>5, ContainsIn, ContainsOne, NamesAreText DEF Text
  <2>3. s = Append(j, Slash) /\ Slash \in Letter
    BY <1>3, AppendIsConcat, NamesAreText DEF Text
  <2> QED
    BY <1>3, <2>1, <2>2, <2>3, LastOfAppend DEF Text
<1> HIDE DEF s
<1>8. ParseRoute(s) = [rel |-> s, mode |-> "hub"]
  BY <1>6, <1>7, ParseRouteIs, WordFacts DEF Ending
<1>9. r = Taken(tree, stored, s, "hub")
  BY <1>8 DEF Reading
<1> HIDE DEF r, e
<1>10. l.entry = e /\ l.mode = "typed" /\ Answered(l) = [entry |-> e, mode |-> "hub"]
  BY DEF Answered
<1> HIDE DEF l
<1>11. e.path = p /\ e.member = <<>> /\ e = [path |-> p, member |-> <<>>] /\ p \in DOMAIN tree
  BY DEF e
<1>12. Unambiguous(l) <=> ~Exclaimed(p)
  <2>1. Len(<<>>) <= 1
    BY EmptySeq
  <2> QED
    BY <1>3, <1>10, <1>11, <2>1, SetsOfNames DEF Unambiguous
<1>13. CASE ~Exclaimed(p)
  <2>1. r = [entry |-> e, mode |-> "hub"]
    BY <1>6, <1>7, <1>9, <1>11, <1>13, TakenPlain
  <2> QED
    BY <1>1, <1>2, <1>6, <1>10, <1>12, <1>13, <2>1, WordFacts, Clicked DEF e, j, l, r
<1>14. CASE Exclaimed(p)
  <2>1. PICK a \in Text, m \in Text : ~Contains(a, Bang) /\ s = a \o <<Bang>> \o m
    BY <1>6, <1>7, <1>14, SplitFacts
  <2>2. r = Nowhere \/ r.entry.member = <<Unquote(m)>>
    <3>1. r = IF Parts(a) \in DOMAIN tree /\ tree[Parts(a)] = "archive" /\ Unquote(m) \in stored
              THEN [entry |-> [path |-> Parts(a), member |-> <<Unquote(m)>>], mode |-> "hub"]
              ELSE Nowhere
      BY <1>9, <2>1, TakenMember
    <3> QED
      BY <3>1
  <2>3. r # Answered(l)
    <3>1. Answered(l).entry.member = <<>> /\ Answered(l).mode = "hub"
      BY <1>10, <1>11
    <3>2. Nowhere.mode # "hub" /\ <<Unquote(m)>> # <<>>
      BY DEF Nowhere, NoLink
    <3> QED
      BY <2>2, <3>1, <3>2
  <2> QED
    BY <1>1, <1>2, <1>6, <1>12, <1>14, <2>3, WordFacts, Clicked DEF e, j, l, r
<1> QED
  BY <1>13, <1>14

\* The address of a directory's entry: nothing before the name can be taken away
\* but slashes, and what the name says of it stays.
LEMMA EntryAddress ==
    ASSUME NEW rel \in Text, rel = <<>> \/ Last(rel) # Slash, NEW n \in Names
    PROVE  LET s == LStrip(rel \o <<Slash>> \o n) IN
           /\ s \in Text /\ Parts(s) = Append(Parts(rel), n)
           /\ Contains(s, Bang) <=> Contains(rel, Bang) \/ Contains(n, Bang)
           /\ \A m \in DOMAIN SUFFIXES : Ending(s, m) <=> n = <<Word(m)>>
<1> DEFINE v == rel \o <<Slash>>
           t == v \o n
           s == LStrip(t)
<1>1. /\ rel \in Seq(Letter) /\ <<Slash>> \in Seq(Letter) /\ <<Slash>> \in Seq({Slash}) /\ Slash \in Letter
      /\ n \in Seq(Letter) /\ n # <<>> /\ ~Contains(n, Slash) /\ Slash # Bang
  BY NamesAreText DEF Text
<1>2. /\ v \in Seq(Letter) /\ Last(v) = Slash /\ Parts(v) = Parts(rel)
      /\ (Contains(v, Bang) <=> Contains(rel, Bang))
  <2>1. v = Append(rel, Slash)
    BY <1>1, AppendIsConcat
  <2>2. Append(rel, Slash) \in Seq(Letter) /\ Last(Append(rel, Slash)) = Slash
    BY <1>1, AppendProperties, LastOfAppend
  <2>3. Parts(v) = Parts(rel)
    BY <1>1, PartsOfSlashes
  <2>4. Contains(v, Bang) <=> Contains(rel, Bang)
    BY <1>1, ContainsIn, ContainsOne, ZenonT(40)
  <2> QED
    BY <2>1, <2>2, <2>3, <2>4
<1> HIDE DEF v
<1>3. /\ t \in Text /\ Parts(t) = Append(Parts(rel), n)
      /\ (Contains(t, Bang) <=> Contains(rel, Bang) \/ Contains(n, Bang))
  <2>1. t \in Seq(Letter) /\ (Contains(t, Bang) <=> Contains(v, Bang) \/ Contains(n, Bang))
    BY <1>1, <1>2, ConcatProperties, ContainsIn
  <2>2. Parts(t) = Append(Parts(v), n)
    BY <1>1, <1>2, PartsOfName
  <2> QED
    BY <1>2, <2>1, <2>2 DEF Text
<1> HIDE DEF t
<1>4. /\ s \in Text /\ Parts(s) = Parts(t) /\ (Contains(s, Bang) <=> Contains(t, Bang))
  BY <1>3, StripFacts, StripKeeps
<1>5. PICK u \in Seq({Slash}) : t = u \o s
  BY <1>3, StripFacts
<1> HIDE DEF s
<1> DEFINE ks == Len(s)
           ku == Len(u)
           kv == Len(v)
           kn == Len(n)
<1>6. /\ u \in Seq(Letter) /\ ks \in Nat /\ ku \in Nat /\ kv \in Nat \ {0} /\ kn \in Nat \ {0}
      /\ v[kv] = Slash /\ s \in Seq(Letter) /\ v \in Seq(Letter)
      /\ \A i \in 1..ku : u[i] = Slash
      /\ \A i \in 1..kn : n[i] # Slash
  <2>1. u \in Seq(Letter) /\ s \in Seq(Letter) /\ v \in Seq(Letter)
    BY <1>2, <1>4, NoBangInSlashes DEF Text
  <2>2. v # <<>>
    BY <1>1, ConcatEqualIffEmpty DEF v
  <2>3. \A i \in 1..ku : u[i] = Slash
    BY ElementOfSeq
  <2> QED
    BY <1>1, <1>2, <2>1, <2>2, <2>3, EmptySeq, LenProperties DEF Last, Contains
<1>7. ku + ks = kv + kn /\ Len(t) = ku + ks
      /\ (\A i \in 1..ku + ks : t[i] = IF i <= ku THEN u[i] ELSE s[i - ku])
      /\ (\A i \in 1..kv + kn : t[i] = IF i <= kv THEN v[i] ELSE n[i - kv])
  <2>1. Len(t) = ku + ks /\ \A i \in 1..ku + ks : t[i] = IF i <= ku THEN u[i] ELSE s[i - ku]
    BY <1>5, <1>6, ConcatProperties
  <2>2. Len(t) = kv + kn /\ \A i \in 1..kv + kn : t[i] = IF i <= kv THEN v[i] ELSE n[i - kv]
    BY <1>1, <1>2, ConcatProperties DEF t
  <2> QED
    BY <2>1, <2>2
<1> HIDE DEF ks, ku, kv, kn
<1>8. ku <= kv
  <2> SUFFICES ASSUME ku > kv PROVE FALSE
    BY <1>6
  <2>1. kv + 1 \in 1..ku + ks /\ kv + 1 <= ku /\ kv + 1 \in 1..ku
        /\ kv + 1 \in 1..kv + kn /\ ~(kv + 1 <= kv) /\ (kv + 1) - kv = 1 /\ 1 \in 1..kn
    BY <1>6
  <2>2. t[kv + 1] = u[kv + 1] /\ t[kv + 1] = n[1]
    BY <1>7, <2>1
  <2> QED
    BY <1>6, <2>1, <2>2
<1>9. ks >= kn /\ s[ks] = n[kn]
  <2>1. ks \in Nat /\ ks >= kn /\ ku + ks \in 1..ku + ks /\ ~(ku + ks <= ku) /\ (ku + ks) - ku = ks
        /\ ku + ks \in 1..kv + kn /\ ~(ku + ks <= kv) /\ (ku + ks) - kv = kn
    BY <1>6, <1>7, <1>8
  <2> QED
    BY <1>7, <2>1
<1>10. ks = 1 => kn = 1
  BY <1>6, <1>9
<1>11. ks # 1 => s[ks - 1] = IF kn = 1 THEN Slash ELSE n[kn - 1]
  <2> SUFFICES ASSUME ks # 1 PROVE s[ks - 1] = IF kn = 1 THEN Slash ELSE n[kn - 1]
    OBVIOUS
  <2> DEFINE i == (ku + ks) - 1
  <2>1. i \in 1..ku + ks /\ ~(i <= ku) /\ i - ku = ks - 1 /\ i \in 1..kv + kn
        /\ (i <= kv <=> kn = 1) /\ (kn = 1 => i = kv) /\ i - kv = kn - 1
    BY <1>6, <1>7, <1>9
  <2> HIDE DEF i
  <2>2. t[i] = s[ks - 1]
    BY <1>7, <2>1
  <2>3. t[i] = IF kn = 1 THEN v[kv] ELSE n[kn - 1]
    BY <1>7, <2>1
  <2> QED
    BY <1>6, <2>2, <2>3
<1>12. ASSUME NEW m \in DOMAIN SUFFIXES PROVE Ending(s, m) <=> n = <<Word(m)>>
  <2>1. Ending(s, m) <=> s[ks] = Word(m) /\ (ks = 1 \/ s[ks - 1] = Slash)
    <3>1. s # <<>>
      BY <1>6, <1>9, EmptySeq DEF ks
    <3> QED
      BY <3>1 DEF Ending, Last, ks
  <2>2. (ks = 1 \/ s[ks - 1] = Slash) <=> kn = 1
    <3>1. kn # 1 => kn - 1 \in 1..kn
      BY <1>6
    <3> QED
      BY <1>6, <1>10, <1>11, <3>1
  <2>3. kn = 1 /\ n[kn] = Word(m) <=> n = <<Word(m)>>
    <3>1. ASSUME kn = 1, n[kn] = Word(m) PROVE n = <<Word(m)>>
      <4>1. Len(n) = 1 /\ n[1] = Word(m)
        BY <3>1 DEF kn
      <4>2. <<Word(m)>> \in Seq(Letter) /\ Len(<<Word(m)>>) = 1 /\ <<Word(m)>>[1] = Word(m)
        BY WordFacts
      <4>3. \A k \in 1..Len(n) : n[k] = <<Word(m)>>[k]
        BY <4>1, <4>2
      <4> QED
        BY <1>1, <4>1, <4>2, <4>3, SeqEqual
    <3>2. Len(<<Word(m)>>) = 1 /\ <<Word(m)>>[1] = Word(m)
      OBVIOUS
    <3> QED
      BY <3>1, <3>2 DEF kn
  <2> QED
    BY <1>9, <2>1, <2>2, <2>3
<1> QED
  BY <1>3, <1>4, <1>12 DEF s, t, v

\* The links of a directory.
LEMMA FollowEntryKeeps ==
    ASSUME RouteInv, FollowEntry
    PROVE  RouteInv'
<1>1. RouteTypeOK /\ PageInv
  BY DEF RouteInv
<1> DEFINE rel  == page.rel
           path == page.entry.path
           s(n) == LStrip(rel \o <<Slash>> \o n)
<1>2. PICK n \in Names :
          /\ Append(path, n) \in DOMAIN tree
          /\ Click([page.entry EXCEPT !.path = Append(@, n)], "hub", viewer_url(s(n), "hub"))
  BY DEF FollowEntry
<1>3. /\ page.entry.member = <<>> /\ ~Contains(rel, Bang) /\ Parts(rel) = path
      /\ rel \in Text /\ (rel = <<>> \/ Last(rel) # Slash) /\ path \in Seq(Names)
      /\ page.entry = [path |-> path, member |-> <<>>]
  <2>1. page.entry.member = <<>>
    BY DEF FollowEntry, Kind
  <2> QED
    BY <1>1, <2>1, StoredAreText DEF PageInv, Entries
<1> DEFINE q == Append(path, n)
           a == s(n)
           e == [path |-> q, member |-> <<>>]
           l == [entry |-> e, mode |-> "hub"]
           r == Reading(tree, stored, a)
<1>4. Click(e, "hub", viewer_url(a, "hub"))
  <2>1. [page.entry EXCEPT !.path = Append(@, n)] = e
    <3> DEFINE x == page.entry
    <3>1. x = [path |-> path, member |-> <<>>]
      BY <1>3
    <3> HIDE DEF x, path
    <3>2. [x EXCEPT !.path = Append(@, n)] = [path |-> Append(path, n), member |-> <<>>]
      BY <3>1
    <3> QED
      BY <3>2 DEF x
  <2> QED
    BY <1>2, <2>1
<1>5. /\ a \in Text /\ Parts(a) = q /\ (Contains(a, Bang) <=> Contains(n, Bang))
      /\ \A m \in DOMAIN SUFFIXES : Ending(a, m) <=> n = <<Word(m)>>
  BY <1>3, EntryAddress
<1>6. q \in DOMAIN tree /\ q \in Seq(Names) /\ q # <<>> /\ Last(q) = n
  BY <1>2, <1>3, AppendProperties, LastOfAppend
<1>7. Exclaimed(q) <=> Contains(n, Bang)
  <2>1. path \in Seq(Text) /\ n \in Text
    BY <1>3, NamesPath, NamesAreText
  <2>2. ~Exclaimed(path)
    BY <1>3, PlainPath
  <2> QED
    BY <2>1, <2>2, ExclaimedAppend
<1> HIDE DEF s, q, a
<1>8. viewer_url(a, "hub") \in Text /\ Unquote(viewer_url(a, "hub")) = a
  BY <1>5, UrlFacts
<1>9. /\ l.entry.path = q /\ l.entry.member = <<>> /\ l.mode = "hub" /\ Answered(l) = l
  BY DEF Answered
<1>10. Unambiguous(l) <=> ~Contains(n, Bang) /\ \A m \in DOMAIN SUFFIXES : n # <<Word(m)>>
  <2>1. NamedLikeMode(l.entry) <=> \E m \in DOMAIN SUFFIXES : n = <<Word(m)>>
    BY <1>6, <1>9 DEF NamedLikeMode, Word
  <2>2. Len(<<>>) <= 1
    BY EmptySeq
  <2> HIDE DEF l
  <2> QED
    BY <1>6, <1>7, <1>9, <2>1, <2>2, SetsOfNames DEF Unambiguous
<1> HIDE DEF r
<1>11. r = l <=> ~Contains(n, Bang) /\ \A m \in DOMAIN SUFFIXES : n # <<Word(m)>>
  <2>1. ASSUME NEW m \in DOMAIN SUFFIXES, n = <<Word(m)>> PROVE r # l
    <3>1. ParseRoute(a).mode = m /\ m # "hub"
      BY <1>5, <2>1, ParseRouteIs, WordFacts
    <3>2. r.mode = m \/ r = Nowhere
      BY <3>1 DEF r, Reading, Taken
    <3>3. Nowhere.mode # "hub"
      BY DEF Nowhere, NoLink
    <3> QED
      BY <1>9, <3>1, <3>2, <3>3
  <2>2. ASSUME \A m \in DOMAIN SUFFIXES : n # <<Word(m)>>
        PROVE  r = Taken(tree, stored, a, "hub")
    <3>1. ParseRoute(a) = [rel |-> a, mode |-> "hub"]
      BY <1>5, <2>2, ParseRouteIs
    <3> QED
      BY <3>1 DEF r, Reading
  <2>3. ASSUME \A m \in DOMAIN SUFFIXES : n # <<Word(m)>>, ~Contains(n, Bang) PROVE r = l
    BY <1>5, <1>6, <2>2, <2>3, TakenPlain
  <2>4. ASSUME \A m \in DOMAIN SUFFIXES : n # <<Word(m)>>, Contains(n, Bang) PROVE r # l
    <3>1. PICK b \in Text, m \in Text : ~Contains(b, Bang) /\ a = b \o <<Bang>> \o m
      BY <1>5, <2>4, SplitFacts
    <3>2. r = IF Parts(b) \in DOMAIN tree /\ tree[Parts(b)] = "archive" /\ Unquote(m) \in stored
              THEN [entry |-> [path |-> Parts(b), member |-> <<Unquote(m)>>], mode |-> "hub"]
              ELSE Nowhere
      BY <2>2, <2>4, <3>1, TakenMember, ZenonT(40)
    <3>3. r = Nowhere \/ r.entry.member = <<Unquote(m)>>
      BY <3>2
    <3>4. Nowhere.mode # "hub" /\ <<Unquote(m)>> # <<>>
      BY DEF Nowhere, NoLink
    <3> QED
      BY <1>9, <3>3, <3>4
  <2> QED
    BY <2>1, <2>3, <2>4
<1>12. "hub" \in Modes \union {"typed"} /\ "hub" \notin DOMAIN SUFFIXES
  BY WordFacts
<1> HIDE DEF e
<1>13. Reading(tree, stored, a) = Answered([entry |-> e, mode |-> "hub"])
          <=> Unambiguous([entry |-> e, mode |-> "hub"])
  BY <1>9, <1>10, <1>11 DEF r
<1> HIDE DEF rel, path
<1> QED
  BY <1>1, <1>4, <1>5, <1>8, <1>12, <1>13, Clicked

\* The links of an archive, and of one inside another.
LEMMA FollowMemberKeeps ==
    ASSUME RouteInv, FollowMember
    PROVE  RouteInv'
<1>1. RouteTypeOK /\ PageInv
  BY DEF RouteInv
<1> DEFINE rel  == page.rel
           path == page.entry.path
           mem  == page.entry.member
<1>2. PICK n \in IF mem = <<>> THEN stored ELSE MemberNames :
          Click([page.entry EXCEPT !.member = Append(@, n)], "hub",
                viewer_url(rel \o <<Bang>> \o n, "hub"))
  BY DEF FollowMember
<1> DEFINE a == rel \o <<Bang>> \o n
           q == Append(mem, n)
           e == [path |-> path, member |-> q]
           l == [entry |-> e, mode |-> "hub"]
           r == Reading(tree, stored, a)
<1>3. /\ page.entry = [path |-> path, member |-> mem] /\ rel \in Text
      /\ path \in Seq(Names) /\ path \in DOMAIN tree
      /\ n \in Text /\ n # <<>> /\ n \in MemberNames
  BY <1>1, <1>2, StoredAreText, NamesAreText DEF PageInv, Entries
<1>4. Click(e, "hub", viewer_url(a, "hub"))
  <2>1. [page.entry EXCEPT !.member = Append(@, n)] = e
    <3> DEFINE x == page.entry
    <3>1. x = [path |-> path, member |-> mem]
      BY <1>3
    <3> HIDE DEF x, path, mem
    <3>2. [x EXCEPT !.member = Append(@, n)] = [x EXCEPT !.member = q]
      BY <3>1
    <3> HIDE DEF q
    <3>3. [x EXCEPT !.member = q] = e
      BY <3>1
    <3> QED
      BY <3>2, <3>3 DEF x
  <2> QED
    BY <1>2, <2>1
<1>5. a \in Text /\ \A m \in DOMAIN SUFFIXES : Ending(a, m) <=> EndsIn(n, m)
  <2>1. a \in Text
    BY <1>3, NamesAreText, ConcatProperties DEF Text
  <2>2. \A m \in DOMAIN SUFFIXES : Ending(a, m) <=> (Bang = Slash /\ n = <<Word(m)>>) \/ EndsIn(n, m)
    BY <1>3, EndingBehind
  <2> QED
    BY <2>1, <2>2, NamesAreText
<1>6. viewer_url(a, "hub") \in Text /\ Unquote(viewer_url(a, "hub")) = a
  BY <1>5, UrlFacts
<1>7. l.entry = e /\ l.mode = "hub" /\ Answered(l) = l /\ e.path = path /\ e.member = q
  BY DEF Answered
<1>8. "hub" \in Modes \union {"typed"} /\ "hub" \notin DOMAIN SUFFIXES
  BY WordFacts
<1>9. r = Nowhere \/ Len(r.entry.member) <= 1
  <2>1. Len(SplitArchiveMember(ParseRoute(a).rel).member) <= 1
    <3>1. \A x : SplitArchiveMember(x).member = <<>> \/ \E y : SplitArchiveMember(x).member = <<y>>
      BY DEF SplitArchiveMember
    <3>2. Len(<<>>) <= 1 /\ \A y : Len(<<y>>) <= 1
      BY EmptySeq
    <3> QED
      BY <3>1, <3>2
  <2> QED
    BY <2>1 DEF Reading, Taken
<1>10. Nowhere.mode # "hub"
  BY DEF Nowhere, NoLink
<1>11. CASE mem = <<>>
  <2>1. q = <<n>> /\ n \in stored /\ tree[path] = "archive"
    BY <1>2, <1>11 DEF FollowMember, Kind
  <2>2. ~Contains(rel, Bang) /\ Parts(rel) = path
    BY <1>1, <1>11 DEF PageInv
  <2>3. ~Exclaimed(path)
    BY <1>3, <2>2, PlainPath
  <2> HIDE DEF a, rel, path, mem, q
  <2>4. Unambiguous(l) <=> Unquote(n) = n /\ \A m \in DOMAIN SUFFIXES : ~EndsIn(n, m)
    <3>1. Len(<<n>>) <= 1 /\ <<n>> # <<>> /\ Last(<<n>>) = n
      BY DEF Last
    <3>2. NamedLikeMode(l.entry) <=> \E m \in DOMAIN SUFFIXES : EndsIn(n, m)
      BY <1>7, <2>1, <3>1 DEF NamedLikeMode
    <3> HIDE DEF l, e
    <3> QED
      BY <1>3, <1>7, <2>1, <2>3, <3>1, <3>2, SetsOfNames DEF Unambiguous
  <2> HIDE DEF r
  <2>5. ASSUME NEW m \in DOMAIN SUFFIXES, EndsIn(n, m) PROVE r # l
    <3>1. ParseRoute(a).mode = m /\ m # "hub"
      BY <1>5, <2>5, ParseRouteIs, WordFacts
    <3>2. r.mode = m \/ r = Nowhere
      BY <3>1 DEF r, Reading, Taken
    <3> QED
      BY <1>7, <1>10, <3>1, <3>2
  <2>6. ASSUME \A m \in DOMAIN SUFFIXES : ~EndsIn(n, m) PROVE r = l <=> Unquote(n) = n
    <3>1. ParseRoute(a) = [rel |-> a, mode |-> "hub"]
      BY <1>5, <2>6, ParseRouteIs
    <3>2. r = Taken(tree, stored, a, "hub")
      BY <3>1 DEF r, Reading
    <3>3. r = IF Unquote(n) \in stored
              THEN [entry |-> [path |-> path, member |-> <<Unquote(n)>>], mode |-> "hub"]
              ELSE Nowhere
      BY <1>3, <2>1, <2>2, <3>2, TakenMember DEF a
    <3>4. ASSUME Unquote(n) = n PROVE r = l
      BY <2>1, <3>3, <3>4
    <3>5. ASSUME r = l PROVE Unquote(n) = n
      <4>1. r.entry.member = <<n>> /\ r.mode = "hub"
        BY <1>7, <2>1, <3>5
      <4> HIDE DEF l, e
      <4>2. r.entry.member = <<Unquote(n)>>
        BY <1>10, <3>3, <4>1
      <4> QED
        BY <4>1, <4>2
    <3> QED
      BY <3>4, <3>5
  <2>7. r = l <=> Unambiguous(l)
    BY <2>4, <2>5, <2>6
  <2> HIDE DEF e
  <2>8. Reading(tree, stored, a) = Answered([entry |-> e, mode |-> "hub"])
          <=> Unambiguous([entry |-> e, mode |-> "hub"])
    BY <1>7, <2>7 DEF r
  <2> QED
    BY <1>1, <1>4, <1>5, <1>6, <1>8, <2>8, Clicked
<1>12. CASE mem # <<>>
  <2>1. Len(q) = 2
    <3>1. PICK m \in stored : mem = <<m>>
      BY <1>1, <1>12 DEF PageInv
    <3> QED
      BY <3>1
  <2> HIDE DEF a, rel, path, mem, q, r
  <2>2. ~Unambiguous(l)
    BY <1>7, <2>1 DEF Unambiguous
  <2>3. r # l
    BY <1>7, <1>9, <1>10, <2>1
  <2> HIDE DEF e
  <2>4. Reading(tree, stored, a) = Answered([entry |-> e, mode |-> "hub"])
          <=> Unambiguous([entry |-> e, mode |-> "hub"])
    BY <1>7, <2>2, <2>3 DEF r
  <2> QED
    BY <1>1, <1>4, <1>5, <1>6, <1>8, <2>4, Clicked
<1> QED
  BY <1>11, <1>12

\* The server answers, and the page it shows is of what its relpath says.
LEMMA AnswerKeeps ==
    ASSUME RouteInv, Answer
    PROVE  RouteInv'
<1> DEFINE s     == Unquote(request)
           route == ParseRoute(s)
           split == SplitArchiveMember(route.rel)
           path  == Parts(split.archive)
           hint  == IF split.member = <<>> THEN split.archive
                    ELSE split.archive \o <<Bang>> \o split.member[1]
           found == /\ path \in DOMAIN tree
                    /\ split.member # <<>> => tree[path] = "archive" /\ split.member[1] \in stored
<1>1. RouteTypeOK /\ PageInv /\ AskedInv
  BY DEF RouteInv
<1>2. /\ turn = "server" /\ turn' = "reader"
      /\ tree' = tree /\ stored' = stored /\ nested' = nested /\ link' = link
      /\ got' = Reading(tree, stored, s)
      /\ page' = IF found /\ route.mode = "hub" THEN Page(path, split.member, RStrip(hint)) ELSE page
  BY DEF Answer, files, Reading, Taken
<1>3. /\ s \in Text
      /\ Reading(tree, stored, s) = Answered(link) <=> Unambiguous(link)
      /\ link.mode \in DOMAIN SUFFIXES =>
            /\ route.mode = link.mode
            /\ Clear(page.entry.member) =>
                  Reading(tree, stored, s) = [entry |-> page.entry, mode |-> link.mode]
  BY <1>1, <1>2, UnquoteTyped DEF AskedInv
<1>4. route.mode \in Modes /\ (route.mode = "hub" => route.rel = s)
  BY <1>3, ParseRouteIs, WordFacts
<1>5. got' = Nowhere \/ (got'.mode \in Modes /\ got'.entry.path \in DOMAIN tree)
  BY <1>2, <1>4 DEF Reading, Taken
<1>6. PageInv'
  <2>1. CASE ~(found /\ route.mode = "hub")
    BY <1>1, <1>2, <2>1 DEF PageInv
  <2>2. CASE found /\ route.mode = "hub"
    <3> DEFINE p == Page(path, split.member, RStrip(hint))
    <3>1. page' = p /\ p.rel = RStrip(hint) /\ p.entry = [path |-> path, member |-> split.member]
      BY <1>2, <2>2 DEF Page
    <3>2. path \in DOMAIN tree /\ path \in Seq(Names)
      BY <1>1, <2>2, StoredAreText
    <3>3. CASE ~Contains(s, Bang)
      <4>1. split.archive = s /\ split.member = <<>>
        BY <1>3, <1>4, <2>2, <3>3, SplitFacts
      <4>2. hint = s
        BY <4>1
      <4>3. /\ RStrip(s) \in Text /\ Parts(RStrip(s)) = path /\ ~Contains(RStrip(s), Bang)
            /\ (RStrip(s) = <<>> \/ Last(RStrip(s)) # Slash)
        BY <1>3, <3>3, <4>1, StripFacts, StripKeeps
      <4>4. split.member \in Seq(MemberNames)
        BY <4>1, EmptySeq
      <4> HIDE DEF s, path, hint, split
      <4>5. p \in [entry : Entries, rel : Text] /\ p.entry.path = path /\ p.entry.member = <<>>
        BY <3>2, <4>1, <4>2, <4>3, <4>4 DEF Entries, Page
      <4> HIDE DEF p
      <4> QED
        BY <1>2, <3>1, <3>2, <4>2, <4>3, <4>5 DEF PageInv
    <3>4. CASE Contains(s, Bang)
      <4>1. PICK a \in Text, m \in Text :
                /\ ~Contains(a, Bang) /\ s = a \o <<Bang>> \o m
                /\ SplitArchiveMember(s) = [archive |-> a, member |-> <<Unquote(m)>>]
        BY <1>3, <3>4, SplitFacts
      <4> DEFINE u == Unquote(m)
      <4>2. split.archive = a /\ split.member = <<u>>
        <5>1. split = [archive |-> a, member |-> <<u>>]
          BY <1>4, <2>2, <4>1
        <5> HIDE DEF split, u
        <5> QED
          BY <5>1
      <4>3. path = Parts(a) /\ hint = a \o <<Bang>> \o u /\ tree[path] = "archive" /\ u \in stored
        BY <2>2, <4>2
      <4>4. u \in Text /\ u # <<>> /\ Last(u) # Slash /\ u \in MemberNames
        BY <1>1, <4>3, StoredAreText
      <4> HIDE DEF u, hint, path, split
      <4>5. hint \in Text /\ Last(hint) = Last(u)
        <5> DEFINE b == a \o <<Bang>>
        <5>1. b \in Seq(Letter) /\ u \in Seq(Letter) /\ Len(u) \in Nat \ {0}
          BY <4>4, NamesAreText, ConcatProperties, EmptySeq DEF Text
        <5>2. hint = b \o u
          BY <4>3
        <5> HIDE DEF b
        <5>3. /\ b \o u \in Seq(Letter) /\ Len(b \o u) = Len(b) + Len(u) /\ Len(b) \in Nat
              /\ \A i \in 1..Len(b) + Len(u) : (b \o u)[i] = IF i <= Len(b) THEN b[i] ELSE u[i - Len(b)]
          BY <5>1, ConcatProperties, LenProperties
        <5> QED
          BY <5>1, <5>2, <5>3 DEF Last, Text
      <4>6. RStrip(hint) = hint
        BY <4>4, <4>5, StripKeeps
      <4>7. <<u>> \in Seq(MemberNames)
        BY <4>4
      <4>8. /\ p \in [entry : Entries, rel : Text] /\ p.rel = hint
            /\ p.entry.path = path /\ p.entry.member = <<u>>
        BY <3>2, <4>2, <4>5, <4>6, <4>7 DEF Entries, Page
      <4> HIDE DEF p
      <4>9. /\ page' \in [entry : Entries, rel : Text] /\ page'.rel = hint
            /\ page'.entry.path = path /\ page'.entry.member = <<u>> /\ <<u>> # <<>>
        BY <3>1, <4>8
      <4>10. hint = <<>> \/ Last(hint) # Slash
        BY <4>4, <4>5
      <4>11. \E b \in Text, n \in stored :
                /\ <<u>> = <<n>> /\ hint = b \o <<Bang>> \o n /\ ~Contains(b, Bang) /\ Parts(b) = path
        BY <4>1, <4>3
      <4> QED
        BY <1>2, <3>2, <4>3, <4>9, <4>10, <4>11 DEF PageInv
    <3> QED
      BY <3>3, <3>4
  <2> QED
    BY <2>1, <2>2
<1>7. RouteTypeOK'
  <2>2. Len(page'.entry.member) <= 1 /\ ToSet(page'.entry.member) \subseteq stored
    <3>1. CASE page'.entry.member = <<>>
      BY <3>1, EmptySeq, SetsOfNames
    <3>2. CASE page'.entry.member # <<>>
      <4>1. PICK m \in stored : page'.entry.member = <<m>>
        BY <1>2, <1>6, <3>2 DEF PageInv
      <4> QED
        BY <4>1, SetsOfNames
    <3> QED
      BY <3>1, <3>2
  <2>3. /\ page'.entry.path \in DOMAIN tree /\ (page'.rel = <<>> \/ Last(page'.rel) # Slash)
    BY <1>2, <1>6 DEF PageInv
  <2> HIDE DEF route, found, hint, path, split, s
  <2> QED
    BY <1>1, <1>2, <1>5, <2>2, <2>3 DEF RouteTypeOK
<1>8. AskedInv'
  BY <1>2 DEF AskedInv
<1>9. LinksLeadHome'
  BY <1>2, <1>3 DEF LinksLeadHome, Answered, Unambiguous, NamedLikeMode
<1>10. ModeLinksAgree'
  <2> SUFFICES ASSUME link.mode \in DOMAIN SUFFIXES, Clear(page'.entry.member)
               PROVE  got' = [entry |-> page'.entry, mode |-> link.mode]
    BY <1>2 DEF ModeLinksAgree, Clear
  <2>1. route.mode = link.mode /\ link.mode # "hub"
    BY <1>3, WordFacts
  <2>2. page' = page
    BY <1>2, <2>1
  <2> QED
    BY <1>2, <1>3, <2>2
<1> QED
  BY <1>6, <1>7, <1>8, <1>9, <1>10 DEF RouteInv

---------------------------------------------------------------------------
(* The theorems about addresses *)

LEMMA RouteInitInv == RouteInit => RouteInv
<1> SUFFICES ASSUME RouteInit PROVE RouteInv
  OBVIOUS
<1>1. /\ tree \in Trees /\ stored \in Contents /\ nested \subseteq stored /\ turn = "reader"
      /\ page = [entry |-> [path |-> <<>>, member |-> <<>>], rel |-> <<>>]
      /\ link = NoLink /\ request = <<>> /\ got = Nowhere
  BY DEF RouteInit, Page
<1>2. /\ page.entry = [path |-> <<>>, member |-> <<>>] /\ page.rel = <<>>
      /\ page.entry.path = <<>> /\ page.entry.member = <<>> /\ <<>> \in DOMAIN tree
  BY <1>1, TreesAssumption
<1>3. ~Contains(<<>>, Bang) /\ Len(<<>>) = 0 /\ <<>> \in Text /\ <<>> \in Seq(Names)
      /\ <<>> \in Seq(MemberNames)
  BY EmptySeq DEF Contains, Text
<1>4. link.mode = "none" /\ "none" \notin DOMAIN SUFFIXES
  BY <1>1, WordFacts DEF NoLink
<1>5. RouteTypeOK
  BY <1>1, <1>2, <1>3, <1>4, SetsOfNames, MembersAssumption DEF RouteTypeOK
<1>6. PageInv
  <2>1. page \in [entry : Entries, rel : Text]
    BY <1>1, <1>3 DEF Entries
  <2> QED
    BY <1>2, <1>3, <2>1, PartsOfNothing DEF PageInv
<1>7. AskedInv /\ LinksLeadHome /\ ModeLinksAgree
  BY <1>1, <1>4 DEF AskedInv, LinksLeadHome, ModeLinksAgree
<1> QED
  BY <1>5, <1>6, <1>7 DEF RouteInv

LEMMA RouteStutter == ASSUME RouteInv, UNCHANGED routeVars PROVE RouteInv'
<1>1. /\ tree' = tree /\ stored' = stored /\ nested' = nested /\ turn' = turn /\ page' = page
      /\ link' = link /\ request' = request /\ got' = got
  BY DEF routeVars, files
<1>2. RouteTypeOK'
  BY <1>1 DEF RouteInv, RouteTypeOK
<1>3. PageInv' /\ AskedInv'
  BY <1>1 DEF RouteInv, PageInv, AskedInv
<1>4. LinksLeadHome' /\ ModeLinksAgree'
  BY <1>1 DEF RouteInv, LinksLeadHome, ModeLinksAgree
<1> QED
  BY <1>2, <1>3, <1>4 DEF RouteInv

LEMMA RouteInvariance == RouteInv /\ [RouteNext]_routeVars => RouteInv'
<1> SUFFICES ASSUME RouteInv, [RouteNext]_routeVars PROVE RouteInv'
  OBVIOUS
<1>1. CASE FollowMode
  BY <1>1, FollowModeKeeps
<1>2. CASE FollowEntry
  BY <1>2, FollowEntryKeeps
<1>3. CASE FollowMember
  BY <1>3, FollowMemberKeeps
<1>4. CASE TypeDirectory
  BY <1>4, TypeDirectoryKeeps
<1>5. CASE Answer
  BY <1>5, AnswerKeeps
<1>6. CASE UNCHANGED routeVars
  BY <1>6, RouteStutter
<1> QED
  BY <1>1, <1>2, <1>3, <1>4, <1>5, <1>6 DEF RouteNext

\* The relpath of a page stands for what the page is of, and the address of a
\* link is taken for what its mode, its name and its archive make of it.
THEOREM RoutesInductive == RouteSpec => []RouteInv
<1> QED
  BY RouteInitInv, RouteInvariance, PTL DEF RouteSpec

\* Types: a page is of something in the tree, its relpath has no slash at the
\* end, and what the server takes an address for exists (app._handle_hub).
THEOREM RoutesTyped == RouteSpec => []RouteTypeOK
<1>1. RouteInv => RouteTypeOK
  BY DEF RouteInv
<1> QED
  BY <1>1, RoutesInductive, PTL

\* In every tree, for names of any length and with any characters, a link of a
\* hub page and a directory's address are taken for what they are shown for, in
\* the mode they name, exactly if that is unambiguous (app.parse_route,
\* split_archive_member, viewer_url).
THEOREM LinksCorrect == RouteSpec => []LinksLeadHome
<1>1. RouteInv => LinksLeadHome
  BY DEF RouteInv
<1> QED
  BY <1>1, RoutesInductive, PTL

\* However a page was reached, its links to the text, the preview and the bytes
\* are of what it shows, unless a member's name is percent-encoded
\* (app._handle_hub builds them from the relpath it was asked with).
THEOREM ModeLinksCorrect == RouteSpec => []ModeLinksAgree
<1>1. RouteInv => ModeLinksAgree
  BY DEF RouteInv
<1> QED
  BY <1>1, RoutesInductive, PTL
=============================================================================
