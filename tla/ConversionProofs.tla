------------------------- MODULE ConversionProofs -------------------------
(***************************************************************************)
(* Proofs about Conversion for any number of request threads, sources and  *)
(* directory names.  IInv strengthens the four invariants by what a thread *)
(* knows at each stage: which directory is its own, that the input in it   *)
(* is a copy of its own source, and that a seed profile which is neither   *)
(* absent nor complete has somebody at work on it, or was left so by a     *)
(* failure.                                                                *)
(***************************************************************************)
EXTENDS Conversion, TLAPS

\* The stages in which a thread has a work directory.
Inside == {"profile", "input", "soffice", "collect", "cleanup"}

\* A thread has a directory of its own exactly while it is inside.
DirInv ==
    /\ \A t \in Threads :
          /\ pc[t] \in Inside => dir[t] \in Names /\ work[dir[t]] \in Dirs
          /\ pc[t] \notin Inside => dir[t] = None
    /\ \A t, u \in Threads : t # u /\ dir[t] # None => dir[t] # dir[u]

\* What is in that directory comes from the thread's own source.
InputInv ==
    \A t \in Threads :
        /\ pc[t] \in {"soffice", "collect"} => work[dir[t]].input = src[t]
        /\ pc[t] = "collect" => work[dir[t]].output = src[t]
        /\ pc[t] = "idle" => got[t] = None

\* After it was seeded, an incomplete profile has a maker, or was left so.
SeedInv ==
    /\ \A t \in Threads : pc[t] \in {"mkdtemp", "profile"} => seeded
    /\ (seeded \/ \E t \in Threads : pc[t] \in {"void", "seed"}) /\ Makers = {} /\ ~damaged =>
          template \in {"absent", "locked"}

\* A copy that nothing excuses is complete.
CopyInv ==
    \A t \in Threads :
        pc[t] \in {"input", "soffice"} /\ cause[t] = "none" => work[dir[t]].profile = "locked"

IInv == TypeOK /\ ResultIsOwn /\ WorkdirsOwned /\ DirInv /\ InputInv /\ SeedInv /\ CopyInv

---------------------------------------------------------------------------
\* There is a directory or there is none.
LEMMA NoDirApart == NoDir \notin Dirs /\ Fresh \in Dirs
<1>1. "gone" \in DOMAIN NoDir
  BY DEF NoDir
<1>2. \A d \in Dirs : "gone" \notin DOMAIN d
  BY DEF Dirs
<1>3. Fresh \in Dirs
  BY DEF Fresh, Dirs, Profiles
<1> QED
  BY <1>1, <1>2, <1>3

LEMMA InitIInv == Init => IInv
<1> SUFFICES ASSUME Init PROVE IInv
  OBVIOUS
<1>1. TypeOK
  BY NoneAssumption, ZenonT(40) DEF Init, TypeOK, Profiles, Dirs, NoDir, PCs, Answers, Targets
<1>2. ResultIsOwn /\ WorkdirsOwned /\ DirInv /\ InputInv /\ SeedInv /\ CopyInv
  BY NoneAssumption DEF Init, ResultIsOwn, WorkdirsOwned, DirInv, InputInv, SeedInv, CopyInv, Inside
<1> QED
  BY <1>1, <1>2 DEF IInv

\* A step that writes into the thread's own directory leaves the others alone.
LEMMA OwnWrite ==
    ASSUME IInv, NEW t \in Threads, pc[t] \in Inside, NEW d \in Dirs,
           work' = [work EXCEPT ![dir[t]] = d]
    PROVE  /\ work' \in [Names -> Dirs \union {NoDir}]
           /\ work'[dir[t]] = d
           /\ \A n \in Names : work'[n] # NoDir => work[n] # NoDir
           /\ \A u \in Threads : u # t /\ pc[u] \in Inside => work'[dir[u]] = work[dir[u]]
<1>1. dir[t] \in Names /\ work[dir[t]] \in Dirs /\ work \in [Names -> Dirs \union {NoDir}]
  BY DEF IInv, TypeOK, DirInv
<1>2. \A u \in Threads : u # t /\ pc[u] \in Inside => dir[u] \in Names /\ dir[u] # dir[t]
  BY NoneAssumption DEF IInv, DirInv
<1> QED
  BY <1>1, <1>2, NoDirApart

LEMMA ThreadStep ==
    ASSUME IInv, NEW t \in Threads, ThreadNext(t)
    PROVE  IInv'
<1> USE NoneAssumption, NoDirApart
    DEF Goes, Ends, IInv, TypeOK, ResultIsOwn, WorkdirsOwned, DirInv, InputInv, SeedInv,
        CopyInv, Makers, Inside, disk, history, PCs, Answers, Targets, Profiles
<1>1. CASE OpenText(t)
  BY <1>1 DEF OpenText
<1>2. CASE CheckSize(t)
  BY <1>2 DEF CheckSize
<1>3. CASE SizeRefused(t)
  BY <1>3 DEF SizeRefused
<1>4. CASE TemplateKnown(t)
  BY <1>4 DEF TemplateKnown
<1>5. CASE TemplateMade(t)
  BY <1>5 DEF TemplateMade
<1>6. CASE TemplateTruncated(t)
  BY <1>6 DEF TemplateTruncated
<1>7. CASE TemplateFilled(t)
  <2>1. /\ pc[t] \in {"fill", "void"} /\ pc' = [pc EXCEPT ![t] = "seed"]
        /\ \/ pc[t] = "fill" /\ template' = "locked" /\ damaged' = FALSE
           \/ pc[t] = "void" /\ UNCHANGED <<template, damaged>>
        /\ UNCHANGED <<seeded, work, orphans, cause, src, target, dir, got>>
    BY <1>7 DEF TemplateFilled
  <2>2. TypeOK'
    BY <2>1
  <2>3. ResultIsOwn' /\ WorkdirsOwned' /\ DirInv' /\ InputInv' /\ CopyInv'
    BY <2>1
  <2>4. SeedInv'
    <3>1. CASE pc[t] = "fill"
      BY <2>1, <3>1
    <3>2. CASE pc[t] = "void"
      BY <2>1, <3>2
    <3> QED
      BY <2>1, <3>1, <3>2
  <2> QED
    BY <2>2, <2>3, <2>4
<1>8. CASE TemplateSeeded(t)
  BY <1>8 DEF TemplateSeeded
<1>9. CASE TemplateRaises(t)
  <2>1. /\ pc[t] \in {"template", "truncate", "fill", "void"}
        /\ pc' = [pc EXCEPT ![t] = "returned"] /\ got' = [got EXCEPT ![t] = "raised"]
        /\ template' = template \/ (template = "absent" /\ template' = "bare")
        /\ damaged' = (damaged \/ template' \in {"bare", "empty"})
        /\ UNCHANGED <<seeded, work, orphans, cause, src, target, dir>>
    BY <1>9 DEF TemplateRaises
  <2>2. TypeOK'
    BY <2>1
  <2>3. ResultIsOwn' /\ WorkdirsOwned' /\ DirInv' /\ InputInv' /\ CopyInv'
    BY <2>1
  <2>4. SeedInv'
    <3>1. ~damaged' => ~damaged /\ template' \in {"absent", "locked"}
      BY <2>1
    <3>2. \A u \in Threads : pc'[u] \in {"mkdtemp", "profile"} => seeded'
      BY <2>1
    <3> QED
      BY <3>1, <3>2
  <2> QED
    BY <2>2, <2>3, <2>4
<1>10. CASE MakeWorkdir(t)
  BY <1>10 DEF MakeWorkdir
<1>11. CASE MakeWorkdirFails(t)
  BY <1>11 DEF MakeWorkdirFails
<1>12. CASE CopyProfile(t)
  <2> DEFINE d == [work[dir[t]] EXCEPT !.profile = template]
  <2>1. /\ pc[t] = "profile" /\ pc' = [pc EXCEPT ![t] = "input"]
        /\ dir[t] \in Names /\ work[dir[t]] \in Dirs
        /\ work' = [work EXCEPT ![dir[t]] = d]
        /\ template # "absent"
        /\ cause' \in [Threads -> {"none", "raced", "spoilt"}]
        /\ \A u \in Threads : u # t => cause'[u] = cause[u]
        /\ cause'[t] = "none" => template = "locked" \/ (~damaged /\ Makers = {})
        /\ UNCHANGED <<template, seeded, src, target, dir, got, orphans, damaged>>
    BY <1>12 DEF CopyProfile
  <2>2. /\ d \in Dirs /\ d.profile = template
        /\ d.input = work[dir[t]].input /\ d.output = work[dir[t]].output
    BY <2>1, <1>12 DEF CopyProfile, Dirs
  <2> HIDE DEF d
  <2>3. /\ work' \in [Names -> Dirs \union {NoDir}] /\ work'[dir[t]] = d
        /\ \A n \in Names : work'[n] # NoDir => work[n] # NoDir
        /\ \A u \in Threads : u # t /\ pc[u] \in Inside => work'[dir[u]] = work[dir[u]]
    BY <2>1, <2>2, OwnWrite
  <2>4. TypeOK' /\ ResultIsOwn' /\ WorkdirsOwned' /\ SeedInv'
    BY <2>1, <2>3
  <2>5. DirInv'
    BY <2>1, <2>2, <2>3
  <2>6. InputInv'
    BY <2>1, <2>2, <2>3
  <2>7. CopyInv'
    BY <2>1, <2>2, <2>3
  <2> QED
    BY <2>4, <2>5, <2>6, <2>7
<1>13. CASE CopyInput(t)
  <2> DEFINE d == [work[dir[t]] EXCEPT !.input = src[t]]
  <2>1. /\ pc[t] = "input" /\ pc' = [pc EXCEPT ![t] = "soffice"]
        /\ dir[t] \in Names /\ work[dir[t]] \in Dirs
        /\ work' = [work EXCEPT ![dir[t]] = d]
        /\ src[t] \in Sources \union {None}
        /\ UNCHANGED <<template, cause, damaged, seeded, src, target, dir, got, orphans>>
    BY <1>13 DEF CopyInput
  <2>2. /\ d \in Dirs /\ d.input = src[t]
        /\ d.profile = work[dir[t]].profile /\ d.output = work[dir[t]].output
    BY <2>1, <1>13 DEF CopyInput, Dirs
  <2> HIDE DEF d
  <2>3. /\ work' \in [Names -> Dirs \union {NoDir}] /\ work'[dir[t]] = d
        /\ \A n \in Names : work'[n] # NoDir => work[n] # NoDir
        /\ \A u \in Threads : u # t /\ pc[u] \in Inside => work'[dir[u]] = work[dir[u]]
    BY <2>1, <2>2, OwnWrite
  <2>4. TypeOK' /\ ResultIsOwn' /\ WorkdirsOwned' /\ SeedInv'
    BY <2>1, <2>3
  <2>5. DirInv'
    BY <2>1, <2>2, <2>3
  <2>6. InputInv'
    BY <2>1, <2>2, <2>3
  <2>7. CopyInv'
    BY <2>1, <2>2, <2>3
  <2> QED
    BY <2>4, <2>5, <2>6, <2>7
<1>14. CASE CopyRaises(t)
  BY <1>14 DEF CopyRaises
<1>15. CASE SofficeTimesOut(t)
  BY <1>15 DEF SofficeTimesOut
<1>16. CASE Collect(t)
  BY <1>16 DEF Collect
<1>17. CASE Cleanup(t)
  BY <1>17 DEF Cleanup
<1>18. CASE AskPreview(t)
  BY <1>18 DEF AskPreview
<1>19. CASE AskText(t)
  BY <1>19 DEF AskText
<1>20. CASE Finished(t)
  BY <1>20 DEF Finished
<1>21. CASE PreviewReturns(t)
  BY <1>21 DEF PreviewReturns
<1>22. CASE StructuredRung(t)
  BY <1>22 DEF StructuredRung
<1>23. CASE PlainRung(t)
  BY <1>23 DEF PlainRung
<1>24. CASE PlainReturns(t)
  BY <1>24 DEF PlainReturns
<1>25. CASE Demoted(t)
  BY <1>25 DEF Demoted
<1>26. CASE Extract(t)
  BY <1>26 DEF Extract
<1>27. CASE GenericReport(t)
  BY <1>27 DEF GenericReport
<1>28. CASE SofficeConverts(t)
  <2> DEFINE d == [work[dir[t]] EXCEPT !.output = work[dir[t]].input]
  <2>1. /\ pc[t] = "soffice" /\ pc' = [pc EXCEPT ![t] = "collect"]
        /\ dir[t] \in Names /\ work[dir[t]] \in Dirs
        /\ work' = [work EXCEPT ![dir[t]] = d]
        /\ work[dir[t]].input = src[t]
        /\ UNCHANGED <<template, cause, damaged, seeded, src, target, dir, got, orphans>>
    BY <1>28 DEF SofficeConverts
  <2>2. /\ d \in Dirs /\ d.output = work[dir[t]].input
        /\ d.profile = work[dir[t]].profile /\ d.input = work[dir[t]].input
    BY <2>1, <1>28 DEF SofficeConverts, Dirs
  <2> HIDE DEF d
  <2>3. /\ work' \in [Names -> Dirs \union {NoDir}] /\ work'[dir[t]] = d
        /\ \A n \in Names : work'[n] # NoDir => work[n] # NoDir
        /\ \A u \in Threads : u # t /\ pc[u] \in Inside => work'[dir[u]] = work[dir[u]]
    BY <2>1, <2>2, OwnWrite
  <2>4. TypeOK' /\ ResultIsOwn' /\ WorkdirsOwned' /\ SeedInv'
    BY <2>1, <2>3
  <2>5. DirInv'
    BY <2>1, <2>2, <2>3
  <2>6. InputInv'
    BY <2>1, <2>2, <2>3
  <2>7. CopyInv'
    BY <2>1, <2>2, <2>3
  <2> QED
    BY <2>4, <2>5, <2>6, <2>7
<1>29. CASE SofficeFails(t)
  BY <1>29 DEF SofficeFails
<1>30. CASE CleanupRaises(t)
  BY <1>30 DEF CleanupRaises
<1> QED
  BY <1>30, <1>1, <1>2, <1>3, <1>4, <1>5, <1>6, <1>7, <1>8, <1>9, <1>10, <1>11, <1>12, <1>13, <1>14, <1>15, <1>16, <1>17, <1>18, <1>19, <1>20, <1>21, <1>22, <1>23, <1>24, <1>25, <1>26, <1>27, <1>28, <1>29 DEF ThreadNext, Converts, Serves

\* The operator removes the seed profile.
LEMMA RemovalStep == IInv /\ (SettingsRemoved \/ TemplateRemoved) => IInv'
<1> SUFFICES ASSUME IInv, SettingsRemoved \/ TemplateRemoved PROVE IInv'
  OBVIOUS
<1> USE NoneAssumption DEF IInv, TypeOK, ResultIsOwn, WorkdirsOwned, DirInv, InputInv, SeedInv,
        CopyInv, Makers, Inside, PCs, Answers, Profiles
<1>1. CASE SettingsRemoved
  <2>1. /\ pc' \in [Threads -> PCs \union Answers] /\ template' = "bare" /\ damaged'
        /\ \A t \in Threads : IF pc[t] = "fill" THEN pc'[t] = "void" ELSE pc'[t] = pc[t]
        /\ UNCHANGED <<seeded, work, src, target, dir, got, orphans, cause>>
    BY <1>1 DEF SettingsRemoved
  <2>2. TypeOK'
    BY <2>1
  <2>3. ResultIsOwn' /\ WorkdirsOwned' /\ InputInv' /\ SeedInv' /\ CopyInv'
    BY <2>1
  <2>4. DirInv'
    BY <2>1
  <2> QED
    BY <2>2, <2>3, <2>4
<1>2. CASE TemplateRemoved
  BY <1>2 DEF TemplateRemoved, locals
<1> QED
  BY <1>1, <1>2

\* A restarted process knows of no directory, and of no profile.
LEMMA CrashStep == IInv /\ Crash => IInv'
<1> SUFFICES ASSUME IInv, Crash PROVE IInv'
  OBVIOUS
<1>1. \A t \in Threads : pc'[t] = "idle" /\ dir'[t] = None /\ got'[t] = None
  BY DEF Crash
<1>2. /\ ~seeded' /\ orphans' = {n \in Names : work[n] # NoDir}
      /\ work' = [n \in Names |-> IF work[n] = NoDir THEN NoDir ELSE Fresh]
  BY DEF Crash
<1>3. TypeOK'
  BY <1>2, NoDirApart DEF Crash, IInv, TypeOK, PCs, Targets
<1>4. ResultIsOwn' /\ WorkdirsOwned'
  BY <1>1, <1>2 DEF ResultIsOwn, WorkdirsOwned
<1>5. DirInv' /\ InputInv' /\ CopyInv'
  BY <1>1 DEF DirInv, InputInv, CopyInv, Inside
<1>6. SeedInv'
  BY <1>1, <1>2 DEF SeedInv
<1> QED
  BY <1>3, <1>4, <1>5, <1>6 DEF IInv

LEMMA StutterStep == IInv /\ UNCHANGED vars => IInv'
BY DEF vars, locals, disk, history, IInv, TypeOK, ResultIsOwn, WorkdirsOwned, DirInv, InputInv,
   SeedInv, CopyInv, Makers

LEMMA Invariance == Spec => []IInv
<1>1. IInv /\ [Next]_vars => IInv'
  BY ThreadStep, RemovalStep, CrashStep, StutterStep DEF Next, WorldNext
<1> QED
  BY InitIInv, <1>1, PTL DEF Spec

---------------------------------------------------------------------------
\* Every variable of the conversions keeps its type.
THEOREM TypeCorrect == Spec => []TypeOK
BY Invariance, PTL DEF IInv

\* Any number of conversions at the same time, of any sources: each gets the
\* rendering of its own (office_extract.py:108-134).
THEOREM OwnResults == Spec => []ResultIsOwn
BY Invariance, PTL DEF IInv

\* No work directory outlives its conversion but by a crash, on any of the ways
\* out of the with statement (office_extract.py:108).
THEOREM NoWorkdirForgotten == Spec => []WorkdirsOwned
BY Invariance, PTL DEF IInv

\* Macros are locked in every conversion but those that copied the profile while
\* it was written, or after a failed write or a removal under way had left it
\* incomplete; crashes are no cause (office_extract.py:73-83).
THEOREM LockedUnlessTorn == Spec => []MacrosLockedUnlessTorn
<1>1. IInv => MacrosLockedUnlessTorn
  BY DEF IInv, CopyInv, MacrosLockedUnlessTorn
<1> QED
  BY Invariance, <1>1, PTL

\* Every step a request takes brings it closer to its answer: conversions do
\* not go round in circles (inspectors.py:163-186).
THEOREM RequestsCountDown == Spec => [][CountsDown]_vars
<1> USE DEF Goes, Ends, Running, StepsLeft, StepsOf, Answers
<1>1. ASSUME IInv, NEW t \in Threads, ThreadNext(t)
      PROVE  CountsDown
  <2>1. \A u \in Threads : u # t => pc'[u] = pc[u]
    BY <1>1 DEF IInv, TypeOK, ThreadNext, Converts, Serves, AskPreview, AskText, OpenText, Finished,
       CheckSize, SizeRefused, TemplateKnown, TemplateMade, TemplateTruncated, TemplateFilled,
       TemplateSeeded, TemplateRaises, MakeWorkdir, MakeWorkdirFails, CopyProfile, CopyInput,
       CopyRaises, SofficeTimesOut, SofficeConverts, SofficeFails, Collect, Cleanup, CleanupRaises,
       PreviewReturns, StructuredRung, PlainRung, PlainReturns, Demoted, Extract, GenericReport
  <2>2. Running(t) => StepsLeft(t)' < StepsLeft(t)
    <3> USE <1>1 DEF IInv, TypeOK, PCs, Targets, locals
    <3>1. CASE PlainRung(t)
      BY <3>1 DEF PlainRung, disk
    <3>2. CASE Finished(t) \/ AskPreview(t) \/ AskText(t)
      BY <3>2 DEF Finished, AskPreview, AskText
    <3>3. CASE ~PlainRung(t) /\ ~(Finished(t) \/ AskPreview(t) \/ AskText(t))
      <4>1. target' = target
        BY <3>3 DEF ThreadNext, Converts, Serves, OpenText,
       CheckSize, SizeRefused, TemplateKnown, TemplateMade, TemplateTruncated, TemplateFilled,
       TemplateSeeded, TemplateRaises, MakeWorkdir, MakeWorkdirFails, CopyProfile, CopyInput,
       CopyRaises, SofficeTimesOut, SofficeConverts, SofficeFails, Collect, Cleanup, CleanupRaises,
       PreviewReturns, StructuredRung, PlainReturns, Demoted, Extract, GenericReport
      <4>2. \/ pc'[t] \in Answers /\ pc[t] \in {"returned", "extract", "generic"}
            \/ pc'[t] \in DOMAIN StepsOf /\ StepsOf[pc'[t]] < StepsOf[pc[t]]
        BY <3>3 DEF ThreadNext, Converts, Serves, OpenText,
       CheckSize, SizeRefused, TemplateKnown, TemplateMade, TemplateTruncated, TemplateFilled,
       TemplateSeeded, TemplateRaises, MakeWorkdir, MakeWorkdirFails, CopyProfile, CopyInput,
       CopyRaises, SofficeTimesOut, SofficeConverts, SofficeFails, Collect, Cleanup, CleanupRaises,
       PreviewReturns, StructuredRung, PlainReturns, Demoted, Extract, GenericReport
      <4> QED
        BY <4>1, <4>2
    <3> QED
      BY <3>1, <3>2, <3>3
  <2> QED
    BY <2>1, <2>2 DEF CountsDown
<1>2. IInv /\ (SettingsRemoved \/ TemplateRemoved) => CountsDown
  BY DEF IInv, TypeOK, Targets, SettingsRemoved, TemplateRemoved, locals, CountsDown
<1>3. IInv /\ Crash => CountsDown
  BY DEF IInv, TypeOK, PCs, Targets, Crash, CountsDown
<1>4. IInv /\ [Next]_vars => [CountsDown]_vars
  BY <1>1, <1>2, <1>3 DEF Next, WorldNext
<1> QED
  BY Invariance, <1>4, PTL DEF Spec
=============================================================================
