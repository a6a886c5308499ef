------------------------- MODULE PreviewCacheProofs -------------------------
(***************************************************************************)
(* The preview cache is sound for any number of threads, contents, inodes  *)
(* and modifications.  The heart of IInv is RenderInv: as long as the      *)
(* source still has the identity a request took first, nothing but the     *)
(* content of that identity can have been read, because every modification *)
(* gets a change time that no identity taken before it contains.           *)
(***************************************************************************)
EXTENDS PreviewCache, TLAPS

Asking  == {"get", "render", "recheck", "mkstemp", "write", "replace", "cleanup"}
Putting == {"mkstemp", "write", "replace", "cleanup"}
Staged  == {"write", "replace", "cleanup"}

\* The source has one content per identity, and no identity from the future.
SourceInv ==
    /\ file # Nothing => was[FileId(file)] = file.content /\ file.ctime <= clock
    /\ \A i \in FileIds : i[2] > clock => was[i] = Nothing

\* A request for the source has seen what the source is now.
SeenInv ==
    \A t \in Threads :
        pc[t] \notin Over /\ id[t] \notin MemberIds /\ file # Nothing =>
            file.content \in seen[t]

\* A request knows an identity the source had while it ran.
IdentityInv ==
    \A t \in Threads :
        /\ pc[t] \in {"idle", "fingerprint"} => id[t] = Nothing
        /\ pc[t] \in Asking => id[t] \in Ids /\ ContentOf(id[t]) \in seen[t]

\* What was read for a rendering is what the source has been since the request
\* began, and as long as its identity is the same, one content.
Gathered(t) ==
    /\ pieces[t] \subseteq seen[t]
    /\ Unchanged(t) => pieces[t] \subseteq {ContentOf(id[t])}

\* What has been rendered so far.
RenderInv ==
    \A t \in Threads :
        /\ pc[t] \in {"idle", "fingerprint", "get"} => pieces[t] = {}
        /\ pc[t] = "render" => Gathered(t)
        /\ pc[t] = "recheck" => pieces[t] = {Blank} \/ (Gathered(t) /\ pieces[t] # {})
        /\ pc[t] \in Putting => pieces[t] \in {{ContentOf(id[t])}, {Blank}}

\* A staging file has one owner, which alone writes to it.
StageInv ==
    /\ \A t \in Threads : pc[t] \in Staged <=> tmp[t] # Nothing
    /\ \A t \in Threads : tmp[t] # Nothing => staging[tmp[t]] # {}
    /\ \A t, u \in Threads : tmp[t] = tmp[u] /\ tmp[t] # Nothing => t = u
    /\ \A t \in Threads : pc[t] = "replace" => staging[tmp[t]] = pieces[t]

IInv ==
    /\ TypeOK /\ SourceInv /\ SeenInv /\ IdentityInv /\ RenderInv /\ StageInv
    /\ CacheSound /\ ServedFresh /\ StagingOwned

---------------------------------------------------------------------------
\* Identities of files and of members are told apart, and their parts typed.
LEMMA IdFacts ==
    /\ \A i \in MemberIds : i \in Ids /\ i \notin FileIds /\ i[2] \in Contents
    /\ \A i \in FileIds : i \in Ids /\ i \notin MemberIds /\ i[2] \in 0..MaxTime
    /\ \A c \in Contents : <<"bytes", c>> \in MemberIds /\ <<"bytes", c>>[2] = c
    /\ \A f \in Files : FileId(f) \in FileIds /\ FileId(f)[2] = f.ctime
    /\ \A f \in Files : f.content \in Contents /\ f.attr \in KeyAttrs
BY InodesAssumption DEF MemberIds, FileIds, Ids, Files, FileId, KeyAttrs

\* The identity of a member's bytes is the digest of what was extracted.
LEMMA MemberStarts ==
    ASSUME TypeOK, NEW t \in Threads, StartMember(t)
    PROVE  \E c \in Contents :
             /\ id' = [id EXCEPT ![t] = <<"bytes", c>>]
             /\ <<"bytes", c>> \in MemberIds /\ <<"bytes", c>>[2] = c
             /\ seen' = [seen EXCEPT ![t] = {c}]
<1>1. PICK c \in Members : /\ id' = [id EXCEPT ![t] = <<"bytes", c>>]
                          /\ seen' = [seen EXCEPT ![t] = {c}]
  BY DEF StartMember
<1>2. c \in Contents
  BY <1>1, ContentsAssumption
<1> QED
  BY <1>1, <1>2, IdFacts

\* An asking thread's key is one of the store's.
LEMMA KeyTyped ==
    ASSUME TypeOK, IdentityInv, NEW t \in Threads, pc[t] \in Asking
    PROVE  Key(t) \in Keys /\ Key(t)[2] = id[t] /\ ContentOf(id[t]) \in Contents
<1>1. attr[t] \in KeyAttrs /\ id[t] \in Ids
  BY DEF TypeOK, IdentityInv
<1>2. ContentOf(id[t]) \in Contents
  BY DEF TypeOK, IdentityInv
<1> QED
  BY <1>1, <1>2 DEF Key, Keys

---------------------------------------------------------------------------
(* Steps of the request threads, one lemma per conjunct of IInv *)

LEMMA TypeStep ==
    ASSUME TypeOK, IdentityInv, StageInv, NEW t \in Threads, ThreadNext(t)
    PROVE  TypeOK'
<1> USE DEF TypeOK, Pieces, PCs, Files, FileIds, MemberIds, Ids, Keys, KeyAttrs,
           source, cache, locals,
           Key, FileId, IdentityInv, StageInv, Asking, Staged
<1>1. CASE StartFile(t)
  BY <1>1 DEF StartFile, Goes
<1>2. CASE StartRaises(t)
  BY <1>2 DEF StartRaises, Goes, Drops
<1>3. CASE StartMember(t)
  <2>1. PICK c \in Members : /\ id' = [id EXCEPT ![t] = <<"bytes", c>>]
                           /\ seen' = [seen EXCEPT ![t] = {c}]
    BY <1>3 DEF StartMember
  <2>2. id' \in [Threads -> Ids \union {Nothing}]
    BY <2>1, ContentsAssumption DEF StartMember
  <2> QED
    BY <1>3, <2>1, <2>2, ContentsAssumption DEF StartMember, Goes
<1>4. CASE Fingerprint(t)
  BY <1>4 DEF Fingerprint, Goes
<1>5. CASE FingerprintRaises(t)
  BY <1>5 DEF FingerprintRaises, Goes, Drops
<1>6. CASE GetHit(t)
  BY <1>6 DEF GetHit, Goes
<1>7. CASE GetMiss(t)
  BY <1>7 DEF GetMiss, Goes
<1>8. CASE RenderReads(t)
  BY <1>8 DEF RenderReads
<1>9. CASE Rendered(t)
  BY <1>9 DEF Rendered, Goes
<1>10. CASE RenderFails(t)
  BY <1>10 DEF RenderFails, Goes, Drops
<1>11. CASE RecheckSame(t)
  BY <1>11 DEF RecheckSame, Goes
<1>12. CASE RecheckDiffers(t)
  BY <1>12 DEF RecheckDiffers, Goes
<1>13. CASE RecheckRaises(t)
  BY <1>13 DEF RecheckRaises, Goes, Drops
<1>14. CASE Mkstemp(t)
  BY <1>14 DEF Mkstemp, Goes
<1>15. CASE MkstempFails(t)
  BY <1>15 DEF MkstempFails, Goes, Drops
<1>16. CASE WriteTmp(t)
  BY <1>16 DEF WriteTmp, Goes
<1>17. CASE PutFails(t)
  BY <1>17 DEF PutFails, Goes
<1>18. CASE Replace(t)
  BY <1>18 DEF Replace, Goes
<1>19. CASE Cleanup(t)
  BY <1>19 DEF Cleanup, Goes, Drops
<1>20. CASE Answered(t)
  BY <1>20 DEF Answered, Goes, Drops
<1>21. CASE RenderedBlank(t)
  BY <1>21 DEF RenderedBlank, Goes
<1> QED
  BY <1>1, <1>2, <1>3, <1>4, <1>5, <1>6, <1>7, <1>8, <1>9, <1>10, <1>11,
      <1>12, <1>13, <1>14, <1>15, <1>16, <1>17, <1>18, <1>19, <1>20, <1>21
  DEF ThreadNext

\* Thread steps leave the source alone.
LEMMA SourceStep ==
    ASSUME SourceInv, NEW t \in Threads, ThreadNext(t)
    PROVE  SourceInv'
<1>1. UNCHANGED source
  BY DEF ThreadNext, StartFile, StartRaises, StartMember, Fingerprint, FingerprintRaises,
     GetHit, GetMiss, RenderReads, Rendered, RenderedBlank, RenderFails, RecheckSame, RecheckDiffers,
     RecheckRaises, Mkstemp, MkstempFails, WriteTmp, PutFails, Replace, Cleanup,
     Answered, source, cache, locals
<1> QED
  BY <1>1 DEF SourceInv, source

LEMMA SeenStep ==
    ASSUME TypeOK, SeenInv, IdentityInv, NEW t \in Threads, ThreadNext(t)
    PROVE  SeenInv'
<1> USE DEF SeenInv, IdentityInv, Asking, TypeOK, PCs, Over,
           source, cache, locals
<1>1. CASE StartFile(t)
  BY <1>1 DEF StartFile, Goes
<1>2. CASE StartRaises(t)
  BY <1>2 DEF StartRaises, Goes, Drops
<1>3. CASE StartMember(t)
  <2>1. PICK c \in Contents : /\ id' = [id EXCEPT ![t] = <<"bytes", c>>]
                            /\ <<"bytes", c>> \in MemberIds /\ <<"bytes", c>>[2] = c
                            /\ seen' = [seen EXCEPT ![t] = {c}]
    BY <1>3, MemberStarts
  <2>2. id'[t] \in MemberIds
    BY <2>1
  <2> QED
    BY <1>3, <2>1, <2>2 DEF StartMember, Goes
<1>4. CASE Fingerprint(t)
  <2>1. id[t] \notin MemberIds
    BY <1>4, NothingAssumption DEF Fingerprint, Goes, MemberIds
  <2> QED
    BY <1>4, <2>1 DEF Fingerprint, Goes
<1>5. CASE FingerprintRaises(t)
  BY <1>5 DEF FingerprintRaises, Goes, Drops
<1>6. CASE GetHit(t)
  BY <1>6 DEF GetHit, Goes
<1>7. CASE GetMiss(t)
  BY <1>7 DEF GetMiss, Goes
<1>8. CASE RenderReads(t)
  BY <1>8 DEF RenderReads
<1>9. CASE Rendered(t)
  BY <1>9 DEF Rendered, Goes
<1>10. CASE RenderFails(t)
  BY <1>10 DEF RenderFails, Goes, Drops
<1>11. CASE RecheckSame(t)
  BY <1>11 DEF RecheckSame, Goes
<1>12. CASE RecheckDiffers(t)
  BY <1>12 DEF RecheckDiffers, Goes
<1>13. CASE RecheckRaises(t)
  BY <1>13 DEF RecheckRaises, Goes, Drops
<1>14. CASE Mkstemp(t)
  BY <1>14 DEF Mkstemp, Goes
<1>15. CASE MkstempFails(t)
  BY <1>15 DEF MkstempFails, Goes, Drops
<1>16. CASE WriteTmp(t)
  BY <1>16 DEF WriteTmp, Goes
<1>17. CASE PutFails(t)
  BY <1>17 DEF PutFails, Goes
<1>18. CASE Replace(t)
  BY <1>18 DEF Replace, Goes
<1>19. CASE Cleanup(t)
  BY <1>19 DEF Cleanup, Goes, Drops
<1>20. CASE Answered(t)
  BY <1>20 DEF Answered, Goes, Drops
<1>21. CASE RenderedBlank(t)
  BY <1>21 DEF RenderedBlank, Goes
<1> QED
  BY <1>1, <1>2, <1>3, <1>4, <1>5, <1>6, <1>7, <1>8, <1>9, <1>10, <1>11,
      <1>12, <1>13, <1>14, <1>15, <1>16, <1>17, <1>18, <1>19, <1>20, <1>21
  DEF ThreadNext

LEMMA IdentityStep ==
    ASSUME TypeOK, SourceInv, SeenInv, IdentityInv, NEW t \in Threads, ThreadNext(t)
    PROVE  IdentityInv'
<1> USE DEF IdentityInv, SourceInv, Asking, ContentOf, TypeOK, PCs,
           source, cache, locals
<1>1. CASE StartFile(t)
  BY <1>1 DEF StartFile, Goes
<1>2. CASE StartRaises(t)
  BY <1>2 DEF StartRaises, Goes, Drops
<1>3. CASE StartMember(t)
  <2>1. PICK c \in Contents : /\ id' = [id EXCEPT ![t] = <<"bytes", c>>]
                            /\ <<"bytes", c>> \in MemberIds /\ <<"bytes", c>>[2] = c
                            /\ seen' = [seen EXCEPT ![t] = {c}]
    BY <1>3, MemberStarts
  <2>2. id'[t] \in MemberIds /\ id'[t][2] \in seen'[t] /\ id'[t] \in Ids
    BY <2>1, IdFacts
  <2> QED
    BY <1>3, <2>1, <2>2 DEF StartMember, Goes
<1>4. CASE Fingerprint(t)
  <2>1. /\ file \in Files /\ FileId(file) \in Ids
        /\ FileId(file) \notin MemberIds /\ was[FileId(file)] = file.content
    BY <1>4, IdFacts DEF Fingerprint
  <2>2. id[t] \notin MemberIds
    BY <1>4, NothingAssumption DEF Fingerprint, Goes, MemberIds
  <2>3. file.content \in seen[t]
    BY <1>4, <2>2 DEF Fingerprint, Goes, SeenInv, Over
  <2> QED
    BY <1>4, <2>1, <2>3 DEF Fingerprint, Goes
<1>5. CASE FingerprintRaises(t)
  BY <1>5 DEF FingerprintRaises, Goes, Drops
<1>6. CASE GetHit(t)
  BY <1>6 DEF GetHit, Goes
<1>7. CASE GetMiss(t)
  BY <1>7 DEF GetMiss, Goes
<1>8. CASE RenderReads(t)
  BY <1>8 DEF RenderReads
<1>9. CASE Rendered(t)
  BY <1>9 DEF Rendered, Goes
<1>10. CASE RenderFails(t)
  BY <1>10 DEF RenderFails, Goes, Drops
<1>11. CASE RecheckSame(t)
  BY <1>11 DEF RecheckSame, Goes
<1>12. CASE RecheckDiffers(t)
  BY <1>12 DEF RecheckDiffers, Goes
<1>13. CASE RecheckRaises(t)
  BY <1>13 DEF RecheckRaises, Goes, Drops
<1>14. CASE Mkstemp(t)
  BY <1>14 DEF Mkstemp, Goes
<1>15. CASE MkstempFails(t)
  BY <1>15 DEF MkstempFails, Goes, Drops
<1>16. CASE WriteTmp(t)
  BY <1>16 DEF WriteTmp, Goes
<1>17. CASE PutFails(t)
  BY <1>17 DEF PutFails, Goes
<1>18. CASE Replace(t)
  BY <1>18 DEF Replace, Goes
<1>19. CASE Cleanup(t)
  BY <1>19 DEF Cleanup, Goes, Drops
<1>20. CASE Answered(t)
  BY <1>20 DEF Answered, Goes, Drops
<1>21. CASE RenderedBlank(t)
  BY <1>21 DEF RenderedBlank, Goes
<1> QED
  BY <1>1, <1>2, <1>3, <1>4, <1>5, <1>6, <1>7, <1>8, <1>9, <1>10, <1>11,
      <1>12, <1>13, <1>14, <1>15, <1>16, <1>17, <1>18, <1>19, <1>20, <1>21
  DEF ThreadNext

LEMMA StageStep ==
    ASSUME TypeOK, RenderInv, StageInv, NEW t \in Threads, ThreadNext(t)
    PROVE  StageInv'
<1> USE DEF StageInv, RenderInv, Putting, Staged, TypeOK, PCs,
           source, cache, locals
<1>1. CASE StartFile(t)
  BY <1>1 DEF StartFile, Goes
<1>2. CASE StartRaises(t)
  BY <1>2 DEF StartRaises, Goes, Drops
<1>3. CASE StartMember(t)
  BY <1>3 DEF StartMember, Goes
<1>4. CASE Fingerprint(t)
  BY <1>4 DEF Fingerprint, Goes
<1>5. CASE FingerprintRaises(t)
  BY <1>5 DEF FingerprintRaises, Goes, Drops
<1>6. CASE GetHit(t)
  BY <1>6 DEF GetHit, Goes
<1>7. CASE GetMiss(t)
  BY <1>7 DEF GetMiss, Goes
<1>8. CASE RenderReads(t)
  BY <1>8 DEF RenderReads
<1>9. CASE Rendered(t)
  BY <1>9 DEF Rendered, Goes
<1>10. CASE RenderFails(t)
  BY <1>10 DEF RenderFails, Goes, Drops
<1>11. CASE RecheckSame(t)
  BY <1>11 DEF RecheckSame, Goes
<1>12. CASE RecheckDiffers(t)
  BY <1>12 DEF RecheckDiffers, Goes
<1>13. CASE RecheckRaises(t)
  BY <1>13 DEF RecheckRaises, Goes, Drops
<1>14. CASE Mkstemp(t)
  <2>1. PICK n \in Tmps : /\ staging[n] = {}
                        /\ tmp' = [tmp EXCEPT ![t] = n]
                        /\ staging' = [staging EXCEPT ![n] = {Torn}]
    BY <1>14 DEF Mkstemp
  <2>2. \A u \in Threads : tmp[u] # n
    BY <2>1, NothingAssumption
  <2>3. n # Nothing
    BY NothingAssumption
  <2>4. /\ tmp'[t] = n /\ staging'[n] = {Torn}
        /\ \A u \in Threads \ {t} : tmp'[u] = tmp[u] /\ pc'[u] = pc[u] /\ pieces'[u] = pieces[u]
        /\ \A m \in Tmps \ {n} : staging'[m] = staging[m]
        /\ pc'[t] = "write"
    BY <1>14, <2>1 DEF Mkstemp, Goes
  <2>5. \A u \in Threads \ {t} : tmp[u] # Nothing => tmp[u] \in Tmps \ {n}
    BY <2>2
  <2>6. \A u \in Threads : pc'[u] \in Staged <=> tmp'[u] # Nothing
    BY <2>3, <2>4
  <2>7. \A u \in Threads : tmp'[u] # Nothing => staging'[tmp'[u]] # {}
    <3>1. ASSUME NEW u \in Threads \ {t}, tmp[u] # Nothing
          PROVE  staging'[tmp'[u]] = staging[tmp[u]] /\ staging[tmp[u]] # {}
      BY <2>4, <2>5, <3>1
    <3> QED
      BY <2>4, <3>1
  <2>8. \A u, v \in Threads : tmp'[u] = tmp'[v] /\ tmp'[u] # Nothing => u = v
    BY <2>2, <2>4
  <2>9. \A u \in Threads : pc'[u] = "replace" => staging'[tmp'[u]] = pieces'[u]
    BY <2>4, <2>5
  <2> QED
    BY <2>6, <2>7, <2>8, <2>9
<1>15. CASE MkstempFails(t)
  BY <1>15 DEF MkstempFails, Goes, Drops
<1>16. CASE WriteTmp(t)
  <2>1. pc[t] = "write"
    BY <1>16 DEF WriteTmp, Goes
  <2>2. tmp[t] # Nothing /\ tmp[t] \in Tmps
    BY <2>1
  <2>3. pieces[t] # {}
    BY <2>1, ZenonT(40)
  <2>4. \A u \in Threads \ {t} : tmp[u] # tmp[t]
    BY <2>2
  <2> QED
    BY <1>16, <2>2, <2>3, <2>4 DEF WriteTmp, Goes
<1>17. CASE PutFails(t)
  BY <1>17 DEF PutFails, Goes
<1>18. CASE Replace(t)
  BY <1>18 DEF Replace, Goes
<1>19. CASE Cleanup(t)
  BY <1>19 DEF Cleanup, Goes, Drops
<1>20. CASE Answered(t)
  BY <1>20 DEF Answered, Goes, Drops
<1>21. CASE RenderedBlank(t)
  BY <1>21 DEF RenderedBlank, Goes
<1> QED
  BY <1>1, <1>2, <1>3, <1>4, <1>5, <1>6, <1>7, <1>8, <1>9, <1>10, <1>11,
      <1>12, <1>13, <1>14, <1>15, <1>16, <1>17, <1>18, <1>19, <1>20, <1>21
  DEF ThreadNext

LEMMA RenderStep ==
    ASSUME TypeOK, SourceInv, SeenInv, IdentityInv, RenderInv, NEW t \in Threads, ThreadNext(t)
    PROVE  RenderInv'
<1> USE DEF RenderInv, Gathered, Asking, Putting, Unchanged, ContentOf, TypeOK, PCs,
           source, cache, locals
<1>1. CASE StartFile(t)
  BY <1>1 DEF StartFile, Goes
<1>2. CASE StartRaises(t)
  BY <1>2 DEF StartRaises, Goes, Drops
<1>3. CASE StartMember(t)
  <2>1. pieces'[t] = {}
    BY <1>3 DEF StartMember, Goes
  <2> QED
    BY <1>3, <2>1 DEF StartMember, Goes
<1>4. CASE Fingerprint(t)
  <2>1. pieces'[t] = {}
    BY <1>4 DEF Fingerprint, Goes
  <2> QED
    BY <1>4, <2>1 DEF Fingerprint, Goes
<1>5. CASE FingerprintRaises(t)
  BY <1>5 DEF FingerprintRaises, Goes, Drops
<1>6. CASE GetHit(t)
  BY <1>6 DEF GetHit, Goes
<1>7. CASE GetMiss(t)
  BY <1>7 DEF GetMiss, Goes
<1>8. CASE RenderReads(t)
  <2>1. pc[t] = "render" /\ id[t] \in FileIds /\ id[t] \notin MemberIds /\ file # Nothing
    BY <1>8, IdFacts DEF RenderReads
  <2>2. file.content \in seen[t]
    BY <2>1 DEF SeenInv, Over
  <2>3. FileId(file) = id[t] => file.content = was[id[t]]
    BY <2>1 DEF SourceInv
  <2>4. pieces'[t] = pieces[t] \union {file.content}
    BY <1>8 DEF RenderReads
  <2> QED
    BY <1>8, <2>1, <2>2, <2>3, <2>4 DEF RenderReads
<1>9. CASE Rendered(t)
  <2>1. pc[t] = "render" /\ pc'[t] = "recheck"
    BY <1>9 DEF Rendered, Goes
  <2>2. id[t] \in MemberIds => id[t][2] \in seen[t]
    BY <2>1 DEF IdentityInv, Asking
  <2>3. CASE id[t] \in MemberIds
    <3>1. pieces' = [pieces EXCEPT ![t] = {id[t][2]}] /\ UNCHANGED <<file, was, id, seen>>
      BY <1>9, <2>3, IdFacts DEF Rendered
    <3> QED
      BY <1>9, <2>1, <2>2, <2>3, <3>1 DEF Rendered, Goes
  <2>4. CASE id[t] \in FileIds
    BY <1>9, <2>1, <2>4, IdFacts DEF Rendered, Goes
  <2> QED
    BY <1>9, <2>3, <2>4 DEF Rendered
<1>10. CASE RenderFails(t)
  BY <1>10 DEF RenderFails, Goes, Drops
<1>11. CASE RecheckSame(t)
  BY <1>11 DEF RecheckSame, Goes
<1>12. CASE RecheckDiffers(t)
  BY <1>12 DEF RecheckDiffers, Goes
<1>13. CASE RecheckRaises(t)
  BY <1>13 DEF RecheckRaises, Goes, Drops
<1>14. CASE Mkstemp(t)
  BY <1>14 DEF Mkstemp, Goes
<1>15. CASE MkstempFails(t)
  BY <1>15 DEF MkstempFails, Goes, Drops
<1>16. CASE WriteTmp(t)
  BY <1>16 DEF WriteTmp, Goes
<1>17. CASE PutFails(t)
  BY <1>17 DEF PutFails, Goes
<1>18. CASE Replace(t)
  BY <1>18 DEF Replace, Goes
<1>19. CASE Cleanup(t)
  BY <1>19 DEF Cleanup, Goes, Drops
<1>20. CASE Answered(t)
  BY <1>20 DEF Answered, Goes, Drops
<1>21. CASE RenderedBlank(t)
  BY <1>21 DEF RenderedBlank, Goes
<1> QED
  BY <1>1, <1>2, <1>3, <1>4, <1>5, <1>6, <1>7, <1>8, <1>9, <1>10, <1>11,
      <1>12, <1>13, <1>14, <1>15, <1>16, <1>17, <1>18, <1>19, <1>20, <1>21
  DEF ThreadNext

LEMMA FreshStep ==
    ASSUME TypeOK, IdentityInv, RenderInv, CacheSound, ServedFresh, NEW t \in Threads, ThreadNext(t)
    PROVE  ServedFresh'
<1> USE DEF ServedFresh, RenderInv, Gathered, Putting, TypeOK, PCs,
           source, cache, locals
<1>1. CASE StartFile(t)
  BY <1>1 DEF StartFile, Goes
<1>2. CASE StartRaises(t)
  BY <1>2 DEF StartRaises, Goes, Drops
<1>3. CASE StartMember(t)
  BY <1>3 DEF StartMember, Goes
<1>4. CASE Fingerprint(t)
  BY <1>4 DEF Fingerprint, Goes
<1>5. CASE FingerprintRaises(t)
  BY <1>5 DEF FingerprintRaises, Goes, Drops
<1>6. CASE GetHit(t)
  <2>1. pc[t] \in Asking
    BY <1>6 DEF GetHit, Goes, Asking
  <2>2. store[Key(t)] \in {{ContentOf(id[t])}, {Blank}}
    BY <1>6, <2>1, KeyTyped DEF GetHit, CacheSound
  <2>3. ContentOf(id[t]) \in seen[t]
    BY <2>1 DEF IdentityInv
  <2> QED
    BY <1>6, <2>2, <2>3 DEF GetHit, Goes
<1>7. CASE GetMiss(t)
  BY <1>7 DEF GetMiss, Goes
<1>8. CASE RenderReads(t)
  BY <1>8 DEF RenderReads
<1>9. CASE Rendered(t)
  BY <1>9 DEF Rendered, Goes
<1>10. CASE RenderFails(t)
  BY <1>10 DEF RenderFails, Goes, Drops
<1>11. CASE RecheckSame(t)
  BY <1>11 DEF RecheckSame, Goes
<1>12. CASE RecheckDiffers(t)
  BY <1>12 DEF RecheckDiffers, Goes
<1>13. CASE RecheckRaises(t)
  BY <1>13 DEF RecheckRaises, Goes, Drops
<1>14. CASE Mkstemp(t)
  BY <1>14 DEF Mkstemp, Goes
<1>15. CASE MkstempFails(t)
  BY <1>15 DEF MkstempFails, Goes, Drops
<1>16. CASE WriteTmp(t)
  BY <1>16 DEF WriteTmp, Goes
<1>17. CASE PutFails(t)
  BY <1>17 DEF PutFails, Goes
<1>18. CASE Replace(t)
  <2>1. pc[t] \in Asking /\ pieces[t] \in {{ContentOf(id[t])}, {Blank}}
    BY <1>18 DEF Replace, Goes, Asking
  <2>2. ContentOf(id[t]) \in seen[t]
    BY <2>1 DEF IdentityInv
  <2> QED
    BY <1>18, <2>1, <2>2 DEF Replace, Goes
<1>19. CASE Cleanup(t)
  BY <1>19 DEF Cleanup, Goes, Drops
<1>20. CASE Answered(t)
  BY <1>20 DEF Answered, Goes, Drops
<1>21. CASE RenderedBlank(t)
  BY <1>21 DEF RenderedBlank, Goes
<1> QED
  BY <1>1, <1>2, <1>3, <1>4, <1>5, <1>6, <1>7, <1>8, <1>9, <1>10, <1>11,
      <1>12, <1>13, <1>14, <1>15, <1>16, <1>17, <1>18, <1>19, <1>20, <1>21
  DEF ThreadNext

LEMMA CacheStep ==
    ASSUME TypeOK, IdentityInv, RenderInv, StageInv, CacheSound, NEW t \in Threads, ThreadNext(t)
    PROVE  CacheSound'
<1> USE DEF CacheSound, ContentOf, TypeOK, PCs,
           source, cache, locals
<1>1. CASE StartFile(t)
  BY <1>1 DEF StartFile, Goes
<1>2. CASE StartRaises(t)
  BY <1>2 DEF StartRaises, Goes, Drops
<1>3. CASE StartMember(t)
  BY <1>3 DEF StartMember, Goes
<1>4. CASE Fingerprint(t)
  BY <1>4 DEF Fingerprint, Goes
<1>5. CASE FingerprintRaises(t)
  BY <1>5 DEF FingerprintRaises, Goes, Drops
<1>6. CASE GetHit(t)
  BY <1>6 DEF GetHit, Goes
<1>7. CASE GetMiss(t)
  BY <1>7 DEF GetMiss, Goes
<1>8. CASE RenderReads(t)
  BY <1>8 DEF RenderReads
<1>9. CASE Rendered(t)
  BY <1>9 DEF Rendered, Goes
<1>10. CASE RenderFails(t)
  BY <1>10 DEF RenderFails, Goes, Drops
<1>11. CASE RecheckSame(t)
  BY <1>11 DEF RecheckSame, Goes
<1>12. CASE RecheckDiffers(t)
  BY <1>12 DEF RecheckDiffers, Goes
<1>13. CASE RecheckRaises(t)
  BY <1>13 DEF RecheckRaises, Goes, Drops
<1>14. CASE Mkstemp(t)
  BY <1>14 DEF Mkstemp, Goes
<1>15. CASE MkstempFails(t)
  BY <1>15 DEF MkstempFails, Goes, Drops
<1>16. CASE WriteTmp(t)
  BY <1>16 DEF WriteTmp, Goes
<1>17. CASE PutFails(t)
  BY <1>17 DEF PutFails, Goes
<1>18. CASE Replace(t)
  <2>1. /\ pc[t] \in Asking /\ staging[tmp[t]] = pieces[t]
        /\ pieces[t] \in {{ContentOf(id[t])}, {Blank}}
    BY <1>18 DEF Replace, Goes, Asking, RenderInv, Putting, StageInv
  <2>2. store' = [store EXCEPT ![Key(t)] = pieces[t]] /\ was' = was
    BY <1>18, <2>1 DEF Replace
  <2>3. Key(t) \in Keys /\ Key(t)[2] = id[t]
    BY <2>1, KeyTyped
  <2> QED
    BY <2>1, <2>2, <2>3
<1>19. CASE Cleanup(t)
  BY <1>19 DEF Cleanup, Goes, Drops
<1>20. CASE Answered(t)
  BY <1>20 DEF Answered, Goes, Drops
<1>21. CASE RenderedBlank(t)
  BY <1>21 DEF RenderedBlank, Goes
<1> QED
  BY <1>1, <1>2, <1>3, <1>4, <1>5, <1>6, <1>7, <1>8, <1>9, <1>10, <1>11,
      <1>12, <1>13, <1>14, <1>15, <1>16, <1>17, <1>18, <1>19, <1>20, <1>21
  DEF ThreadNext

LEMMA OwnedStep ==
    ASSUME TypeOK, StageInv, StagingOwned, NEW t \in Threads, ThreadNext(t)
    PROVE  StagingOwned'
<1> USE DEF StagingOwned, StageInv, Staged, TypeOK,
           source, cache, locals
<1>1. CASE StartFile(t)
  BY <1>1 DEF StartFile, Goes
<1>2. CASE StartRaises(t)
  BY <1>2 DEF StartRaises, Goes, Drops
<1>3. CASE StartMember(t)
  BY <1>3 DEF StartMember, Goes
<1>4. CASE Fingerprint(t)
  BY <1>4 DEF Fingerprint, Goes
<1>5. CASE FingerprintRaises(t)
  BY <1>5 DEF FingerprintRaises, Goes, Drops
<1>6. CASE GetHit(t)
  BY <1>6 DEF GetHit, Goes
<1>7. CASE GetMiss(t)
  BY <1>7 DEF GetMiss, Goes
<1>8. CASE RenderReads(t)
  BY <1>8 DEF RenderReads
<1>9. CASE Rendered(t)
  BY <1>9 DEF Rendered, Goes
<1>10. CASE RenderFails(t)
  BY <1>10 DEF RenderFails, Goes, Drops
<1>11. CASE RecheckSame(t)
  BY <1>11 DEF RecheckSame, Goes
<1>12. CASE RecheckDiffers(t)
  BY <1>12 DEF RecheckDiffers, Goes
<1>13. CASE RecheckRaises(t)
  BY <1>13 DEF RecheckRaises, Goes, Drops
<1>14. CASE Mkstemp(t)
  <2>1. PICK n \in Tmps : /\ tmp' = [tmp EXCEPT ![t] = n]
                        /\ staging' = [staging EXCEPT ![n] = {Torn}]
    BY <1>14 DEF Mkstemp
  <2>2. tmp[t] = Nothing
    BY <1>14 DEF Mkstemp, Goes
  <2>3. orphans' = orphans
    BY <1>14 DEF Mkstemp
  <2> QED
    BY <2>1, <2>2, <2>3, NothingAssumption
<1>15. CASE MkstempFails(t)
  BY <1>15 DEF MkstempFails, Goes, Drops
<1>16. CASE WriteTmp(t)
  BY <1>16 DEF WriteTmp, Goes
<1>17. CASE PutFails(t)
  BY <1>17 DEF PutFails, Goes
<1>18. CASE Replace(t)
  BY <1>18 DEF Replace, Goes
<1>19. CASE Cleanup(t)
  BY <1>19 DEF Cleanup, Goes, Drops
<1>20. CASE Answered(t)
  BY <1>20 DEF Answered, Goes, Drops
<1>21. CASE RenderedBlank(t)
  BY <1>21 DEF RenderedBlank, Goes
<1> QED
  BY <1>1, <1>2, <1>3, <1>4, <1>5, <1>6, <1>7, <1>8, <1>9, <1>10, <1>11,
      <1>12, <1>13, <1>14, <1>15, <1>16, <1>17, <1>18, <1>19, <1>20, <1>21
  DEF ThreadNext

---------------------------------------------------------------------------
(* Steps of the world *)

LEMMA WrittenStep ==
    ASSUME IInv, SourceWritten
    PROVE  IInv'
<1>1. PICK f \in Files : f.ctime = clock + 1 /\ SourceBecomes(f)
  BY DEF SourceWritten
<1>2. /\ file' = f /\ was' = [was EXCEPT ![FileId(f)] = f.content]
      /\ clock' = f.ctime /\ Witness(f) /\ UNCHANGED <<cache, locals>>
  BY <1>1 DEF SourceBecomes
<1>3. /\ FileId(f) \in FileIds /\ FileId(f)[2] = clock + 1 /\ clock' = clock + 1
      /\ clock \in 0..MaxTime /\ f.content \in Contents /\ MaxTime \in Nat
  BY <1>1, <1>2, IdFacts, TimeAssumption DEF IInv, TypeOK
<1>4. was[FileId(f)] = Nothing
  BY <1>3 DEF IInv, SourceInv
<1>5. \A i \in Ids : ContentOf(i) \in Contents =>
          ContentOf(i)' = ContentOf(i) /\ (i \in FileIds => i # FileId(f))
  BY <1>2, <1>3, <1>4, IdFacts, NothingAssumption DEF IInv, TypeOK, ContentOf, Ids
<1>6. TypeOK'
  BY <1>1, <1>2, <1>3 DEF IInv, TypeOK, Witness, cache, locals, Files
<1>7. SourceInv'
  <2>1. was'[FileId(f)] = f.content
    BY <1>2, <1>3 DEF IInv, TypeOK
  <2>2. \A i \in FileIds : i[2] > clock + 1 => was'[i] = Nothing
    BY <1>2, <1>3, IdFacts DEF IInv, TypeOK, SourceInv
  <2> QED
    BY <1>2, <1>3, <2>1, <2>2 DEF SourceInv, FileId
<1>8. \A t \in Threads : seen[t] \subseteq seen'[t]
  BY <1>2 DEF Witness, IInv, TypeOK
<1>9. SeenInv'
  BY <1>1, <1>2 DEF SeenInv, Witness, locals, IInv, TypeOK
<1>10. \A t \in Threads : pc[t] \in Asking =>
          ContentOf(id[t]) \in Contents /\ ContentOf(id[t])' = ContentOf(id[t])
  <2> SUFFICES ASSUME NEW t \in Threads, pc[t] \in Asking
               PROVE  ContentOf(id[t]) \in Contents /\ ContentOf(id[t])' = ContentOf(id[t])
    OBVIOUS
  <2>1. id[t] \in Ids /\ ContentOf(id[t]) \in Contents
    BY KeyTyped DEF IInv, IdentityInv
  <2>2. id' = id
    BY <1>2 DEF locals
  <2> QED
    BY <1>5, <2>1, <2>2 DEF ContentOf
<1>11. IdentityInv'
  BY <1>2, <1>8, <1>10 DEF IInv, IdentityInv, locals
<1>12. \A t \in Threads : pc[t] \in Asking /\ Unchanged(t)' => id[t] \in MemberIds
  BY <1>2, <1>5, <1>10, <1>3 DEF Unchanged, locals, IInv, IdentityInv, Ids
<1>13. RenderInv'
  <2>1. pc' = pc /\ pieces' = pieces
    BY <1>2 DEF locals
  <2>2. \A t \in Threads : pc[t] \in {"render", "recheck"} /\ Gathered(t) => Gathered(t)'
    <3> SUFFICES ASSUME NEW t \in Threads, pc[t] \in {"render", "recheck"}, Gathered(t)
                 PROVE  Gathered(t)'
      OBVIOUS
    <3>1. pieces'[t] \subseteq seen'[t]
      BY <1>8, <2>1 DEF Gathered
    <3>2. pc[t] \in Asking
      BY DEF Asking
    <3>3. ASSUME Unchanged(t)' PROVE Unchanged(t) /\ ContentOf(id[t])' = ContentOf(id[t])
      BY <1>10, <1>12, <3>2, <3>3 DEF Unchanged
    <3> QED
      BY <2>1, <3>1, <3>3 DEF Gathered
  <2>3. \A t \in Threads : pc[t] \in Putting => pieces[t] \in {{ContentOf(id[t])'}, {Blank}}
    BY <1>10 DEF Asking, Putting, IInv, RenderInv
  <2> QED
    BY <1>8, <2>1, <2>2, <2>3 DEF IInv, RenderInv
<1>14. StageInv' /\ StagingOwned'
  BY <1>2 DEF IInv, StageInv, StagingOwned, cache, locals
<1>15. CacheSound'
  <2> SUFFICES ASSUME NEW k \in Keys, store[k] # {}, store[k] # {Blank}
               PROVE  store[k] = {ContentOf(k[2])'}
    BY <1>2 DEF CacheSound, cache
  <2>1. store[k] = {ContentOf(k[2])} /\ k[2] \in Ids
    BY DEF IInv, CacheSound, Keys
  <2>2. store[k] \subseteq Contents \union {Blank, Torn}
    BY DEF IInv, TypeOK, Pieces
  <2>3. ContentOf(k[2])' = ContentOf(k[2])
    <3>1. CASE k[2] \in MemberIds
      BY <3>1 DEF ContentOf
    <3>2. CASE k[2] \in FileIds
      <4>1. k[2] \notin MemberIds /\ was[k[2]] \in Contents \union {Blank, Torn}
        BY <2>1, <2>2, <3>2, IdFacts DEF ContentOf
      <4>2. k[2] # FileId(f)
        BY <1>4, <4>1, NothingAssumption
      <4> QED
        BY <1>2, <3>2, <4>1, <4>2 DEF ContentOf, IInv, TypeOK
    <3> QED
      BY <2>1, <3>1, <3>2 DEF Ids
  <2> QED
    BY <2>1, <2>3
<1>16. ServedFresh'
  BY <1>2, <1>8 DEF IInv, ServedFresh, locals
<1> QED
  BY <1>6, <1>7, <1>9, <1>11, <1>13, <1>14, <1>15, <1>16 DEF IInv

LEMMA RemovedStep ==
    ASSUME IInv, SourceRemoved
    PROVE  IInv'
<1> USE DEF SourceRemoved, cache, locals
<1>1. TypeOK' /\ SourceInv' /\ SeenInv'
  BY DEF IInv, TypeOK, SourceInv, SeenInv
<1>2. IdentityInv'
  BY DEF IInv, IdentityInv, ContentOf
<1>3. RenderInv'
  BY DEF IInv, RenderInv, Gathered, ContentOf, Unchanged
<1>4. StageInv' /\ StagingOwned' /\ ServedFresh'
  BY DEF IInv, StageInv, StagingOwned, ServedFresh
<1>5. CacheSound'
  BY DEF IInv, CacheSound, ContentOf
<1> QED
  BY <1>1, <1>2, <1>3, <1>4, <1>5 DEF IInv

LEMMA CrashStep ==
    ASSUME IInv, Crash
    PROVE  IInv'
<1> USE DEF Crash, source
<1>1. TypeOK'
  BY DEF IInv, TypeOK, Pieces, PCs, KeyAttrs
<1>2. SourceInv' /\ SeenInv'
  BY DEF IInv, SourceInv, SeenInv, Over
<1>3. IdentityInv' /\ RenderInv'
  BY DEF IdentityInv, RenderInv, Asking, Putting
<1>4. StageInv' /\ StagingOwned' /\ ServedFresh'
  BY DEF StageInv, Staged, StagingOwned, ServedFresh
<1>5. CacheSound'
  BY DEF IInv, CacheSound, ContentOf
<1> QED
  BY <1>1, <1>2, <1>3, <1>4, <1>5 DEF IInv

---------------------------------------------------------------------------
LEMMA InitIInv == Init => IInv
<1> SUFFICES ASSUME Init PROVE IInv
  OBVIOUS
<1>1. file \in Files /\ FileId(file) \in FileIds /\ FileId(file)[2] = 0 /\ 0 \in 0..MaxTime
  BY IdFacts, TimeAssumption DEF Init
<1>2. was \in [FileIds -> Contents \union {Nothing}]
  BY <1>1, IdFacts DEF Init
<1>3. TypeOK
  BY <1>1, <1>2 DEF Init, TypeOK, Pieces, PCs, KeyAttrs
<1>4. SourceInv
  <2>1. was[FileId(file)] = file.content /\ file.ctime <= clock
    BY <1>1 DEF Init
  <2>2. \A i \in FileIds : i[2] > clock => was[i] = Nothing
    BY <1>1, IdFacts DEF Init
  <2> QED
    BY <2>1, <2>2 DEF SourceInv
<1>5. SeenInv /\ IdentityInv /\ RenderInv /\ StageInv
  BY DEF Init, SeenInv, IdentityInv, RenderInv, StageInv, Over, Asking, Putting, Staged
<1>6. CacheSound /\ ServedFresh /\ StagingOwned
  BY DEF Init, CacheSound, ServedFresh, StagingOwned
<1> QED
  BY <1>3, <1>4, <1>5, <1>6 DEF IInv

LEMMA StepIInv == IInv /\ [Next]_vars => IInv'
<1> SUFFICES ASSUME IInv, [Next]_vars PROVE IInv'
  OBVIOUS
<1>1. ASSUME NEW t \in Threads, ThreadNext(t) PROVE IInv'
  BY <1>1, TypeStep, SourceStep, SeenStep, IdentityStep, RenderStep, StageStep,
     CacheStep, FreshStep, OwnedStep DEF IInv
<1>2. CASE WorldNext
  BY <1>2, WrittenStep, RemovedStep, CrashStep DEF WorldNext
<1>3. CASE UNCHANGED vars
  BY <1>3 DEF vars, source, cache, locals, IInv, TypeOK, SourceInv, SeenInv,
     IdentityInv, RenderInv, Gathered, StageInv, CacheSound, ServedFresh, StagingOwned,
     ContentOf, Unchanged
<1> QED
  BY <1>1, <1>2, <1>3 DEF Next

\* IInv is an invariant of the cache and its callers.
THEOREM Inductive == Spec => []IInv
<1> QED
  BY InitIInv, StepIInv, PTL DEF Spec

\* The threads' locals and the cache directory keep their types; in
\* particular every entry is published under a well-formed key.
THEOREM TypeCorrect == Spec => []TypeOK
<1>1. IInv => TypeOK
  BY DEF IInv
<1> QED
  BY <1>1, Inductive, PTL

\* No change of the source during a conversion, no concurrent publication and
\* no crash poisons an entry of the cache (cache.py:57-69, inspectors.py:644).
THEOREM CacheNeverPoisoned == Spec => []CacheSound
<1>1. IInv => CacheSound
  BY DEF IInv
<1> QED
  BY <1>1, Inductive, PTL

\* No preview served is older than its request (inspectors.py:635-638).
THEOREM NoStalePreview == Spec => []ServedFresh
<1>1. IInv => ServedFresh
  BY DEF IInv
<1> QED
  BY <1>1, Inductive, PTL

\* Only a dead process leaves staging files behind (cache.py:67-69).
THEOREM StagingCleanedUp == Spec => []StagingOwned
<1>1. IInv => StagingOwned
  BY DEF IInv
<1> QED
  BY <1>1, Inductive, PTL
=============================================================================
