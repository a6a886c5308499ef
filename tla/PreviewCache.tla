---------------------------- MODULE PreviewCache ----------------------------
(***************************************************************************)
(* The derived-PDF cache (cache.py) and the callers that fill it           *)
(* (inspectors.get_preview_pdf, office_extract.get_preview_pdf), run by     *)
(* request threads while the source file is rewritten, replaced or removed *)
(* under them and the process may die at any step.                         *)
(*                                                                         *)
(* A PDF is represented by the set of the source contents it was rendered  *)
(* from: a sound one has a single element.  Blank stands for the page that  *)
(* says of a video that no frame could be extracted, Torn for a staging    *)
(* file that is not completely written.  The file system (inode numbers,   *)
(* change times) and the converters are external.                          *)
(***************************************************************************)
EXTENDS Naturals, FiniteSets

CONSTANTS
    Threads,    \* request workers asking for a preview of the same source
    Contents,   \* what the source may contain
    Inodes,     \* inode numbers; one is free for reuse once its file is gone
    Attrs,      \* the (size, mtime) pairs of the source: callers may keep one
    Tmps,       \* names mkstemp can return
    Blank,      \* the PDF that shows no frames
    Torn,       \* the content of an unfinished staging file
    Nothing,    \* no content, no identity, no staging name
    Members,    \* what an archive member asked for in its stead may contain
    MaxTime     \* bound on the file system's clock

ASSUME ContentsAssumption ==
    /\ Members \subseteq Contents
    /\ Torn \notin Contents /\ Blank \notin Contents /\ Torn # Blank
ASSUME InodesAssumption == "bytes" \notin Inodes
ASSUME NothingAssumption ==
    /\ Nothing \notin Inodes \union Contents \union Tmps \union {Blank, Torn}
    /\ Nothing \notin {"bytes"} \X Contents
ASSUME TimeAssumption == MaxTime \in Nat

VARIABLES
    file,       \* what the path leads to, Nothing when there is no file
    clock,      \* the file system's clock: the latest ctime given out
    store,      \* store[k]: the entry published under key k, {} when none
    staging,    \* staging[n]: the temporary file n, {} when there is none
    pc, attr, id, pieces, tmp,          \* each thread's position and locals
    was,        \* history: was[i] is what the source contained as identity i
    seen,       \* history: the contents the source had during t's request
    orphans     \* history: the staging files whose process has died

source  == <<file, clock, was>>
cache   == <<store, staging, orphans>>
locals  == <<pc, attr, id, pieces, tmp>>
vars    == <<source, cache, locals, seen>>

\* What source_fingerprint can return: (inode, ctime_ns) of the file on disk
\* (st_dev and st_size add nothing here), or the digest of a member's bytes.
FileIds   == Inodes \X (0..MaxTime)
MemberIds == {"bytes"} \X Contents
Ids       == FileIds \union MemberIds

KeyAttrs == Attrs \union {"member"}     \* a member has mtime 0
Keys     == KeyAttrs \X Ids

Pieces == SUBSET (Contents \union {Blank, Torn})

Files == [content : Contents, ino : Inodes, ctime : 0..MaxTime, attr : Attrs]

\* A request ends in the status it is answered with.
PCs == {"idle", "fingerprint", "get", "render", "recheck", "mkstemp", "write",
        "replace", "cleanup", "200", "404", "500"}

FileId(f)    == <<f.ino, f.ctime>>
ContentOf(i) == IF i \in MemberIds THEN i[2] ELSE was[i]
Key(t)       == <<attr[t], id[t]>>

TypeOK ==
    /\ file \in Files \union {Nothing}
    /\ clock \in 0..MaxTime
    /\ store \in [Keys -> Pieces]
    /\ staging \in [Tmps -> Pieces]
    /\ pc \in [Threads -> PCs]
    /\ attr \in [Threads -> KeyAttrs]
    /\ id \in [Threads -> Ids \union {Nothing}]
    /\ pieces \in [Threads -> Pieces]
    /\ tmp \in [Threads -> Tmps \union {Nothing}]
    /\ was \in [FileIds -> Contents \union {Nothing}]
    /\ seen \in [Threads -> SUBSET Contents]
    /\ orphans \in SUBSET Tmps

Init ==
    /\ file \in {f \in Files : f.ctime = 0}
    /\ clock = 0
    /\ store = [k \in Keys |-> {}]
    /\ staging = [n \in Tmps |-> {}]
    /\ pc = [t \in Threads |-> "idle"]
    /\ attr = [t \in Threads |-> "member"]
    /\ id = [t \in Threads |-> Nothing]
    /\ pieces = [t \in Threads |-> {}]
    /\ tmp = [t \in Threads |-> Nothing]
    /\ was = [i \in FileIds |-> IF i = FileId(file) THEN file.content ELSE Nothing]
    /\ seen = [t \in Threads |-> {}]
    /\ orphans = {}

---------------------------------------------------------------------------
(* The world outside the viewer *)

Over == {"idle", "200", "404", "500"}   \* nothing left to do but answer

\* A running request for the source has seen whatever the source becomes.
Witness(f) ==
    seen' = [t \in Threads |->
                IF f = Nothing \/ pc[t] \in Over \/ id[t] \in MemberIds THEN seen[t]
                ELSE seen[t] \union {f.content}]

SourceBecomes(f) ==
    /\ file' = f
    /\ was' = [was EXCEPT ![FileId(f)] = f.content]
    /\ clock' = f.ctime
    /\ Witness(f)
    /\ UNCHANGED <<cache, locals>>

\* The source is rewritten in place (same inode), replaced by rename, or
\* created again, perhaps with the inode number of the file that is gone.
\* Every modification has a ctime_ns of its own.
SourceWritten ==
    /\ clock < MaxTime
    /\ \E f \in Files : f.ctime = clock + 1 /\ SourceBecomes(f)

SourceRemoved ==
    /\ file # Nothing
    /\ file' = Nothing
    /\ UNCHANGED <<clock, was, cache, locals, seen>>

\* The process dies and is started again: published entries and staging files
\* stay in the cache directory, requests are gone.
Crash ==
    /\ \E t \in Threads : pc[t] # "idle"
    /\ pc' = [t \in Threads |-> "idle"]
    /\ attr' = [t \in Threads |-> "member"]
    /\ id' = [t \in Threads |-> Nothing]
    /\ pieces' = [t \in Threads |-> {}]
    /\ tmp' = [t \in Threads |-> Nothing]
    /\ seen' = [t \in Threads |-> {}]
    /\ orphans' = {n \in Tmps : staging[n] # {}}
    /\ UNCHANGED <<source, store, staging>>

---------------------------------------------------------------------------
(* A request thread *)

Goes(t, from, to) == pc[t] = from /\ pc' = [pc EXCEPT ![t] = to]

\* The request is over, or fails: its locals are gone.
Drops(t, from, to) ==
    /\ Goes(t, from, to)
    /\ attr' = [attr EXCEPT ![t] = "member"]
    /\ id' = [id EXCEPT ![t] = Nothing]
    /\ pieces' = [pieces EXCEPT ![t] = {}]
    /\ tmp' = [tmp EXCEPT ![t] = Nothing]
    /\ seen' = [seen EXCEPT ![t] = {}]

\* app._handle_preview_pdf takes size and mtime from a stat of its own ...
StartFile(t) ==
    /\ file # Nothing
    /\ Goes(t, "idle", "fingerprint")
    /\ attr' = [attr EXCEPT ![t] = file.attr]
    /\ seen' = [seen EXCEPT ![t] = {file.content}]
    /\ UNCHANGED <<source, cache, id, pieces, tmp>>

\* ... and when there is nothing to stat the exception becomes a 500.
StartRaises(t) ==
    /\ file = Nothing
    /\ Drops(t, "idle", "500")
    /\ UNCHANGED <<source, cache>>

\* A member was extracted into memory: c is its snapshot for the request.
StartMember(t) ==
    /\ Goes(t, "idle", "get")
    /\ \E c \in Members :
         /\ id' = [id EXCEPT ![t] = <<"bytes", c>>]
         /\ seen' = [seen EXCEPT ![t] = {c}]
    /\ UNCHANGED <<source, cache, attr, pieces, tmp>>

\* Variant of Fingerprint: the inode number alone.
FingerprintBare(t) ==
    /\ file # Nothing
    /\ Goes(t, "fingerprint", "get")
    /\ id' = [id EXCEPT ![t] = file.ino]
    /\ UNCHANGED <<source, cache, attr, pieces, tmp, seen>>

\* Variant of Fingerprint: rewrites keep the identity.
FingerprintWithoutCtime(t) ==
    /\ file # Nothing
    /\ Goes(t, "fingerprint", "get")
    /\ id' = [id EXCEPT ![t] = <<file.ino, 0>>]
    /\ UNCHANGED <<source, cache, attr, pieces, tmp, seen>>

\* source_fingerprint(path, None) is a stat ...
Fingerprint(t) ==
    /\ file # Nothing
    /\ Goes(t, "fingerprint", "get")
    /\ id' = [id EXCEPT ![t] = FileId(file)]
    /\ UNCHANGED <<source, cache, attr, pieces, tmp, seen>>

\* ... whose failure the handler's except turns into None, a 404.
FingerprintRaises(t) ==
    /\ file = Nothing
    /\ Drops(t, "fingerprint", "404")
    /\ UNCHANGED <<source, cache>>

\* cache.get finds the entry ...
GetHit(t) ==
    /\ Goes(t, "get", "200")
    /\ store[Key(t)] # {}
    /\ pieces' = [pieces EXCEPT ![t] = store[Key(t)]]
    /\ UNCHANGED <<source, cache, attr, id, tmp, seen>>

\* ... or there is none, or it cannot be read (OSError -> None).
GetMiss(t) ==
    /\ Goes(t, "get", "render")
    /\ UNCHANGED <<source, cache, attr, id, pieces, tmp, seen>>

\* The converter reads the source once more.  It reads by path (ffmpeg per
\* frame, the copy for soffice), so each time it gets what is there now.
RenderReads(t) ==
    /\ pc[t] = "render" /\ id[t] \in FileIds
    /\ file # Nothing
    /\ pieces' = [pieces EXCEPT ![t] = @ \union {file.content}]
    /\ UNCHANGED <<source, cache, pc, attr, id, tmp, seen>>

\* It has a result; a member is rendered from the bytes in memory.
Rendered(t) ==
    /\ Goes(t, "render", "recheck")
    /\ \/ id[t] \in MemberIds /\ pieces' = [pieces EXCEPT ![t] = {id[t][2]}]
       \/ id[t] \in FileIds /\ pieces[t] # {} /\ UNCHANGED pieces
    /\ UNCHANGED <<source, cache, attr, id, tmp, seen>>

\* ffprobe and ffmpeg gave no frame, because of the file or because they were
\* slow today: _video_contact_sheet has a page that says so as its result.
RenderedBlank(t) ==
    /\ Goes(t, "render", "recheck")
    /\ id[t] \in FileIds
    /\ pieces' = [pieces EXCEPT ![t] = {Blank}]
    /\ UNCHANGED <<source, cache, attr, id, tmp, seen>>

\* It fails: no output, or an exception that is caught.
RenderFails(t) ==
    /\ Drops(t, "render", "404")
    /\ UNCHANGED <<source, cache>>

Unchanged(t) == id[t] \in MemberIds \/ (file # Nothing /\ FileId(file) = id[t])

\* Variant of RecheckSame: the source is not looked at again.
RecheckForgotten(t) ==
    /\ Goes(t, "recheck", "mkstemp")
    /\ UNCHANGED <<source, cache, attr, id, pieces, tmp, seen>>

\* The second source_fingerprint: equal, and the output will be published ...
RecheckSame(t) ==
    /\ Unchanged(t)
    /\ Goes(t, "recheck", "mkstemp")
    /\ UNCHANGED <<source, cache, attr, id, pieces, tmp, seen>>

\* ... or different, and it is returned to this request only ...
RecheckDiffers(t) ==
    /\ ~Unchanged(t) /\ file # Nothing
    /\ Goes(t, "recheck", "200")
    /\ UNCHANGED <<source, cache, attr, id, pieces, tmp, seen>>

\* ... or its stat raises: the handler's except returns None.
RecheckRaises(t) ==
    /\ ~Unchanged(t) /\ file = Nothing
    /\ Drops(t, "recheck", "404")
    /\ UNCHANGED <<source, cache>>

\* cache.put: a staging file of a name nobody has.
Mkstemp(t) ==
    /\ Goes(t, "mkstemp", "write")
    /\ \E n \in {m \in Tmps : staging[m] = {}} :
         /\ tmp' = [tmp EXCEPT ![t] = n]
         /\ staging' = [staging EXCEPT ![n] = {Torn}]
    /\ UNCHANGED <<source, store, orphans, attr, id, pieces, seen>>

MkstempFails(t) ==
    /\ Drops(t, "mkstemp", "404")
    /\ UNCHANGED <<source, cache>>

\* write, flush, fsync, close
WriteTmp(t) ==
    /\ Goes(t, "write", "replace")
    /\ staging' = [staging EXCEPT ![tmp[t]] = pieces[t]]
    /\ UNCHANGED <<source, store, orphans, attr, id, pieces, tmp, seen>>

\* The write or os.replace raises (a full disk): to the finally clause.
PutFails(t) ==
    /\ \E at \in {"write", "replace"} : Goes(t, at, "cleanup")
    /\ UNCHANGED <<source, cache, attr, id, pieces, tmp, seen>>

\* os.replace publishes the staging file; the finally clause finds it gone.
Replace(t) ==
    /\ Goes(t, "replace", "200")
    /\ store' = [store EXCEPT ![Key(t)] = staging[tmp[t]]]
    /\ staging' = [staging EXCEPT ![tmp[t]] = {}]
    /\ tmp' = [tmp EXCEPT ![t] = Nothing]
    /\ UNCHANGED <<source, orphans, attr, id, pieces, seen>>

\* Variant of Cleanup: the finally clause is gone.
CleanupForgotten(t) ==
    /\ Drops(t, "cleanup", "404")
    /\ UNCHANGED <<source, cache>>

\* The finally clause unlinks the staging file and the exception goes on to
\* the handler's except: the finished rendering is dropped, 404.
Cleanup(t) ==
    /\ Drops(t, "cleanup", "404")
    /\ staging' = [staging EXCEPT ![tmp[t]] = {}]
    /\ UNCHANGED <<source, store, orphans>>

\* The answer is out and the request is over.
Answered(t) ==
    /\ \E status \in {"200", "404", "500"} : Drops(t, status, "idle")
    /\ UNCHANGED <<source, cache>>

---------------------------------------------------------------------------
ThreadNext(t) ==
    \/ StartFile(t) \/ StartRaises(t) \/ StartMember(t)
    \/ Fingerprint(t) \/ FingerprintRaises(t) \/ GetHit(t) \/ GetMiss(t)
    \/ RenderReads(t) \/ Rendered(t) \/ RenderedBlank(t) \/ RenderFails(t)
    \/ RecheckSame(t) \/ RecheckDiffers(t) \/ RecheckRaises(t)
    \/ Mkstemp(t) \/ MkstempFails(t) \/ WriteTmp(t) \/ PutFails(t)
    \/ Replace(t) \/ Cleanup(t) \/ Answered(t)

WorldNext == SourceWritten \/ SourceRemoved \/ Crash

Next == WorldNext \/ \E t \in Threads : ThreadNext(t)

Spec == Init /\ [][Next]_vars

---------------------------------------------------------------------------
(* Properties *)

\* An entry is complete and was rendered from the one content the source had
\* as the identity in its key (or shows no frame at all): neither a change
\* during the conversion, nor concurrent publication, nor a crash poisons it
\* (cache.py:57-69, inspectors.py:644, office_extract.py:325-328).
CacheSound ==
    \A k \in Keys : store[k] \in {{}, {ContentOf(k[2])}, {Blank}}

\* A preview that is served was made, all of it, from what the source
\* contained while the request ran: a cached one is never older than that
\* (inspectors.py:635-638, office_extract.py:320-323).
ServedFresh ==
    \A t \in Threads :
        pc[t] = "200" => pieces[t] # {} /\ pieces[t] \subseteq seen[t] \union {Blank}

\* Every staging file belongs to a put that is under way or was left by a
\* dead process: a put that fails cleans up after itself (cache.py:67-69).
StagingOwned ==
    \A n \in Tmps : staging[n] # {} =>
        n \in orphans \/ \E t \in Threads : tmp[t] = n
=============================================================================
