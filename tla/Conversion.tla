----------------------------- MODULE Conversion -----------------------------
(***************************************************************************)
(* LibreOffice conversions (office_extract._convert_with_soffice) and the  *)
(* two callers of it: /preview.pdf, and the ladder of /text for the legacy *)
(* formats: structured text, plain text, the generic report.  Request      *)
(* threads share the seed profile (_lo_profile_template) and the cache     *)
(* directory their work directories are made in.                           *)
(*                                                                         *)
(* A conversion's output is represented by the source it was made from.    *)
(* soffice, the file system and the parsers are external.                  *)
(***************************************************************************)
EXTENDS Naturals, FiniteSets

CONSTANTS
    Threads,    \* request workers
    Sources,    \* the office files asked for; each may be of any size at any time
    Names,      \* names mkdtemp can return
    None        \* no result, no source, no name

ASSUME NoneAssumption == None \notin Sources \union Names /\ "raised" \notin Sources

VARIABLES
    template,   \* the seed profile on disk, as a copy of it would come out
    seeded,     \* _LO_PROFILE_TEMPLATE is set
    work,       \* work[n]: the work directory n, NoDir when there is none
    pc, src, target, dir, got,      \* each thread's position and locals
    orphans,    \* history: the work directories that nobody will remove any more
    damaged,    \* history: the seed profile was left incomplete
    cause       \* history: why a thread's copy of it may be incomplete

locals  == <<pc, src, target, dir, got>>
history == <<orphans, damaged, cause>>
disk    == <<template, seeded, work, history>>
vars    == <<disk, locals>>

\* Macros are locked only by a complete registrymodifications.xcu; "bare" is a
\* profile without the file, "empty" one with an empty file or a part of it.
Profiles == {"absent", "bare", "empty", "locked"}

Dirs  == [profile : Profiles, input : Sources \union {None}, output : Sources \union {None}]
Fresh == [profile |-> "absent", input |-> None, output |-> None]
NoDir == [profile |-> "absent", input |-> None, output |-> None, gone |-> TRUE]

Targets == {"pdf", "docx", "txt"}

\* A request ends in what it is answered with.
PCs == {"idle", "open", "size", "template", "truncate", "fill", "void", "seed", "mkdtemp",
        "profile", "input", "soffice", "collect", "cleanup", "returned",
        "extract", "generic"}
Answers == {"structured", "plain", "report", "pdf", "404", "500"}

TypeOK ==
    /\ template \in Profiles
    /\ seeded \in BOOLEAN
    /\ work \in [Names -> Dirs \union {NoDir}]
    /\ pc \in [Threads -> PCs \union Answers]
    /\ src \in [Threads -> Sources \union {None}]
    /\ target \in [Threads -> Targets]
    /\ dir \in [Threads -> Names \union {None}]
    /\ got \in [Threads -> Sources \union {None, "raised"}]
    /\ orphans \in SUBSET Names
    /\ damaged \in BOOLEAN
    /\ cause \in [Threads -> {"none", "raced", "spoilt"}]

Init ==
    /\ template = "absent"
    /\ seeded = FALSE
    /\ work = [n \in Names |-> NoDir]
    /\ pc = [t \in Threads |-> "idle"]
    /\ src = [t \in Threads |-> None]
    /\ target = [t \in Threads |-> "pdf"]
    /\ dir = [t \in Threads |-> None]
    /\ got = [t \in Threads |-> None]
    /\ orphans = {}
    /\ damaged = FALSE
    /\ cause = [t \in Threads |-> "none"]

---------------------------------------------------------------------------
(* The world outside. Sources come and go too: whoever looks for one finds *)
(* it or does not.                                                         *)

\* The operator clears old entries out of the cache directory: the settings file,
\* where whoever has it open goes on writing to what is no longer there, ...
SettingsRemoved ==
    /\ template \in {"empty", "locked"}
    /\ template' = "bare"
    /\ damaged' = TRUE
    /\ pc' = [t \in Threads |-> IF pc[t] = "fill" THEN "void" ELSE pc[t]]
    /\ UNCHANGED <<seeded, work, src, target, dir, got, orphans, cause>>

\* ... and then the directories, if nobody has made the file again.
TemplateRemoved ==
    /\ template = "bare"
    /\ template' = "absent"
    /\ damaged' = FALSE
    /\ UNCHANGED <<seeded, work, locals, orphans, cause>>

\* The process dies: the cache directory stays as it is; nobody looks any more at
\* what is in the work directories left behind.
Crash ==
    /\ \E t \in Threads : pc[t] # "idle"
    /\ seeded' = FALSE
    /\ pc' = [t \in Threads |-> "idle"]
    /\ src' = [t \in Threads |-> None]
    /\ target' = [t \in Threads |-> "pdf"]
    /\ dir' = [t \in Threads |-> None]
    /\ got' = [t \in Threads |-> None]
    /\ orphans' = {n \in Names : work[n] # NoDir}
    /\ damaged' = FALSE
    /\ cause' = [t \in Threads |-> "none"]
    /\ work' = [n \in Names |-> IF work[n] = NoDir THEN NoDir ELSE Fresh]
    /\ UNCHANGED template

---------------------------------------------------------------------------
(* Requests *)

Goes(t, from, to) == pc[t] = from /\ pc' = [pc EXCEPT ![t] = to]

\* app.py: the preview of a source, with the cache missed (PreviewCache), or
\* the text of a legacy file.
AskPreview(t) ==
    /\ Goes(t, "idle", "size")
    /\ \E s \in Sources : src' = [src EXCEPT ![t] = s]
    /\ target' = [target EXCEPT ![t] = "pdf"]
    /\ UNCHANGED <<disk, dir, got>>

AskText(t) ==
    /\ Goes(t, "idle", "open")
    /\ \E s \in Sources : src' = [src EXCEPT ![t] = s]
    /\ target' = [target EXCEPT ![t] = "docx"]
    /\ UNCHANGED <<disk, dir, got>>

\* office_extract.get_text: _check_size raises for a file that is too large,
\* and its stat for one that is gone; inspectors.get_text demotes either.
OpenText(t) ==
    /\ \E to \in {"size", "generic"} : Goes(t, "open", to)
    /\ UNCHANGED <<disk, src, target, dir, got>>

Finished(t) ==
    /\ pc[t] \in Answers
    /\ pc' = [pc EXCEPT ![t] = "idle"]
    /\ src' = [src EXCEPT ![t] = None]
    /\ got' = [got EXCEPT ![t] = None]
    /\ target' = [target EXCEPT ![t] = "pdf"]
    /\ UNCHANGED <<disk, dir>>

---------------------------------------------------------------------------
(* _convert_with_soffice *)

\* The conversion is over without a work directory, or before it has one.
Ends(t, from, result) ==
    /\ Goes(t, from, "returned")
    /\ got' = [got EXCEPT ![t] = result]

CheckSize(t) ==
    /\ Goes(t, "size", "template")
    /\ UNCHANGED <<disk, src, target, dir, got>>

\* Too large, the ValueError is caught; the OSError of a stat is not.
SizeRefused(t) ==
    /\ \E result \in {None, "raised"} : Ends(t, "size", result)
    /\ UNCHANGED <<disk, src, target, dir>>

\* Variant of TemplateKnown: a template on disk is good enough.
TemplateKnownByDirectory(t) ==
    /\ template # "absent"
    /\ Goes(t, "template", "mkdtemp")
    /\ UNCHANGED <<disk, src, target, dir, got>>

\* _lo_profile_template: the global is set and the directory is there ...
TemplateKnown(t) ==
    /\ seeded /\ template # "absent"
    /\ Goes(t, "template", "mkdtemp")
    /\ UNCHANGED <<disk, src, target, dir, got>>

\* ... or its directories are made ...
TemplateMade(t) ==
    /\ ~(seeded /\ template # "absent")
    /\ Goes(t, "template", "truncate")
    /\ template' = IF template = "absent" THEN "bare" ELSE template
    /\ UNCHANGED <<seeded, work, history, src, target, dir, got>>

\* ... and write_text opens the file, which empties it, ...
TemplateTruncated(t) ==
    /\ template # "absent"
    /\ Goes(t, "truncate", "fill")
    /\ template' = "empty"
    /\ UNCHANGED <<seeded, work, history, src, target, dir, got>>

\* ... writes it, ...
TemplateFilled(t) ==
    /\ \/ Goes(t, "fill", "seed") /\ template' = "locked" /\ damaged' = FALSE
       \/ Goes(t, "void", "seed") /\ UNCHANGED <<template, damaged>>
    /\ UNCHANGED <<seeded, work, orphans, cause, src, target, dir, got>>

\* ... and the global is set.
TemplateSeeded(t) ==
    /\ Goes(t, "seed", "mkdtemp")
    /\ seeded' = TRUE
    /\ UNCHANGED <<template, work, history, src, target, dir, got>>

\* Any of these calls may raise, outside of any try (no space, no permission, or
\* the directory is gone); what it has made or emptied stays as it is then.
TemplateRaises(t) ==
    /\ \E at \in {"template", "truncate", "fill", "void"} : Ends(t, at, "raised")
    /\ \/ UNCHANGED template
       \/ pc[t] = "template" /\ template = "absent" /\ template' = "bare"
    /\ pc[t] = "template" => ~(seeded /\ template # "absent")
    /\ damaged' = (damaged \/ template' \in {"bare", "empty"})
    /\ UNCHANGED <<seeded, work, orphans, cause, src, target, dir>>

\* Variant of MakeWorkdir: one fixed name for everybody.
MakeWorkdirFixed(t) ==
    /\ Goes(t, "mkdtemp", "profile")
    /\ LET n == CHOOSE m \in Names : TRUE IN
         /\ dir' = [dir EXCEPT ![t] = n]
         /\ work' = [work EXCEPT ![n] = Fresh]
    /\ UNCHANGED <<template, seeded, history, src, target, got>>

\* TemporaryDirectory(dir=CACHE_DIR): a name nobody has.
MakeWorkdir(t) ==
    /\ Goes(t, "mkdtemp", "profile")
    /\ \E n \in {m \in Names : work[m] = NoDir} :
         /\ dir' = [dir EXCEPT ![t] = n]
         /\ work' = [work EXCEPT ![n] = Fresh]
    /\ UNCHANGED <<template, seeded, history, src, target, got>>

MakeWorkdirFails(t) ==
    /\ Ends(t, "mkdtemp", "raised")
    /\ UNCHANGED <<disk, src, target, dir>>

\* Those who have begun to write the seed profile and are not through.
Makers == {t \in Threads : pc[t] \in {"truncate", "fill"}}

\* A copy that is incomplete has a cause: the original was left so by a failure
\* or by the operator, or somebody is at work on it.
CopyProfile(t) ==
    /\ template # "absent"
    /\ Goes(t, "profile", "input")
    /\ work' = [work EXCEPT ![dir[t]].profile = template]
    /\ cause' = [cause EXCEPT ![t] =
           IF template = "locked" THEN "none"
           ELSE IF damaged THEN "spoilt"
           ELSE IF Makers # {} THEN "raced" ELSE "none"]
    /\ UNCHANGED <<template, seeded, orphans, damaged, src, target, dir, got>>

CopyInput(t) ==
    /\ Goes(t, "input", "soffice")
    /\ work' = [work EXCEPT ![dir[t]].input = src[t]]
    /\ UNCHANGED <<template, seeded, history, src, target, dir, got>>

\* copytree, shutil.copy, mkdir or the last read_bytes raise, outside of any try:
\* the template, the source or the output is gone, or the disk is full.
CopyRaises(t) ==
    /\ \E at \in {"profile", "input", "collect"} : Goes(t, at, "cleanup")
    /\ got' = [got EXCEPT ![t] = "raised"]
    /\ UNCHANGED <<disk, src, target, dir>>

\* soffice writes its output and exits with 0 ...
SofficeConverts(t) ==
    /\ Goes(t, "soffice", "collect")
    /\ work' = [work EXCEPT ![dir[t]].output = work[dir[t]].input]
    /\ UNCHANGED <<template, seeded, history, src, target, dir, got>>

\* ... or fails, cannot be started, or leaves no file ...
SofficeFails(t) ==
    /\ Goes(t, "soffice", "cleanup")
    /\ got' = [got EXCEPT ![t] = None]
    /\ UNCHANGED <<disk, src, target, dir>>

\* Variant of SofficeTimesOut: the call waits for as long as it takes.
SofficeAwaited(t) == pc[t] = "soffice" /\ UNCHANGED vars

\* ... or is killed after LO_TIMEOUT_S.
SofficeTimesOut(t) ==
    /\ Goes(t, "soffice", "cleanup")
    /\ got' = [got EXCEPT ![t] = None]
    /\ UNCHANGED <<disk, src, target, dir>>

Collect(t) ==
    /\ Goes(t, "collect", "cleanup")
    /\ got' = [got EXCEPT ![t] = work[dir[t]].output]
    /\ UNCHANGED <<disk, src, target, dir>>

\* Variant of Cleanup: only a conversion that gave something is tidied up.
CleanupOnSuccess(t) ==
    /\ Goes(t, "cleanup", "returned")
    /\ work' = IF got[t] \in Sources THEN [work EXCEPT ![dir[t]] = NoDir] ELSE work
    /\ dir' = [dir EXCEPT ![t] = None]
    /\ cause' = [cause EXCEPT ![t] = "none"]
    /\ UNCHANGED <<template, seeded, orphans, damaged, src, target, got>>

\* The end of the with statement, whatever the way out: the directory is removed ...
Cleanup(t) ==
    /\ Goes(t, "cleanup", "returned")
    /\ work' = [work EXCEPT ![dir[t]] = NoDir]
    /\ dir' = [dir EXCEPT ![t] = None]
    /\ cause' = [cause EXCEPT ![t] = "none"]
    /\ UNCHANGED <<template, seeded, orphans, damaged, src, target, got>>

\* ... or rmtree raises and leaves it behind, and the result is lost.
CleanupRaises(t) ==
    /\ Ends(t, "cleanup", "raised")
    /\ work' = [work EXCEPT ![dir[t]] = Fresh]
    /\ orphans' = orphans \union {dir[t]}
    /\ dir' = [dir EXCEPT ![t] = None]
    /\ cause' = [cause EXCEPT ![t] = "none"]
    /\ UNCHANGED <<template, seeded, damaged, src, target>>

---------------------------------------------------------------------------
(* The callers *)

\* get_preview_pdf: no output and an exception are both a 404.
PreviewReturns(t) ==
    /\ target[t] = "pdf"
    /\ Goes(t, "returned", IF got[t] \in Sources THEN "pdf" ELSE "404")
    /\ UNCHANGED <<disk, src, target, dir, got>>

\* get_text: the converted file is parsed, ...
StructuredRung(t) ==
    /\ target[t] = "docx" /\ got[t] \in Sources
    /\ Goes(t, "returned", "extract")
    /\ UNCHANGED <<disk, src, target, dir, got>>

\* ... or there is none and _legacy_txt_fallback converts once more, ...
PlainRung(t) ==
    /\ target[t] = "docx" /\ got[t] = None
    /\ Goes(t, "returned", "size")
    /\ target' = [target EXCEPT ![t] = "txt"]
    /\ UNCHANGED <<disk, src, dir, got>>

\* ... with a text, ...
PlainReturns(t) ==
    /\ target[t] = "txt" /\ got[t] \in Sources
    /\ Goes(t, "returned", "plain")
    /\ UNCHANGED <<disk, src, target, dir, got>>

\* ... or a RuntimeError.  An exception of either conversion is demoted too.
Demoted(t) ==
    /\ \/ target[t] = "docx" /\ got[t] = "raised"
       \/ target[t] = "txt" /\ got[t] \in {None, "raised"}
    /\ Goes(t, "returned", "generic")
    /\ got' = [got EXCEPT ![t] = None]
    /\ UNCHANGED <<disk, src, target, dir>>

\* The structural extractor reads the converted file, or raises.
Extract(t) ==
    /\ \/ Goes(t, "extract", "structured") /\ UNCHANGED got
       \/ Goes(t, "extract", "generic") /\ got' = [got EXCEPT ![t] = None]
    /\ UNCHANGED <<disk, src, target, dir>>

\* inspectors._text_binary, called in the except clause of get_text: a stat, an
\* open and a hash of the source, whose exceptions nobody catches but do_GET.
GenericReport(t) ==
    /\ \E to \in {"report", "500"} : Goes(t, "generic", to)
    /\ UNCHANGED <<disk, src, target, dir, got>>

---------------------------------------------------------------------------
Converts(t) ==
    \/ CheckSize(t) \/ SizeRefused(t) \/ TemplateKnown(t) \/ TemplateMade(t)
    \/ TemplateTruncated(t) \/ TemplateFilled(t) \/ TemplateSeeded(t)
    \/ TemplateRaises(t) \/ MakeWorkdir(t) \/ MakeWorkdirFails(t)
    \/ CopyProfile(t) \/ CopyInput(t) \/ CopyRaises(t) \/ SofficeTimesOut(t)
    \/ Collect(t) \/ Cleanup(t) \/ CleanupRaises(t)

Serves(t) ==
    \/ OpenText(t) \/ PreviewReturns(t) \/ StructuredRung(t) \/ PlainRung(t)
    \/ PlainReturns(t) \/ Demoted(t) \/ Extract(t) \/ GenericReport(t)

ThreadNext(t) ==
    \/ AskPreview(t) \/ AskText(t) \/ Finished(t) \/ Converts(t) \/ Serves(t)
    \/ SofficeConverts(t) \/ SofficeFails(t)

WorldNext == SettingsRemoved \/ TemplateRemoved \/ Crash

Next == WorldNext \/ \E t \in Threads : ThreadNext(t)

Spec == Init /\ [][Next]_vars

---------------------------------------------------------------------------
(* Properties *)

\* A conversion gets the rendering of its own source, however many run at the
\* same time and whatever fails in the others: their input and output have
\* the same names in directories of their own (office_extract.py:108-134).
ResultIsOwn == \A t \in Threads : got[t] \in {src[t], None, "raised"}

\* Every work directory belongs to a conversion that is running, or was left by
\* a dead process or a removal that raised: it is "deleted immediately after,
\* success or failure" (DOCS.md; office_extract.py:108).
WorkdirsOwned ==
    \A n \in Names : work[n] # NoDir =>
        n \in orphans \/ \E t \in Threads : dir[t] = n

\* While no write of it fails and nobody clears it away, soffice never runs with a
\* profile that does not lock macros, "created once and copied fresh for every
\* conversion" (office_extract.py:68-72).
MacrosLocked ==
    \A t \in Threads :
        pc[t] = "soffice" /\ cause[t] # "spoilt" => work[dir[t]].profile = "locked"

\* soffice runs without the macro lock for two causes only: its profile was copied
\* while another thread was writing the original, or after a failed write, or a
\* removal under way, had left that incomplete.  A crash in the middle of the
\* write is none: the next process writes it anew (office_extract.py:73-83, 110).
MacrosLockedUnlessTorn ==
    \A t \in Threads :
        pc[t] = "soffice" /\ cause[t] = "none" => work[dir[t]].profile = "locked"

\* How many steps a request is from its answer at most: those that are left of
\* this conversion, and for the text of a legacy file those of a second one.
StepsOf == [open |-> 16, size |-> 15, template |-> 14, truncate |-> 13, fill |-> 12,
            void |-> 11, seed |-> 10, mkdtemp |-> 9, profile |-> 8, input |-> 7,
            soffice |-> 6, collect |-> 5, cleanup |-> 4, returned |-> 3,
            extract |-> 2, generic |-> 1]
Running(t) == pc[t] \notin Answers \union {"idle"}
StepsLeft(t) ==
    IF Running(t) THEN StepsOf[pc[t]] + (IF target[t] = "docx" THEN 16 ELSE 0) ELSE 0

\* A running request always has a step to take that the scheduler or the timeout
\* of subprocess.run sees to ...
NeverStuck == \A t \in Threads : Running(t) => ENABLED <<Converts(t) \/ Serves(t)>>_vars

\* ... and every step it takes brings it closer to its answer.
CountsDown ==
    \A t \in Threads :
        Running(t) /\ pc'[t] # pc[t] => StepsLeft(t)' < StepsLeft(t)

\* So whatever soffice, the operator and the other threads do, a request is
\* answered in the end (office_extract.py:126-128, inspectors.py:163-186).  (A
\* state with a running request has a next one, if only by Crash.)
RequestsEnd == [][NeverStuck /\ CountsDown]_vars
=============================================================================
