# A verification project for osf_viewer

`osf_viewer` is a read-only HTTP service that shows the files of a tree as a
page, a text report, a PDF or the original bytes.  It is a threaded Python
program around four pieces of shared state: a semaphore, a cached access policy,
a cache directory, and the file system itself, which changes while it is served.
This directory has TLA+ modules of its core, the configurations that check them
with TLC, and proofs of the main results for TLAPS.

    tlc -workers 2 -config X.cfg M      # the pairs are in the table of runs
    tlapm MProofs.tla

## 1. The system

### Components

| component | source | state it keeps | operations |
|---|---|---|---|
| bounded listener | `request_limits.py` | semaphore of `max_active` slots, listen queue, worker threads | accept, acquire / reject with 503, spawn, release |
| request handler | `app.py` (`ViewerHandler`) | per request: the answer sent so far | dispatch, stream a file, the 500/503 boundary |
| access policy | `app.py` `denylist`, `security.load_denylist` | two module globals, `denylist.txt` | load and validate, cache for 30 s, fail closed |
| access decisions | `security.py` | none (reads the tree) | `safe_resolve`, `is_denied` |
| directory listings | `directory_listing.py`, `_handle_hub`, `_text_directory` | per scan: the smallest names, a count | one scan with a predicate |
| preview cache | `cache.py`, `get_preview_pdf` (twice) | the entries and staging files of the cache directory | fingerprint, get, render, fingerprint again, put |
| office conversions | `office_extract.py` | the seed profile and its global, work directories | make profile, copy, run soffice, collect, clean up |
| archive members | `archive_memory.py`, `inspectors.py` | per request: headers read, bytes of one member | list, read a member |
| routes | `app.py` (`parse_route` ...) | none | URL to path, mode and member, and back |
| inspectors | `inspectors.py`, `office_extract.py` | per report: position, counters, what is in it | one report per kind of file, with a generic fallback |
| service scripts | `start.sh`, `stop.sh`, ... | the PID file, the process table, the port | start, stop, restart, status |
| tooling | `setup_*.sh`, `scripts/`, `tests/`, `docs/` | none of the service's | installation, audits of fixtures |

### How they interact

The accept loop gives each admitted connection a thread of its own; HTTP/1.0
closes after one answer, so a thread is a request.  The handler asks `denylist()`
first, resolves the path with that list, and dispatches on mode and kind.  Pages
and text reports of directories ask `denylist()` a second time.  Previews go
through the cache, those of office files through a conversion; the cache and the
conversions share one directory.  A conversion and ffmpeg are child processes
with a timeout.  Nothing else is shared between threads, and no lock is taken
anywhere but in the semaphore and the 7z sink.

The environment acts on all of it: clients stall, leave and come back; an
operator edits the policy, clears the cache, and kills and starts the process;
other programs replace, rewrite, link and remove files.

### What is hard, and what makes each part correct

| component | hard behaviour | properties |
|---|---|---|
| listener | spawn failures and handler errors on the way to the release; clients that never read; the accept loop writes the 503 itself | slots are conserved; a 503 means that really `max_active` threads exist; no accepted socket is forgotten; every connection is settled |
| policy | two threads reload without a lock; the file is read while it is edited; time stamp and list are two globals | never decide without the mandatory exclusions; bounded age |
| decisions | links, to what is denied, missing, outside or itself, made after the policy was resolved | an alias opens nothing that the real path does not |
| listings | the directory changes during the scan; order is the file system's | listing and direct request agree; nothing that was always there is lost |
| preview cache | the source changes between two fingerprints; crash or failure in `put`; one key, two writers | an entry is whole and belongs to its identity; an answer is not older than its request; no staging file is left |
| conversions | first use races; failure at every step; soffice hangs | own result; own directory; macros locked; ends |
| archives | headers that lie; decoder that seeks; exactly the cap | bounded memory and headers; whole member or none; shown is what can be fetched |
| routes | a name may look like a mode or a member; one decoding too many | a link leads to what it is shown for, exactly if its names are unambiguous |
| reports | a cap per format, each looked at in a different place; parsers raise anywhere; the file changes between stat and read | what is cut off is announced; no report exceeds its cap by more than a row or a table; offsets are right |
| scripts | processes die, or end only after a while, their numbers are used again, operators overlap, errexit | the PID file names the viewer; a restart leaves no old one; a kill by number reaches somebody else only for known causes |
| handler | the path changes between resolve, open and length; errors after the head | one answer, unless a connection or the file breaks; none before the policy; HEAD without a body; exact length |

The list of hazards, each at its line and with its properties, is in
`PROJECT.json`.

## 2. Modules

Composition: `Admission` implements `WorkerPool` by a refinement mapping, which
is proved.
`Listing` EXTENDS `Access`.  The other modules meet at named places and are not
composed into one state space: a `Viewer` step that may end in a 200 or a 404 is
a run of `PreviewCache`, whose rendering may be a run of `Conversion`; what
`Admission` calls a short or a long answer is a run of `Viewer`.  What each takes
of the other is what the other promises, or anything at all where that is enough.

### WorkerPool and Admission (`request_limits.py`)

`WorkerPool` is the promise: a connection that waits becomes active while fewer
than `MaxActive` are, is refused only while exactly `MaxActive` are, and leaves only
by being settled.  That it does leave is `EveryConnectionSettles` of `Admission`,
which has the fairness.  `Admission` is the code: the accept loop with its position
and the connection it has in hand (`loop`), the semaphore (`slots`), one worker
per connection (`worker`), the timeout (`armed`), both ends of the sockets and
the kernel's queue.  `process_request` is `AcquireSlot` / `FindNoSlot`,
`ArmTimeout`, `SpawnWorker` / `SpawnFails`; `process_request_thread` is the
worker's steps, `ShutdownRequest` and `ReleaseSlot`, for the socket is shut down
before the `finally` releases; `Release` has the bound of a `BoundedSemaphore`.
`ArmRefusal` and `RejectOverCapacity` are the 503 with its own timeout.
A socket operation with a timeout may end although the client does nothing; one
without may not, which is what the mutants of the liveness run use.  An exception
that ends the accept loop itself (an interrupt) is not modelled.

### PolicyCache (`app.py:45-69`, `security.py:42-82`)

The file is a sequence of rules, missing, or half rewritten (`Truncated`,
`LineWritten`).  `denylist()` is one action per line, so any interleaving of
threads is possible: `Sample` (line 51), `StillFresh` / `Expired` (52), `Load` /
`LoadRaises` and `AssignCache` (53), `Stamp` (54), `Return` (55).  A load may
raise at any time, whatever the file is like.  `Decide` is the
use of the list, `AskAgain` the second call of a page.  `Boot` and `Kill` restart
the process with empty globals; `main` has to load a list before it serves.
Every list carries the time it was read.  Two bounds: `MaxTime` on the clock, and
`MaxCall` on the duration of one call, which is an assumption about scheduling
and I/O and appears in the property.

### Access and Listing (`security.py`, `directory_listing.py`)

A tree maps paths (sequences of names) to files, directories and links.
`LoadedPolicy` is what is declared and the cache directory, as they resolve then.
`Resolved` is `Path.resolve(strict=False)`; `SafeResolve` and `IsDenied` are the
two decisions, which differ in the path they begin with.  `Listing` is a page:
`Ask` resolves the path with one list, `BindPredicate` binds another, `OpenScan`,
`ScanEntry` and `ScanEnd` are `os.scandir` and `heapq.nsmallest`, and the hub
scans a second time (`ScanAgain`).  `TreeChanges` replaces one entry at any
moment.  `OpenScan` follows a link that has taken the directory's place since it was
resolved, also out of the root; `at` is what is open then.  The iterator returns each
name at most once, and every name that was there all the time; names that come or go
may be returned or not, also when they are gone already (`offered`), as POSIX says.
Opening or reading may raise at any time (`ScanRaises`).
Names are numbers in alphabetical order; a hidden basename is one of them.

### PreviewCache (`cache.py`, `inspectors.py:626-661`, `office_extract.py:314-331`)

The source is a file with content, inode, attributes (path, size, mtime: what a
replaced file may keep) and change time.  A request takes its key and identity
(`StartFile`, `Fingerprint`), looks (`GetHit`, `GetMiss`), reads the source piece
by piece (`RenderReads`, any number of times, each from what the source is then),
compares (`RecheckSame`, `RecheckDiffers`) and publishes: `Mkstemp`, `WriteTmp`,
`Replace`, or `PutFails` and `Cleanup`.  `StartMember` is a member of an archive,
whose identity is the digest of its bytes.  `RenderedBlank` is the page a video
gets when no frame could be read.  Assumed: a modification gets a new change
time, and a digest has one content.

### Conversion (`office_extract.py:64-142, 278-331`)

`_lo_profile_template` is `TemplateKnown`, or `TemplateMade`,
`TemplateTruncated`, `TemplateFilled` and `TemplateSeeded`, since `write_text`
empties the file before it fills it.  The work directory is made, gets the
profile and the input, soffice converts, fails or hangs, the output is collected
and the directory removed on every way out (`Cleanup`), unless rmtree raises in
its turn (`CleanupRaises`).  Any call outside the `try` may raise: `TemplateRaises`
leaves the seed profile as far as it was made, `CopyRaises`.  Above it are the preview
and the ladder of the legacy formats: structured text, plain text, the generic
report.  A conversion's output is represented by the source it came from.

Sources come and go and have any size, so whoever looks at one finds it or does
not.  `SettingsRemoved` and `TemplateRemoved` are the operator who clears the cache,
the file first and then the directories; a thread that has the settings file open
goes on writing to what is no longer there (`void`).  `cause` remembers why a
thread's copy of the profile may be incomplete: another was writing it, or the
original had been left so (`damaged`).

### Archive (`archive_memory.py`, `inspectors.py:315-422`)

An archive is a sequence of members with a declared and an actual size, which
need not agree.  `scan_tar_headers` is one action per header; ZIP and 7z headers
are parsed when the archive is opened.  `SelectAccepts` has the conditions of the
three readers, `ReadStream` the bounded read of ZIP and TAR, and the 7z sink is
driven by a decoder that writes, seeks and reads as it likes.

### Viewer (`app.py:108-288`)

One worker and one path.  An answer is a head with its length and the bytes sent
after it.  `Open`, `Stat`, `StreamHead` and `CopyChunk` are `_stream_file`; the
file at the path may be replaced and the open one rewritten between any two.  Any
handler may raise anywhere, any write may fail (`broken`), and so may a read of the
file in the middle of its body (`CopyReadFails`, `cut`); `InternalError` and
`Unavailable` are the two `except` clauses of `do_GET`.

### Routes (`app.py:72-105, 253-286`)

A reader follows links.  A string is a sequence of symbols, each with the number
of its percent-encodings, so that `quote` and `unquote` are one up and one down;
what `parse_route` and `split_archive_member` look for are symbols of their own.
`FollowMode`, `FollowEntry` and `FollowMember` are the links of a hub page with
their addresses, `TypeDirectory` the documented address of a directory, and
`Answer` is what `_dispatch` takes an address for; `turn` says whether the reader
or the server is next.  A page keeps the relpath of
the address it was reached by, as the code does, and its links are made from it.

### Reports (`office_extract.py:144-271, 334-422`, `inspectors.py:145-253, 425-615`)

A document is a sequence of parts, a part a sequence of rows with a size, and a
loop a position in it (`g`, `r`) with its counters.  Each action is one turn of a
loop: `BodyRow` / `TableStops` / `BodyStops` / `BodySkips` for docx and odt,
`SlideRow` / `SlidesStop` for pptx and odp, `SheetRow` / `XlsxStops` /
`XlsxSheetEnds` / `OdsSheetStops` for sheets, `CutRow` / `PageFails` / `PageCut` /
`TextCut` for pdf and text, `SampleRow` / `SampleEnds` / `SampleFails` for tables
of which only a sample is shown.  `notices` is what the report says of its own
limits.  A row may be `Hidden`: it has content, but none the loop looks at.  What is
shown of a row is an amount, at most the format's `Width`.  `Raises` is the `except` clause of `get_text`: the generic report begins,
with `Stats`, `Opens`, `ReadsTail` and `Digests` on a file that `Changed` rewrites,
exchanges or removes.  Sizes stand for characters, cells or bytes of UTF-8.

### Lifecycle (`start.sh`, `stop.sh`, `restart.sh`, `env.sh`)

Each operator runs one script, one action per command; `Sweep` is `pkill -f`,
which finds a viewer only once it has become python (`ViewerLoads`), and whoever
else has that command line.  A viewer dies when it cannot have the port or the
policy; one that was signalled (`Signal`) ends some time later (`ViewerEnds`) and
keeps its number, and a listening one its port, until then.  A free number is used
again, also by strangers, who may survive a SIGTERM.  `env.sh` turns errexit on in every
script that sources it, so a `kill` that finds nobody ends `stop.sh` (`Aborts`), and
a PID file that cannot be written ends `start.sh` (`RecordFails`).  `tangled` and `lost`
remember that scripts overlapped or were cut short, or that a viewer died by itself,
until a lone sweep that misses nobody makes it good; `freed`, that the number a script
holds was freed by its own SIGTERM.

## 3. Runs

| run | module | shows |
|---|---|---|
| `Admission` | `MCAdmission` | Three connections, one worker slot and a listen queue of two, fair threads, clients that owe nothing, spawn failures, refusals that the client does not take and handler errors: no slot is lost on any path, a connection is refused only while max_active are active (the listener implements WorkerPool), and thanks to the socket timeout every connection is settled in the end. Checks: `TypeOK`, `SlotsConserved`, `ImplementsPool`, `EveryConnectionSettles`. |
| `PreviewRace` | `MCPreviewCache` | Two requests for one source that is rewritten, removed and made again with the same inode at any step, or for an archive member with the same bytes, with failing writes and a crash at any step: published entries are complete and belong to their identity, previews are fresh, staging files are cleaned up. Checks: `TypeOK`, `CacheSound`, `ServedFresh`, `StagingOwned`. |
| `PolicyEdits` | `MCPolicyCache` | Two workers and main reload the policy while the operator replaces it, truncates and rewrites it in place, or removes it, with short, long, incomplete and unsafe files and a restart at any step: no decision without the mandatory exclusions, and no list older than the TTL and one call. Checks: `TypeOK`, `FailClosed`, `BoundedStaleness`. |
| `PolicyRace` (violation) | `MCPolicyCache` | Two workers that reload at the same time pair the older list with the newer time stamp: it is used for longer than the TTL. Checks: `CachedAtMostTTL`. |
| `Conversion` | `MCConversion` | Two request threads, two sources and three directory names, with sources of any size and gone at any time, copies, parsers, the write of the seed profile, rmtree and soffice failing or hanging, the cache directory cleared piece by piece and a crash at any step: each conversion gets the output of its own source, a running process leaves no work directory behind but where rmtree raises, soffice runs with macros locked unless the profile was copied while it was written, or after a failed write or a removal under way had left it incomplete, and every request counts down to its answer. Checks: `TypeOK`, `ResultIsOwn`, `WorkdirsOwned`, `MacrosLockedUnlessTorn`, `RequestsEnd`. |
| `ConversionRace` (violation) | `MCConversion` | Two conversions right after a start: one writes the seed profile again while the other copies it, and soffice runs with a profile whose macro settings are missing. Checks: `MacrosLocked`. |
| `Listing` | `MCListing` | Directory pages of a tree with aliases, links to denied and missing files, loops and escapes, which changes at every step of a scan: a page agrees with direct requests, loses no name that was there all the time, and no alias serves what its real path refuses. Checks: `TypeOK`, `ListingMatchesFetch`, `NoSteadyNameLost`, `NoAliasAround`. |
| `Archive` | `MCArchive` | Every ZIP and 7z archive of up to two members and TARs of up to four, with headers that are wrong or missing, duplicates, links, directories and unsafe names, read with a cap of two entries and two bytes, and a py7zr that writes, seeks and reads in any order. Checks: `TypeOK`, `MemoryBounded`, `ServedWhole`, `FetchedIsShown`, `PageComplete`. |
| `Viewer` | `MCViewer` | Every request on a path whose file is replaced, removed or rewritten at any step, with a policy that comes and goes, handlers that raise anywhere, reads of the file that fail and clients that stop reading anywhere: one answer but for a 500 behind a head whose body was not taken or could not be read, none without the policy, and streams of exactly the announced length. Checks: `TypeOK`, `AnsweredOnce`, `PolicyFirst`, `LengthIsExact`. |
| `Routes` | `MCRoutes` | A reader follows every link of every hub page, in all trees of two entries whose names include a mode's word, a '!' and percent-encoded characters, with archives of up to two members: a link leads to what it is shown for exactly if the names on its way are unambiguous, and a page's mode links are of the page's own file. Checks: `RouteTypeOK`, `LinksLeadHome`, `ModeLinksAgree`. |
| `Lifecycle` | `MCLifecycle` | Two operators run start.sh, stop.sh and restart.sh over each other, with viewers that die, lose the race for the port or end some time after a signal, interrupts, a PID file that cannot be written, a reboot that leaves it, and process numbers that are used again by others, some with the viewer's command line: a lone script leaves the PID file naming the viewer, a restart leaves no old viewer, and a kill by number reaches somebody else only for the causes named. Checks: `ScriptTypeOK`, `FileNamesViewer`, `RestartReplaces`, `StrangersSpared`. |
| `Reports` | `MCReports` | Every docx, odt, pptx, odp, xlsx, ods, csv, sqlite and parquet document of up to two parts of three rows or four small parts, PDFs of four pages and texts of five characters, on both sides of every cap, with content that the loops do not look at, with parsers that raise anywhere, and generic reports of a file that is rewritten, exchanged or removed between stat, open and read: a report that says nothing of a limit has every row, as far as its format shows a row at all, but for those it always leaves out, none exceeds its cap by more than a row or a table, and the hex dump of the end has the right offsets. Checks: `TypeOK`, `CutsAreAnnounced`, `ReportBounded`, `HexTailLabelled`. |

### Bounds, and why they are enough

* *Admission*: a leak or a wrong refusal needs one connection in the accept loop,
  one with the slot, and one that waits: three connections and one slot.
* *PolicyCache*: the race is between two threads, and main makes a third.  With
  `TTL = 1` and `MaxCall = 1` the clock has to run for six ticks to let a list
  expire twice with calls in flight.
* *PreviewCache*: a poisoned entry needs one request and one change between its
  fingerprints, a broken publication two requests: two threads and one change,
  on an inode number that is given out again.  An old content that returns needs
  two changes and is left to the proof, which has no bound on the clock.
* *Conversion*: two threads and two sources for interference, a third directory
  name for one that a crash or a removal left behind; the ladder and its end are
  within one thread.
* *Reports*: every cap is at most 4, and there are documents below, at and above
  each: tables of three rows with `MaxRows = 2`, four slides with `MaxSlides = 3`,
  rows of three cells with `MaxCols = 2` and `MaxCells = 4`.  Files of up to four
  bytes have an end of two.
* *Lifecycle*: two operators are enough to overlap, and three process numbers for
  two viewers and a stranger; a number that is used again is one of them.
* *Listing*: 4 names on two levels, and the cache directory, with a limit of one
  entry, so that the limit is exceeded; the trees have aliases, links to each kind of target, a
  loop and an escape.  Requests have two names at most (`MaxDepth`).
  `MaxFollow` bounds the links that are followed, and must not be felt:
  `FollowAssumption`, which TLC evaluates, says that a path of a tree of the run
  that still has a link after `MaxFollow` steps has one after twice as many.  It
  does not hold for 4, since there are trees in which `<<4, 4, 4>>` takes five links.
* *Archive*: a cap of two entries and two bytes, with archives and members on
  both sides of each, and steps of the decoder that go beyond it.
* *Routes*: a name that is a mode's word, one with a "!", one with an encoded
  "!", and an ordinary one; trees of two entries have a directory with a file,
  and an archive next to a file whose name looks like a member of it; members
  with one and two encodings can be taken for each other.
* *Viewer*: two files, three bytes and chunks of two: a file takes one chunk, two,
  or none, and may grow or shrink between them.

### Fairness

The accept loop and each worker are weakly fair: they are threads that the
scheduler runs, and a step of theirs that stays possible is taken.  A read or
write on a socket with a timeout is such a step, because the timeout ends it
(`settimeout` in `process_request`, 30 s per call); without the timeout it waits
for the client, and clients owe nothing.  The same goes for the refusal and its 0.2 s.
What a handler does between reading the request and writing the answer is one step,
which is assumed to end; `open` of a FIFO (app.py:135) would not, and would hold its
slot.  `Conversion` has no fairness: its
`RequestsEnd` says that a running request always has a step to take that is its
own or the timeout of `subprocess.run` (45 s), and that each of its steps brings
it closer to its answer; that a thread with a step takes it is all that is left
to the scheduler.  No other run uses fairness.

## 4. Proofs

Each component has an inductive invariant, one lemma per part of it (one case per
action) or one per action, the lemma that a step keeps all of it, and the
theorems.  `ServiceProofs` and `DispatchProofs` hold the proofs of two components
each, which share nothing; the definitions of one of the two have names of their
own for that reason (`ScriptSpec`, `RouteSpec` and so on).

| module | theorems | for every |
|---|---|---|
| `ServiceProofs` | of `Admission`: `TypeCorrect`, `SlotsNeverLeak`, `NoSocketForgotten`, `RefusalMeansFull`, `PoolImplemented` | finite set of connections, `max_active` in 1..32, queue size |
| | of `Lifecycle`: `ScriptsTyped`, `FileCorrect`, `RestartCorrect`, `KillsItsOwn` | set of operators and process numbers |
| `PreviewCacheProofs` | `TypeCorrect`, `CacheNeverPoisoned`, `NoStalePreview`, `StagingCleanedUp` | set of threads, contents, inodes, attributes and staging names |
| `ConversionProofs` | `TypeCorrect`, `OwnResults`, `NoWorkdirForgotten`, `LockedUnlessTorn`, `RequestsCountDown` | set of threads, sources and directory names |
| `ArchiveProofs` | `TypeCorrect`, `MemoryIsBounded`, `WholeOrNothing`, `HeadersAreBounded`, `NothingHiddenIsServed`, `PagesAreComplete` | archive of any length, headers of any value, both limits, any step of a decoder |
| `ReportsProofs` | `TypeCorrect`, `CutsAnnounced`, `BoundedReports`, `TailLabelled` | document of any size, any limits, file of any length |
| `ViewerProofs` | `TypeCorrect`, `OneAnswer`, `NothingBeforePolicy`, `HeadsHaveNoBody`, `LengthsAreExact` | set of files, sizes, chunk |
| `DispatchProofs` | of `PolicyCache`: `TypeCorrect`, `NeverOpen`, `NeverLongStale` | set of workers, rules and files, TTL, duration of a call |
| | of `Routes`: `RoutesTyped`, `LinksCorrect`, `ModeLinksCorrect` | names of any length with any characters, trees and archives of any size |
| `ListingProofs` | `TypeCorrect`, `ListingCorrect`, `SteadyCorrect`, `AliasCorrect` | finite set of names, trees and paths of any size, any policy, limit |

* *Admission*.  `SlotsConserved` is not inductive: a slot is counted once only if
  the connection in the loop's hand, and those in the queue, have no worker yet
  (`HandInv`, `BacklogInv`), and a released slot was held (`WorkerInv`).  The
  refusal theorem follows from the count: no slot left and nobody between acquire
  and spawn means `max_active` workers.  The refinement maps a connection to the
  stage `StageOf`; every step of the listener moves one connection along the
  stages of `WorkerPool` or none, and the pool's guards are on the number of
  holders, which `SlotsConserved` gives.
* *PolicyCache*.  Nothing orders the threads.  `StampInv`: a time stamp is written
  only after somebody has assigned a complete list, so a fresh stamp means that
  the globals are not those the process started with.  `AgeInv`: whoever
  overwrites the list is in a call that began at most `MaxCall` ago.
* *PreviewCache*.  `RenderInv`: as long as the source has the identity a request
  took first, only the content of that identity can have been read, because every
  modification gets a change time that no earlier identity contains; so what
  passes the second fingerprint may be stored.  `StageInv`: a staging file has
  one owner.
* *Conversion*.  `DirInv` and `InputInv`: every thread between the creation of its
  work directory and its cleanup has a directory of its own, whose input is its own
  source.  `SeedInv`: once the process has seeded, or waits to,
  a profile on disk that nobody is making is complete or was left so by a failure
  (`damaged`); `CopyInv`: a copy without a `cause` is a complete one.
* *Archive*.  `ScanInv`: during a scan as many headers are read as entries are
  listed, so the one header of look-ahead is the only one behind the cap, and a
  finished TAR scan has listed the smaller of the two lengths.  `ChosenInv`: what
  is decoded is still the only match; `HeldInv`: nothing is in memory before.
* *Reports*.  Every step of a loop passes a row, passes a part or ends the loop
  (`LoopSteps`); what the nineteen actions do beyond that the invariants need not
  know.  `Covered`: what is behind the loop is in the report or left out by rule,
  unless a notice was made.  `BodyInv`: a table is begun within the cap and has
  at most `MaxRows` rows, which is where the product in the bound comes from.
  `HexInv`: the end of a file is read from an open file at least as long as the
  size, unless it got shorter.
* *Viewer*.  `WireInv` ties the number of heads on the wire to the position of
  the handler: none before an answer begins, one while a body is copied, none
  when the error boundary is reached from a step that could raise before the
  head, or one on a connection that broke or whose file could not be read.  `StreamInv` ties the announced length
  to the size of the *open* file; only a rewriting in place can break that, never
  a replacement or a removal.
* *Listing*.  `Trail` is a path and what it becomes when one link after the other
  is followed.  An entry below a path takes the same links until those of the path
  are used up, and then is the entry below the real path (`PassesDirectory`); so both
  lead to the same (`SameEntry`), and since the paths on a loaded policy are real
  ones, a listing and a request decide alike (`DecideAlike`).  These are inductions
  over the links; that a set of numbers with 0 and all successors is `Nat` is the
  lemma `Induction`, from the well-foundedness of `<`.  Of the scan, `ScanInv`: a
  name that was there all the time and was returned is kept, or `Limit` smaller ones
  are; `CalmInv` and `CountInv`: in a tree at rest the three policies at hand are the
  one of the tree, and count and selection are those of what was returned.
* *Routes*.  `PageInv`: the relpath of a page, which its links are made from, stands
  for what the page is of: its components are the path, or it is a path without a
  "!", a "!" and the name of the member.  `AskedInv` says what the server will take
  the last request for; there is one lemma for each kind of link.  Beneath are the
  operators on strings: `unquote` undoes `quote` (`QuoteFacts`), `parse_route` reads
  back the suffix (`ParseRouteOfSuffix`) and sees one that is not there only if the
  name is the mode's word (`EndingBehind`), the first "!" is where a link put it
  (`SplitOfMember`), slashes at either end say nothing (`StripKeeps`), and the
  components of an address are the names it was joined from (`JoinPathFacts`).
  Inductions over strings are `StringInduction`, from `Induction`.
* *Lifecycle*.  While no scripts have overlapped, at most one is at work (`OneScript`),
  and its position says which viewers there are (`Known`) and what the PID file
  names (`Named`): none after the sweep, one after the spawn, which is then written
  down.  `Doomed`: unless a viewer died by itself, a process that `stop.sh` has signalled is on
  its way out, or gone with the number free (`freed`), until the script lets go of its number.
  `OldInv`: what a restart found loaded is loaded until it is killed, so its number is
  given to nobody else before.

The assumptions are the named ASSUMEs of the modules, which TLC evaluates for the
instances of the runs.

Every invariant a run checks is one of these theorems or a conjunct of one.  What
stays with TLC is liveness: `EveryConnectionSettles`, and of `RequestsEnd` that a
running request always has a step to take, which has ENABLED in it; that every
step brings it closer to its end is `RequestsCountDown`.

The recursive definitions (`Trail` in `Access`, `Parts` and `JoinPath` in `Routes`)
are recursive functions over `0..n`.  The theorems of the library about induction
take an operator as a parameter, which the provers at hand cannot instantiate;
the inductions here are over sets instead: a set of numbers with 0 and every
successor is `Nat`, and a set of strings with the empty one and every extension is
`Seq(A)`.

## 5. What the checks show

Where the code does what it says, and under which assumptions, is above.  Two
statements do not hold, each with a run that shows it:

* `PolicyRace`: "A successfully loaded policy is cached for up to 30 seconds"
  (DOCS.md:160-161).  Two threads reload together; the slower one assigns its
  older list after the other's, and the other's newer time stamp stays.  The list
  is then used for longer than the TTL, by at most the duration of a call
  (`BoundedStaleness`, which is proved).
* `ConversionRace`: the seed profile is "created once and copied fresh for every
  conversion" (office_extract.py:68-72).  Two first conversions write it twice,
  and a copy taken between the truncation and the write has no macro lock-down.
  Apart from that race, a conversion runs without the lock only after a failed
  write of the profile, or while the cache is cleared away, had left the original
  incomplete; a crash in the middle of the write is no cause
  (`MacrosLockedUnlessTorn`, which is proved).

Noticed on the way, without a run of their own:

* A source that is removed during a rendering makes the second fingerprint raise
  and gives 404 although the preview exists (inspectors.py:644, 658-659), where
  README.md:204-205 says that the output is returned to that request.
* The page that says that no frames could be read is cached like a contact sheet,
  also when ffprobe only timed out (inspectors.py:680-687, 653-654).
* A write of the seed profile that fails (no space, for example) leaves it with an
  empty or no settings file.  When the global is already set, because the profile
  was made earlier or by another thread, every later conversion of the process
  copies it and runs without the macro lock (office_extract.py:75-81; `spoilt` in
  `Conversion`).
* "deleted immediately after, success or failure" of the work directory holds
  unless the removal itself raises; the output is lost then, too
  (office_extract.py:108).
* A policy file that is read while it is rewritten in place is accepted as soon
  as it has the mandatory entries; the project's own may be missing until the
  next load (security.py:53, 78).
* A policy failure "must be distinguishable" (app.py:151) by its 503, which is what `DenylistUnavailable` gets; an OSError of `is_file` or
  of the last `resolve` (security.py:50, 81) is outside of the `try` and gives a 500.
  Either way nothing is decided.
* `os.scandir` follows a link that takes the place of a directory between its
  resolution and the scan (directory_listing.py:37): the page then has names of what
  the link leads to, tested as if they were below the directory.  A request for one of
  them is resolved anew.
* `_convert_with_soffice` "never raises" (office_extract.py:98), but the profile,
  the work directory and the copies are outside of its `try`; the callers catch
  it, and the rung below is skipped.
* `get_text` "Never raises" (inspectors.py:147), but the generic report runs in
  its `except` clause and opens the source again; the answer is then a 500.
* The PID file is not a lock: two starts at once sweep each other's viewer, and
  the file may name the one that lost the port (start.sh:15-20).  "no-op if already
  running" (DOCS.md:257) and "the right process" of `stop.sh` hold for scripts that do not
  overlap (`FileNamesViewer`).
* `stop.sh` may kill a process of somebody else: after a crash, one that got the number
  in the PID file; with its `kill -9`, also one that got the number within the second
  since its own SIGTERM (stop.sh:8-10; `StrangersSpared` names the causes).  `pkill -f`
  signals whatever has `osf_viewer/app.py` in its command line, an editor included.
* `start.sh` says "OK" when anybody listens on the port (start.sh:23).
* Text that is cut off inside a UTF-8 character cannot be decoded as UTF-8, and the
  whole report comes out as latin-1 (inspectors.py:215-222).
* What the reports leave out without a word is `LeftOut` in `Reports`: content that
  a loop does not look at (`Hidden`: groups, charts and pictures on a slide,
  office_extract.py:254-262, pages that are pictures, rows of a sheet with data only
  behind `MAX_XLSX_COLS`, 220-224, 390-393); rows of xlsx behind the first 200 when blank
  ones are among them (216, 228), the sheets behind one that uses up the cells
  exactly (231), content controls and lists in docx and odt (170-184, 348-366), row
  groups behind the first in parquet.  Of the rows they show, the columns behind
  `MAX_XLSX_COLS`, the characters of an sqlite value behind 200 and of a parquet row
  behind 500 (inspectors.py:446, 483) are cut off without a word: `Width`.
* A file that cannot be read to its end while it is streamed (EIO, ESTALE) makes
  `copyfileobj` raise behind the head, and the error boundary appends a second head,
  a 500, to the body of a client that reads (app.py:142, 154-160; `cut` in `Viewer`).
* A file that becomes shorter between the stat and the reads of its generic report
  gets a hex dump whose label does not fit (inspectors.py:578, 589-591, 611).
* A file that grows while it is streamed sends more bytes than its
  Content-Length, one that shrinks fewer (app.py:142).
* "`/__view__/some/dir/` lists entries as links to their own viewer URLs"
  (DOCS.md:115): the link of an entry that is called `text`, `raw` or
  `preview.pdf` leads to that mode of its directory (app.py:86), one with a "!" in
  its name to a member or nowhere (app.py:94).  The same holds for "The hub view
  for an archive lists every member as a link" (DOCS.md:78): a member's name is
  decoded twice (app.py:96), so one that contains "%21" leads to another, or to
  none.  `LinksLeadHome` says exactly which links are right.
* "A zip member that is itself a zip degrades to its own hub/text/raw as an opaque
  file" (DOCS.md:80-83), but its hub lists its members, with links that lead
  nowhere (app.py:275-284).
* ZIP and 7z members behind the listing's cap can be fetched; only TAR members
  are restricted to what is shown (archive_memory.py:166-169).

## 6. Not modelled

* Names that are not valid UTF-8 (`quote` raises, and the page of the directory is
  a 500), and names of archive members that a browser would normalise (`..`).
* `identify`, the metadata of images, videos, audio and safetensors, and the
  strings of a binary: straight-line code around external parsers; what matters of
  them, that they may raise anywhere, is in `Viewer` and `Conversion`.
* `status.sh`, which only reads.
* A wall clock that is set back (app.py:51): it keeps a list in use for as long.
* Two scans of one directory on one page may differ (app.py:269); each is checked
  by itself.  Cache entries are never removed, so there is no eviction to check.
* soffice children that outlive the kill of their parent: the code does not know
  them, and nothing in it depends on them but disk space.
* What the parsers leave out before the loops see it (text boxes, nested tables,
  repeated cells, sqlite views), and the 50 MB of a csv file that are read, behind
  which a footer says so (inspectors.py:457, 470).
* Memory and CPU: only the bounds the code counts itself.
* That zipfile and tarfile stop at the size in the header by themselves: `ReadStream`
  lets them go on, and `ServedWhole` holds without it.  For them the byte more that is
  asked for is a second line of defence.
* A cache directory that is or is below a link (`CacheAssumption`); the viewer makes it
  itself.
* Installation, fixture audits, tests: not part of the service.

## 7. Plan

Done, in this order: `Admission` with `WorkerPool`, `PolicyCache`, `PreviewCache`,
`Conversion`, `Access` with `Listing`, `Archive`, `Viewer`, `Routes`, `Lifecycle`,
`Reports`, and the proofs of section 4.

What is left, the most important first:

1. An abstract cache that answers from the current content, implemented by
   `PreviewCache` as long as no request overlaps a modification.
2. That a request of `Conversion` which runs has a step to take, with the guards of
   its actions in place of ENABLED.
3. A wall clock that is set back in `PolicyCache`, with its step as a parameter of
   `BoundedStaleness`.
