------------------------------ MODULE Archive ------------------------------
(***************************************************************************)
(* Listing an archive and reading one member of it into memory             *)
(* (archive_memory.py, inspectors.list_archive_members and                 *)
(* read_archive_member), for ZIP, TAR and 7z.  The libraries that decode   *)
(* are external: they return what the archive contains, which need not be  *)
(* what its headers say, and py7zr drives the sink it was given by writes, *)
(* seeks and reads in any order.                                           *)
(*                                                                         *)
(* One request on one archive is modelled: each opens the archive anew and *)
(* shares nothing.  Bytes are counted and not looked at.                   *)
(***************************************************************************)
EXTENDS Integers, Sequences, SequencesExt

CONSTANTS
    Archives,   \* the archives there may be: [format, members]
    Safe,       \* names validate_member_name accepts
    Unsafe,     \* names it refuses
    MaxEntries, \* MAX_ARCHIVE_LIST
    MaxBytes,   \* MAX_MEMBER_EXTRACT
    MaxStep     \* bound: the most py7zr writes at once, or seeks to

ASSUME MaxEntriesAssumption == MaxEntries \in Nat \ {0}
ASSUME BytesAssumption == MaxBytes \in Nat /\ MaxStep \in Nat

Names   == Safe \union Unsafe
Formats == {"zip", "tar", "7z"}

\* A size of -1 is one that the headers do not give.
Members == [name : Names, kind : {"file", "dir", "link"},
            declared : Nat \union {-1}, actual : Nat]

ASSUME ArchivesAssumption == Archives \subseteq [format : Formats, members : Seq(Members)]

VARIABLES
    archive,    \* the archive that was opened
    loaded,     \* TAR: the caller has read all headers before (_loaded)
    pc,         \* where the request is
    wanted,     \* the member it asks for
    parsed,     \* TAR: headers read from the archive
    scanned,    \* TAR: entries scan_tar_headers has collected
    truncated,  \* TAR: there are more
    sink,       \* 7z: the _BoundedMemberIO made by the factory
    held        \* bytes of the member in memory

vars == <<archive, loaded, pc, wanted, parsed, scanned, truncated, sink, held>>

PCs   == {"list", "read", "scan", "select", "decode", "listed", "returned", "refused"}
Sinks == [made : BOOLEAN, pos : Nat, high : Nat]

TypeOK ==
    /\ archive \in Archives
    /\ loaded \in BOOLEAN
    /\ pc \in PCs
    /\ wanted \in Names
    /\ parsed \in 0..Len(archive.members)
    /\ scanned \in 0..MaxEntries
    /\ truncated \in BOOLEAN
    /\ sink \in Sinks
    /\ held \in Nat

Init ==
    /\ archive \in Archives
    /\ loaded \in (IF archive.format = "tar" THEN BOOLEAN ELSE {FALSE})
    /\ pc \in {"list", "read"}
    /\ wanted \in Names
    /\ parsed = 0 /\ scanned = 0
    /\ truncated = FALSE
    /\ sink = [made |-> FALSE, pos |-> 0, high |-> 0]
    /\ held = 0

Total == Len(archive.members)

Goes(from, to) == pc = from /\ pc' = to

Least(a, b) == IF a <= b THEN a ELSE b
Most(a, b)  == IF a >= b THEN a ELSE b

---------------------------------------------------------------------------
(* What is looked at *)

Prefix == 1..Least(Total, MaxEntries)

\* Variant of Searched: every header counts.
SearchedAll == 1..Total

\* The entries a member is searched among.
Searched == IF archive.format = "tar" THEN 1..scanned ELSE 1..Total

Matches == {i \in Searched : archive.members[i].name = wanted}

\* list_archive_members: links to the files among the first entries.
Shown == {archive.members[i].name :
            i \in {j \in Prefix : \/ archive.members[j].kind = "file"
                                  \/ archive.format # "tar" /\ archive.members[j].kind = "link"}}

\* validate_member_name
Refused ==
    /\ Goes("read", "refused")
    /\ wanted \in Unsafe
    /\ UNCHANGED <<archive, loaded, wanted, parsed, scanned, truncated, sink, held>>

\* ZIP and 7z headers are all parsed when the archive is opened.
ListParsed ==
    /\ Goes("list", "listed")
    /\ archive.format # "tar"
    /\ UNCHANGED <<archive, loaded, wanted, parsed, scanned, truncated, sink, held>>

ReadParsed ==
    /\ Goes("read", "select")
    /\ wanted \in Safe /\ archive.format # "tar"
    /\ UNCHANGED <<archive, loaded, wanted, parsed, scanned, truncated, sink, held>>

---------------------------------------------------------------------------
(* scan_tar_headers *)

Done == IF pc = "list" THEN "listed" ELSE "select"

\* It is one loop for both callers: pc stays with the caller until it ends.
Scanning ==
    /\ archive.format = "tar"
    /\ pc \in {"list", "read"}
    /\ pc = "read" => wanted \in Safe

\* The caller's own list of headers is complete.
ScanLoaded ==
    /\ Scanning /\ loaded
    /\ pc' = Done
    /\ scanned' = Least(Total, MaxEntries)
    /\ truncated' = (Total > MaxEntries)
    /\ UNCHANGED <<archive, loaded, wanted, parsed, sink, held>>

\* Variant of ScanNext: the cap is left to whoever shows the entries.
ScanNextUncapped ==
    /\ Scanning /\ ~loaded
    /\ parsed < Total
    /\ parsed' = parsed + 1
    /\ scanned' = scanned + 1
    /\ UNCHANGED <<archive, loaded, pc, wanted, truncated, sink, held>>

ScanNext ==
    /\ Scanning /\ ~loaded
    /\ scanned < MaxEntries /\ parsed < Total
    /\ parsed' = parsed + 1
    /\ scanned' = scanned + 1
    /\ UNCHANGED <<archive, loaded, pc, wanted, truncated, sink, held>>

\* next() returns None before the cap is reached.
ScanExhausted ==
    /\ Scanning /\ ~loaded
    /\ scanned < MaxEntries /\ parsed = Total
    /\ pc' = Done
    /\ UNCHANGED <<archive, loaded, wanted, parsed, scanned, truncated, sink, held>>

\* Variant of ScanLookahead: a full listing is taken for one cut off.
ScanLookaheadGuess ==
    /\ Scanning /\ ~loaded
    /\ scanned = MaxEntries
    /\ pc' = Done
    /\ truncated' = TRUE
    /\ UNCHANGED <<archive, loaded, wanted, parsed, scanned, sink, held>>

\* One header more tells whether the listing is cut off.
ScanLookahead ==
    /\ Scanning /\ ~loaded
    /\ scanned = MaxEntries
    /\ pc' = Done
    /\ truncated' = (parsed < Total)
    /\ parsed' = Least(parsed + 1, Total)
    /\ UNCHANGED <<archive, loaded, wanted, scanned, sink, held>>

---------------------------------------------------------------------------
(* One member *)

\* There is exactly one such entry, a file, of a size that will do.
Acceptable(i) ==
    /\ Matches = {i}
    /\ archive.members[i].kind \in
         (IF archive.format = "tar" THEN {"file"} ELSE {"file", "link"})
    /\ archive.members[i].declared \in 0..MaxBytes

SelectRefuses ==
    /\ Goes("select", "refused")
    /\ \A i \in Matches : ~Acceptable(i)
    /\ UNCHANGED <<archive, loaded, wanted, parsed, scanned, truncated, sink, held>>

SelectAccepts ==
    /\ Goes("select", "decode")
    /\ \E i \in Matches : Acceptable(i)
    /\ UNCHANGED <<archive, loaded, wanted, parsed, scanned, truncated, sink, held>>

Chosen == archive.members[CHOOSE i \in Matches : TRUE]

\* Variant of ReadStream: no byte more than allowed is asked for.
ReadStreamToLimit ==
    /\ pc = "decode" /\ archive.format # "7z"
    /\ LET got == Least(Chosen.actual, MaxBytes) IN
         /\ held' = got
         /\ pc' = IF got > MaxBytes \/ got # Chosen.declared
                  THEN "refused" ELSE "returned"
    /\ UNCHANGED <<archive, loaded, wanted, parsed, scanned, truncated, sink>>

\* ZIP and TAR: read(max_bytes + 1), and both its length and the header's.  zipfile
\* and tarfile stop at the header's size by themselves; here they may go on, so that
\* nothing rests on that.
ReadStream ==
    /\ pc = "decode" /\ archive.format # "7z"
    /\ LET got == Least(Chosen.actual, MaxBytes + 1) IN
         /\ held' = got
         /\ pc' = IF got > MaxBytes \/ got # Chosen.declared
                  THEN "refused" ELSE "returned"
    /\ UNCHANGED <<archive, loaded, wanted, parsed, scanned, truncated, sink>>

---------------------------------------------------------------------------
(* 7z: py7zr and the sink *)

Decoding == pc = "decode" /\ archive.format = "7z"

\* Any exception of ours ends the extraction.
DecoderStops ==
    /\ pc' = "refused"
    /\ UNCHANGED <<archive, loaded, wanted, parsed, scanned, truncated, held>>

\* _SingleMemberFactory.create: once, and for the member asked for ...
CreateSink ==
    /\ Decoding /\ ~sink.made
    /\ sink' = [sink EXCEPT !.made = TRUE]
    /\ UNCHANGED <<archive, loaded, pc, wanted, parsed, scanned, truncated, held>>

\* ... or it raises, as do the libraries for what they cannot decode.
DecodeRaises == pc = "decode" /\ DecoderStops /\ UNCHANGED sink

\* Variant of WriteSink: only the bytes of this write are counted.
WriteSinkAnywhere(n) ==
    /\ Decoding /\ sink.made
    /\ n <= MaxBytes
    /\ sink' = [sink EXCEPT !.pos = @ + n, !.high = Most(@, sink.pos + n)]
    /\ held' = IF n = 0 THEN held ELSE Most(held, sink.pos + n)
    /\ UNCHANGED <<archive, loaded, pc, wanted, parsed, scanned, truncated>>

\* BytesIO fills a gap before the position; an empty write leaves its length.
WriteSink(n) ==
    /\ Decoding /\ sink.made
    /\ sink.pos + n <= MaxBytes
    /\ sink' = [sink EXCEPT !.pos = @ + n, !.high = Most(@, sink.pos + n)]
    /\ held' = IF n = 0 THEN held ELSE Most(held, sink.pos + n)
    /\ UNCHANGED <<archive, loaded, pc, wanted, parsed, scanned, truncated>>

WriteRaises(n) ==
    /\ Decoding /\ sink.made
    /\ sink.pos + n > MaxBytes
    /\ DecoderStops /\ UNCHANGED sink

\* The position is set before the limit is looked at.
SeekSink(to) ==
    /\ Decoding /\ sink.made
    /\ sink' = [sink EXCEPT !.pos = to]
    /\ pc' = IF to > MaxBytes THEN "refused" ELSE pc
    /\ UNCHANGED <<archive, loaded, wanted, parsed, scanned, truncated, held>>

ReadSink(n) ==
    /\ Decoding /\ sink.made
    /\ sink' = [sink EXCEPT !.pos = IF @ >= held THEN @ ELSE Least(@ + n, held)]
    /\ UNCHANGED <<archive, loaded, pc, wanted, parsed, scanned, truncated, held>>

\* extract() returns: what the sink contains is the member, or it is refused.
Extracted ==
    /\ Decoding
    /\ pc' = IF sink.made /\ held <= MaxBytes /\ held = Chosen.declared
             THEN "returned" ELSE "refused"
    /\ UNCHANGED <<archive, loaded, wanted, parsed, scanned, truncated, sink, held>>

---------------------------------------------------------------------------
\* The next request opens the archive again.
Again ==
    /\ pc \in {"listed", "returned", "refused"}
    /\ loaded' = FALSE
    /\ pc' \in {"list", "read"}
    /\ wanted' \in Names
    /\ parsed' = 0 /\ scanned' = 0
    /\ truncated' = FALSE
    /\ sink' = [made |-> FALSE, pos |-> 0, high |-> 0]
    /\ held' = 0
    /\ UNCHANGED archive

SinkNext ==
    \/ CreateSink \/ DecodeRaises \/ Extracted
    \/ \E n \in 0..MaxStep : WriteSink(n) \/ WriteRaises(n) \/ SeekSink(n) \/ ReadSink(n)

Next ==
    \/ Refused \/ ListParsed \/ ReadParsed
    \/ ScanLoaded \/ ScanNext \/ ScanExhausted \/ ScanLookahead
    \/ SelectRefuses \/ SelectAccepts \/ ReadStream \/ SinkNext
    \/ Again

Spec == Init /\ [][Next]_vars

---------------------------------------------------------------------------
(* Properties *)

\* However the headers lie and however the sink is driven, a member takes at
\* most MaxBytes of memory, and one byte more to see that it is too long
\* (archive_memory.py:37-55, 124, 181).
MemoryBounded == held <= MaxBytes + (IF archive.format = "7z" THEN 0 ELSE 1)

\* A member that is served is all of it: never one that was cut off at the
\* limit or that is longer or shorter than its header says
\* (archive_memory.py:106-108, 123-127, 180-184).
ServedWhole ==
    pc = "returned" =>
        /\ held = Chosen.declared
        /\ archive.format # "7z" => held = Chosen.actual

\* "only the first 5,000 entries and one lookahead header are read for an
\* archive listing" (DOCS.md:88-92), nor for a member.
HeadersBounded == parsed <= MaxEntries + 1

\* "direct member requests can only address regular files in that scanned
\* prefix" (DOCS.md:90-91): what can be fetched from a TAR is on its page.
FetchedIsShown ==
    pc = "returned" /\ archive.format = "tar" => wanted \in Shown

\* The page of a TAR says that it is cut off exactly when it is, and has all
\* the entries of its prefix (archive_memory.py:131-153).
PageComplete ==
    pc = "listed" /\ archive.format = "tar" =>
        /\ scanned = Least(Total, MaxEntries)
        /\ truncated <=> Total > MaxEntries
=============================================================================
