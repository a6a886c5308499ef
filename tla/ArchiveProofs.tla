---------------------------- MODULE ArchiveProofs ----------------------------
(***************************************************************************)
(* Archives of any length, with headers that say anything, and any limits. *)
(* ScanInv says how far a scan of headers has come, ChosenInv that the     *)
(* member being decoded is the one that was accepted, and HeldInv what is  *)
(* in memory meanwhile.                                                    *)
(***************************************************************************)
EXTENDS Archive, TLAPS

Listing == {"list", "read"}
Chose   == {"decode", "returned"}

ScanInv ==
    /\ pc \in Listing => parsed = scanned /\ truncated = FALSE
    /\ parsed <= MaxEntries + 1
    /\ scanned <= Total
    /\ archive.format = "tar" /\ pc \in {"select", "listed"} \union Chose =>
         scanned = Least(Total, MaxEntries)

ChosenInv == pc \in Chose => \E i \in Matches : Acceptable(i)

HeldInv ==
    /\ pc \in Listing \union {"select", "listed"} => held = 0
    /\ pc = "decode" /\ archive.format # "7z" => held = 0

IInv ==
    /\ TypeOK /\ ScanInv /\ ChosenInv /\ HeldInv
    /\ MemoryBounded /\ ServedWhole /\ HeadersBounded /\ FetchedIsShown /\ PageComplete

---------------------------------------------------------------------------
\* What the archive that was opened consists of.
LEMMA ArchiveFacts ==
    ASSUME TypeOK
    PROVE  /\ archive.format \in Formats
           /\ Total \in Nat /\ MaxEntries \in Nat \ {0} /\ MaxBytes \in Nat /\ MaxStep \in Nat
           /\ \A i \in 1..Total : archive.members[i] \in Members
           /\ parsed \in 0..Total /\ scanned \in 0..MaxEntries /\ held \in Nat
           /\ sink.pos \in Nat /\ sink.high \in Nat /\ sink.made \in BOOLEAN
<1>1. archive \in [format : Formats, members : Seq(Members)]
  BY ArchivesAssumption DEF TypeOK
<1>2. archive.members \in Seq(Members) /\ archive.format \in Formats
  BY <1>1
<1>3. Total \in Nat /\ \A i \in 1..Total : archive.members[i] \in Members
  BY <1>2 DEF Total
<1>4. sink.pos \in Nat /\ sink.high \in Nat /\ sink.made \in BOOLEAN
  BY DEF TypeOK, Sinks
<1> QED
  BY <1>2, <1>3, <1>4, MaxEntriesAssumption, BytesAssumption DEF TypeOK, Total

LEMMA LeastFacts ==
    ASSUME NEW a \in Nat, NEW b \in Nat
    PROVE  Least(a, b) \in Nat /\ Least(a, b) <= a /\ Least(a, b) <= b /\ Least(a, b) \in {a, b}
BY DEF Least

LEMMA MostFacts ==
    ASSUME NEW a \in Nat, NEW b \in Nat
    PROVE  Most(a, b) \in Nat /\ Most(a, b) \in {a, b}
BY DEF Most

\* The member that was accepted is the only match.
LEMMA ChosenFacts ==
    ASSUME TypeOK, ScanInv, NEW i \in Matches, Acceptable(i)
    PROVE  /\ i \in 1..Total /\ i \in Searched /\ Chosen = archive.members[i]
           /\ Chosen \in Members /\ Chosen.name = wanted
           /\ Chosen.declared \in 0..MaxBytes /\ Chosen.actual \in Nat
           /\ archive.format = "tar" => Chosen.kind = "file"
<1>1. i \in Searched /\ archive.members[i].name = wanted
  BY DEF Matches
<1>2. i \in 1..Total
  BY <1>1, ArchiveFacts DEF Searched, ScanInv
<1>3. Chosen = archive.members[i]
  BY DEF Acceptable, Chosen
<1>4. archive.members[i] \in Members
  BY <1>2, ArchiveFacts
<1> QED
  BY <1>1, <1>2, <1>3, <1>4 DEF Acceptable, Members

\* Steps that leave the scan as it is keep the matches.
LEMMA SameMatches ==
    ASSUME UNCHANGED <<archive, wanted, scanned>>
    PROVE  /\ Matches' = Matches /\ Total' = Total /\ Shown' = Shown
           /\ \A i : Acceptable(i)' <=> Acceptable(i)
           /\ Chosen' = Chosen
BY DEF Matches, Searched, Total, Acceptable, Chosen, Shown, Prefix

---------------------------------------------------------------------------
LEMMA InitIInv == Init => IInv
<1> SUFFICES ASSUME Init PROVE IInv
  OBVIOUS
<1>1. archive.members \in Seq(Members) /\ archive.format \in Formats
  BY ArchivesAssumption DEF Init
<1>2. Len(archive.members) \in Nat
  BY <1>1
<1>3. loaded \in BOOLEAN /\ truncated \in BOOLEAN
  BY DEF Init
<1>4. sink \in Sinks
  BY DEF Init, Sinks
<1>5. TypeOK
  BY <1>2, <1>3, <1>4, MaxEntriesAssumption DEF Init, TypeOK, PCs
<1> QED
  BY <1>2, <1>5, MaxEntriesAssumption, BytesAssumption
  DEF Init, IInv, ScanInv, ChosenInv, HeldInv, MemoryBounded, ServedWhole, HeadersBounded,
      FetchedIsShown, PageComplete, Listing, Chose, Total

---------------------------------------------------------------------------
(* Steps that end a request, or that open the archive *)

LEMMA RefusedStep ==
    ASSUME IInv, pc' = "refused", UNCHANGED <<archive, loaded, wanted, parsed, scanned, truncated, held>>,
           sink' \in Sinks
    PROVE  IInv'
<1>1. TypeOK'
  BY DEF IInv, TypeOK, PCs
<1> QED
  BY <1>1, SameMatches DEF IInv, ScanInv, ChosenInv, HeldInv, MemoryBounded, ServedWhole,
     HeadersBounded, FetchedIsShown, PageComplete, Listing, Chose

LEMMA OpenStep ==
    ASSUME IInv, Refused \/ ListParsed \/ ReadParsed
    PROVE  IInv'
<1>1. CASE Refused
  BY <1>1, RefusedStep DEF Refused, Goes, IInv, TypeOK
<1>2. CASE ListParsed \/ ReadParsed
  <2>1. TypeOK'
    BY <1>2 DEF ListParsed, ReadParsed, Goes, IInv, TypeOK, PCs
  <2> QED
    BY <1>2, <2>1, SameMatches DEF ListParsed, ReadParsed, Goes, IInv, ScanInv, ChosenInv, HeldInv,
       MemoryBounded, ServedWhole, HeadersBounded, FetchedIsShown, PageComplete, Listing, Chose
<1> QED
  BY <1>1, <1>2

LEMMA AgainStep ==
    ASSUME IInv, Again
    PROVE  IInv'
<1>1. sink' \in Sinks
  BY DEF Again, Sinks
<1>2. loaded' \in BOOLEAN /\ truncated' \in BOOLEAN
  BY Zenon DEF Again
<1>3. /\ pc' \in Listing /\ wanted' \in Names /\ parsed' = 0 /\ scanned' = 0
      /\ truncated' = FALSE /\ held' = 0 /\ archive' = archive
  BY DEF Again, Listing
<1>4. TypeOK'
  BY <1>1, <1>2, <1>3, ArchiveFacts DEF IInv, TypeOK, PCs, Listing, Total
<1> QED
  BY <1>3, <1>4, ArchiveFacts
  DEF IInv, ScanInv, ChosenInv, HeldInv, MemoryBounded, ServedWhole, HeadersBounded,
      FetchedIsShown, PageComplete, Listing, Chose, Total

---------------------------------------------------------------------------
(* The scan of headers *)

\* A scan that is over, with the whole prefix.
LEMMA ScannedStep ==
    ASSUME IInv, Scanning, pc' = Done, parsed' \in 0..Total, parsed' <= MaxEntries + 1,
           scanned' = Least(Total, MaxEntries), truncated' \in BOOLEAN,
           truncated' <=> Total > MaxEntries,
           UNCHANGED <<archive, loaded, wanted, sink, held>>
    PROVE  IInv'
<1>1. pc \in Listing /\ archive.format = "tar" /\ pc' \in {"listed", "select"} /\ Total' = Total
  BY DEF Scanning, Listing, Done, Total
<1>2. scanned' \in 0..MaxEntries /\ scanned' <= Total
  BY ArchiveFacts, LeastFacts DEF IInv
<1>3. TypeOK'
  BY <1>1, <1>2 DEF IInv, TypeOK, PCs, Total
<1>4. ScanInv' /\ ChosenInv' /\ HeldInv'
  BY <1>1, <1>2 DEF IInv, ScanInv, ChosenInv, HeldInv, Listing, Chose
<1>5. MemoryBounded' /\ ServedWhole' /\ HeadersBounded' /\ FetchedIsShown'
  BY <1>1 DEF IInv, MemoryBounded, ServedWhole, HeadersBounded, FetchedIsShown
<1>6. PageComplete'
  BY <1>1 DEF PageComplete
<1> QED
  BY <1>3, <1>4, <1>5, <1>6 DEF IInv

LEMMA ScanStep ==
    ASSUME IInv, ScanLoaded \/ ScanNext \/ ScanExhausted \/ ScanLookahead
    PROVE  IInv'
<1> USE ArchiveFacts DEF IInv
<1>1. CASE ScanLoaded
  <2>1. truncated' <=> Total > MaxEntries
    BY <1>1 DEF ScanLoaded
  <2>2. truncated' \in BOOLEAN
    BY <1>1 DEF ScanLoaded
  <2>3. parsed' = parsed /\ parsed <= MaxEntries + 1
    BY <1>1 DEF ScanLoaded, ScanInv
  <2> QED
    BY <1>1, <2>1, <2>2, <2>3, ScannedStep DEF ScanLoaded
<1>2. CASE ScanNext
  <2>1. /\ pc' = pc /\ pc \in Listing /\ archive' = archive /\ parsed' = parsed + 1
        /\ scanned' = scanned + 1 /\ scanned < MaxEntries /\ parsed < Total /\ parsed = scanned
        /\ truncated = FALSE /\ held = 0
    BY <1>2 DEF ScanNext, Scanning, Listing, ScanInv, HeldInv
  <2>2. Total' = Total
    BY <2>1 DEF Total
  <2>3. TypeOK'
    BY <1>2, <2>1, <2>2 DEF ScanNext, TypeOK, Total
  <2> QED
    BY <1>2, <2>1, <2>2, <2>3 DEF ScanNext, ScanInv, ChosenInv, HeldInv, MemoryBounded, ServedWhole,
       HeadersBounded, FetchedIsShown, PageComplete, Listing, Chose
<1>3. CASE ScanExhausted
  <2>1. /\ parsed' = parsed /\ scanned' = scanned /\ scanned = Total /\ scanned < MaxEntries
        /\ pc \in Listing
    BY <1>3 DEF ScanExhausted, Scanning, Listing, ScanInv
  <2>2. truncated' = FALSE
    BY <1>3, <2>1 DEF ScanExhausted, ScanInv
  <2>3. ~(Total > MaxEntries) /\ scanned' = Least(Total, MaxEntries) /\ parsed' <= MaxEntries + 1
    BY <2>1 DEF Least
  <2>4. truncated' \in BOOLEAN /\ (truncated' <=> Total > MaxEntries)
    BY <2>2, <2>3, Zenon
  <2> QED
    BY <1>3, <2>1, <2>3, <2>4, ScannedStep DEF ScanExhausted
<1>4. CASE ScanLookahead
  <2>1. scanned = MaxEntries /\ parsed = scanned /\ scanned' = scanned
    BY <1>4 DEF ScanLookahead, Scanning, Listing, ScanInv
  <2>2. (parsed < Total) <=> (Total > MaxEntries)
    BY <2>1
  <2>3. truncated' \in BOOLEAN /\ (truncated' <=> parsed < Total)
    <3>1. truncated' = (parsed < Total)
      BY <1>4, Zenon DEF ScanLookahead
    <3>2. (parsed < Total) \in BOOLEAN
      OBVIOUS
    <3> QED
      BY <3>1, <3>2, Zenon
  <2>4. truncated' <=> Total > MaxEntries
    BY <2>2, <2>3, Zenon
  <2>5. parsed' \in 0..Total /\ parsed' <= MaxEntries + 1 /\ scanned' = Least(Total, MaxEntries)
    BY <1>4, <2>1 DEF ScanLookahead, Least, ScanInv
  <2> QED
    BY <1>4, <2>3, <2>4, <2>5, ScannedStep DEF ScanLookahead
<1> QED
  BY <1>1, <1>2, <1>3, <1>4

---------------------------------------------------------------------------
(* One member *)

LEMMA SelectStep ==
    ASSUME IInv, SelectRefuses \/ SelectAccepts
    PROVE  IInv'
<1>1. CASE SelectRefuses
  BY <1>1, RefusedStep DEF SelectRefuses, Goes, IInv, TypeOK
<1>2. CASE SelectAccepts
  <2>1. TypeOK'
    BY <1>2 DEF SelectAccepts, Goes, IInv, TypeOK, PCs
  <2> QED
    BY <1>2, <2>1, SameMatches DEF SelectAccepts, Goes, IInv, ScanInv, ChosenInv, HeldInv,
       MemoryBounded, ServedWhole, HeadersBounded, FetchedIsShown, PageComplete, Listing, Chose
<1> QED
  BY <1>1, <1>2

\* What was accepted is on the page.
LEMMA AcceptedIsShown ==
    ASSUME IInv, pc = "decode", archive.format = "tar"
    PROVE  wanted \in Shown
<1>1. PICK i \in Matches : Acceptable(i)
  BY DEF IInv, ChosenInv, Chose
<1>2. /\ i \in Searched /\ i \in 1..Total /\ archive.members[i].name = wanted
      /\ archive.members[i].kind = "file"
  BY <1>1, ChosenFacts DEF IInv
<1>3. i \in Prefix
  BY <1>2 DEF IInv, ScanInv, Searched, Prefix, Chose
<1> QED
  BY <1>2, <1>3 DEF Shown

\* The answer to a request whose member has been decoded.
LEMMA DecodedStep ==
    ASSUME IInv, pc = "decode", pc' \in {"returned", "refused"},
           UNCHANGED <<archive, loaded, wanted, parsed, scanned, truncated>>,
           sink' \in Sinks, held' \in Nat, MemoryBounded', ServedWhole'
    PROVE  IInv'
<1>1. TypeOK'
  BY DEF IInv, TypeOK, PCs
<1>2. ScanInv' /\ ChosenInv' /\ HeldInv'
  BY SameMatches DEF IInv, ScanInv, ChosenInv, HeldInv, Listing, Chose
<1>3. HeadersBounded' /\ PageComplete'
  BY DEF IInv, HeadersBounded, PageComplete
<1>4. FetchedIsShown'
  BY AcceptedIsShown, SameMatches DEF FetchedIsShown
<1> QED
  BY <1>1, <1>2, <1>3, <1>4 DEF IInv

LEMMA StreamStep ==
    ASSUME IInv, ReadStream
    PROVE  IInv'
<1> DEFINE got == Least(Chosen.actual, MaxBytes + 1)
<1>1. PICK i \in Matches : Acceptable(i)
  BY DEF IInv, ChosenInv, Chose, ReadStream
<1>2. Chosen.declared \in 0..MaxBytes /\ Chosen.actual \in Nat /\ MaxBytes \in Nat
  BY <1>1, ChosenFacts, ArchiveFacts DEF IInv
<1>3. /\ pc = "decode" /\ archive.format # "7z" /\ held' = got
      /\ pc' = (IF got > MaxBytes \/ got # Chosen.declared THEN "refused" ELSE "returned")
      /\ UNCHANGED <<archive, loaded, wanted, parsed, scanned, truncated, sink>>
  BY DEF ReadStream
<1>4. got \in Nat /\ got <= MaxBytes + 1 /\ (got <= MaxBytes => got = Chosen.actual)
  BY <1>2 DEF Least
<1> HIDE DEF got
<1>5. MemoryBounded'
  BY <1>3, <1>4 DEF MemoryBounded
<1>6. ServedWhole'
  BY <1>2, <1>3, <1>4, SameMatches DEF ServedWhole
<1>7. sink' \in Sinks
  BY <1>3 DEF IInv, TypeOK
<1> QED
  BY <1>3, <1>4, <1>5, <1>6, <1>7, DecodedStep

---------------------------------------------------------------------------
(* The 7z sink *)

\* The decoder goes on: the limit holds for what is in the sink.
LEMMA DecodingStep ==
    ASSUME IInv, Decoding, pc' = pc,
           UNCHANGED <<archive, loaded, wanted, parsed, scanned, truncated>>,
           sink' \in Sinks, held' \in Nat, held' <= MaxBytes
    PROVE  IInv'
<1>1. TypeOK'
  BY DEF IInv, TypeOK
<1> QED
  BY <1>1, ArchiveFacts, SameMatches DEF Decoding, IInv, ScanInv, ChosenInv, HeldInv,
     MemoryBounded, ServedWhole, HeadersBounded, FetchedIsShown, PageComplete, Listing, Chose

LEMMA SinkStep ==
    ASSUME IInv, SinkNext
    PROVE  IInv'
<1>1. Decoding => held \in Nat /\ held <= MaxBytes
  BY ArchiveFacts DEF IInv, Decoding, MemoryBounded
<1>2. CASE CreateSink
  <2>1. sink' \in Sinks
    BY <1>2 DEF CreateSink, IInv, TypeOK, Sinks
  <2> QED
    BY <1>1, <1>2, <2>1, DecodingStep DEF CreateSink
<1>3. CASE DecodeRaises
  BY <1>3, RefusedStep DEF DecodeRaises, DecoderStops, IInv, TypeOK
<1>4. CASE Extracted
  <2>1. /\ pc = "decode" /\ archive.format = "7z"
        /\ pc' \in {"returned", "refused"}
        /\ pc' = "returned" => held = Chosen.declared
        /\ UNCHANGED <<archive, loaded, wanted, parsed, scanned, truncated, sink, held>>
    BY <1>4 DEF Extracted, Decoding
  <2>2. ServedWhole'
    BY <2>1, SameMatches DEF ServedWhole
  <2>3. MemoryBounded'
    BY <2>1 DEF IInv, MemoryBounded
  <2> QED
    BY <2>1, <2>2, <2>3, DecodedStep DEF IInv, TypeOK
<1>5. ASSUME NEW n \in 0..MaxStep, WriteSink(n) PROVE IInv'
  <2>1. n \in Nat /\ sink.pos + n \in Nat /\ sink.pos + n <= MaxBytes
    BY <1>5, ArchiveFacts DEF WriteSink, IInv
  <2>2. sink' \in Sinks
    <3>1. sink.pos + n \in Nat /\ Most(sink.high, sink.pos + n) \in Nat
      BY <2>1, ArchiveFacts, MostFacts DEF IInv
    <3> QED
      BY <1>5, <3>1 DEF WriteSink, IInv, TypeOK, Sinks
  <2>3. held' \in Nat /\ held' <= MaxBytes
    BY <1>1, <1>5, <2>1, MostFacts DEF WriteSink
  <2> QED
    BY <1>5, <2>2, <2>3, DecodingStep DEF WriteSink
<1>6. ASSUME NEW n \in 0..MaxStep, WriteRaises(n) PROVE IInv'
  BY <1>6, RefusedStep DEF WriteRaises, DecoderStops, IInv, TypeOK
<1>7. ASSUME NEW n \in 0..MaxStep, SeekSink(n) PROVE IInv'
  <2>1. sink' \in Sinks
    BY <1>7, ArchiveFacts DEF SeekSink, IInv, TypeOK, Sinks
  <2>2. CASE pc' = "refused"
    BY <1>7, <2>1, <2>2, RefusedStep DEF SeekSink
  <2>3. CASE pc' = pc
    BY <1>1, <1>7, <2>1, <2>3, DecodingStep DEF SeekSink
  <2> QED
    BY <1>7, <2>2, <2>3 DEF SeekSink
<1>8. ASSUME NEW n \in 0..MaxStep, ReadSink(n) PROVE IInv'
  <2>1. sink' \in Sinks
    <3>1. (IF sink.pos >= held THEN sink.pos ELSE Least(sink.pos + n, held)) \in Nat
      BY ArchiveFacts, LeastFacts DEF IInv
    <3> QED
      BY <1>8, <3>1 DEF ReadSink, IInv, TypeOK, Sinks
  <2> QED
    BY <1>1, <1>8, <2>1, DecodingStep DEF ReadSink
<1> QED
  BY <1>2, <1>3, <1>4, <1>5, <1>6, <1>7, <1>8 DEF SinkNext

---------------------------------------------------------------------------
LEMMA StepIInv == IInv /\ [Next]_vars => IInv'
<1> SUFFICES ASSUME IInv, [Next]_vars PROVE IInv'
  OBVIOUS
<1>1. CASE UNCHANGED vars
  <2>1. TypeOK'
    BY <1>1 DEF vars, IInv, TypeOK
  <2> QED
    BY <1>1, <2>1, SameMatches DEF vars, IInv, ScanInv, ChosenInv, HeldInv, MemoryBounded,
       ServedWhole, HeadersBounded, FetchedIsShown, PageComplete, Listing, Chose
<1> QED
  BY <1>1, OpenStep, AgainStep, ScanStep, SelectStep, StreamStep, SinkStep DEF Next

THEOREM Inductive == Spec => []IInv
BY InitIInv, StepIInv, PTL DEF Spec

\* Every variable keeps its type (TypeOK): no scan collects more than MaxEntries.
THEOREM TypeCorrect == Spec => []TypeOK
<1>1. IInv => TypeOK
  BY DEF IInv
<1> QED
  BY <1>1, Inductive, PTL

\* However a decoder drives its sink, and whatever the headers say, a member
\* takes no more memory than allowed (MemoryBounded).
THEOREM MemoryIsBounded == Spec => []MemoryBounded
<1>1. IInv => MemoryBounded
  BY DEF IInv
<1> QED
  BY <1>1, Inductive, PTL

\* No member is served that is not whole (ServedWhole).
THEOREM WholeOrNothing == Spec => []ServedWhole
<1>1. IInv => ServedWhole
  BY DEF IInv
<1> QED
  BY <1>1, Inductive, PTL

\* No more than one header behind the cap is read (HeadersBounded).
THEOREM HeadersAreBounded == Spec => []HeadersBounded
<1>1. IInv => HeadersBounded
  BY DEF IInv
<1> QED
  BY <1>1, Inductive, PTL

\* A TAR serves nothing that its page does not show (FetchedIsShown).
THEOREM NothingHiddenIsServed == Spec => []FetchedIsShown
<1>1. IInv => FetchedIsShown
  BY DEF IInv
<1> QED
  BY <1>1, Inductive, PTL

\* The page of a TAR is complete or says that it is not (PageComplete).
THEOREM PagesAreComplete == Spec => []PageComplete
<1>1. IInv => PageComplete
  BY DEF IInv
<1> QED
  BY <1>1, Inductive, PTL
=============================================================================
