------------------------------- MODULE Reports -------------------------------
(***************************************************************************)
(* The text reports: the loops of office_extract and inspectors that put a *)
(* parsed document into a report of bounded size, and the generic report   *)
(* of a file, which is what is left when a loop raises.                    *)
(*                                                                         *)
(* A document is a sequence of parts (paragraphs, tables, sheets, slides,  *)
(* pages) and a part a sequence of rows, of which only the size matters; 0 *)
(* is blank, and Hidden has content, but none that the loop looks at.  The *)
(* rows of a text are its characters, and their sizes bytes of UTF-8.  The *)
(* libraries that parse are external; they may raise at any time.  The     *)
(* file under the generic report may change at any time.                   *)
(***************************************************************************)
EXTENDS Naturals, Sequences

CONSTANTS
    Documents,  \* the documents asked for
    Widest,     \* bound: the size of the largest row
    MaxChars,   \* MAX_DOCX_CHARS, MAX_ODF_CHARS, MAX_PDF_TEXT_CHARS, MAX_TEXT_READ
    MaxRows,    \* MAX_TABLE_ROWS, MAX_XLSX_ROWS_PER_SHEET
    MaxCols,    \* MAX_XLSX_COLS
    MaxCells,   \* MAX_XLSX_TOTAL_CELLS
    MaxSlides,  \* MAX_SLIDES
    MaxSample,  \* the rows shown of a csv file, an sqlite table, a parquet group
    MaxText,    \* the characters shown of an sqlite value, a parquet row
    MaxLen,     \* bound: the length of the longest file
    HexBytes    \* HEXDUMP_BYTES

Bodies  == {"docx", "odt"}
Slides  == {"pptx", "odp"}
Samples == {"csv", "sqlite", "parquet"}
Formats == Bodies \union Slides \union Samples \union {"xlsx", "ods", "pdf", "text", "binary"}

\* A shape with neither text nor table, a paragraph or a page of pictures, a row
\* of a sheet that has its data behind MaxCols.
Hidden == Widest + 1

Parts == [kind : {"rows", "other"}, rows : Seq(0..Hidden)]

\* A file that no loop has a document of.
Bare == [format |-> "binary", parts |-> <<>>]

ASSUME DocumentsAssumption ==
    /\ Documents \subseteq [format : Formats, parts : Seq(Parts)]
    /\ Bare \in Documents

ASSUME BoundsAssumption ==
    /\ {Widest, MaxCells, MaxSlides, MaxSample, MaxText, MaxLen, HexBytes} \subseteq Nat
    /\ {MaxChars, MaxRows, MaxCols} \subseteq Nat \ {0}

VARIABLES
    doc,        \* the document
    pc,
    g, r,       \* the part and the row the loop is at
    used,       \* n_chars, total_cells, total
    count,      \* row_count: the rows of this sheet that are shown
    shown,      \* the rows in the report, as <<part, row, amount>>
    notices,    \* what the report says of its own limits
    there,      \* the length of the file the path leads to, or Missing
    held,       \* the length of the open file
    linked,     \* the path still leads to the open file
    size,       \* st_size
    hex, at,    \* the bytes that the hex dump of the end has, and where they were
    shrunk      \* history: the open file was shorter than st_size

loop  == <<g, r, used, count, shown, notices>>
world == <<there, held, linked, size, hex, at, shrunk>>
vars  == <<doc, pc, loop, world>>

Missing == MaxLen + 1
Lengths == 0..MaxLen

Rows(i) == doc.parts[i].rows
Positions == UNION {{i} \X (1..Len(Rows(i))) \X (0..Widest) : i \in 1..Len(doc.parts)}
Least(a, b) == IF a < b THEN a ELSE b

\* How much of a row a format shows: some columns, some characters, or all of it.
Width ==
    IF doc.format \in {"xlsx", "ods"} THEN MaxCols
    ELSE IF doc.format \in {"sqlite", "parquet"} THEN MaxText ELSE Widest

TypeOK ==
    /\ doc \in [format : Formats, parts : Seq(Parts)]
    /\ pc \in {"extract", "extracted", "stat", "open", "tail", "digest", "reported", "failed"}
    /\ g \in 1..Len(doc.parts) + 1
    /\ r \in Nat \ {0}
    /\ g <= Len(doc.parts) => r <= Len(Rows(g)) + 1
    /\ used \in Nat
    /\ count \in 0..MaxRows
    /\ shown \subseteq Positions
    /\ notices \subseteq {"chars", "rows", "cells", "slides", "no text", "unavailable"}
    /\ there \in Lengths \union {Missing}
    /\ held \in Lengths
    /\ linked \in BOOLEAN
    /\ size \in Lengths
    /\ hex \in 0..HexBytes
    /\ at \in Lengths
    /\ shrunk \in BOOLEAN

Init ==
    /\ doc \in Documents
    /\ pc = IF doc.format = "binary" THEN "stat" ELSE "extract"
    /\ g = 1 /\ r = 1 /\ used = 0 /\ count = 0 /\ shown = {} /\ notices = {}
    /\ there = 0 /\ held = 0 /\ linked = FALSE /\ size = 0 /\ hex = 0 /\ at = 0 /\ shrunk = FALSE

---------------------------------------------------------------------------
(* What the loops do with a row, a part, a document *)

In(formats)    == pc = "extract" /\ doc.format \in formats /\ g <= Len(doc.parts)
AtRow(formats) == In(formats) /\ r <= Len(Rows(g))
Row            == IF Rows(g)[r] = Hidden THEN 0 ELSE Rows(g)[r]

\* The row, which counts for n, is in the report unless it is blank.
Shows(n) ==
    /\ shown' = IF Row = 0 THEN shown ELSE shown \union {<<g, r, Least(Row, Width)>>}
    /\ used' = used + n
    /\ r' = r + 1
    /\ UNCHANGED <<pc, g>>

NextPart == g' = g + 1 /\ r' = 1 /\ count' = 0 /\ UNCHANGED <<pc, used, shown>>
Ends     == pc' = "extracted" /\ UNCHANGED <<g, r, count>>
Notes(n) == notices' = notices \union {n}

\* What is asked before a paragraph, a table or a slide is begun.
Goes ==
    r = 1 =>
        /\ doc.format \in Bodies => used <= MaxChars
        /\ doc.format \in Slides => g <= MaxSlides

PartEnds ==
    /\ In(Formats \ {"xlsx"}) /\ Goes
    /\ r > Len(Rows(g))
    /\ NextPart
    /\ UNCHANGED notices

DocumentEnds ==
    /\ pc = "extract" /\ g > Len(doc.parts)
    /\ Ends
    /\ notices' = notices \union (IF doc.format = "pdf" /\ used = 0 THEN {"no text"} ELSE {})
    /\ UNCHANGED <<used, shown>>

\* The handler raises: get_text begins again with the generic report.
Raises ==
    /\ pc = "extract"
    /\ pc' = "stat"
    /\ doc' = Bare
    /\ g' = 1 /\ r' = 1 /\ used' = 0 /\ count' = 0 /\ shown' = {} /\ notices' = {}
    /\ UNCHANGED world

---------------------------------------------------------------------------
(* _text_docx and _text_odt: the limit is looked at between two children *)

BodyStops ==
    /\ In(Bodies) /\ ~Goes
    /\ Ends /\ Notes("chars")
    /\ UNCHANGED <<used, shown>>

BodyRow ==
    /\ AtRow(Bodies) /\ Goes
    /\ doc.parts[g].kind = "rows" /\ r <= MaxRows
    /\ Shows(Row)
    /\ UNCHANGED <<count, notices>>

\* Variant of TableStops: no word of it.
TableStopsSilently ==
    /\ AtRow(Bodies)
    /\ doc.parts[g].kind = "rows" /\ r > MaxRows
    /\ NextPart
    /\ UNCHANGED notices

TableStops ==
    /\ AtRow(Bodies)
    /\ doc.parts[g].kind = "rows" /\ r > MaxRows
    /\ NextPart /\ Notes("rows")

\* Content controls, lists and what else is neither paragraph nor table.
BodySkips ==
    /\ AtRow(Bodies) /\ Goes
    /\ doc.parts[g].kind = "other"
    /\ NextPart
    /\ UNCHANGED notices

---------------------------------------------------------------------------
(* _text_pptx and _text_odp *)

SlidesStop ==
    /\ In(Slides) /\ ~Goes
    /\ Ends /\ Notes("slides")
    /\ UNCHANGED <<used, shown>>

SlideRow ==
    /\ AtRow(Slides) /\ Goes
    /\ Shows(Row)
    /\ UNCHANGED <<count, notices>>

---------------------------------------------------------------------------
(* _text_xlsx and _text_ods: sheets share a number of cells *)

Counted == count' = count + (IF Row = 0 THEN 0 ELSE 1)

\* The cells it counts for; in xlsx, trailing blanks in front of MaxCols are none.
Cells ==
    IF doc.format = "xlsx" /\ Row > MaxCols THEN 1..MaxCols ELSE {Least(Row, MaxCols)}

\* Variant of SheetRow: the number of cells is looked at between two sheets.
SheetRowUnchecked ==
    /\ \/ AtRow({"xlsx"}) /\ r <= MaxRows
       \/ AtRow({"ods"}) /\ count < MaxRows
    /\ \E n \in Cells : Shows(n)
    /\ Counted
    /\ UNCHANGED notices

\* Variant of SheetRow: the rows of an ods sheet are not counted.
SheetRowUncounted ==
    /\ AtRow({"xlsx", "ods"})
    /\ doc.format = "xlsx" => r <= MaxRows
    /\ used < MaxCells
    /\ \E n \in Cells : Shows(n)
    /\ Counted
    /\ UNCHANGED notices

SheetRow ==
    /\ \/ AtRow({"xlsx"}) /\ r <= MaxRows
       \/ AtRow({"ods"}) /\ count < MaxRows
    /\ used < MaxCells
    /\ \E n \in Cells : Shows(n)
    /\ Counted
    /\ UNCHANGED notices

XlsxStops ==
    /\ AtRow({"xlsx"}) /\ r <= MaxRows
    /\ used >= MaxCells
    /\ Ends /\ Notes("cells")
    /\ UNCHANGED <<used, shown>>

\* iter_rows gives the first MaxRows rows, blank ones among them.
XlsxSheetEnds ==
    /\ In({"xlsx"}) /\ r > Least(Len(Rows(g)), MaxRows)
    /\ notices' = notices \union (IF count >= MaxRows THEN {"rows"} ELSE {})
    /\ IF used >= MaxCells THEN Ends /\ UNCHANGED <<used, shown>> ELSE NextPart

OdsSheetStops ==
    /\ AtRow({"ods"})
    /\ count >= MaxRows \/ used >= MaxCells
    /\ NextPart /\ Notes("rows")

---------------------------------------------------------------------------
(* _text_pdf and _text_plain: the text is cut off where the limit is *)

CutRow ==
    /\ AtRow({"pdf", "text"})
    /\ used + Row <= MaxChars
    /\ Shows(Row)
    /\ UNCHANGED <<count, notices>>

\* A page that raises leaves a line that says so.
PageFails ==
    /\ AtRow({"pdf"})
    /\ used < MaxChars
    /\ used' = used + 1 /\ r' = r + 1
    /\ Notes("unavailable")
    /\ UNCHANGED <<pc, g, count, shown>>

PageCut ==
    /\ AtRow({"pdf"})
    /\ \E n \in {Row, 1} : used + n > MaxChars
    /\ used' = MaxChars
    /\ Ends /\ Notes("chars")
    /\ UNCHANGED shown

\* A character cut in two makes the decoding of all fail; as latin-1, only those
\* of one byte come out right.
TextCut ==
    /\ AtRow({"text"})
    /\ used + Row > MaxChars
    /\ shown' = IF used = MaxChars THEN shown ELSE {p \in shown : Rows(p[1])[p[2]] = 1}
    /\ used' = MaxChars
    /\ Ends /\ Notes("chars")

---------------------------------------------------------------------------
(* _text_csv, _text_sqlite, _text_parquet: a few rows of each table *)

SampleRow ==
    /\ AtRow(Samples) /\ r <= MaxSample
    /\ doc.format = "parquet" => g = 1
    /\ Shows(Row)
    /\ UNCHANGED <<count, notices>>

SampleEnds ==
    /\ AtRow(Samples)
    /\ r > MaxSample \/ (doc.format = "parquet" /\ g > 1)
    /\ NextPart
    /\ UNCHANGED notices

SampleFails ==
    /\ AtRow({"sqlite", "parquet"}) /\ r = 1
    /\ doc.format = "parquet" => g = 1
    /\ NextPart /\ Notes("unavailable")

---------------------------------------------------------------------------
(* _text_binary *)

\* Without the file there is no report: the exception goes up to do_GET.
Stats ==
    /\ pc = "stat"
    /\ IF there = Missing
         THEN pc' = "failed" /\ UNCHANGED size
         ELSE pc' = "open" /\ size' = there
    /\ UNCHANGED <<there, held, linked, hex, at, shrunk>>

Opens ==
    /\ pc = "open"
    /\ IF there = Missing
         THEN pc' = "failed" /\ UNCHANGED <<held, linked, shrunk>>
         ELSE /\ pc' = IF size > HexBytes THEN "tail" ELSE "digest"
              /\ held' = there /\ linked' = TRUE /\ shrunk' = (there < size)
    /\ UNCHANGED <<there, size, hex, at>>

\* Variant of ReadsTail: seek(-HexBytes) from the end.
ReadsTailFromEnd ==
    /\ pc = "tail"
    /\ pc' = "digest"
    /\ hex' = Least(HexBytes, held) /\ at' = held - hex'
    /\ UNCHANGED <<there, held, linked, size, shrunk>>

\* seek(size - HexBytes), where the file may have ended since.
ReadsTail ==
    /\ pc = "tail"
    /\ pc' = "digest"
    /\ at' = size - HexBytes
    /\ hex' = IF held < at' THEN 0 ELSE Least(HexBytes, held - at')
    /\ UNCHANGED <<there, held, linked, size, shrunk>>

\* _sha256_or_fingerprint looks for the file twice more.
Digests ==
    /\ pc = "digest"
    /\ pc' = IF there = Missing THEN "failed" ELSE "reported"
    /\ UNCHANGED world

\* The file is written in place, or the path leads to another or to none.
Changed ==
    /\ pc \in {"stat", "open", "tail", "digest"}
    /\ \/ /\ there # Missing
          /\ there' \in Lengths
          /\ held' = IF linked THEN there' ELSE held
          /\ UNCHANGED linked
       \/ /\ there' \in Lengths \union {Missing}
          /\ linked' = FALSE
          /\ UNCHANGED held
    /\ shrunk' = (shrunk \/ (linked /\ held' < size))
    /\ UNCHANGED <<pc, size, hex, at>>

---------------------------------------------------------------------------
Extracts ==
    /\ \/ PartEnds \/ DocumentEnds
       \/ BodyStops \/ BodyRow \/ TableStops \/ BodySkips
       \/ SlidesStop \/ SlideRow
       \/ SheetRow \/ XlsxStops \/ XlsxSheetEnds \/ OdsSheetStops
       \/ CutRow \/ PageFails \/ PageCut \/ TextCut
       \/ SampleRow \/ SampleEnds \/ SampleFails
    /\ UNCHANGED <<doc, world>>

Generic ==
    /\ Stats \/ Opens \/ ReadsTail \/ Digests \/ Changed
    /\ UNCHANGED <<doc, loop>>

Done == pc \in {"extracted", "reported", "failed"} /\ UNCHANGED vars

Next == Extracts \/ Raises \/ Generic \/ Done

Spec == Init /\ [][Next]_vars

---------------------------------------------------------------------------
(* Properties *)

\* The rows that the loops leave out without a word: content they have no case for
\* or do not look at; rows behind a sample; in xlsx the rows behind the first MaxRows
\* when some of these are blank, and the sheets behind one that uses up the cells
\* exactly.
LeftOut(i, j) ==
    \/ Rows(i)[j] = Hidden
    \/ doc.format \in Bodies /\ doc.parts[i].kind = "other"
    \/ doc.format \in Samples /\ j > MaxSample
    \/ doc.format = "parquet" /\ i > 1
    \/ doc.format = "xlsx" /\ j > MaxRows
    \/ doc.format = "xlsx" /\ used >= MaxCells /\ i > g

\* A report that says nothing of a limit has every row of the document but those,
\* and all of it up to its Width: columns behind MaxCols, and characters behind
\* MaxText, are cut off without a word (office_extract.py:165-193, 211-232,
\* 252-270, 378-396; inspectors.py:213-252, 444-447, 466-470, 477-484).
CutsAreAnnounced ==
    pc = "extracted" /\ notices = {} =>
        \A i \in 1..Len(doc.parts) : \A j \in 1..Len(Rows(i)) :
            Rows(i)[j] > 0 =>
                LeftOut(i, j) \/ <<i, j, Least(Rows(i)[j], Width)>> \in shown

\* However large the document, the report is not: the caps are looked at between
\* two parts or rows, and one of these is all they are exceeded by
\* (office_extract.py:167, 217, 231, 387; inspectors.py:240-246).
ReportBounded ==
    /\ doc.format \in Bodies => used <= MaxChars + MaxRows * Widest
    /\ doc.format \in {"xlsx", "ods"} => used <= MaxCells + MaxCols
    /\ doc.format \in {"pdf", "text"} => used <= MaxChars
    /\ doc.format \in Slides => \A p \in shown : p[1] <= MaxSlides

\* The hex dump of a file's end is labelled with the offset it was read at, also
\* when the file grows or is exchanged meanwhile; only one that got shorter than
\* the st_size of the report makes it wrong (inspectors.py:589-591, 611-614).
HexTailLabelled ==
    pc = "reported" /\ hex > 0 /\ ~shrunk => at = size - hex
=============================================================================
