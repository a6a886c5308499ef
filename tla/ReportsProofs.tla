---------------------------- MODULE ReportsProofs ----------------------------
(***************************************************************************)
(* Proofs about Reports for any documents, limits and lengths.  Every step *)
(* of a loop passes a row, passes a part or ends the loop; that is all the *)
(* invariants need to know of the nineteen actions.  The loops keep that   *)
(* every row behind them is in the report or left out by rule, unless a    *)
(* notice says so, and that what they have used stays within the cap and   *)
(* one row, or one table, more.                                            *)
(***************************************************************************)
EXTENDS Reports, TLAPS

\* Left out in a part that is behind the loop.
LeftOutBehind(i, j) ==
    \/ Rows(i)[j] = Hidden
    \/ doc.format \in Bodies /\ doc.parts[i].kind = "other"
    \/ doc.format \in Samples /\ j > MaxSample
    \/ doc.format = "parquet" /\ i > 1
    \/ doc.format = "xlsx" /\ j > MaxRows

Covered ==
    pc = "extract" /\ notices = {} =>
        \A i \in 1..Len(doc.parts) : \A j \in 1..Len(Rows(i)) :
            Rows(i)[j] > 0 /\ (i < g \/ (i = g /\ j < r)) =>
                LeftOutBehind(i, j) \/ <<i, j, Least(Rows(i)[j], Width)>> \in shown

\* A table is begun within the cap and has MaxRows rows at most.
BodyInv ==
    doc.format \in Bodies =>
        /\ used <= MaxChars + MaxRows * Widest
        /\ r > 1 => r <= MaxRows + 1 /\ used <= MaxChars + (r - 1) * Widest

\* A slide is begun within the cap.
SlidesInv ==
    doc.format \in Slides =>
        /\ r > 1 => g <= MaxSlides
        /\ \A p \in shown : p[1] <= MaxSlides

CapInv ==
    /\ doc.format \in {"xlsx", "ods"} => used <= MaxCells + MaxCols
    /\ doc.format \in {"pdf", "text"} => used <= MaxChars

XlsxCount == doc.format = "xlsx" => count < r /\ r <= MaxRows + 1

HexInv ==
    /\ pc = "tail" => size > HexBytes /\ (~shrunk => held >= size)
    /\ pc \in {"extract", "extracted", "stat", "open", "tail"} => hex = 0
    /\ pc \in {"digest", "reported"} /\ hex > 0 /\ ~shrunk => at = size - hex

\* The types, in three parts: the place in the document, the numbers and
\* notices, the file of the generic report.
Placed ==
    /\ doc \in [format : Formats, parts : Seq(Parts)]
    /\ g \in 1..Len(doc.parts) + 1
    /\ r \in Nat \ {0}
    /\ g <= Len(doc.parts) => r <= Len(Rows(g)) + 1
    /\ shown \subseteq Positions

Kinds  == {"chars", "rows", "cells", "slides", "no text", "unavailable"}
Counts == used \in Nat /\ count \in 0..MaxRows /\ notices \subseteq Kinds

Filed ==
    /\ there \in Lengths \union {Missing}
    /\ held \in Lengths
    /\ linked \in BOOLEAN
    /\ size \in Lengths
    /\ hex \in 0..HexBytes
    /\ at \in Lengths
    /\ shrunk \in BOOLEAN

PCs == {"extract", "extracted", "stat", "open", "tail", "digest", "reported", "failed"}

LoopInv ==
    /\ Placed /\ Counts
    /\ Covered /\ CutsAreAnnounced
    /\ BodyInv /\ SlidesInv /\ CapInv /\ XlsxCount

IInv == pc \in PCs /\ Filed /\ HexInv /\ LoopInv

---------------------------------------------------------------------------
\* The parts of the type invariant are all of it.
LEMMA Typed == TypeOK <=> pc \in PCs /\ Placed /\ Counts /\ Filed
  BY DEF TypeOK, PCs, Placed, Counts, Kinds, Filed

\* What is in a sequence.
LEMMA SequenceTyped ==
    ASSUME NEW S, NEW s \in Seq(S)
    PROVE  Len(s) \in Nat /\ \A j \in 1..Len(s) : s[j] \in S
  OBVIOUS

\* Lengths and sizes are numbers.
LEMMA Sizes ==
    ASSUME Placed
    PROVE  /\ Len(doc.parts) \in Nat
           /\ g \in Nat /\ g > 0 /\ g <= Len(doc.parts) + 1
           /\ \A i \in 1..Len(doc.parts) :
                 Len(Rows(i)) \in Nat /\ \A j \in 1..Len(Rows(i)) : Rows(i)[j] \in 0..Hidden
           /\ \A i \in 1..Len(doc.parts) : \A j \in 1..Len(Rows(i)) :
                 \A n \in 0..Widest : <<i, j, n>> \in Positions
<1>1. doc.parts \in Seq(Parts) /\ Len(doc.parts) \in Nat
  BY DEF Placed
<1>2. g \in Nat /\ g > 0 /\ g <= Len(doc.parts) + 1
  BY <1>1 DEF Placed
<1>3. ASSUME NEW i \in 1..Len(doc.parts)
      PROVE  Len(Rows(i)) \in Nat /\ \A j \in 1..Len(Rows(i)) : Rows(i)[j] \in 0..Hidden
  <2>1. doc.parts[i] \in Parts
    BY <1>1, <1>3
  <2>2. doc.parts[i].rows \in Seq(0..Hidden)
    BY <2>1 DEF Parts
  <2> QED
    BY <2>2, SequenceTyped DEF Rows
<1>4. \A i \in 1..Len(doc.parts) : \A j \in 1..Len(Rows(i)) :
         \A n \in 0..Widest : <<i, j, n>> \in Positions
  BY DEF Positions
<1> QED
  BY <1>1, <1>2, <1>3, <1>4

\* The row the loop is at has a size, which is the row's own unless that is hidden.
LEMMA RowSize ==
    ASSUME Placed, g <= Len(doc.parts), r <= Len(Rows(g))
    PROVE  /\ Row \in Nat /\ Row <= Widest
           /\ Rows(g)[r] > 0 => Rows(g)[r] = Hidden \/ (Row > 0 /\ Row = Rows(g)[r])
<1>1. g \in 1..Len(doc.parts) /\ r \in 1..Len(Rows(g))
  BY Sizes DEF Placed
<1>2. Rows(g)[r] \in 0..Hidden
  BY <1>1, Sizes
<1> QED
  BY <1>2, BoundsAssumption DEF Row, Hidden

\* What is shown of it is an amount.
LEMMA Shown ==
    ASSUME Placed, g <= Len(doc.parts), r <= Len(Rows(g))
    PROVE  Least(Row, Width) \in 0..Widest
<1>1. Row \in Nat /\ Row <= Widest
  BY RowSize
<1>2. Width \in Nat
  BY BoundsAssumption DEF Width
<1> QED
  BY <1>1, <1>2, BoundsAssumption DEF Least

\* n rows of the largest size have no more than MaxRows of them.
LEMMA RowsBounded ==
    ASSUME NEW n \in Nat, n <= MaxRows
    PROVE  /\ n * Widest \in Nat /\ MaxRows * Widest \in Nat
           /\ n * Widest <= MaxRows * Widest
           /\ (n + 1) * Widest = n * Widest + Widest
<1>1. MaxRows \in Nat /\ Widest \in Nat
  BY BoundsAssumption
<1>2. PICK d \in Nat : MaxRows = n + d
  BY <1>1
<1>3. MaxRows * Widest = n * Widest + d * Widest /\ d * Widest \in Nat /\ n * Widest \in Nat
  BY <1>1, <1>2
<1> QED
  BY <1>1, <1>3

---------------------------------------------------------------------------
(* Every step of a loop passes a row, passes a part or ends it. *)

PassesRow ==
    /\ pc = "extract" /\ pc' = pc /\ doc' = doc
    /\ g <= Len(doc.parts) /\ r <= Len(Rows(g))
    /\ g' = g /\ r' = r + 1
    /\ shown \subseteq shown' /\ shown' \subseteq shown \union {<<g, r, Least(Row, Width)>>}
    /\ notices \subseteq notices'
    /\ notices' = {} => Row = 0 \/ <<g, r, Least(Row, Width)>> \in shown'

\* What it adds to the counters.
AddsRow ==
    /\ used' \in Nat /\ count' \in 0..MaxRows /\ notices' \subseteq Kinds
    /\ doc.format \in Bodies => r <= MaxRows /\ used' = used + Row /\ (r = 1 => used <= MaxChars)
    /\ doc.format \in Slides => (r = 1 => g <= MaxSlides)
    /\ doc.format \in {"xlsx", "ods"} => used' <= MaxCells + MaxCols
    /\ doc.format \in {"pdf", "text"} => used' <= MaxChars
    /\ doc.format = "xlsx" => count' <= count + 1 /\ r <= MaxRows

PassesPart ==
    /\ pc = "extract" /\ pc' = pc /\ doc' = doc
    /\ g <= Len(doc.parts)
    /\ g' = g + 1 /\ r' = 1 /\ count' = 0
    /\ shown' = shown /\ used' = used
    /\ notices \subseteq notices' /\ notices' \subseteq Kinds
    /\ notices' = {} => \A j \in 1..Len(Rows(g)) : j >= r => LeftOutBehind(g, j)

EndsLoop ==
    /\ pc = "extract" /\ pc' = "extracted" /\ doc' = doc
    /\ g' = g /\ r' = r /\ count' = count
    /\ shown' \subseteq shown
    /\ used' = used \/ (doc.format \in {"pdf", "text"} /\ used' = MaxChars)
    /\ notices \subseteq notices' /\ notices' \subseteq Kinds
    /\ notices' = {} =>
          /\ shown' = shown /\ used' = used
          /\ \/ g > Len(doc.parts)
             \/ /\ doc.format = "xlsx" /\ used >= MaxCells
                /\ \A j \in 1..Len(Rows(g)) : j >= r => LeftOutBehind(g, j)

RowActions  == BodyRow \/ SlideRow \/ SheetRow \/ CutRow \/ PageFails \/ SampleRow
PartActions == PartEnds \/ TableStops \/ BodySkips \/ OdsSheetStops \/ SampleEnds \/ SampleFails
EndActions  == DocumentEnds \/ BodyStops \/ SlidesStop \/ XlsxStops \/ PageCut \/ TextCut

\* The six ways to pass a row.
LEMMA RowSteps ==
    ASSUME Placed, RowActions, doc' = doc
    PROVE  PassesRow
<1> USE DEF In, AtRow, Shows, Notes
<1>1. CASE BodyRow
  BY <1>1 DEF BodyRow, PassesRow
<1>2. CASE SlideRow
  BY <1>2 DEF SlideRow, PassesRow
<1>3. CASE SheetRow
  BY <1>3 DEF SheetRow, PassesRow
<1>4. CASE CutRow
  BY <1>4 DEF CutRow, PassesRow
<1>5. CASE PageFails
  BY <1>5 DEF PageFails, PassesRow
<1>6. CASE SampleRow
  BY <1>6 DEF SampleRow, PassesRow
<1> QED
  BY <1>1, <1>2, <1>3, <1>4, <1>5, <1>6 DEF RowActions

\* What each of them adds.
LEMMA RowAdds ==
    ASSUME Placed, Counts, XlsxCount, RowActions, doc' = doc
    PROVE  AddsRow
<1>a. g <= Len(doc.parts) /\ r <= Len(Rows(g)) /\ Row \in Nat /\ Row <= Widest
  BY RowSteps, RowSize DEF PassesRow
<1>b. used \in Nat /\ count \in Nat /\ count <= MaxRows /\ r \in Nat /\ r > 0 /\ notices \subseteq Kinds
  BY BoundsAssumption DEF Counts, Placed
<1>c. /\ MaxRows \in Nat /\ MaxRows > 0 /\ MaxCols \in Nat /\ MaxCols > 0
      /\ MaxChars \in Nat /\ MaxCells \in Nat /\ MaxSlides \in Nat
  BY BoundsAssumption
<1>d. \A n \in Cells : n \in Nat /\ n <= MaxCols
  BY <1>a, <1>c DEF Cells, Least
<1> USE <1>a, <1>b, <1>c, <1>d DEF In, AtRow, Shows, Notes, AddsRow, Bodies, Slides, Samples
<1>1. CASE BodyRow
  BY <1>1 DEF BodyRow, Goes
<1>2. CASE SlideRow
  BY <1>2 DEF SlideRow, Goes
<1>3. CASE SheetRow
  <2>1. PICK n \in Cells : used' = used + n
    BY <1>3 DEF SheetRow
  <2>3. used < MaxCells /\ doc.format \in {"xlsx", "ods"} /\ notices' = notices
    BY <1>3 DEF SheetRow
  <2>2. count' \in 0..MaxRows /\ count' <= count + 1 /\ (doc.format = "xlsx" => r <= MaxRows)
    BY <1>3, SMTT(30) DEF SheetRow, Counted, XlsxCount
  <2> QED
    BY <2>1, <2>2, <2>3
<1>4. CASE CutRow
  BY <1>4 DEF CutRow
<1>5. CASE PageFails
  <2>1. doc.format = "pdf" /\ used < MaxChars /\ used' = used + 1 /\ count' = count
    BY <1>5 DEF PageFails
  <2>2. notices' \subseteq Kinds
    BY <1>5 DEF PageFails, Kinds
  <2> QED
    BY <2>1, <2>2
<1>6. CASE SampleRow
  BY <1>6 DEF SampleRow
<1> QED
  BY <1>1, <1>2, <1>3, <1>4, <1>5, <1>6 DEF RowActions

\* The six ways to pass a part.
LEMMA PartSteps ==
    ASSUME Placed, Counts, PartActions, doc' = doc
    PROVE  PassesPart
<1>a. g <= Len(doc.parts) => g \in 1..Len(doc.parts) /\ Len(Rows(g)) \in Nat
  BY Sizes
<1>b. r \in Nat /\ MaxSample \in Nat
  BY BoundsAssumption DEF Placed
<1>c. notices \subseteq Kinds
  BY DEF Counts
<1> USE DEF In, AtRow, NextPart, Notes
<1>1. CASE PartEnds
  <2>1. r > Len(Rows(g)) /\ Len(Rows(g)) \in Nat
    BY <1>1, <1>a DEF PartEnds
  <2>2. \A j \in 1..Len(Rows(g)) : ~(j >= r)
    BY <1>b, <2>1
  <2> QED
    BY <1>1, <1>c, <2>2 DEF PartEnds, PassesPart
<1>2. CASE TableStops
  BY <1>2, <1>c DEF TableStops, PassesPart, Kinds
<1>3. CASE BodySkips
  BY <1>3, <1>c DEF BodySkips, PassesPart, LeftOutBehind
<1>4. CASE OdsSheetStops
  BY <1>4, <1>c DEF OdsSheetStops, PassesPart, Kinds
<1>5. CASE SampleEnds
  <2>1. /\ doc.format \in Samples /\ Len(Rows(g)) \in Nat
        /\ r > MaxSample \/ (doc.format = "parquet" /\ g > 1)
    BY <1>5, <1>a DEF SampleEnds
  <2>2. \A j \in 1..Len(Rows(g)) : j >= r => LeftOutBehind(g, j)
    BY <1>b, <2>1 DEF LeftOutBehind
  <2> QED
    BY <1>5, <1>c, <2>2 DEF SampleEnds, PassesPart
<1>6. CASE SampleFails
  BY <1>6, <1>c DEF SampleFails, PassesPart, Kinds
<1> QED
  BY <1>1, <1>2, <1>3, <1>4, <1>5, <1>6 DEF PartActions

\* The six ways to end the loop.
LEMMA EndSteps ==
    ASSUME Placed, Counts, EndActions, doc' = doc
    PROVE  EndsLoop
<1> USE Sizes DEF In, AtRow, Ends, Notes, Kinds, Counts
<1>1. CASE DocumentEnds
  BY <1>1 DEF DocumentEnds, EndsLoop
<1>2. CASE BodyStops
  BY <1>2 DEF BodyStops, EndsLoop
<1>3. CASE SlidesStop
  BY <1>3 DEF SlidesStop, EndsLoop
<1>4. CASE XlsxStops
  BY <1>4 DEF XlsxStops, EndsLoop
<1>5. CASE PageCut
  BY <1>5 DEF PageCut, EndsLoop
<1>6. CASE TextCut
  BY <1>6 DEF TextCut, EndsLoop
<1> QED
  BY <1>1, <1>2, <1>3, <1>4, <1>5, <1>6 DEF EndActions

\* A sheet of xlsx ends, and the loop with it when the cells are used up.
LEMMA SheetSteps ==
    ASSUME Placed, Counts, XlsxSheetEnds, doc' = doc
    PROVE  PassesPart \/ EndsLoop
<1> USE BoundsAssumption, Sizes DEF In, AtRow, NextPart, Ends, Placed
<1>1. \A j \in 1..Len(Rows(g)) : j >= r => LeftOutBehind(g, j)
  BY DEF XlsxSheetEnds, LeftOutBehind, Least
<1>2. notices \subseteq notices' /\ notices' \subseteq Kinds
  BY DEF XlsxSheetEnds, Kinds, Counts
<1>3. CASE used >= MaxCells
  BY <1>1, <1>2, <1>3 DEF XlsxSheetEnds, EndsLoop
<1>4. CASE ~(used >= MaxCells)
  BY <1>1, <1>2, <1>4 DEF XlsxSheetEnds, PassesPart
<1> QED
  BY <1>3, <1>4

LEMMA LoopSteps ==
    ASSUME Placed, Counts, XlsxCount, Extracts
    PROVE  (PassesRow /\ AddsRow) \/ PassesPart \/ EndsLoop
<1>1. doc' = doc /\ (RowActions \/ PartActions \/ EndActions \/ XlsxSheetEnds)
  BY DEF Extracts, RowActions, PartActions, EndActions
<1> QED
  BY <1>1, RowSteps, RowAdds, PartSteps, EndSteps, SheetSteps

---------------------------------------------------------------------------
(* What the three kinds of step preserve *)

\* The document is the same, and all that is read off it.
LEMMA SameDocument ==
    ASSUME doc' = doc
    PROVE  /\ Positions' = Positions
           /\ \A i : Rows(i)' = Rows(i)
           /\ \A i, j : LeftOutBehind(i, j)' = LeftOutBehind(i, j)
           /\ Width' = Width
  BY DEF Positions, Rows, LeftOutBehind, Width

\* The loop keeps its place in the document.
LEMMA PlacedStep ==
    ASSUME Placed, PassesRow \/ PassesPart \/ EndsLoop
    PROVE  Placed'
<1>1. doc' = doc
  BY DEF PassesRow, PassesPart, EndsLoop
<1>2. Positions' = Positions /\ \A i : Rows(i)' = Rows(i)
  BY <1>1, SameDocument
<1>3. /\ doc' \in [format : Formats, parts : Seq(Parts)]
      /\ g' \in 1..Len(doc'.parts) + 1 /\ r' \in Nat \ {0}
  BY <1>1, Sizes DEF PassesRow, PassesPart, EndsLoop, Placed
<1>4. g' <= Len(doc'.parts) => r' <= Len(Rows(g')) + 1
  <2>1. CASE PassesRow
    BY <1>1, <2>1, Sizes DEF PassesRow, Placed
  <2>2. CASE PassesPart
    <3>1. ASSUME g' <= Len(doc'.parts) PROVE Len(Rows(g')) \in Nat
      BY <1>1, <1>3, <3>1, Sizes
    <3> QED
      BY <2>2, <3>1 DEF PassesPart
  <2>3. CASE EndsLoop
    BY <1>1, <2>3 DEF EndsLoop, Placed
  <2> QED
    BY <2>1, <2>2, <2>3
<1>5. shown' \subseteq Positions
  <2>1. CASE PassesRow
    <3>1. <<g, r, Least(Row, Width)>> \in Positions
      BY <2>1, Sizes, Shown DEF PassesRow, Placed
    <3> QED
      BY <2>1, <3>1 DEF PassesRow, Placed
  <2>2. CASE PassesPart \/ EndsLoop
    BY <2>2 DEF PassesPart, EndsLoop, Placed
  <2> QED
    BY <2>1, <2>2
<1> QED
  BY <1>2, <1>3, <1>4, <1>5 DEF Placed, Rows

LEMMA CountsStep ==
    ASSUME Counts, (PassesRow /\ AddsRow) \/ PassesPart \/ EndsLoop
    PROVE  Counts'
<1>1. 0 \in 0..MaxRows /\ MaxChars \in Nat
  BY BoundsAssumption
<1>2. CASE PassesRow /\ AddsRow
  BY <1>2 DEF AddsRow, Counts
<1>3. CASE PassesPart
  BY <1>1, <1>3 DEF PassesPart, Counts
<1>4. CASE EndsLoop
  BY <1>1, <1>4 DEF EndsLoop, Counts
<1> QED
  BY <1>2, <1>3, <1>4

\* What is behind the loop is in the report or left out.
LEMMA CoveredStep ==
    ASSUME Placed, Covered, PassesRow \/ PassesPart \/ EndsLoop
    PROVE  Covered'
<1>1. doc' = doc
  BY DEF PassesRow, PassesPart, EndsLoop
<1>2. /\ \A i : Rows(i)' = Rows(i) /\ Width' = Width
      /\ \A i, j : LeftOutBehind(i, j)' = LeftOutBehind(i, j)
  BY <1>1, SameDocument
<1>3. CASE EndsLoop
  BY <1>3 DEF EndsLoop, Covered
<1>4. ASSUME PassesRow \/ PassesPart, notices' = {},
             NEW i \in 1..Len(doc.parts), NEW j \in 1..Len(Rows(i)), Rows(i)[j] > 0,
             i < g' \/ (i = g' /\ j < r')
      PROVE  LeftOutBehind(i, j) \/ <<i, j, Least(Rows(i)[j], Width)>> \in shown'
  <2>1. pc = "extract" /\ notices = {} /\ shown \subseteq shown'
    BY <1>4 DEF PassesRow, PassesPart
  <2>2. i \in Nat /\ j \in Nat /\ j > 0 /\ r \in Nat /\ g \in Nat
    BY <1>4, Sizes DEF Placed
  <2>3. i < g \/ (i = g /\ j < r) => LeftOutBehind(i, j) \/ <<i, j, Least(Rows(i)[j], Width)>> \in shown
    BY <1>4, <2>1 DEF Covered
  <2>4. CASE PassesRow
    <3>1. i < g \/ (i = g /\ j < r) \/ (i = g /\ j = r)
      BY <1>4, <2>2, <2>4 DEF PassesRow
    <3>2. i = g /\ j = r => LeftOutBehind(i, j) \/ <<i, j, Least(Rows(i)[j], Width)>> \in shown'
      BY <1>4, <2>4, RowSize DEF PassesRow, LeftOutBehind
    <3> QED
      BY <2>1, <2>3, <3>1, <3>2
  <2>5. CASE PassesPart
    <3>1. i < g \/ (i = g /\ j < r) \/ (i = g /\ j >= r)
      BY <1>4, <2>2, <2>5 DEF PassesPart
    <3>2. i = g /\ j >= r => LeftOutBehind(i, j)
      BY <1>4, <2>5 DEF PassesPart
    <3> QED
      BY <2>1, <2>3, <3>1, <3>2
  <2> QED
    BY <1>4, <2>4, <2>5
<1> QED
  BY <1>1, <1>2, <1>3, <1>4 DEF Covered, Rows

\* At the end of the loop that is everything.
LEMMA AnnouncedStep ==
    ASSUME Placed, Covered, PassesRow \/ PassesPart \/ EndsLoop
    PROVE  CutsAreAnnounced'
<1>1. doc' = doc /\ (PassesRow \/ PassesPart => pc' = "extract")
  BY DEF PassesRow, PassesPart, EndsLoop
<1>2. Width' = Width /\ \A i : Rows(i)' = Rows(i)
  BY <1>1, SameDocument
<1>3. ASSUME EndsLoop, notices' = {},
             NEW i \in 1..Len(doc.parts), NEW j \in 1..Len(Rows(i)), Rows(i)[j] > 0
      PROVE  LeftOut(i, j)' \/ <<i, j, Least(Rows(i)[j], Width)>> \in shown'
  <2>1. /\ pc = "extract" /\ notices = {} /\ shown' = shown /\ used' = used /\ g' = g
        /\ \/ g > Len(doc.parts)
           \/ /\ doc.format = "xlsx" /\ used >= MaxCells
              /\ \A k \in 1..Len(Rows(g)) : k >= r => LeftOutBehind(g, k)
    BY <1>3 DEF EndsLoop
  <2>2. i \in Nat /\ j \in Nat /\ r \in Nat /\ g \in Nat /\ i <= Len(doc.parts) /\ Len(doc.parts) \in Nat
    BY <1>3, Sizes DEF Placed
  <2>3. LeftOutBehind(i, j) => LeftOut(i, j)'
    BY <1>1, <1>2 DEF LeftOutBehind, LeftOut
  <2>4. i < g \/ (i = g /\ j < r) => LeftOutBehind(i, j) \/ <<i, j, Least(Rows(i)[j], Width)>> \in shown'
    BY <1>3, <2>1 DEF Covered
  <2>5. i > g => LeftOut(i, j)'
    BY <1>1, <2>1, <2>2 DEF LeftOut
  <2>6. i = g /\ j >= r => LeftOutBehind(i, j)
    BY <1>3, <2>1, <2>2
  <2> QED
    BY <2>2, <2>3, <2>4, <2>5, <2>6
<1> QED
  BY <1>1, <1>2, <1>3 DEF CutsAreAnnounced, Rows

LEMMA BodyStep ==
    ASSUME Placed, Counts, BodyInv, (PassesRow /\ AddsRow) \/ PassesPart \/ EndsLoop
    PROVE  BodyInv'
<1>1. doc' = doc
  BY DEF PassesRow, PassesPart, EndsLoop
<1> SUFFICES ASSUME doc.format \in Bodies
             PROVE  /\ used' <= MaxChars + MaxRows * Widest
                    /\ r' > 1 => r' <= MaxRows + 1 /\ used' <= MaxChars + (r' - 1) * Widest
  BY <1>1 DEF BodyInv
<1>2. used \in Nat /\ r \in Nat /\ r > 0 /\ MaxRows \in Nat /\ MaxChars \in Nat /\ Widest \in Nat
  BY BoundsAssumption DEF Placed, Counts
<1>3. CASE PassesRow /\ AddsRow
  <2>1. r <= MaxRows /\ used' = used + Row /\ r' = r + 1 /\ Row \in Nat /\ Row <= Widest
    BY <1>3, RowSize DEF PassesRow, AddsRow
  <2>2. PICK n \in Nat : r = n + 1
    BY <1>2
  <2>3. used <= MaxChars + n * Widest
    <3>1. CASE r = 1
      BY <1>2, <1>3, <2>2, <3>1 DEF AddsRow
    <3>2. CASE r > 1
      BY <2>2, <3>2 DEF BodyInv
    <3> QED
      BY <1>2, <3>1, <3>2
  <2>4. n <= MaxRows /\ n + 1 \in Nat /\ n + 1 <= MaxRows
    BY <1>2, <2>1, <2>2
  <2>5. /\ n * Widest \in Nat /\ (n + 1) * Widest = n * Widest + Widest
        /\ (n + 1) * Widest <= MaxRows * Widest /\ MaxRows * Widest \in Nat
    BY <2>2, <2>4, RowsBounded
  <2>6. used' <= MaxChars + (n + 1) * Widest
    BY <1>2, <2>1, <2>3, <2>5
  <2>7. r' - 1 = n + 1 /\ r' <= MaxRows + 1
    BY <1>2, <2>1, <2>2
  <2>8. used' \in Nat /\ (n + 1) * Widest \in Nat
    BY <1>2, <2>1, <2>5
  <2>9. used' <= MaxChars + MaxRows * Widest
    BY <1>2, <2>5, <2>6, <2>8
  <2> QED
    BY <2>6, <2>7, <2>9
<1>4. CASE PassesPart
  BY <1>4 DEF PassesPart, BodyInv
<1>5. CASE EndsLoop
  BY <1>5 DEF EndsLoop, BodyInv, Bodies
<1> QED
  BY <1>3, <1>4, <1>5

LEMMA SlidesStep ==
    ASSUME Placed, SlidesInv, (PassesRow /\ AddsRow) \/ PassesPart \/ EndsLoop
    PROVE  SlidesInv'
<1>1. doc' = doc
  BY DEF PassesRow, PassesPart, EndsLoop
<1>2. r \in Nat /\ r > 0
  BY DEF Placed
<1>3. CASE PassesRow /\ AddsRow
  <2>1. doc.format \in Slides => g <= MaxSlides
    BY <1>2, <1>3 DEF AddsRow, SlidesInv
  <2> QED
    BY <1>1, <1>3, <2>1 DEF PassesRow, SlidesInv
<1>4. CASE PassesPart
  BY <1>1, <1>4 DEF PassesPart, SlidesInv
<1>5. CASE EndsLoop
  BY <1>1, <1>5 DEF EndsLoop, SlidesInv
<1> QED
  BY <1>3, <1>4, <1>5

LEMMA CapStep ==
    ASSUME Counts, CapInv, (PassesRow /\ AddsRow) \/ PassesPart \/ EndsLoop
    PROVE  CapInv'
<1>1. doc' = doc
  BY DEF PassesRow, PassesPart, EndsLoop
<1>2. CASE PassesRow /\ AddsRow
  BY <1>1, <1>2 DEF AddsRow, CapInv
<1>3. CASE PassesPart
  BY <1>1, <1>3 DEF PassesPart, CapInv
<1>4. CASE EndsLoop
  <2>1. MaxChars \in Nat
    BY BoundsAssumption
  <2> QED
    BY <1>1, <1>4, <2>1 DEF EndsLoop, CapInv
<1> QED
  BY <1>2, <1>3, <1>4

LEMMA CountStep ==
    ASSUME Placed, Counts, XlsxCount, (PassesRow /\ AddsRow) \/ PassesPart \/ EndsLoop
    PROVE  XlsxCount'
<1>1. doc' = doc
  BY DEF PassesRow, PassesPart, EndsLoop
<1>2. r \in Nat /\ r > 0 /\ count \in Nat /\ MaxRows \in Nat /\ MaxRows > 0
  BY BoundsAssumption DEF Placed, Counts
<1>3. CASE PassesRow /\ AddsRow
  <2>1. count' \in Nat
    BY <1>2, <1>3 DEF AddsRow
  <2> QED
    BY <1>1, <1>2, <1>3, <2>1 DEF PassesRow, AddsRow, XlsxCount
<1>4. CASE PassesPart
  BY <1>1, <1>2, <1>4 DEF PassesPart, XlsxCount
<1>5. CASE EndsLoop
  BY <1>1, <1>5 DEF EndsLoop, XlsxCount
<1> QED
  BY <1>3, <1>4, <1>5

\* A step of a loop keeps the invariant.
LEMMA ExtractStep ==
    ASSUME IInv, Extracts
    PROVE  IInv'
<1>1. (PassesRow /\ AddsRow) \/ PassesPart \/ EndsLoop
  BY LoopSteps DEF IInv, LoopInv
<1>2. LoopInv'
  BY <1>1, PlacedStep, CountsStep, CoveredStep, AnnouncedStep, BodyStep, SlidesStep, CapStep, CountStep
  DEF IInv, LoopInv
<1>3. pc' \in {"extract", "extracted"} /\ pc = "extract"
  BY <1>1 DEF PassesRow, PassesPart, EndsLoop
<1>4. UNCHANGED <<there, held, linked, size, hex, at, shrunk>>
  BY DEF Extracts, world
<1>5. Filed' /\ HexInv'
  BY <1>3, <1>4 DEF IInv, Filed, HexInv
<1> QED
  BY <1>2, <1>3, <1>5 DEF IInv, PCs

---------------------------------------------------------------------------
(* The generic report *)

\* Nothing is in a report that is begun.
Begun ==
    /\ doc \in [format : Formats, parts : Seq(Parts)]
    /\ pc # "extracted"
    /\ g = 1 /\ r = 1 /\ used = 0 /\ count = 0 /\ shown = {} /\ notices = {}

LEMMA Fresh == Begun => LoopInv
<1> SUFFICES ASSUME Begun PROVE LoopInv
  OBVIOUS
<1> USE DEF Begun
<1>1. Len(doc.parts) \in Nat
  OBVIOUS
<1>2. MaxRows \in Nat /\ MaxRows > 0 /\ MaxChars \in Nat /\ MaxCells \in Nat /\ MaxCols \in Nat
  BY BoundsAssumption
<1>3. \A i \in 1..Len(doc.parts) : Len(Rows(i)) \in Nat
  <2>1. ASSUME NEW i \in 1..Len(doc.parts) PROVE Len(Rows(i)) \in Nat
    <3>1. doc.parts[i] \in Parts
      BY <1>1, <2>1
    <3>2. doc.parts[i].rows \in Seq(0..Hidden)
      BY <3>1 DEF Parts
    <3> QED
      BY <3>2 DEF Rows
  <2> QED
    BY <2>1
<1>4. Placed
  BY <1>1, <1>3 DEF Placed
<1>5. Counts
  BY <1>2 DEF Counts
<1>6. Covered /\ CutsAreAnnounced
  BY <1>1, <1>3 DEF Covered, CutsAreAnnounced
<1>7. MaxRows * Widest \in Nat
  BY <1>2, RowsBounded
<1>8. BodyInv /\ SlidesInv /\ CapInv /\ XlsxCount
  BY <1>2, <1>7 DEF BodyInv, SlidesInv, CapInv, XlsxCount
<1> QED
  BY <1>4, <1>5, <1>6, <1>8 DEF LoopInv

LEMMA BareIsTyped == Bare \in [format : Formats, parts : Seq(Parts)]
  BY DEF Bare, Formats

LEMMA RaisesStep ==
    ASSUME IInv, Raises
    PROVE  IInv'
<1>1. Begun'
  BY BareIsTyped DEF Raises, Begun
<1>2. pc' = "stat" /\ g' = 1 /\ r' = 1 /\ used' = 0 /\ count' = 0 /\ shown' = {} /\ notices' = {}
  BY DEF Raises
<1>3. LoopInv'
  BY <1>1, Fresh, PTL
<1>4. UNCHANGED <<there, held, linked, size, hex, at, shrunk>>
  BY DEF Raises, world
<1>5. Filed' /\ HexInv'
  BY <1>2, <1>4 DEF IInv, Filed, HexInv, Raises
<1> QED
  BY <1>2, <1>3, <1>5 DEF IInv, PCs

\* Nothing of the loop is touched by the generic report.
LEMMA LoopAlone ==
    ASSUME LoopInv, UNCHANGED <<doc, loop>>, pc' = pc \/ pc' \notin {"extract", "extracted"}
    PROVE  LoopInv'
<1>1. /\ doc' = doc /\ g' = g /\ r' = r /\ used' = used /\ count' = count
      /\ shown' = shown /\ notices' = notices
  BY DEF loop
<1>2. Positions' = Positions /\ (\A i : Rows(i)' = Rows(i)) /\ (\A i, j : LeftOutBehind(i, j)' = LeftOutBehind(i, j)) /\ Width' = Width
  BY <1>1, SameDocument
<1>3. Placed' /\ Counts'
  BY <1>1, <1>2 DEF LoopInv, Placed, Counts, Rows
<1>4. Covered'
  BY <1>1, <1>2 DEF LoopInv, Covered, Rows
<1>5. CutsAreAnnounced'
  BY <1>1, <1>2 DEF LoopInv, CutsAreAnnounced, LeftOut, Rows
<1>6. BodyInv' /\ SlidesInv' /\ CapInv' /\ XlsxCount'
  BY <1>1 DEF LoopInv, BodyInv, SlidesInv, CapInv, XlsxCount
<1> QED
  BY <1>3, <1>4, <1>5, <1>6 DEF LoopInv

\* The hex dump has what is there, at the offset that its length and the size say.
LEMMA TailRead ==
    ASSUME IInv, ReadsTail
    PROVE  Filed' /\ HexInv'
<1>1. /\ HexBytes \in Nat /\ held \in Nat /\ size \in Nat /\ size <= MaxLen /\ MaxLen \in Nat
      /\ size > HexBytes /\ (~shrunk => held >= size)
  BY BoundsAssumption DEF IInv, Filed, Lengths, HexInv, ReadsTail
<1>2. /\ at' = size - HexBytes /\ size' = size /\ held' = held /\ shrunk' = shrunk
      /\ there' = there /\ linked' = linked /\ pc' = "digest"
      /\ hex' = IF held < at' THEN 0 ELSE Least(HexBytes, held - at')
  BY DEF ReadsTail
<1>3. at' \in Nat /\ at' <= MaxLen
  BY <1>1, <1>2
<1>4. hex' \in Nat /\ hex' <= HexBytes
  BY <1>1, <1>2, <1>3 DEF Least
<1>5. ASSUME ~shrunk PROVE at' = size' - hex'
  BY <1>1, <1>2, <1>5 DEF Least
<1>6. Filed'
  BY <1>2, <1>3, <1>4, BoundsAssumption DEF IInv, Filed, Lengths
<1>7. HexInv'
  BY <1>2, <1>5 DEF HexInv
<1> QED
  BY <1>6, <1>7

LEMMA FileStep ==
    ASSUME IInv, Stats \/ Opens \/ Digests \/ Changed
    PROVE  Filed' /\ HexInv'
<1>1. CASE Stats
  <2>1. /\ held' = held /\ linked' = linked /\ hex' = hex /\ at' = at /\ shrunk' = shrunk /\ there' = there
        /\ (size' = size \/ (there # Missing /\ size' = there))
        /\ pc = "stat" /\ pc' \in {"open", "failed"}
    BY <1>1 DEF Stats
  <2> QED
    BY <2>1 DEF IInv, Filed, HexInv
<1>2. CASE Opens
  <2>1. /\ size' = size /\ hex' = hex /\ at' = at /\ there' = there
        /\ pc = "open" /\ pc' \in {"tail", "digest", "failed"} /\ hex = 0
    BY <1>2 DEF Opens, IInv, HexInv
  <2>2. CASE there = Missing
    BY <1>2, <2>1, <2>2 DEF Opens, IInv, Filed, HexInv
  <2>3. CASE there # Missing
    <3>1. held' = there /\ linked' = TRUE /\ there \in Lengths /\ (shrunk' = (there < size))
      BY <1>2, <2>3 DEF Opens, IInv, Filed
    <3>2. pc' = "tail" => size > HexBytes
      BY <1>2, <2>3 DEF Opens
    <3>3. there \in Nat /\ size \in Nat
      BY <3>1, BoundsAssumption DEF IInv, Filed, Lengths
    <3>4. ASSUME ~shrunk' PROVE there >= size
      <4>1. ~(there < size)
        BY <3>1, <3>4
      <4> QED
        BY <3>3, <4>1
    <3>5. Filed'
      BY <2>1, <3>1 DEF IInv, Filed
    <3>6. HexInv'
      BY <2>1, <3>1, <3>2, <3>4 DEF HexInv
    <3> QED
      BY <3>5, <3>6
  <2> QED
    BY <2>2, <2>3
<1>3. CASE Digests
  <2>1. /\ there' = there /\ held' = held /\ linked' = linked /\ size' = size
        /\ hex' = hex /\ at' = at /\ shrunk' = shrunk
        /\ pc = "digest" /\ pc' \in {"failed", "reported"}
    BY <1>3 DEF Digests, world
  <2> QED
    BY <2>1 DEF IInv, Filed, HexInv
<1>4. CASE Changed
  <2>1. pc' = pc /\ size' = size /\ hex' = hex /\ at' = at
    BY <1>4 DEF Changed
  <2>2. there' \in Lengths \union {Missing} /\ held' \in Lengths /\ linked' \in BOOLEAN
    BY <1>4 DEF Changed, IInv, Filed
  <2>3. shrunk' \in BOOLEAN /\ (~shrunk' => ~shrunk /\ ~(linked /\ held' < size))
    BY <1>4 DEF Changed
  <2>5. ~linked => held' = held
    BY <1>4 DEF Changed
  <2>6. held \in Nat /\ held' \in Nat /\ size \in Nat
    BY <2>2, BoundsAssumption DEF IInv, Filed, Lengths
  <2>7. ASSUME pc = "tail", ~shrunk' PROVE held' >= size
    <3>1. ~shrunk /\ ~(linked /\ held' < size) /\ held >= size
      BY <2>3, <2>7 DEF IInv, HexInv
    <3>2. CASE linked
      <4>1. ~(held' < size)
        BY <3>1, <3>2
      <4> QED
        BY <2>6, <4>1
    <3>3. CASE ~linked
      BY <2>5, <3>1, <3>3
    <3> QED
      BY <3>2, <3>3
  <2>4. Filed'
    BY <2>1, <2>2, <2>3 DEF IInv, Filed
  <2> QED
    BY <2>1, <2>3, <2>4, <2>7 DEF IInv, HexInv
<1> QED
  BY <1>1, <1>2, <1>3, <1>4

LEMMA GenericStep ==
    ASSUME IInv, Generic
    PROVE  IInv'
<1>1. UNCHANGED <<doc, loop>> /\ (ReadsTail \/ Stats \/ Opens \/ Digests \/ Changed)
  BY DEF Generic
<1>2. Filed' /\ HexInv'
  BY <1>1, TailRead, FileStep
<1>3. pc' \in PCs /\ (pc' = pc \/ pc' \notin {"extract", "extracted"})
  BY <1>1 DEF ReadsTail, Stats, Opens, Digests, Changed, IInv, PCs
<1>4. LoopInv'
  BY <1>1, <1>3, LoopAlone DEF IInv
<1> QED
  BY <1>2, <1>3, <1>4 DEF IInv

---------------------------------------------------------------------------
\* At the beginning nothing is in the report.
LEMMA Initial == Init => IInv
<1> SUFFICES ASSUME Init PROVE IInv
  OBVIOUS
<1>1. Begun
  BY DocumentsAssumption DEF Init, Begun
<1>2. pc \in {"extract", "stat"}
  BY DEF Init
<1>3. 0 \in 0..HexBytes /\ 0 \in 0..MaxLen
  BY BoundsAssumption
<1>4. Filed
  BY <1>3 DEF Init, Filed, Lengths
<1>5. HexInv /\ pc \in PCs
  BY <1>2 DEF Init, HexInv, PCs
<1> QED
  BY <1>1, <1>4, <1>5, Fresh DEF IInv

LEMMA Inductive == IInv /\ [Next]_vars => IInv'
<1> SUFFICES ASSUME IInv, [Next]_vars PROVE IInv'
  OBVIOUS
<1>1. CASE Extracts
  BY <1>1, ExtractStep
<1>2. CASE Raises
  BY <1>2, RaisesStep
<1>3. CASE Generic
  BY <1>3, GenericStep
<1>4. CASE UNCHANGED vars
  <2>1. UNCHANGED <<doc, loop>> /\ pc' = pc /\ UNCHANGED <<there, held, linked, size, hex, at, shrunk>>
    BY <1>4 DEF vars, world
  <2>2. LoopInv'
    BY <2>1, LoopAlone DEF IInv
  <2> QED
    BY <2>1, <2>2 DEF IInv, Filed, HexInv
<1> QED
  BY <1>1, <1>2, <1>3, <1>4 DEF Next, Done

LEMMA Invariance == Spec => []IInv
<1> QED
  BY Initial, Inductive, PTL DEF Spec

---------------------------------------------------------------------------
\* The loops stay within the document, and everything keeps its type (TypeOK).
THEOREM TypeCorrect == Spec => []TypeOK
<1>1. IInv => TypeOK
  BY Typed DEF IInv, LoopInv
<1> QED
  BY <1>1, Invariance, PTL

\* A report without a notice has every row but those that are always left out
\* (CutsAreAnnounced).
THEOREM CutsAnnounced == Spec => []CutsAreAnnounced
<1>1. IInv => CutsAreAnnounced
  BY DEF IInv, LoopInv
<1> QED
  BY <1>1, Invariance, PTL

\* The caps are exceeded by one row or one table at most (ReportBounded).
THEOREM BoundedReports == Spec => []ReportBounded
<1>1. IInv => ReportBounded
  BY DEF IInv, LoopInv, BodyInv, SlidesInv, CapInv, ReportBounded
<1> QED
  BY <1>1, Invariance, PTL

\* The offsets of the hex dump of a file's end are right unless the file got
\* shorter (HexTailLabelled).
THEOREM TailLabelled == Spec => []HexTailLabelled
<1>1. IInv => HexTailLabelled
  BY DEF IInv, HexInv, HexTailLabelled
<1> QED
  BY <1>1, Invariance, PTL
=============================================================================
