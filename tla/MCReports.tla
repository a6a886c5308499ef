----------------------------- MODULE MCReports -----------------------------
(* Instances of Reports for TLC. *)
EXTENDS Reports, SequencesExt

MCRows(s) == [kind |-> "rows", rows |-> s]
MCOther   == [kind |-> "other", rows |-> <<1>>]
MCDocs(formats, parts) == {[format |-> f, parts |-> p] : f \in formats, p \in parts}

\* Two tables of up to three rows, and up to four small parts; 4 is Hidden.
MCTables == SeqOf({MCRows(s) : s \in SeqOf({1, 3, 4}, 3)} \union {MCOther}, 2)
MCSmall  == SeqOf({MCRows(<<4>>), MCRows(<<1>>), MCRows(<<3>>), MCRows(<<1, 0, 3>>), MCOther}, 4)

MCDocuments ==
    MCDocs(Formats \ {"pdf", "text", "binary"}, MCTables \union MCSmall)
    \union MCDocs({"pdf"}, SeqOf({MCRows(<<n>>) : n \in 0..4}, 4))
    \union MCDocs({"text"}, {<<MCRows(s)>> : s \in SeqOf(1..3, 5)})
    \union {Bare}
=============================================================================
