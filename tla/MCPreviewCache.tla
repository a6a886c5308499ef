--------------------------- MODULE MCPreviewCache ---------------------------
(* An instance of PreviewCache for TLC: what is in memory of an archive is the  *)
(* source's old content, under an identity of its own.                         *)
EXTENDS PreviewCache, TLC

CONSTANTS t1, t2, old, new, i1, n1, n2

MCThreads  == {t1, t2}
MCContents == {old, new}
MCInodes   == {i1}
MCAttrs    == {"kept"}
MCTmps     == {n1, n2}
MCMembers  == {old}

Symmetry == Permutations(MCThreads) \union Permutations(MCTmps)
=============================================================================
