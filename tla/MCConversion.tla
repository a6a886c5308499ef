---------------------------- MODULE MCConversion ----------------------------
(* Instances of Conversion for TLC. *)
EXTENDS Conversion, TLC

CONSTANTS t1, t2, memo, report, n1, n2, n3

MCThreads == {t1, t2}
MCOne     == {memo}
MCSources == {memo, report}
MCNames   == {n1, n2, n3}

Symmetry ==
    Permutations(MCThreads) \union Permutations(MCSources) \union Permutations(MCNames)
=============================================================================
