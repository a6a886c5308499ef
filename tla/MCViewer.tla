------------------------------ MODULE MCViewer ------------------------------
(* An instance of Viewer for TLC. *)
EXTENDS Viewer, TLC

CONSTANTS i1, i2

MCInodes == {i1, i2}

Symmetry == Permutations(MCInodes)
=============================================================================
