---------------------------- MODULE MCLifecycle ----------------------------
(* Instances of Lifecycle for TLC. *)
EXTENDS Lifecycle, TLC

CONSTANTS o1, o2, p1, p2, p3

MCOperators == {o1, o2}
MCPids      == {p1, p2, p3}

Symmetry == Permutations(MCOperators) \union Permutations(MCPids)
=============================================================================
