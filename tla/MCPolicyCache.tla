--------------------------- MODULE MCPolicyCache ---------------------------
(* Instances of PolicyCache for TLC. *)
EXTENDS PolicyCache, TLC

CONSTANTS w1, w2, secrets, logs, project

MCWorkers  == {w1, w2}
MCRequired == {secrets, logs}

\* A short and a longer valid policy, one without a mandatory exclusion, and
\* one with an unsafe line.
Short    == <<secrets, logs>>
Long     == <<logs, secrets, project>>
Lacking  == <<secrets, project>>
Escaping == <<secrets, logs, Unsafe>>

MCPolicies == {Short, Long, Lacking, Escaping}
MCLong     == {Long}

Symmetry == Permutations(MCWorkers)
============================================================================
