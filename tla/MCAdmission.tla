---------------------------- MODULE MCAdmission ----------------------------
(* Instances of Admission for TLC. *)
EXTENDS Admission, TLC

CONSTANTS c1, c2, c3

MCConns == {c1, c2, c3}
============================================================================
