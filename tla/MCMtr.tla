-------------------------------- MODULE MCMtr --------------------------------
(* Small instances of Mtr for TLC. *)
EXTENDS Mtr, TLC

CONSTANTS q1, q2, q3

TwoRequests == {q1, q2}
ThreeRequests == {q1, q2, q3}

RequestSymmetry == Permutations(ThreeRequests)
=============================================================================
