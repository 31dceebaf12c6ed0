------------------------------ MODULE MCHarness ------------------------------
(* Harness with the symmetry of its requests, for the runs that check no    *)
(* liveness.                                                                *)
EXTENDS Harness, TLC

RequestSymmetry == Permutations(Requests)
=============================================================================
