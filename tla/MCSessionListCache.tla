------------------------- MODULE MCSessionListCache -------------------------
(* The session list cache for TLC: the rows and the readers are interchangeable. *)
EXTENDS SessionListCache, TLC

Symmetry == Permutations(Rows) \cup Permutations(Readers) \cup Permutations(Slots)
=============================================================================
