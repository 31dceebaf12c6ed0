------------------------------ MODULE MCAdmission ------------------------------
(* Admission for TLC: two or three launches, of the kinds the question needs. *)
EXTENDS Admission, TLC

CONSTANTS l1, l2, l3
MCRows == {l1, l2, l3}
AllInteractive == [l \in MCRows |-> "interactive"]
Pair == {l1, l2}
OneOverride == [l \in Pair |-> IF l = l1 THEN "override" ELSE "interactive"]
================================================================================
