---------------------------- MODULE TranscriptFeed ----------------------------
(***************************************************************************)
(* What following a session's transcript promises its readers, without     *)
(* sockets: a log that grows, and readers who see more and more of it.     *)
(* A reader may see rows out of order (an older row with a later snapshot) *)
(* but never a row that is not in the log, and never loses one it saw.     *)
(***************************************************************************)
EXTENDS Integers

CONSTANT Clients   \* the readers

VARIABLES
  wrote,   \* rows of the log: 1..wrote
  view     \* the rows each reader sees

Init == wrote \in Nat /\ view = [c \in Clients |-> {}]

Write == wrote' = wrote + 1 /\ UNCHANGED view

Show(c) ==
  /\ \E rows \in SUBSET (1..wrote) : view' = [view EXCEPT ![c] = @ \cup rows]
  /\ UNCHANGED wrote

Next == Write \/ \E c \in Clients : Show(c)

Spec == Init /\ [][Next]_<<wrote, view>>
=============================================================================
