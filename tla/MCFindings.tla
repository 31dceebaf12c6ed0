----------------------------- MODULE MCFindings -----------------------------
(* Small instances of Findings. *)
EXTENDS Findings

MCPatches == {[status |-> s, human |-> Keep] : s \in {"open", "session", "resolved"}}
             \cup {[status |-> "open", human |-> "yes"], [status |-> Keep, human |-> "no"]}
MCFirstTopics == <<"disk">>
=============================================================================
