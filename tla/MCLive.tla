-------------------------------- MODULE MCLive --------------------------------
(* The live feed for TLC: which faults a behaviour may meet. *)
EXTENDS LiveFeed, TLC

PlainMode == [harness |-> TRUE, artifacts |-> FALSE, visits |-> 0, restarts |-> 0,
              rows |-> 2, chatter |-> 0]
ModesPass == {PlainMode, [PlainMode EXCEPT !.chatter = 1], [PlainMode EXCEPT !.harness = FALSE],
              [PlainMode EXCEPT !.artifacts = TRUE], [PlainMode EXCEPT !.visits = 1, !.rows = 1],
              [PlainMode EXCEPT !.restarts = 1]}
ModesPlain == {PlainMode}
ModesArtifact == {[PlainMode EXCEPT !.artifacts = TRUE]}
ModesFile == {[PlainMode EXCEPT !.harness = FALSE]}
=============================================================================
