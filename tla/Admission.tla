------------------------------- MODULE Admission -------------------------------
(***************************************************************************)
(* Admission of agent launches: activationGate, the launch routes and      *)
(* hydrateCreatedSession of src/src/commands/serve.ts over                 *)
(* src/src/agent-admission.ts.  Memory is left out: the model has the      *)
(* refusals that count sessions.                                           *)
(*                                                                         *)
(* The gate counts the rows of a session scan.  The fast pass takes the    *)
(* newest scan that finished, of which this module knows what SessionScan  *)
(* promises, and adds the records created since it began; a refusal there  *)
(* is decided again on a scan of its own.  A row of SessionScan is a       *)
(* launch here: `world' is the set of launches the list shows.             *)
(***************************************************************************)
EXTENDS SessionScan, FiniteSets

CONSTANTS
  Kind,           \* what each launch is for
  OnComputer,     \* TRUE: a hosted Computer with a plan; FALSE: self-hosted
  Limit,          \* agents at a time
  ScheduleLimit,  \* scheduled runs at a time, on a Computer
  MaxAge,         \* RECENT_ADMISSION_SCAN_MAX_AGE_MS
  ScansFail,      \* TRUE: the gate's own scan may throw
  MaxRestarts     \* bound: restarts of the server

ASSUME AdmissionAssumption ==
  /\ Kind \in [Rows -> {"interactive", "schedule", "bot", "override"}]
  /\ OnComputer \in BOOLEAN /\ ScansFail \in BOOLEAN
  /\ Limit \in Nat \ {0} /\ ScheduleLimit \in Nat \ {0}
  /\ MaxAge \in Nat /\ MaxRestarts \in Nat
  /\ IsFiniteSet(Rows)

VARIABLES
  stage,      \* how far each launch has come
  createdAt,  \* its managed record's timestamp
  gate,       \* where its request stands in the gate
  probe,      \* the window of the gate's own scan
  pending,    \* the reservations
  restarts    \* history, for the bound

gateVars == <<stage, createdAt, gate, probe, pending, restarts>>
vars == <<scanVars, gateVars>>

\* The types; and the gate and its reservations are for launches that are under way.
TypeOK ==
  /\ ScanTypeOK
  /\ stage \in [Rows -> {"new", "hydrating", "up", "failed", "dead", "abandoned", "gone"}]
  /\ createdAt \in [Rows -> Time]
  /\ gate \in [Rows -> {"none", "rescan", "scanning"}]
  /\ \A l \in Rows : gate[l] # "none" => stage[l] \in {"new", "dead", "abandoned"} /\ l \notin pending
  /\ probe \in Window
  /\ pending \subseteq {l \in Rows : stage[l] \in {"new", "hydrating", "dead", "abandoned"}}
  /\ restarts \in 0..MaxRestarts

Init ==
  /\ ScanInit
  /\ stage = [l \in Rows |-> "new"]
  /\ createdAt = [l \in Rows |-> 0]
  /\ gate = [l \in Rows |-> "none"]
  /\ probe = From({})
  /\ pending = {}
  /\ restarts = 0

-----------------------------------------------------------------------------
\* What the gate counts

Scheduled(l) == OnComputer /\ Kind[l] = "schedule"
Exempt(l) == Kind[l] = "bot" \/ (Kind[l] = "override" /\ ~OnComputer)
LimitOf(l) == IF Scheduled(l) THEN ScheduleLimit ELSE Limit

\* admissionPool: the sessions of S that count against launch l.
Pool(l, S) == {r \in S : Kind[r] # "bot" /\ (Scheduled(r) <=> Scheduled(l))}

Recorded == {l \in Rows : stage[l] \in {"hydrating", "up", "failed", "dead"}}

\* Mutant: a record of the very millisecond the scan began in is left out.
CreatedSinceStrict ==
  {l \in Recorded : createdAt[l] > latest.startedAt /\ stage[l] # "failed" /\ l \notin latest.rows}

\* recentAdmissionSessions: the records the newest scan cannot contain.
CreatedSince ==
  {l \in Recorded : createdAt[l] >= latest.startedAt /\ stage[l] # "failed" /\ l \notin latest.rows}

Recent == latest.known /\ now - latest.startedAt <= MaxAge

\* tryAcquire: every reservation counts, whatever it is for.
Fits(l, S) == Exempt(l) \/ Cardinality(Pool(l, S)) + Cardinality(pending) < LimitOf(l)

-----------------------------------------------------------------------------
\* The gate

\* acquire() holds the transition from the inspection to the reservation.
TransitionFree == \A l \in Rows : gate[l] # "scanning"
Wants(l) == l \notin pending /\ (stage[l] \in {"new", "dead"} \/ gate[l] = "rescan")

Reserve(l) == pending' = pending \cup {l}

\* The fast pass, one step: its inspection does not wait for anything.
FastPass(l) ==
  /\ Wants(l) /\ gate[l] = "none"
  /\ TransitionFree
  /\ Recent
  /\ IF Fits(l, latest.rows \cup CreatedSince)
     THEN Reserve(l) /\ UNCHANGED gate
     ELSE gate' = [gate EXCEPT ![l] = "rescan"] /\ UNCHANGED pending
  /\ UNCHANGED <<scanVars, stage, createdAt, probe, restarts>>

\* A refusal, or no recent scan: the gate scans for itself.
ScanBegins(l) ==
  /\ Wants(l)
  /\ gate[l] = "rescan" \/ (gate[l] = "none" /\ ~Recent)
  /\ TransitionFree
  /\ gate' = [gate EXCEPT ![l] = "scanning"]
  /\ probe' = From(world)
  /\ UNCHANGED <<scanVars, stage, createdAt, pending, restarts>>

\* Its scan returns (or throws, and nothing is counted): admitted or refused.
ScanEnds(l) ==
  /\ gate[l] = "scanning"
  /\ gate' = [gate EXCEPT ![l] = "none"]
  /\ \E S \in Seen(probe) \cup (IF ScansFail THEN {{}} ELSE {}) :
       IF Fits(l, S) THEN Reserve(l) ELSE UNCHANGED pending
  /\ UNCHANGED <<scanVars, stage, createdAt, probe, restarts>>

-----------------------------------------------------------------------------
\* A launch that was admitted

\* The list changes and is invalidated.
List(w) ==
  /\ world' = w
  /\ settled' = From(w)
  /\ scans' = ScansThrough(w)
  /\ probe' = Through(probe, w)
  /\ UNCHANGED <<now, latest, reader>>

To(l, st) == stage' = [stage EXCEPT ![l] = st]
Release(l) == pending' = pending \ {l}

\* addManaged: the row is listed from here on.
Record(l) ==
  /\ stage[l] = "new" /\ l \in pending
  /\ To(l, "hydrating")
  /\ createdAt' = [createdAt EXCEPT ![l] = now]
  /\ List(world \cup {l})
  /\ UNCHANGED <<gate, pending, restarts>>

\* A cold resume writes its record, starts its agent and releases in one turn.
RecordAndRun(l) ==
  /\ stage[l] = "new" /\ l \in pending
  /\ To(l, "up")
  /\ createdAt' = [createdAt EXCEPT ![l] = now]
  /\ List(world \cup {l})
  /\ Release(l)
  /\ UNCHANGED <<gate, restarts>>

\* The request fails before it has a row.
Abort(l) ==
  /\ stage[l] = "new" /\ l \in pending
  /\ To(l, "gone")
  /\ Release(l)
  /\ UNCHANGED <<scanVars, createdAt, gate, probe, restarts>>

\* Mutant: a failed start keeps its reservation.
HydratedKept(l) ==
  /\ stage[l] = "hydrating"
  /\ \/ To(l, "up") /\ Release(l)
     \/ To(l, "failed") /\ UNCHANGED pending
  /\ UNCHANGED <<scanVars, createdAt, gate, probe, restarts>>

\* hydrateCreatedSession started the agent, or could not; the failed row stays.
Hydrated(l) ==
  /\ stage[l] = "hydrating"
  /\ To(l, "up") \/ To(l, "failed")
  /\ Release(l)
  /\ UNCHANGED <<scanVars, createdAt, gate, probe, restarts>>

\* The row is closed, maybe while a request still works on it: a launch whose folder
\* is being made, a revival that waits at the gate ...
Close(l) ==
  /\ stage[l] \in {"hydrating", "up", "failed", "dead"}
  /\ To(l, IF stage[l] = "hydrating" \/ gate[l] # "none" \/ l \in pending THEN "abandoned" ELSE "gone")
  /\ List(world \ {l})
  /\ UNCHANGED <<createdAt, gate, pending, restarts>>

\* Mutant: an early return without the release.
StartNothingKept(l) ==
  /\ stage[l] = "abandoned" /\ gate[l] = "none"
  /\ To(l, "gone")
  /\ UNCHANGED <<scanVars, createdAt, gate, probe, pending, restarts>>

\* ... and nothing is started.
StartNothing(l) ==
  /\ stage[l] = "abandoned" /\ gate[l] = "none"
  /\ To(l, "gone")
  /\ Release(l)
  /\ UNCHANGED <<scanVars, createdAt, gate, probe, restarts>>

\* reviveDeadCommandFileHarness: the record keeps its timestamp.
Revive(l) ==
  /\ stage[l] = "dead" /\ l \in pending
  /\ To(l, "up")
  /\ Release(l)
  /\ UNCHANGED <<scanVars, createdAt, gate, probe, restarts>>

\* An agent dies; a row that can explain itself stays listed.
Die(l) ==
  /\ stage[l] = "up"
  /\ To(l, "dead")
  /\ UNCHANGED <<scanVars, createdAt, gate, probe, pending, restarts>>

\* The server restarts: the gate, the reservations and the scans are gone.
Restart ==
  /\ restarts < MaxRestarts
  /\ restarts' = restarts + 1
  /\ stage' = [l \in Rows |->
       IF stage[l] = "hydrating" THEN "failed"
       ELSE IF stage[l] = "abandoned" THEN "gone" ELSE stage[l]]
  /\ gate' = [l \in Rows |-> "none"]
  /\ pending' = {}
  /\ probe' = From({})
  /\ latest' = NoLatest
  /\ scans' = [s \in Slots |-> NoScan]
  /\ UNCHANGED <<now, world, settled, reader, createdAt>>

Scanning == \E s \in Slots : Start(s) \/ Finish(s)

Gate(l) == FastPass(l) \/ ScanBegins(l) \/ ScanEnds(l)
Launch(l) == Record(l) \/ RecordAndRun(l) \/ Abort(l) \/ Hydrated(l) \/ StartNothing(l) \/ Revive(l)
Session(l) == Die(l) \/ Close(l)

Next ==
  \/ (Tick \/ Scanning) /\ UNCHANGED gateVars
  \/ \E l \in Rows : Gate(l) \/ Launch(l) \/ Session(l)
  \/ Restart

Spec == Init /\ [][Next]_vars

\* A launch's own code runs to its end.
FairSpec == Spec /\ \A l \in Rows : WF_vars(Launch(l))

-----------------------------------------------------------------------------
\* Properties

\* The agents this server started and that run, or are about to.
Agents == {l \in Rows : stage[l] = "up" \/ (l \in pending /\ stage[l] # "abandoned")}

\* The fast pass never undercounts: whatever scans overlap, however records and
\* scans share a millisecond, it reserves only below the limit.
FastPassIsSafe ==
  [][\A l \in Rows :
       l \in pending' \ pending /\ gate[l] = "none" /\ ~Exempt(l)
         => Cardinality(Pool(l, Agents)) < LimitOf(l)]_vars

\* Every reservation ends, also when the row is closed while its folder is made or
\* the request fails: none is left to refuse the next launch.
ReservationsEnd == \A l \in Rows : l \in pending ~> l \notin pending

-----------------------------------------------------------------------------
\* What the code says of itself and does not do

\* "The returned reservation is held until the managed launching row exists, so
\* concurrent requests cannot both pass an async list read and oversubscribe"
\* (commands/serve.ts).
NeverOverLimit ==
  \A l \in Rows : ~Exempt(l) =>
    Cardinality({a \in Pool(l, Agents) : ~Exempt(a)}) <= LimitOf(l)

=============================================================================
