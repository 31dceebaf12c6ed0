---------------------------- MODULE AdmissionProofs ----------------------------
(***************************************************************************)
(* The gate's fast pass never reserves past the limit: for any launches,   *)
(* kinds, limits, clocks, scans and restarts, with a self-hosted server or *)
(* a Computer, whether scans fail or not.                                  *)
(*                                                                         *)
(* The invariant says of every scan, running or finished, that a launch    *)
(* with a live record is in its rows or has a record no older than the     *)
(* scan: what recentAdmissionSessions adds to the newest scan is then all  *)
(* that this scan can have missed.                                         *)
(***************************************************************************)
EXTENDS Admission, FiniteSetTheorems, TLAPS

\* A launch the list shows, dead or alive.
Shown(l) == stage[l] \in {"hydrating", "up", "dead"}

\* The scan knows of the launch, or its record is no older than the scan.
Accounted(l, rows, at) == l \in rows \/ createdAt[l] >= at

AdmissionInv ==
  /\ \A l \in Rows : Shown(l) => l \in world
  /\ \A s \in Slots : scans[s].on =>
       /\ scans[s].startedAt <= now
       /\ \A l \in Rows : Shown(l) => Accounted(l, scans[s].win.sure, scans[s].startedAt)
  /\ latest.known =>
       /\ latest.startedAt <= now
       /\ \A l \in Rows : Shown(l) => Accounted(l, latest.rows, latest.startedAt)

Scan == [on : BOOLEAN, startedAt : Time, win : Window]
Reader == [state : {"idle", "waiting", "done"}, win : Window, ans : SUBSET Rows]
Latest == [known : BOOLEAN, startedAt : Time, rows : SUBSET Rows]
Stage == {"new", "hydrating", "up", "failed", "dead", "abandoned", "gone"}

\* The launches that may hold a reservation.
Underway == {l \in Rows : stage[l] \in {"new", "hydrating", "dead", "abandoned"}}

Typed ==
  /\ now \in Time /\ world \in SUBSET Rows /\ settled \in Window
  /\ scans \in [Slots -> Scan] /\ latest \in Latest /\ reader \in [Readers -> Reader]
  /\ stage \in [Rows -> Stage] /\ createdAt \in [Rows -> Time]
  /\ gate \in [Rows -> {"none", "rescan", "scanning"}]
  /\ \A l \in Rows : gate[l] # "none" => stage[l] \in {"new", "dead", "abandoned"} /\ l \notin pending
  /\ probe \in Window /\ restarts \in 0..MaxRestarts
  /\ pending \in SUBSET Underway

\* The type invariant in parts, before a step and after it.
LEMMA TypeParts ==
  /\ TypeOK <=> Typed
  /\ TypeOK' <=> Typed'
BY DEF TypeOK, ScanTypeOK, Scan, Reader, Latest, Stage, Underway, Typed

\* Opening a window, and a change of the list, give windows.
LEMMA Windows ==
  ASSUME NEW w \in SUBSET Rows
  PROVE  From(w) \in Window /\ \A win \in Window : Through(win, w) \in Window
BY DEF Window, From, Through

\* Before the first scan.
LEMMA Blank == NoScan \in Scan /\ ~NoScan.on /\ NoLatest \in Latest /\ ~NoLatest.known
BY Windows, ScanAssumption DEF NoScan, Scan, NoLatest, Latest, Time

\* At first nothing is launched and nothing was scanned.
LEMMA InitInv == Init => TypeOK /\ AdmissionInv
<1> SUFFICES ASSUME Init PROVE TypeOK /\ AdmissionInv
  OBVIOUS
<1>1. From({}) \in Window /\ 0 \in Time
  BY Windows, ScanAssumption DEF Time
<1>2. Idle \in Reader
  BY <1>1 DEF Idle, Reader
<1>3. Typed
  BY <1>1, <1>2, Blank, AdmissionAssumption DEF Init, ScanInit, Typed, Stage, Underway
<1>4. AdmissionInv
  BY Blank DEF Init, ScanInit, AdmissionInv, Shown
<1> QED
  BY <1>3, <1>4, TypeParts

\* A change of the list that is announced keeps what scans are made of.
LEMMA ListType ==
  ASSUME TypeOK, NEW w \in SUBSET Rows, List(w)
  PROVE  /\ now' \in Time /\ world' \in SUBSET Rows /\ settled' \in Window
         /\ scans' \in [Slots -> Scan] /\ latest' \in Latest /\ reader' \in [Readers -> Reader]
         /\ probe' \in Window
<1>1. scans' \in [Slots -> Scan]
  BY TypeParts, Windows DEF Typed, List, ScansThrough, Scan
<1> QED
  BY <1>1, TypeParts, Windows DEF Typed, List

\* The gate reserves for launches that are under way, and for no others.
LEMMA GateType == ASSUME TypeOK, NEW l \in Rows, Gate(l) PROVE TypeOK'
<1> USE DEF Typed, Underway, scanVars
<1>1. CASE FastPass(l)
  BY <1>1, TypeParts DEF FastPass, Wants, Reserve
<1>2. CASE ScanBegins(l)
  BY <1>2, TypeParts, Windows DEF ScanBegins, Wants
<1>3. CASE ScanEnds(l)
  BY <1>3, TypeParts DEF ScanEnds, Reserve
<1> QED
  BY <1>1, <1>2, <1>3 DEF Gate

\* A launch gives its reservation back before it leaves the stages that may have one.
LEMMA LaunchType == ASSUME TypeOK, NEW l \in Rows, Launch(l) PROVE TypeOK'
<1> USE DEF Typed, Underway, Stage, To, Release
<1>1. CASE Record(l)
  BY <1>1, TypeParts, ListType DEF Record
<1>2. CASE RecordAndRun(l)
  BY <1>2, TypeParts, ListType DEF RecordAndRun
<1>3. CASE Abort(l)
  BY <1>3, TypeParts DEF Abort, scanVars
<1>4. CASE Hydrated(l)
  BY <1>4, TypeParts DEF Hydrated, scanVars
<1>5. CASE StartNothing(l)
  BY <1>5, TypeParts DEF StartNothing, scanVars
<1>6. CASE Revive(l)
  BY <1>6, TypeParts DEF Revive, scanVars
<1> QED
  BY <1>1, <1>2, <1>3, <1>4, <1>5, <1>6 DEF Launch

\* A session that dies or is closed keeps the types.
LEMMA SessionType == ASSUME TypeOK, NEW l \in Rows, Session(l) PROVE TypeOK'
<1> USE DEF Typed, Underway, Stage, To
<1>1. CASE Die(l)
  BY <1>1, TypeParts DEF Die, scanVars
<1>2. CASE Close(l)
  BY <1>2, TypeParts, ListType DEF Close
<1> QED
  BY <1>1, <1>2 DEF Session

\* What a scan's end makes of the newest scan.
LEMMA FinishEffect ==
  ASSUME TypeOK, NEW s \in Slots, Finish(s)
  PROVE  /\ scans[s].on
         /\ scans' = [scans EXCEPT ![s] = NoScan]
         /\ \/ UNCHANGED latest
            \/ \E S \in Seen(scans[s].win) :
                 latest' = [known |-> TRUE, startedAt |-> scans[s].startedAt, rows |-> S]
         /\ reader' \in [Readers -> Reader]
         /\ UNCHANGED <<now, world, settled>>
<1>1. Idle \in Reader
  BY Windows DEF Idle, Reader
<1>2. \A r \in Readers, S \in SUBSET Rows : Answered(reader[r].win, S) \in Reader
  BY TypeParts DEF Typed, Answered, Reader
<1>3. PICK R \in SUBSET {r \in Readers : Waiting(r)} :
        \/ \E S \in SUBSET Rows :
             reader' = [r \in Readers |-> IF r \in R THEN Answered(reader[r].win, S) ELSE reader[r]]
        \/ reader' = [r \in Readers |-> IF r \in R THEN Idle ELSE reader[r]]
  BY DEF Finish
<1>4. reader' \in [Readers -> Reader]
  BY <1>1, <1>2, <1>3, TypeParts DEF Typed
<1> QED
  BY <1>4 DEF Finish, Adopt

\* The clock and the scans keep the types.
LEMMA ScanningType ==
  ASSUME TypeOK, Tick \/ Scanning, UNCHANGED gateVars
  PROVE  TypeOK'
<1> USE DEF Typed, Underway, gateVars
<1>1. CASE Tick
  BY <1>1, TypeParts, ScanAssumption DEF Tick, Time
<1>2. ASSUME NEW s \in Slots, Start(s) PROVE TypeOK'
  <2>1. [on |-> TRUE, startedAt |-> now, win |-> From(world)] \in Scan
    BY TypeParts, Windows DEF Scan
  <2> QED
    BY <1>2, <2>1, TypeParts DEF Start, Begin
<1>3. ASSUME NEW s \in Slots, Finish(s) PROVE TypeOK'
  <2>1. latest' \in Latest
    <3>1. \A S \in Seen(scans[s].win) :
            [known |-> TRUE, startedAt |-> scans[s].startedAt, rows |-> S] \in Latest
      BY TypeParts DEF Latest, Scan, Seen
    <3> QED
      BY <1>3, <3>1, FinishEffect, TypeParts
  <2> QED
    BY <1>3, <2>1, FinishEffect, Blank, TypeParts
<1> QED
  BY <1>1, <1>2, <1>3 DEF Scanning

\* Every step keeps the types.
LEMMA NextType == TypeOK /\ [Next]_vars => TypeOK'
<1> SUFFICES ASSUME TypeOK, [Next]_vars PROVE TypeOK'
  OBVIOUS
<1>1. CASE Restart
  <2>1. scans' \in [Slots -> Scan] /\ latest' \in Latest
    BY <1>1, Blank DEF Restart
  <2>2. stage' \in [Rows -> Stage]
    BY <1>1, TypeParts DEF Typed, Restart, Stage
  <2> QED
    BY <1>1, <2>1, <2>2, TypeParts, Windows, AdmissionAssumption DEF Typed, Restart, Underway
<1>2. CASE UNCHANGED vars
  BY <1>2, TypeParts DEF Typed, vars, scanVars, gateVars, Underway
<1> QED
  BY <1>1, <1>2, GateType, LaunchType, SessionType, ScanningType DEF Next

\* Every variable stays in its type, and every reservation and every request at the
\* gate belongs to a launch that is still under way (serve.ts, activationGate).
THEOREM TypeCorrect == Spec => []TypeOK
<1>1. Init => TypeOK
  BY InitInv
<1> QED
  BY <1>1, NextType, PTL DEF Spec

--------------------------------------------------------------------------------
\* What scans have seen

\* A record written now is no older than any scan; nobody else's record changes, and
\* no other row leaves the list.
LEMMA ListedInv ==
  ASSUME TypeOK, AdmissionInv, NEW l \in Rows, NEW w \in SUBSET Rows, List(w),
         createdAt' \in [Rows -> Time],
         \/ w = world \cup {l} /\ createdAt' = [createdAt EXCEPT ![l] = now]
         \/ w = world \ {l} /\ ~Shown(l)' /\ UNCHANGED createdAt,
         \A r \in Rows : r # l => (Shown(r)' <=> Shown(r))
  PROVE  AdmissionInv'
<1>0. now' = now /\ latest' = latest /\ world' = w
  BY DEF List
<1>1. \A r \in Rows : Shown(r)' => r \in world'
  BY <1>0 DEF AdmissionInv
<1>2. ASSUME NEW s \in Slots, scans'[s].on, NEW r \in Rows
      PROVE /\ scans'[s].startedAt <= now'
            /\ Shown(r)' => r \in scans'[s].win.sure \/ createdAt'[r] >= scans'[s].startedAt
  <2>1. /\ scans[s].on /\ scans'[s].startedAt = scans[s].startedAt
        /\ scans'[s].win.sure = scans[s].win.sure \cap w
    BY <1>2, TypeParts DEF Typed, List, ScansThrough, Scan, Through, Window
  <2>2. scans[s].startedAt <= now
        /\ (Shown(r) => r \in scans[s].win.sure \/ createdAt[r] >= scans[s].startedAt)
    BY <2>1 DEF AdmissionInv, Accounted
  <2>3. CASE r = l
    BY <1>0, <2>1, <2>2, <2>3, TypeParts DEF Typed
  <2>4. CASE r # l
    <3>1. Shown(r)' => Shown(r) /\ r \in world /\ r \in w /\ createdAt'[r] = createdAt[r]
      BY <2>4, TypeParts DEF Typed, AdmissionInv
    <3> QED
      BY <1>0, <2>1, <2>2, <3>1
  <2> QED
    BY <2>3, <2>4
<1>3. ASSUME latest.known, NEW r \in Rows
      PROVE /\ latest.startedAt <= now
            /\ Shown(r)' => r \in latest.rows \/ createdAt'[r] >= latest.startedAt
  BY <1>3, TypeParts DEF Typed, AdmissionInv, Accounted
<1> QED
  BY <1>0, <1>1, <1>2, <1>3 DEF AdmissionInv, Accounted

\* The gate changes nothing that scans are about.
LEMMA StageInv ==
  ASSUME TypeOK, AdmissionInv, UNCHANGED <<scanVars, createdAt>>,
         \A r \in Rows : Shown(r)' => Shown(r)
  PROVE  AdmissionInv'
BY DEF AdmissionInv, Accounted, scanVars

\* A scan that begins sees every row there is; one that ends hands on what it saw.
LEMMA ScanningInv ==
  ASSUME TypeOK, AdmissionInv, Tick \/ Scanning, UNCHANGED gateVars
  PROVE  AdmissionInv'
<1>1. CASE Tick
  BY <1>1, TypeParts, ScanAssumption DEF Typed, Tick, Time, AdmissionInv, Accounted, Shown, gateVars, Scan, Latest
<1>2. ASSUME NEW s \in Slots, Start(s) PROVE AdmissionInv'
  BY <1>2, TypeParts DEF Typed, Start, Begin, From, Time, AdmissionInv, Accounted, Shown, gateVars
<1>3. ASSUME NEW s \in Slots, Finish(s) PROVE AdmissionInv'
  BY <1>3, FinishEffect, Blank, TypeParts DEF Typed, Seen, AdmissionInv, Accounted, Shown, gateVars
<1> QED
  BY <1>1, <1>2, <1>3 DEF Scanning

\* Every step of a launch or a session, seen from the scans.
LEMMA LaunchInv ==
  ASSUME TypeOK, AdmissionInv, NEW l \in Rows, Launch(l) \/ Session(l)
  PROVE  AdmissionInv'
<1> USE DEF Shown, To
<1>0. createdAt' \in [Rows -> Time]
  BY NextType, TypeParts DEF Next, Typed
<1>1. CASE Record(l) \/ RecordAndRun(l)
  <2>1. List(world \cup {l}) /\ createdAt' = [createdAt EXCEPT ![l] = now]
    BY <1>1 DEF Record, RecordAndRun
  <2>2. world \cup {l} \in SUBSET Rows
    BY TypeParts DEF Typed
  <2>3. \A r \in Rows : r # l => stage'[r] = stage[r]
    BY <1>1, TypeParts DEF Typed, Record, RecordAndRun
  <2> HIDE DEF Shown
  <2>4. \A r \in Rows : r # l => (Shown(r)' <=> Shown(r))
    BY <2>3 DEF Shown
  <2> QED
    BY <1>0, <2>1, <2>2, <2>4, ListedInv
<1>2. CASE Close(l)
  <2>1. List(world \ {l}) /\ UNCHANGED createdAt
    BY <1>2 DEF Close
  <2>2. world \ {l} \in SUBSET Rows
    BY TypeParts DEF Typed
  <2>3. stage'[l] \in {"abandoned", "gone"} /\ \A r \in Rows : r # l => stage'[r] = stage[r]
    BY <1>2, TypeParts DEF Typed, Close
  <2> HIDE DEF Shown
  <2>4. ~Shown(l)' /\ \A r \in Rows : r # l => (Shown(r)' <=> Shown(r))
    BY <2>3 DEF Shown
  <2> QED
    BY <1>0, <2>1, <2>2, <2>4, ListedInv
<1>3. CASE Abort(l) \/ Hydrated(l) \/ StartNothing(l) \/ Revive(l) \/ Die(l)
  <2>1. UNCHANGED <<scanVars, createdAt>>
    BY <1>3 DEF Abort, Hydrated, StartNothing, Revive, Die
  <2>2. \A r \in Rows : Shown(r)' => Shown(r)
    BY <1>3, TypeParts DEF Typed, Abort, Hydrated, StartNothing, Revive, Die
  <2> HIDE DEF Shown
  <2> QED
    BY <2>1, <2>2, StageInv
<1> QED
  BY <1>1, <1>2, <1>3 DEF Launch, Session

\* Every step keeps the invariant.
LEMMA NextInv == TypeOK /\ AdmissionInv /\ [Next]_vars => AdmissionInv'
<1> SUFFICES ASSUME TypeOK, AdmissionInv, [Next]_vars PROVE AdmissionInv'
  OBVIOUS
<1>1. CASE Restart
  BY <1>1, Blank, TypeParts DEF Typed, Restart, AdmissionInv, Accounted, Shown
<1>2. CASE UNCHANGED vars
  BY <1>2, StageInv DEF vars, gateVars, Shown
<1>3. ASSUME NEW l \in Rows, Gate(l) PROVE AdmissionInv'
  BY <1>3, StageInv DEF Gate, FastPass, ScanBegins, ScanEnds, Shown
<1> QED
  BY <1>1, <1>2, <1>3, LaunchInv, ScanningInv DEF Next

\* Whatever the fast pass counts, a launch of the pool that runs or is about to is
\* among it or holds a reservation.
LEMMA Counted ==
  ASSUME TypeOK, AdmissionInv, latest.known, NEW l \in Rows
  PROVE  Pool(l, Agents) \subseteq Pool(l, latest.rows \cup CreatedSince) \cup pending
<1> SUFFICES ASSUME NEW a \in Rows, a \in Agents, a \notin pending
             PROVE  a \in latest.rows \cup CreatedSince
  BY DEF Pool, Agents
<1>1. stage[a] = "up"
  BY DEF Agents
<1>2. a \in latest.rows \/ createdAt[a] >= latest.startedAt
  BY <1>1 DEF AdmissionInv, Shown, Accounted
<1> QED
  BY <1>1, <1>2 DEF CreatedSince, Recorded

\* A reservation of the fast pass has room below the limit.
LEMMA FastPassFits ==
  ASSUME TypeOK, AdmissionInv, NEW l \in Rows, FastPass(l), l \in pending' \ pending, ~Exempt(l)
  PROVE  Cardinality(Pool(l, Agents)) < LimitOf(l)
<1> DEFINE C == Pool(l, latest.rows \cup CreatedSince)
<1>1. Cardinality(C) + Cardinality(pending) < LimitOf(l) /\ latest.known
  BY DEF FastPass, Fits, Recent
<1>2. C \subseteq Rows /\ pending \subseteq Rows
  BY TypeParts DEF Typed, Pool, CreatedSince, Recorded, Underway, Latest
<1>3. IsFiniteSet(C) /\ IsFiniteSet(pending)
  BY <1>2, FS_Subset, AdmissionAssumption
<1> HIDE DEF C
<1>4. Pool(l, Agents) \subseteq C \cup pending
  BY <1>1, Counted DEF C
<1>5. IsFiniteSet(C \cup pending)
      /\ Cardinality(C \cup pending) = Cardinality(C) + Cardinality(pending) - Cardinality(C \cap pending)
  BY <1>3, FS_Union
<1>6. Cardinality(Pool(l, Agents)) \in Nat /\ Cardinality(Pool(l, Agents)) <= Cardinality(C \cup pending)
  BY <1>4, <1>5, FS_Subset, FS_CardinalityType
<1>7. Cardinality(C \cap pending) \in Nat /\ Cardinality(C) \in Nat /\ Cardinality(pending) \in Nat
  BY <1>3, FS_Subset, FS_CardinalityType
<1>8. LimitOf(l) \in Nat
  BY AdmissionAssumption DEF LimitOf
<1> QED
  BY <1>1, <1>5, <1>6, <1>7, <1>8

\* The fast pass of activationGate never undercounts: however scans overlap and
\* records share a millisecond with them, it reserves only below the limit.
THEOREM FastPassNeverUndercounts == Spec => FastPassIsSafe
<1> DEFINE Safe == \A l \in Rows : l \in pending' \ pending /\ gate[l] = "none" /\ ~Exempt(l)
                     => Cardinality(Pool(l, Agents)) < LimitOf(l)
<1>1. Init => TypeOK /\ AdmissionInv
  BY InitInv
<1>2. TypeOK /\ AdmissionInv /\ [Next]_vars => (TypeOK /\ AdmissionInv)'
  BY NextType, NextInv
<1>3. TypeOK /\ AdmissionInv /\ [Next]_vars => [Safe]_vars
  <2> SUFFICES ASSUME TypeOK, AdmissionInv, Next, NEW l \in Rows,
                      l \in pending' \ pending, gate[l] = "none", ~Exempt(l)
               PROVE  Cardinality(Pool(l, Agents)) < LimitOf(l)
    OBVIOUS
  <2>1. FastPass(l)
    <3> USE DEF Reserve, Release
    <3>1. ASSUME NEW k \in Rows, Gate(k) PROVE FastPass(l)
      BY <3>1 DEF Gate, FastPass, ScanBegins, ScanEnds
    <3>2. ASSUME NEW k \in Rows, Launch(k) PROVE FALSE
      BY <3>2 DEF Launch, Record, RecordAndRun, Abort, Hydrated, StartNothing, Revive
    <3>3. ASSUME NEW k \in Rows, Session(k) PROVE FALSE
      BY <3>3 DEF Session, Die, Close
    <3> QED
      BY <3>1, <3>2, <3>3 DEF Next, Restart, gateVars
  <2> QED
    BY <2>1, FastPassFits
<1> QED
  BY <1>1, <1>2, <1>3, PTL DEF Spec, FastPassIsSafe
================================================================================
