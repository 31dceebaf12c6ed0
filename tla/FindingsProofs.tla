---------------------------- MODULE FindingsProofs ----------------------------
(***************************************************************************)
(* What holds of Findings for any number of topics, filers, clicks, rows,  *)
(* attempts and crashes, whatever updates of the file are lost.            *)
(*                                                                         *)
(* The argument for one session at a time is that a lost update only puts  *)
(* back an older version of a row, and that every version that was ever    *)
(* written tells the truth about the past: the attempts it counts were     *)
(* made, the last of them no later than it says, and if it offers the      *)
(* finding to the autopilot, the time of that attempt was up.              *)
(***************************************************************************)
EXTENDS Findings, FiniteSetTheorems, WellFoundedInduction, TLAPS

-----------------------------------------------------------------------------
\* Rows

\* What it is to be a file of findings.
LEMMA RowsAre ==
  ASSUME NEW rows \in Rows
  PROVE  /\ DOMAIN rows \in SUBSET Ids
         /\ rows = [i \in DOMAIN rows |-> rows[i]]
         /\ \A i \in DOMAIN rows : rows[i] \in Row
<1>1. PICK S \in SUBSET Ids : rows \in [S -> Row]
  BY DEF Rows
<1> QED
  BY <1>1

LEMMA NoRowsAreRows == NoRows \in Rows
<1>1. NoRows \in [{} -> Row]
  BY DEF NoRows
<1> QED
  BY <1>1 DEF Rows

\* An update of one row puts back the others.
LEMMA WithIsRows ==
  ASSUME NEW rows \in Rows, NEW i \in DOMAIN rows, NEW r \in Row
  PROVE  /\ With(rows, i, r) \in Rows
         /\ DOMAIN With(rows, i, r) = DOMAIN rows
         /\ With(rows, i, r)[i] = r
         /\ \A j \in DOMAIN rows \ {i} : With(rows, i, r)[j] = rows[j]
<1>1. rows \in [DOMAIN rows -> Row] /\ DOMAIN rows \in SUBSET Ids
  BY RowsAre
<1>2. With(rows, i, r) \in [DOMAIN rows -> Row]
  BY <1>1 DEF With
<1> QED
  BY <1>1, <1>2 DEF With, Rows

\* The attempts of some of the rows.
LEMMA AttemptsAreTodo ==
  ASSUME NEW rows \in Rows, NEW S \in SUBSET DOMAIN rows
  PROVE  /\ Attempts(rows, S) \in Todo
         /\ DOMAIN Attempts(rows, S) = S
         /\ \A i \in S : Attempts(rows, S)[i] = rows[i].attempts
<1>1. DOMAIN rows \in SUBSET Ids /\ \A i \in S : rows[i].attempts \in 0 .. MaxAttempts
  BY RowsAre DEF Row
<1>2. Attempts(rows, S) \in [S -> 0 .. MaxAttempts]
  BY <1>1 DEF Attempts
<1> QED
  BY <1>1, <1>2 DEF Attempts, Todo

LEMMA TodoIs ==
  ASSUME NEW todo \in Todo
  PROVE  /\ DOMAIN todo \in SUBSET Ids
         /\ \A i \in DOMAIN todo : todo[i] \in 0 .. MaxAttempts
<1>1. PICK S \in SUBSET Ids : todo \in [S -> 0 .. MaxAttempts]
  BY DEF Todo
<1> QED
  BY <1>1

LEMMA WithoutIsTodo ==
  ASSUME NEW todo \in Todo, NEW i
  PROVE  /\ Without(todo, i) \in Todo
         /\ DOMAIN Without(todo, i) = DOMAIN todo \ {i}
         /\ \A j \in DOMAIN todo \ {i} : Without(todo, i)[j] = todo[j]
<1>1. DOMAIN todo \in SUBSET Ids /\ \A j \in DOMAIN todo : todo[j] \in 0 .. MaxAttempts
  BY TodoIs
<1>2. Without(todo, i) \in [DOMAIN todo \ {i} -> 0 .. MaxAttempts]
  BY <1>1 DEF Without
<1> QED
  BY <1>1, <1>2 DEF Without, Todo

LEMMA NoTodo == NoRows \in Todo /\ DOMAIN NoRows = {}
<1>1. NoRows \in [{} -> 0 .. MaxAttempts]
  BY DEF NoRows
<1> QED
  BY <1>1 DEF Todo, NoRows

\* Of rows that match there is a newest.
LEMMA NewestIsMember ==
  ASSUME NEW S \in SUBSET Ids, S # {}
  PROVE  Newest(S) \in S
<1>1. S \in SUBSET Nat /\ \A i \in S : i <= MaxRows
  BY FindingsAssumption DEF Ids
<1> DEFINE Later == {ss \in Nat \X Nat : ss[1] < ss[2]}
           Back == {MaxRows - i : i \in S}
<1>2. IsWellFoundedOn(Later, Nat)
  BY NatLessThanWellFounded DEF OpToRel
<1>3. Back \subseteq Nat /\ Back # {}
  <2>1. \A i \in S : MaxRows - i \in Nat
    BY <1>1, FindingsAssumption
  <2> QED
    BY <2>1
<1>4. PICK m \in Back : \A other \in Back : ~(<<other, m>> \in Later)
  <2> HIDE DEF Later, Back
  <2> QED
    BY <1>2, <1>3, WFMin
<1>5. PICK i \in S : m = MaxRows - i
  BY <1>4
<1>6. \A j \in S : j <= i
  <2> SUFFICES ASSUME NEW j \in S PROVE j <= i
    OBVIOUS
  <2>1. MaxRows - j \in Back /\ MaxRows - j \in Nat /\ m \in Nat
    BY <1>3
  <2>2. ~(MaxRows - j < m)
    BY <1>4, <2>1
  <2> QED
    BY <1>1, <1>5, <2>2, FindingsAssumption
<1> QED
  BY <1>6 DEF Newest

-----------------------------------------------------------------------------
\* Types

LEMMA FilerIdleIs == FilerIdle \in FilerState
  BY NoRowsAreRows, FindingsAssumption DEF FilerIdle, FilerState

LEMMA ClickIdleIs == ClickIdle \in ClickState /\ ClickIdle.ids = {}
  BY NoRowsAreRows, FindingsAssumption DEF ClickIdle, ClickState, Patch

LEMMA SchedIdleIs == SchedIdle \in SchedState
  BY NoRowsAreRows, FindingsAssumption DEF SchedIdle, SchedState, Times

LEMMA PilotIdleIs == PilotIdle \in PilotState
  BY NoRowsAreRows, NoTodo, FindingsAssumption DEF PilotIdle, PilotState, Times

\* A filer goes on, its row in what it read.
LEMMA FilerGoesOn ==
  ASSUME TypeOK, NEW f \in Filers, NEW s \in FilerState,
         s.at \in {"match", "attaching"} => s.id \in DOMAIN s.snap,
         filer' = [filer EXCEPT ![f] = s]
  PROVE  /\ filer' \in [Filers -> FilerState]
         /\ \A g \in Filers : filer'[g].at \in {"match", "attaching"} =>
              filer'[g].id \in DOMAIN filer'[g].snap
  BY DEF TypeOK, Located

LEMMA ClickGoesOn ==
  ASSUME TypeOK, NEW c \in Clicks, NEW s \in ClickState, s.ids \subseteq DOMAIN s.snap,
         click' = [click EXCEPT ![c] = s]
  PROVE  /\ click' \in [Clicks -> ClickState]
         /\ \A d \in Clicks : click'[d].ids \subseteq DOMAIN click'[d].snap
  BY DEF TypeOK, Located

LEMMA FilingType ==
  ASSUME TypeOK, NEW f \in Filers, Filing(f)
  PROVE  TypeOK'
<1>1. filer[f] \in FilerState /\ file \in Rows /\ nextId \in 1 .. MaxRows + 1
  BY DEF TypeOK
<1>2. filer[f].snap \in Rows /\ filer[f].id \in 0 .. MaxRows
  BY <1>1 DEF FilerState
<1>3. ASSUME file' \in Rows, nextId' \in 1 .. MaxRows + 1, loose' \subseteq Ids,
             UNCHANGED <<now, click, sched, landings, pilot, claims, crashes, launches>>,
             NEW s \in FilerState, s.at \in {"match", "attaching"} => s.id \in DOMAIN s.snap,
             filer' = [filer EXCEPT ![f] = s]
      PROVE  TypeOK'
  <2>1. /\ filer' \in [Filers -> FilerState]
        /\ \A g \in Filers : filer'[g].at \in {"match", "attaching"} =>
             filer'[g].id \in DOMAIN filer'[g].snap
    BY <1>3, FilerGoesOn
  <2> QED
    BY <1>3, <2>1 DEF TypeOK, Located
<1>4. CASE FilerStarts(f)
  <2>1. PICK topic \in Topics, report \in BOOLEAN :
          filer' = [filer EXCEPT ![f].at = "find", ![f].topic = topic, ![f].report = report]
    BY <1>4 DEF FilerStarts
  <2> DEFINE s == [filer[f] EXCEPT !.at = "find", !.topic = topic, !.report = report]
  <2>2. filer' = [filer EXCEPT ![f] = s] /\ s \in FilerState /\ s.at = "find"
    BY <1>1, <2>1 DEF TypeOK, FilerState
  <2> QED
    BY <1>3, <1>4, <2>2 DEF FilerStarts, TypeOK
<1>5. CASE FilerLooks(f)
  <2> DEFINE M == Matches(file, filer[f].topic)
  <2>1. CASE M = {}
    <3> DEFINE s == [filer[f] EXCEPT !.at = "miss"]
    <3>1. filer' = [filer EXCEPT ![f] = s] /\ s \in FilerState /\ s.at = "miss"
      BY <1>1, <1>5, <2>1 DEF FilerLooks, FilerState, TypeOK
    <3> QED
      BY <1>3, <1>5, <3>1 DEF FilerLooks, TypeOK
  <2>2. CASE M # {}
    <3> DEFINE s == [filer[f] EXCEPT !.at = "match", !.snap = file, !.id = Newest(M)]
    <3>1. M \in SUBSET DOMAIN file /\ M \in SUBSET Ids
      BY <1>1, RowsAre DEF Matches
    <3>2. Newest(M) \in M
      BY <2>2, <3>1, NewestIsMember
    <3>3. Newest(M) \in DOMAIN file /\ Newest(M) \in 0 .. MaxRows
      BY <3>1, <3>2, FindingsAssumption DEF Ids
    <3>4. filer' = [filer EXCEPT ![f] = s]
      BY <1>5, <2>2 DEF FilerLooks, TypeOK
    <3>5. s \in FilerState /\ s.id = Newest(M) /\ s.snap = file
      BY <1>1, <3>3 DEF FilerState
    <3> QED
      BY <1>3, <1>5, <3>3, <3>4, <3>5 DEF FilerLooks, TypeOK
  <2> QED
    BY <2>1, <2>2
<1>6. ASSUME NEW i \in 0 .. MaxRows, AfterFiling(f, i),
             file' \in Rows, nextId' \in 1 .. MaxRows + 1, loose' \subseteq Ids,
             UNCHANGED <<now, click, sched, landings, pilot, claims, crashes, launches>>
      PROVE  TypeOK'
  <2> DEFINE s == [FilerIdle EXCEPT !.at = "done"]
             q == [FilerIdle EXCEPT !.at = "attach", !.id = i]
  <2>1. s \in FilerState /\ q \in FilerState /\ s.at = "done" /\ q.at = "attach"
    BY FilerIdleIs DEF FilerState
  <2>2. filer' = [filer EXCEPT ![f] = s] \/ filer' = [filer EXCEPT ![f] = q]
    BY <1>6 DEF AfterFiling
  <2> HIDE DEF s, q
  <2> QED
    BY <1>3, <1>6, <2>1, <2>2
<1>7. CASE FilerRecurs(f)
  <2> DEFINE i == filer[f].id
             r == filer[f].snap[i]
  <2>1. i \in DOMAIN filer[f].snap
    BY <1>7 DEF FilerRecurs, TypeOK, Located
  <2>2. r \in Row /\ i \in Ids
    BY <1>2, <2>1, RowsAre
  <2>3. Recurred(r) \in Row
    BY <2>2 DEF Row, Recurred, Status
  <2>4. file' \in Rows
    BY <1>2, <1>7, <2>1, <2>3, WithIsRows DEF FilerRecurs
  <2>5. loose' \subseteq Ids
    BY <1>7, <2>2 DEF FilerRecurs, GivenBack, TypeOK
  <2> QED
    BY <1>1, <1>2, <1>6, <1>7, <2>4, <2>5 DEF FilerRecurs
<1>8. CASE FilerReads(f)
  <2> DEFINE s == [filer[f] EXCEPT !.at = "add", !.snap = file]
  <2>1. filer' = [filer EXCEPT ![f] = s] /\ s \in FilerState /\ s.at = "add"
    BY <1>1, <1>8 DEF FilerReads, FilerState, TypeOK
  <2> QED
    BY <1>3, <1>8, <2>1 DEF FilerReads, TypeOK
<1>9. CASE FilerAdds(f)
  <2> DEFINE rows == filer[f].snap
             S == DOMAIN rows \cup {nextId}
  <2>1. nextId \in Ids /\ nextId \in 0 .. MaxRows /\ nextId' \in 1 .. MaxRows + 1
    BY <1>1, <1>9, FindingsAssumption DEF FilerAdds, Ids
  <2>2. S \in SUBSET Ids /\ \A i \in DOMAIN rows : rows[i] \in Row
    BY <1>2, <2>1, RowsAre
  <2>3. NewRow(filer[f].topic) \in Row
    BY <1>1, FindingsAssumption DEF NewRow, Row, FilerState, Status, Times
  <2>4. file' \in [S -> Row]
    BY <1>9, <2>2, <2>3 DEF FilerAdds
  <2>5. file' \in Rows
    BY <2>2, <2>4 DEF Rows
  <2> QED
    BY <1>6, <1>9, <2>1, <2>5 DEF FilerAdds, TypeOK
<1>10. CASE FilerReadsToAttach(f)
  <2> DEFINE s == IF filer[f].id \in DOMAIN file
                  THEN [filer[f] EXCEPT !.at = "attaching", !.snap = file]
                  ELSE [FilerIdle EXCEPT !.at = "done"]
  <2>1. filer' = [filer EXCEPT ![f] = s]
    BY <1>10 DEF FilerReadsToAttach, TypeOK
  <2>2. s \in FilerState /\ (s.at \in {"match", "attaching"} => s.id \in DOMAIN s.snap)
    BY <1>1, FilerIdleIs DEF FilerState
  <2> QED
    BY <1>3, <1>10, <2>1, <2>2 DEF FilerReadsToAttach, TypeOK
<1>11. CASE FilerAttaches(f)
  <2> DEFINE i == filer[f].id
             s == [FilerIdle EXCEPT !.at = "done"]
  <2>1. i \in DOMAIN filer[f].snap
    BY <1>11 DEF FilerAttaches, TypeOK, Located
  <2>2. [filer[f].snap[i] EXCEPT !.status = "session"] \in Row
    BY <1>2, <2>1, RowsAre DEF Row, Status
  <2>3. file' \in Rows
    BY <1>2, <1>11, <2>1, <2>2, WithIsRows DEF FilerAttaches
  <2>4. filer' = [filer EXCEPT ![f] = s] /\ s \in FilerState /\ s.at = "done"
    BY <1>11, FilerIdleIs DEF FilerAttaches, FilerState
  <2> QED
    BY <1>3, <1>11, <2>3, <2>4 DEF FilerAttaches, TypeOK
<1> QED
  BY <1>4, <1>5, <1>7, <1>8, <1>9, <1>10, <1>11 DEF Filing

LEMMA ClickingType ==
  ASSUME TypeOK, NEW c \in Clicks, Clicking(c)
  PROVE  TypeOK'
<1>1. click[c] \in ClickState /\ file \in Rows /\ click[c].ids \subseteq DOMAIN click[c].snap
  BY DEF TypeOK, Located
<1>2. click[c].snap \in Rows /\ click[c].patch \in Patch
  BY <1>1 DEF ClickState
<1>3. ASSUME file' \in Rows, loose' \subseteq Ids,
             UNCHANGED <<nextId, now, filer, sched, landings, pilot, claims, crashes, launches>>,
             NEW s \in ClickState, s.ids \subseteq DOMAIN s.snap,
             click' = [click EXCEPT ![c] = s]
      PROVE  TypeOK'
  <2>1. /\ click' \in [Clicks -> ClickState]
        /\ \A d \in Clicks : click'[d].ids \subseteq DOMAIN click'[d].snap
    BY <1>3, ClickGoesOn
  <2> QED
    BY <1>3, <2>1 DEF TypeOK, Located
<1>4. CASE ClickReads(c)
  <2>1. PICK i \in DOMAIN file, patch \in Patches :
          click' = [click EXCEPT ![c] = [at |-> "update", ids |-> {i}, patch |-> patch,
                                         snap |-> file]]
    BY <1>4 DEF ClickReads
  <2> DEFINE s == [at |-> "update", ids |-> {i}, patch |-> patch, snap |-> file]
  <2>2. patch \in Patch
    BY FindingsAssumption DEF Patch
  <2>3. i \in Ids
    BY <1>1, RowsAre
  <2>4. s \in ClickState /\ s.ids \subseteq DOMAIN s.snap
    BY <1>1, <2>2, <2>3 DEF ClickState
  <2> QED
    BY <1>3, <1>4, <2>1, <2>4 DEF ClickReads, TypeOK
<1>5. CASE ClickWrites(c)
  <2>1. PICK i \in click[c].ids :
          /\ file' = With(click[c].snap, i, Patched(click[c].snap[i], click[c].patch))
          /\ loose' = loose \cup GivenBack(i, click[c].snap[i],
                                           Patched(click[c].snap[i], click[c].patch))
    BY <1>5 DEF ClickWrites
  <2>2. i \in DOMAIN click[c].snap /\ i \in Ids /\ click[c].snap[i] \in Row
    BY <1>1, <1>2, <2>1, RowsAre
  <2>3. Patched(click[c].snap[i], click[c].patch) \in Row
    BY <1>2, <2>2 DEF Patched, Patch, Row
  <2>4. file' \in Rows
    BY <1>2, <2>1, <2>2, <2>3, WithIsRows
  <2>5. loose' \subseteq Ids
    BY <2>1, <2>2 DEF GivenBack, TypeOK
  <2> DEFINE s == [ClickIdle EXCEPT !.at = "done"]
  <2>6. s \in ClickState /\ s.ids \subseteq DOMAIN s.snap
    BY ClickIdleIs DEF ClickState
  <2> QED
    BY <1>3, <1>5, <2>4, <2>5, <2>6 DEF ClickWrites
<1>6. CASE ClearReads(c)
  <2>1. PICK ids \in SUBSET {i \in DOMAIN file : file[i].status = "open"} :
          click' = [click EXCEPT ![c].at = "clear", ![c].ids = ids, ![c].snap = file]
    BY <1>6 DEF ClearReads
  <2> DEFINE s == [click[c] EXCEPT !.at = "clear", !.ids = ids, !.snap = file]
  <2>2. ids \in SUBSET DOMAIN file /\ ids \in SUBSET Ids
    BY <1>1, RowsAre
  <2>3. click' = [click EXCEPT ![c] = s]
    BY <2>1 DEF TypeOK
  <2>4. s \in ClickState /\ s.ids \subseteq DOMAIN s.snap
    BY <1>1, <2>2 DEF ClickState
  <2> QED
    BY <1>3, <1>6, <2>3, <2>4 DEF ClearReads, TypeOK
<1>7. CASE ClearWrites(c)
  <2> DEFINE rows == click[c].snap
  <2>1. DOMAIN rows \in SUBSET Ids /\ \A i \in DOMAIN rows : rows[i] \in Row
    BY <1>2, RowsAre
  <2>2. \A i \in DOMAIN rows : [rows[i] EXCEPT !.status = "dismissed"] \in Row
    BY <2>1 DEF Row, Status
  <2>3. file' \in [DOMAIN rows -> Row]
    BY <1>7, <2>1, <2>2 DEF ClearWrites
  <2>4. file' \in Rows
    BY <2>1, <2>3 DEF Rows
  <2> DEFINE s == [ClickIdle EXCEPT !.at = "done"]
  <2>5. s \in ClickState /\ s.ids \subseteq DOMAIN s.snap
    BY ClickIdleIs DEF ClickState
  <2> QED
    BY <1>3, <1>7, <2>4, <2>5 DEF ClearWrites, TypeOK
<1> QED
  BY <1>4, <1>5, <1>6, <1>7 DEF Clicking

\* The pass ends and may fire the autopilot's tick.
LEMMA PassEndsType ==
  ASSUME TypeOK, PassEnds, file' \in Rows,
         UNCHANGED <<nextId, now, filer, click, landings, claims, crashes, launches, loose>>
  PROVE  TypeOK'
<1>1. sched' \in SchedState /\ sched'.at = "idle"
  BY SchedIdleIs DEF PassEnds, SchedIdle
<1> DEFINE p == [PilotIdle EXCEPT !.at = "begin", !.time = sched.time]
<1>2. p \in PilotState /\ p.at = "begin" /\ p.snap = NoRows
  BY PilotIdleIs DEF TypeOK, PilotState, SchedState, PilotIdle
<1>3. pilot' = p \/ pilot' = pilot
  BY DEF PassEnds
<1> HIDE DEF p
<1>4. pilot' \in PilotState /\ (pilot'.at = "begin" \/ pilot' = pilot)
  BY <1>2, <1>3 DEF TypeOK
<1> QED
  BY <1>1, <1>4 DEF TypeOK, Located

LEMMA SchedType ==
  ASSUME TypeOK, SchedStep
  PROVE  TypeOK'
<1>1. sched \in SchedState /\ file \in Rows /\ sched.snap \in Rows
  BY DEF TypeOK, SchedState
<1>0. 0 \in 0 .. MaxRows
  BY FindingsAssumption
<1>2. ASSUME file' \in Rows, landings' \in 0 .. MaxLandings, sched' \in SchedState,
             sched'.at = "marking" => sched'.id \in DOMAIN sched'.snap,
             UNCHANGED <<nextId, now, filer, click, pilot, claims, crashes, launches, loose>>
      PROVE  TypeOK'
  BY <1>2 DEF TypeOK, Located
<1>3. CASE SchedStarts
  <2>1. PICK landed \in SUBSET {i \in DOMAIN file : file[i].status = "session"} :
          /\ landings + Cardinality(landed) <= MaxLandings
          /\ landings' = landings + Cardinality(landed)
          /\ sched' = [SchedIdle EXCEPT !.at = "land", !.todo = landed, !.time = now]
    BY <1>3 DEF SchedStarts
  <2>2. landed \in SUBSET Ids
    BY <1>1, RowsAre
  <2>3. IsFiniteSet(landed)
    <3>1. IsFiniteSet(1 .. MaxRows)
      BY FindingsAssumption, FS_Interval
    <3> QED
      BY <2>2, <3>1, FS_Subset DEF Ids
  <2>4. landings' \in 0 .. MaxLandings
    BY <2>1, <2>3, FS_CardinalityType, FindingsAssumption DEF TypeOK
  <2>5. sched' \in SchedState /\ sched'.at = "land"
    BY <2>1, <2>2, SchedIdleIs DEF SchedState, TypeOK
  <2> QED
    BY <1>2, <1>3, <2>4, <2>5 DEF SchedStarts, TypeOK
<1>4. CASE SchedReads
  <2>1. CASE sched.id \in DOMAIN file
    <3>1. sched' = [sched EXCEPT !.at = "marking", !.snap = file]
      BY <1>4, <2>1 DEF SchedReads
    <3>2. sched' \in SchedState /\ sched'.id \in DOMAIN sched'.snap
      BY <1>1, <2>1, <3>1 DEF SchedState
    <3> QED
      BY <1>2, <1>4, <3>2 DEF SchedReads, TypeOK
  <2>2. CASE sched.id \notin DOMAIN file
    <3>1. sched' = [sched EXCEPT !.at = "land", !.id = 0]
      BY <1>4, <2>2 DEF SchedReads
    <3>2. sched' \in SchedState /\ sched'.at = "land"
      BY <1>0, <1>1, <3>1 DEF SchedState
    <3> QED
      BY <1>2, <1>4, <3>2 DEF SchedReads, TypeOK
  <2> QED
    BY <2>1, <2>2
<1>5. CASE SchedMarks
  <2>1. sched.id \in DOMAIN sched.snap
    BY <1>5 DEF SchedMarks, TypeOK, Located
  <2>2. [sched.snap[sched.id] EXCEPT !.status = "fix-landed"] \in Row
    BY <1>1, <2>1, RowsAre DEF Row, Status
  <2>3. file' \in Rows
    BY <1>1, <1>5, <2>1, <2>2, WithIsRows DEF SchedMarks
  <2>4. sched' = [sched EXCEPT !.at = "land", !.id = 0, !.snap = NoRows]
    BY <1>5 DEF SchedMarks
  <2>5. sched' \in SchedState /\ sched'.at = "land"
    BY <1>0, <1>1, <2>4, NoRowsAreRows DEF SchedState
  <2> QED
    BY <1>2, <1>5, <2>3, <2>5 DEF SchedMarks, TypeOK
<1>6. CASE SchedReadsQuiet
  <2>1. PICK quiet \in SUBSET Landed(file) :
          IF quiet = {} THEN PassEnds
          ELSE /\ sched' = [sched EXCEPT !.at = "promote", !.todo = quiet, !.snap = file]
               /\ UNCHANGED pilot
    BY <1>6 DEF SchedReadsQuiet
  <2>2. CASE quiet = {}
    BY <1>1, <1>6, <2>1, <2>2, PassEndsType DEF SchedReadsQuiet
  <2>3. CASE quiet # {}
    <3>1. quiet \in SUBSET Ids
      BY <1>1, RowsAre DEF Landed
    <3>2. sched' \in SchedState /\ sched'.at = "promote"
      BY <1>1, <2>1, <2>3, <3>1 DEF SchedState
    <3> QED
      BY <1>1, <1>2, <1>6, <2>1, <2>3, <3>2 DEF SchedReadsQuiet, TypeOK
  <2> QED
    BY <2>2, <2>3
<1>7. CASE SchedPromotes
  <2>1. DOMAIN sched.snap \in SUBSET Ids /\ \A i \in DOMAIN sched.snap : sched.snap[i] \in Row
    BY <1>1, RowsAre
  <2>2. \A i \in DOMAIN sched.snap : [sched.snap[i] EXCEPT !.status = "resolved"] \in Row
    BY <2>1 DEF Row, Status
  <2>3. file' \in [DOMAIN sched.snap -> Row]
    BY <1>7, <2>1, <2>2 DEF SchedPromotes
  <2>4. file' \in Rows
    BY <2>1, <2>3 DEF Rows
  <2> QED
    BY <1>7, <2>4, PassEndsType DEF SchedPromotes
<1>8. ASSUME NEW i \in Ids, SchedLooks(i) PROVE TypeOK'
  <2>1. i \in 0 .. MaxRows
    BY FindingsAssumption DEF Ids
  <2> DEFINE there == i \in DOMAIN file /\ file[i].status = "session"
  <2>2. sched' = [sched EXCEPT !.todo = @ \ {i}, !.at = IF there THEN "mark" ELSE "land",
                               !.id = IF there THEN i ELSE 0]
    BY <1>8 DEF SchedLooks
  <2>3. sched' \in SchedState /\ sched'.at \in {"mark", "land"}
    BY <1>0, <1>1, <2>1, <2>2 DEF SchedState
  <2> QED
    BY <1>1, <1>2, <1>8, <2>3 DEF SchedLooks, TypeOK
<1> QED
  BY <1>3, <1>4, <1>5, <1>6, <1>7, <1>8 DEF SchedStep

LEMMA PilotType ==
  ASSUME TypeOK, PilotStep
  PROVE  TypeOK'
<1>1. /\ pilot \in PilotState /\ file \in Rows /\ pilot.snap \in Rows /\ pilot.todo \in Todo
      /\ pilot.time \in Times /\ 0 \in 0 .. MaxRows
  BY FindingsAssumption DEF TypeOK, PilotState
<1>2. /\ DOMAIN pilot.todo \in SUBSET Ids
      /\ \A i \in DOMAIN pilot.todo : pilot.todo[i] \in 0 .. MaxAttempts /\ i \in 0 .. MaxRows
  BY <1>1, TodoIs, FindingsAssumption DEF Ids
<1> DEFINE Dispatching == {"dispatch", "started", "refused", "linking", "counting"}
           Ready(p) ==
             /\ p.at \in {"reopen", "started", "refused", "linking", "counting"} =>
                  p.id \in DOMAIN p.todo
             /\ p.at \in {"reopen", "linking", "counting"} => p.id \in DOMAIN p.snap
             /\ p.at \in Dispatching => \A i \in DOMAIN p.todo : p.todo[i] < MaxAttempts
<1>3. Ready(pilot)
  BY DEF TypeOK, Located
<1>4. ASSUME file' \in Rows, pilot' \in PilotState, Ready(pilot'), loose' \subseteq Ids,
             claims' \in [Ids -> SUBSET (1 .. MaxAttempts)], launches' \in [Ids -> Seq(Times)],
             UNCHANGED <<nextId, now, filer, click, sched, landings, crashes>>
      PROVE  TypeOK'
  BY <1>4 DEF TypeOK, Located
<1>5. CASE PilotBegins
  <2>1. Stuck(file, pilot.time) \in SUBSET DOMAIN file
    BY DEF Stuck
  <2>2. Attempts(file, Stuck(file, pilot.time)) \in Todo
    BY <1>1, <2>1, AttemptsAreTodo
  <2>3. pilot' \in PilotState /\ pilot'.at = "stuck"
    BY <1>1, <1>5, <2>2 DEF PilotBegins, PilotState
  <2> QED
    BY <1>1, <1>4, <1>5, <2>3 DEF PilotBegins, TypeOK
<1>6. ASSUME NEW i \in Ids, PilotReadsStuck(i) PROVE TypeOK'
  <2>1. i \in DOMAIN pilot.todo /\ i \in 0 .. MaxRows
    BY <1>2, <1>6 DEF PilotReadsStuck
  <2>2. CASE i \in DOMAIN file
    <3>1. pilot' = [pilot EXCEPT !.at = "reopen", !.id = i, !.snap = file]
      BY <1>6, <2>2 DEF PilotReadsStuck
    <3>2. pilot' \in PilotState /\ Ready(pilot')
      BY <1>1, <2>1, <2>2, <3>1 DEF PilotState
    <3> QED
      BY <1>1, <1>4, <1>6, <3>2 DEF PilotReadsStuck, TypeOK
  <2>3. CASE i \notin DOMAIN file
    <3>1. pilot' = [pilot EXCEPT !.todo = Without(@, i)] /\ pilot.at = "stuck"
      BY <1>6, <2>3 DEF PilotReadsStuck
    <3>2. pilot' \in PilotState /\ pilot'.at = "stuck"
      BY <1>1, <3>1, WithoutIsTodo DEF PilotState
    <3> QED
      BY <1>1, <1>4, <1>6, <3>2 DEF PilotReadsStuck, TypeOK
  <2> QED
    BY <2>2, <2>3
<1>7. CASE PilotReopens
  <2> DEFINE i == pilot.id
             r == [pilot.snap[i] EXCEPT !.status = "open", !.human = pilot.todo[i] >= MaxAttempts]
  <2>1. i \in DOMAIN pilot.snap /\ i \in DOMAIN pilot.todo
    BY <1>3, <1>7 DEF PilotReopens
  <2>2. r \in Row /\ i \in Ids
    <3> DEFINE gaveUp == pilot.todo[i] >= MaxAttempts
    <3>1. gaveUp \in BOOLEAN
      OBVIOUS
    <3> HIDE DEF gaveUp
    <3>2. pilot.snap[i] \in Row /\ i \in Ids
      BY <1>1, <2>1, RowsAre
    <3>3. [pilot.snap[i] EXCEPT !.status = "open", !.human = gaveUp] \in Row
      BY <3>1, <3>2 DEF Row, Status
    <3> QED
      BY <3>2, <3>3 DEF gaveUp
  <2>3. file' = With(pilot.snap, i, r)
    BY <1>7 DEF PilotReopens
  <2>4. file' \in Rows
    BY <1>1, <2>1, <2>2, <2>3, WithIsRows
  <2>5. pilot' = [pilot EXCEPT !.at = "stuck", !.id = 0, !.snap = NoRows, !.todo = Without(@, i)]
    BY <1>7 DEF PilotReopens
  <2>6. pilot' \in PilotState /\ pilot'.at = "stuck"
    BY <1>1, <2>5, WithoutIsTodo, NoRowsAreRows DEF PilotState
  <2>7. loose' \subseteq Ids
    BY <1>7, <2>2 DEF PilotReopens, TypeOK
  <2> QED
    BY <1>4, <1>7, <2>4, <2>6, <2>7 DEF PilotReopens, TypeOK
<1>8. CASE PilotPicks
  <2>1. PICK S \in SUBSET Candidates(file) :
          pilot' = IF S = {} THEN PilotIdle
                   ELSE [pilot EXCEPT !.at = "dispatch", !.todo = Attempts(file, S)]
    BY <1>8 DEF PilotPicks
  <2>2. /\ Attempts(file, S) \in Todo /\ DOMAIN Attempts(file, S) = S
        /\ \A i \in S : Attempts(file, S)[i] < MaxAttempts
    <3>1. S \in SUBSET DOMAIN file /\ \A i \in S : file[i].attempts < MaxAttempts
      BY DEF Candidates
    <3> QED
      BY <1>1, <3>1, AttemptsAreTodo
  <2>3. [pilot EXCEPT !.at = "dispatch", !.todo = Attempts(file, S)] \in PilotState
    BY <1>1, <2>2 DEF PilotState
  <2>4. PilotIdle.at = "idle"
    BY DEF PilotIdle
  <2>5. pilot' \in PilotState /\ Ready(pilot')
    <3>1. CASE S = {}
      BY <2>1, <2>4, <3>1, PilotIdleIs
    <3>2. CASE S # {}
      BY <1>1, <2>1, <2>2, <2>3, <3>2 DEF PilotState
    <3> QED
      BY <3>1, <3>2
  <2> QED
    BY <1>1, <1>4, <1>8, <2>5 DEF PilotPicks, TypeOK
<1>9. ASSUME NEW i \in Ids, PilotPosts(i) PROVE TypeOK'
  <2>1. i \in DOMAIN pilot.todo /\ pilot.todo[i] + 1 \in 1 .. MaxAttempts
    BY <1>2, <1>3, <1>9, FindingsAssumption DEF PilotPosts
  <2>2. claims' \in [Ids -> SUBSET (1 .. MaxAttempts)]
    BY <1>9, <2>1 DEF PilotPosts, TypeOK
  <2>3. launches' \in [Ids -> Seq(Times)]
    <3>1. Append(launches[i], pilot.time) \in Seq(Times)
      BY <1>1 DEF TypeOK
    <3> QED
      BY <1>9, <3>1 DEF PilotPosts, TypeOK
  <2>4. PICK at \in {"started", "refused"} :
          pilot' = [pilot EXCEPT !.at = at, !.id = i] /\ pilot.at = "dispatch"
    BY <1>9 DEF PilotPosts
  <2>5. pilot' \in PilotState /\ Ready(pilot')
    BY <1>1, <1>2, <1>3, <2>1, <2>4 DEF PilotState
  <2> QED
    BY <1>1, <1>4, <1>9, <2>2, <2>3, <2>5 DEF PilotPosts, TypeOK
<1>10. ASSUME NEW i \in Ids, PilotRefused(i) PROVE TypeOK'
  <2>1. /\ pilot' = [pilot EXCEPT !.at = "refused", !.id = i] /\ pilot.at = "dispatch"
        /\ i \in DOMAIN pilot.todo
    BY <1>10 DEF PilotRefused
  <2>2. pilot' \in PilotState /\ Ready(pilot')
    BY <1>1, <1>2, <1>3, <2>1 DEF PilotState
  <2> QED
    BY <1>1, <1>4, <1>10, <2>2 DEF PilotRefused, TypeOK
<1>11. CASE PilotReads
  <2>1. CASE pilot.id \notin DOMAIN file
    <3>1. pilot' = [pilot EXCEPT !.at = "dispatch", !.id = 0, !.todo = Without(@, pilot.id)]
      BY <1>11, <2>1 DEF PilotReads
    <3>2. pilot' \in PilotState /\ pilot'.at = "dispatch" /\ pilot'.todo = Without(pilot.todo, pilot.id)
      BY <1>1, <3>1, WithoutIsTodo DEF PilotState
    <3>3. \A j \in DOMAIN Without(pilot.todo, pilot.id) :
            Without(pilot.todo, pilot.id)[j] < MaxAttempts
      <4>1. \A j \in DOMAIN pilot.todo : pilot.todo[j] < MaxAttempts
        BY <1>3, <1>11 DEF PilotReads
      <4>2. /\ DOMAIN Without(pilot.todo, pilot.id) = DOMAIN pilot.todo \ {pilot.id}
            /\ \A j \in DOMAIN pilot.todo \ {pilot.id} :
                 Without(pilot.todo, pilot.id)[j] = pilot.todo[j]
        BY <1>1, WithoutIsTodo
      <4> QED
        BY <4>1, <4>2
    <3> QED
      BY <1>1, <1>4, <1>11, <3>2, <3>3 DEF PilotReads, TypeOK
  <2>2. CASE pilot.id \in DOMAIN file
    <3>1. PICK at \in {"linking", "counting"} : pilot' = [pilot EXCEPT !.at = at, !.snap = file]
      BY <1>11, <2>2 DEF PilotReads
    <3>2. pilot' \in PilotState /\ Ready(pilot')
      BY <1>1, <1>3, <1>11, <2>2, <3>1 DEF PilotState, PilotReads
    <3> QED
      BY <1>1, <1>4, <1>11, <3>2 DEF PilotReads, TypeOK
  <2> QED
    BY <2>1, <2>2
<1>12. ASSUME pilot.at \in {"linking", "counting"}, NEW r \in Row, PilotWrites(r),
              loose' \subseteq Ids
       PROVE  TypeOK'
  <2>1. file' \in Rows
    BY <1>1, <1>3, <1>12, WithIsRows DEF PilotWrites
  <2>2. pilot' = [pilot EXCEPT !.at = "dispatch", !.id = 0, !.snap = NoRows,
                               !.todo = Without(@, pilot.id)]
    BY <1>12 DEF PilotWrites
  <2>3. pilot' \in PilotState /\ pilot'.at = "dispatch" /\ pilot'.todo = Without(pilot.todo, pilot.id)
    BY <1>1, <2>2, WithoutIsTodo, NoRowsAreRows DEF PilotState
  <2>4. \A j \in DOMAIN Without(pilot.todo, pilot.id) :
          Without(pilot.todo, pilot.id)[j] < MaxAttempts
    <3>1. \A j \in DOMAIN pilot.todo : pilot.todo[j] < MaxAttempts
      BY <1>3, <1>12
    <3>2. /\ DOMAIN Without(pilot.todo, pilot.id) = DOMAIN pilot.todo \ {pilot.id}
          /\ \A j \in DOMAIN pilot.todo \ {pilot.id} :
               Without(pilot.todo, pilot.id)[j] = pilot.todo[j]
      BY <1>1, WithoutIsTodo
    <3> QED
      BY <3>1, <3>2
  <2> QED
    BY <1>4, <1>12, <2>1, <2>3, <2>4 DEF PilotWrites, TypeOK
<1>13. ASSUME pilot.at \in {"linking", "counting"}
       PROVE  /\ pilot.id \in Ids /\ pilot.snap[pilot.id] \in Row
              /\ pilot.todo[pilot.id] + 1 \in 0 .. MaxAttempts
  <2>1. pilot.id \in DOMAIN pilot.snap /\ pilot.id \in DOMAIN pilot.todo
    BY <1>3, <1>13
  <2>2. pilot.todo[pilot.id] < MaxAttempts
    BY <1>3, <1>13, <2>1
  <2> QED
    BY <1>1, <1>2, <2>1, <2>2, RowsAre, FindingsAssumption
<1>14. CASE PilotLinks
  <2> DEFINE r == [pilot.snap[pilot.id] EXCEPT !.status = "session", !.lastAt = pilot.time,
                     !.attempts = pilot.todo[pilot.id] + 1]
  <2>1. pilot.at \in {"linking", "counting"}
    BY <1>14 DEF PilotLinks
  <2>2. r \in Row
    BY <1>1, <1>13, <2>1 DEF Row, Status
  <2>3. PilotWrites(r) /\ loose' \subseteq Ids
    BY <1>14 DEF PilotLinks, TypeOK
  <2> QED
    BY <1>12, <2>1, <2>2, <2>3
<1>15. CASE PilotCounts
  <2> DEFINE n == pilot.todo[pilot.id] + 1
             r == [pilot.snap[pilot.id] EXCEPT !.attempts = n, !.lastAt = pilot.time,
                     !.human = @ \/ n >= MaxAttempts]
  <2>1. pilot.at \in {"linking", "counting"}
    BY <1>15 DEF PilotCounts
  <2>2. r \in Row
    <3>1. (pilot.snap[pilot.id].human \/ n >= MaxAttempts) \in BOOLEAN
      OBVIOUS
    <3> HIDE DEF n
    <3>2. n \in 0 .. MaxAttempts
      BY <1>13, <2>1 DEF n
    <3> QED
      BY <1>1, <1>13, <2>1, <3>1, <3>2 DEF Row
  <2>3. PilotWrites(r) /\ loose' \subseteq Ids
    BY <1>13, <1>15, <2>1 DEF PilotCounts, TypeOK
  <2> QED
    BY <1>12, <2>1, <2>2, <2>3
<1>16. CASE PilotEnds
  <2>1. pilot' \in PilotState /\ pilot'.at = "idle"
    BY <1>16, PilotIdleIs DEF PilotEnds, PilotIdle
  <2> QED
    BY <1>1, <1>4, <1>16, <2>1 DEF PilotEnds, TypeOK
<1> QED
  BY <1>5, <1>6, <1>7, <1>8, <1>9, <1>10, <1>11, <1>14, <1>15, <1>16 DEF PilotStep

LEMMA CrashType ==
  ASSUME TypeOK, Crash
  PROVE  TypeOK'
<1>1. filer' \in [Filers -> FilerState] /\ \A f \in Filers : filer'[f].at \in {"idle", "done"}
  BY FilerIdleIs DEF Crash, TypeOK, FilerState
<1>2. /\ click' \in [Clicks -> ClickState]
      /\ \A c \in Clicks : click'[c].ids \subseteq DOMAIN click'[c].snap
  BY ClickIdleIs DEF Crash, TypeOK, ClickState, Located
<1>3. sched' \in SchedState /\ sched'.at = "idle" /\ pilot' \in PilotState /\ pilot'.at = "idle"
  BY SchedIdleIs, PilotIdleIs DEF Crash, SchedIdle, PilotIdle
<1>4. crashes' \in 0 .. MaxCrashes
  BY FindingsAssumption DEF Crash, TypeOK
<1> QED
  BY <1>1, <1>2, <1>3, <1>4 DEF Crash, TypeOK, Located

LEMMA InitType == Init => TypeOK
<1> SUFFICES ASSUME Init PROVE TypeOK
  OBVIOUS
<1>1. DOMAIN FirstTopics \in SUBSET Ids /\ \A i \in DOMAIN FirstTopics : FirstTopics[i] \in Topics
  BY FindingsAssumption DEF Ids
<1>2. \A topic \in Topics : NewRow(topic) \in Row
  BY FindingsAssumption DEF NewRow, Row, Status, Times
<1>3. file \in [DOMAIN FirstTopics -> Row]
  BY <1>1, <1>2 DEF Init
<1>4. file \in Rows
  BY <1>1, <1>3 DEF Rows
<1>5. nextId \in 1 .. MaxRows + 1 /\ now \in Times /\ landings \in 0 .. MaxLandings
      /\ crashes \in 0 .. MaxCrashes
  BY FindingsAssumption DEF Init, Times
<1>6. filer \in [Filers -> FilerState] /\ \A f \in Filers : filer[f].at = "idle"
  BY FilerIdleIs DEF Init, FilerIdle
<1>7. click \in [Clicks -> ClickState] /\ \A c \in Clicks : click[c].ids = {}
  BY ClickIdleIs DEF Init
<1>8. sched \in SchedState /\ sched.at = "idle" /\ pilot \in PilotState /\ pilot.at = "idle"
  BY SchedIdleIs, PilotIdleIs DEF Init, SchedIdle, PilotIdle
<1>9. /\ claims \in [Ids -> SUBSET (1 .. MaxAttempts)] /\ launches \in [Ids -> Seq(Times)]
      /\ loose \subseteq Ids
  BY DEF Init
<1> QED
  BY <1>4, <1>5, <1>6, <1>7, <1>8, <1>9 DEF TypeOK, Located

\* The types: every row that is written, and every key of a claim, is within bounds,
\* and whoever is about to write a row has it in what it read.
THEOREM TypeCorrect == Spec => []TypeOK
<1>1. TypeOK /\ [Next]_vars => TypeOK'
  <2> SUFFICES ASSUME TypeOK, [Next]_vars PROVE TypeOK'
    OBVIOUS
  <2>1. CASE UNCHANGED vars
    BY <2>1 DEF vars, TypeOK, Located
  <2>2. CASE Advance
    BY <2>2, FindingsAssumption DEF Advance, TypeOK, Located, Times
  <2> QED
    BY <2>1, <2>2, FilingType, ClickingType, SchedType, PilotType, CrashType DEF Next
<1> QED
  BY <1>1, InitType, PTL DEF Spec

-----------------------------------------------------------------------------
\* Sessions are bounded: the server starts one for each key of a claim.

Counted == \A i \in Ids : Len(launches[i]) = Cardinality(claims[i])

LEMMA PostCounted ==
  ASSUME TypeOK, Counted, NEW i \in Ids, PilotPosts(i)
  PROVE  Counted'
<1> DEFINE attempt == pilot.todo[i] + 1
<1>1. /\ claims[i] \in SUBSET (1 .. MaxAttempts) /\ IsFiniteSet(claims[i])
      /\ launches[i] \in Seq(Times) /\ pilot.time \in Times
  <2>1. IsFiniteSet(1 .. MaxAttempts)
    BY FindingsAssumption, FS_Interval
  <2> QED
    BY <2>1, FS_Subset DEF TypeOK, PilotState
<1>2. /\ claims'[i] = claims[i] \cup {attempt}
      /\ launches'[i] = IF attempt \in claims[i] THEN launches[i]
                        ELSE Append(launches[i], pilot.time)
      /\ \A j \in Ids \ {i} : claims'[j] = claims[j] /\ launches'[j] = launches[j]
  BY DEF PilotPosts, TypeOK
<1>3. Cardinality(claims[i] \cup {attempt}) =
        IF attempt \in claims[i] THEN Cardinality(claims[i]) ELSE Cardinality(claims[i]) + 1
  BY <1>1, FS_AddElement
<1>4. Len(Append(launches[i], pilot.time)) = Len(launches[i]) + 1
  BY <1>1
<1> QED
  BY <1>2, <1>3, <1>4 DEF Counted

\* Steps that start no session.
Quiet == UNCHANGED <<claims, launches>>

LEMMA StepsAreQuiet ==
  ASSUME [Next]_vars
  PROVE  Quiet \/ \E i \in Ids : PilotPosts(i)
<1>1. CASE UNCHANGED vars
  BY <1>1 DEF vars, Quiet
<1>2. ASSUME NEW f \in Filers, Filing(f) PROVE Quiet
  BY <1>2 DEF Filing, FilerStarts, FilerLooks, FilerRecurs, FilerReads, FilerAdds,
              FilerReadsToAttach, FilerAttaches, Quiet
<1>3. ASSUME NEW c \in Clicks, Clicking(c) PROVE Quiet
  BY <1>3 DEF Clicking, ClickReads, ClickWrites, ClearReads, ClearWrites, Quiet
<1>4. CASE SchedStep
  BY <1>4 DEF SchedStep, SchedStarts, SchedLooks, SchedReads, SchedMarks, SchedReadsQuiet,
              SchedPromotes, Quiet
<1>5. CASE PilotStep
  BY <1>5 DEF PilotStep, PilotBegins, PilotReadsStuck, PilotReopens, PilotPicks,
              PilotRefused, PilotReads, PilotLinks, PilotCounts, PilotWrites, PilotEnds, Quiet
<1>6. CASE Advance \/ Crash
  BY <1>6 DEF Advance, Crash, Quiet
<1> QED
  BY <1>1, <1>2, <1>3, <1>4, <1>5, <1>6 DEF Next

\* However many updates of a finding are lost, and however often the server restarts,
\* the autopilot starts at most MaxAttempts sessions for it.
THEOREM SessionsBoundedHolds == Spec => []SessionsBounded
<1>1. Init => Counted
  BY FS_EmptySet DEF Init, Counted
<1>2. TypeOK /\ Counted /\ [Next]_vars => Counted'
  <2>1. Counted /\ Quiet => Counted'
    BY DEF Counted, Quiet
  <2> QED
    BY <2>1, PostCounted, StepsAreQuiet
<1>3. TypeOK /\ Counted => SessionsBounded
  <2> SUFFICES ASSUME TypeOK, Counted, NEW i \in Ids PROVE Len(launches[i]) <= MaxAttempts
    BY DEF SessionsBounded
  <2>1. /\ IsFiniteSet(1 .. MaxAttempts) /\ Cardinality(1 .. MaxAttempts) = MaxAttempts
    BY FindingsAssumption, FS_Interval
  <2>2. claims[i] \in SUBSET (1 .. MaxAttempts)
    BY DEF TypeOK
  <2>3. Cardinality(claims[i]) <= Cardinality(1 .. MaxAttempts)
    BY <2>1, <2>2, FS_Subset
  <2> QED
    BY <2>1, <2>3 DEF Counted
<1> QED
  BY <1>1, <1>2, <1>3, TypeCorrect, PTL DEF Spec

-----------------------------------------------------------------------------
\* One session at a time

\* The time up to which the autopilot has looked: its tick's; if it rests, the one its
\* next tick will have at least, which is that of the pass under way, or now.
Mark == IF pilot.at # "idle" THEN pilot.time
        ELSE IF sched.at # "idle" THEN sched.time ELSE now

\* A pass is no older than the tick under way.
Timely ==
  /\ pilot.time <= now
  /\ sched.at # "idle" => pilot.time <= sched.time /\ sched.time <= now

\* What a version r of a row says of the launches l of its finding by the time t.
Truthful(r, l, t) ==
  /\ r.attempts <= Len(l)
  /\ r.attempts > 0 => l[r.attempts] <= r.lastAt
  /\ r.attempts > 0 /\ Eligible(r) => l[r.attempts] + Window <= t

Sound(rows, ls, lo, t) == \A i \in DOMAIN rows \ lo : Truthful(rows[i], ls[i], t)

\* The launches of a finding are in the past, a window apart.
Spaced(l, t) ==
  /\ \A a \in DOMAIN l : l[a] <= t
  /\ \A a, b \in DOMAIN l : a < b => l[b] - l[a] >= Window

\* The file and every version of it that somebody may write back.
Versions == {file, sched.snap, pilot.snap} \cup {filer[f].snap : f \in Filers}
            \cup {click[c].snap : c \in Clicks}

\* The tick goes on from attempts that were made and whose time was up.
Knows(p, ls, lo) ==
  \A i \in DOMAIN p.todo \ lo :
    /\ p.todo[i] <= Len(ls[i])
    /\ p.todo[i] > 0 => ls[i][p.todo[i]] + Window <= p.time
    /\ p.at \in {"stuck", "reopen"} => p.todo[i] > 0
    /\ p.at \in {"started", "linking"} /\ i = p.id => p.todo[i] + 1 <= Len(ls[i])

OneInv ==
  /\ Timely
  /\ \A i \in Ids \ loose : /\ claims[i] = 1 .. Len(launches[i])
                            /\ Spaced(launches[i], Mark)
  /\ \A rows \in Versions : Sound(rows, launches, loose, Mark)
  /\ Knows(pilot, launches, loose)

LEMMA VersionsAreRows == TypeOK => \A rows \in Versions : rows \in Rows
  BY DEF TypeOK, Versions, FilerState, ClickState, SchedState, PilotState

LEMMA MarkIsTime ==
  TypeOK => Mark \in Int /\ now \in Int /\ pilot.time \in Int /\ sched.time \in Int
  BY FindingsAssumption DEF TypeOK, Mark, PilotState, SchedState, Times

\* A version that is true stays true while time goes on and sessions are started.
LEMMA StaysSound ==
  ASSUME NEW rows \in Rows, NEW ls \in [Ids -> Seq(Times)], NEW ms \in [Ids -> Seq(Times)],
         NEW lo, NEW mo, NEW t \in Int, NEW u \in Int,
         lo \subseteq mo, t <= u,
         \A i \in Ids \ mo : /\ Len(ls[i]) <= Len(ms[i])
                             /\ \A a \in 1 .. Len(ls[i]) : ms[i][a] = ls[i][a],
         Sound(rows, ls, lo, t)
  PROVE  Sound(rows, ms, mo, u)
<1> SUFFICES ASSUME NEW i \in DOMAIN rows \ mo PROVE Truthful(rows[i], ms[i], u)
  BY DEF Sound
<1> DEFINE n == rows[i].attempts
<1>1. i \in Ids /\ rows[i] \in Row /\ Truthful(rows[i], ls[i], t)
  BY RowsAre DEF Sound
<1>2. n \in Nat /\ n <= Len(ls[i]) /\ Len(ls[i]) \in Nat /\ Len(ms[i]) \in Nat
  BY <1>1, FindingsAssumption DEF Row, Truthful
<1>3. n <= Len(ms[i])
  BY <1>1, <1>2
<1>4. n > 0 => ms[i][n] = ls[i][n] /\ ls[i][n] \in Int
  BY <1>1, <1>2, FindingsAssumption DEF Times
<1> QED
  BY <1>1, <1>3, <1>4, FindingsAssumption DEF Truthful

\* So does a version of it in which one row was updated truthfully.
LEMMA UpdateIsSound ==
  ASSUME NEW rows \in Rows, NEW i \in DOMAIN rows, NEW r \in Row, NEW ls, NEW lo, NEW mo,
         NEW t, lo \subseteq mo,
         Sound(rows, ls, lo, t), i \in mo \/ Truthful(r, ls[i], t)
  PROVE  Sound(With(rows, i, r), ls, mo, t)
  BY WithIsRows DEF Sound

\* An update that keeps the attempt and gives nothing back to the autopilot.
LEMMA KeepsTruth ==
  ASSUME NEW r, NEW q, NEW l, NEW t, Truthful(r, l, t),
         q.attempts = r.attempts, q.lastAt = r.lastAt,
         Eligible(q) /\ q.attempts > 0 => Eligible(r)
  PROVE  Truthful(q, l, t)
  BY DEF Truthful

\* A step that starts no session: what it must not do.
LEMMA QuietStep ==
  ASSUME TypeOK, TypeOK', OneInv, Quiet, loose \subseteq loose', Mark <= Mark',
         Timely', Knows(pilot', launches, loose'),
         Sound(file', launches, loose', Mark),
         Versions' \subseteq Versions \cup {file', NoRows}
  PROVE  OneInv'
<1>1. Mark \in Int /\ Mark' \in Int
  <2>1. (TypeOK => Mark \in Int)'
    BY MarkIsTime, PTL
  <2> QED
    BY <2>1, MarkIsTime
<1>2. launches \in [Ids -> Seq(Times)] /\ launches' = launches /\ claims' = claims
  BY DEF TypeOK, Quiet
<1>3. ASSUME NEW rows \in Versions' PROVE Sound(rows, launches', loose', Mark')
  <2>1. rows \in Rows
    BY VersionsAreRows, NoRowsAreRows DEF TypeOK
  <2>2. Sound(rows, launches, loose', Mark)
    <3>1. CASE rows \in Versions
      BY <3>1 DEF OneInv, Sound
    <3>2. CASE rows = NoRows
      BY <3>2, NoTodo DEF Sound
    <3> QED
      BY <1>3, <3>1, <3>2
  <2> QED
    BY <1>1, <1>2, <2>1, <2>2, StaysSound
<1>4. ASSUME NEW i \in Ids \ loose'
      PROVE  claims'[i] = 1 .. Len(launches'[i]) /\ Spaced(launches'[i], Mark')
  <2>1. claims[i] = 1 .. Len(launches[i]) /\ Spaced(launches[i], Mark)
    BY <1>4 DEF OneInv
  <2>2. \A a \in DOMAIN launches[i] : launches[i][a] \in Int
    BY <1>2, FindingsAssumption DEF Times
  <2> QED
    BY <1>1, <1>2, <2>1, <2>2 DEF Spaced
<1> QED
  BY <1>2, <1>3, <1>4 DEF OneInv

\* The pass has ended, goes on, or begins.
SchedGoesOn ==
  \/ sched'.at = "idle"
  \/ sched.at # "idle" /\ sched'.time = sched.time
  \/ sched'.time = now

\* A step of somebody else leaves the autopilot alone.
LEMMA AloneStep ==
  ASSUME TypeOK, TypeOK', OneInv, Quiet, loose \subseteq loose', UNCHANGED <<now, pilot>>,
         SchedGoesOn, Sound(file', launches, loose', Mark),
         Versions' \subseteq Versions \cup {file', NoRows}
  PROVE  OneInv'
<1>1. Timely /\ now \in Int /\ pilot.time \in Int /\ sched.time \in Int
  BY MarkIsTime DEF OneInv
<1>2. Mark <= Mark' /\ Timely'
  BY <1>1 DEF Mark, Timely, SchedGoesOn
<1>3. Knows(pilot', launches, loose')
  BY DEF OneInv, Knows
<1> QED
  BY <1>2, <1>3, QuietStep

LEMMA SchedStays == UNCHANGED sched => SchedGoesOn
  BY DEF SchedGoesOn

LEMMA FilingOne ==
  ASSUME TypeOK, TypeOK', OneInv, NEW f \in Filers, Filing(f)
  PROVE  OneInv'
<1> DEFINE snap == filer[f].snap
           i == filer[f].id
<1>1. snap \in Rows /\ snap \in Versions /\ file \in Versions /\ NoRows \in Rows
  BY NoRowsAreRows DEF TypeOK, FilerState, Versions
<1>2. Sound(snap, launches, loose, Mark) /\ Sound(file, launches, loose, Mark)
  BY <1>1 DEF OneInv
<1>3. Quiet /\ UNCHANGED <<now, click, sched, pilot>>
  BY DEF Filing, FilerStarts, FilerLooks, FilerRecurs, FilerReads, FilerAdds,
         FilerReadsToAttach, FilerAttaches, Quiet
<1>4. ASSUME \A g \in Filers : filer'[g].snap \in {filer[g].snap, file, NoRows}
      PROVE  Versions' \subseteq Versions \cup {file', NoRows}
  BY <1>3, <1>4 DEF Versions
<1>5. ASSUME NEW j, AfterFiling(f, j)
      PROVE  \A g \in Filers : filer'[g].snap \in {filer[g].snap, file, NoRows}
  <2>1. filer \in [Filers -> FilerState]
    BY DEF TypeOK
  <2> DEFINE s == [FilerIdle EXCEPT !.at = "done"]
             q == [FilerIdle EXCEPT !.at = "attach", !.id = j]
  <2>2. s.snap = NoRows /\ q.snap = NoRows
    BY DEF FilerIdle
  <2>3. filer' = [filer EXCEPT ![f] = s] \/ filer' = [filer EXCEPT ![f] = q]
    BY <1>5 DEF AfterFiling
  <2> HIDE DEF s, q
  <2> QED
    BY <2>1, <2>2, <2>3
<1>6. CASE FilerStarts(f) \/ FilerLooks(f) \/ FilerReads(f) \/ FilerReadsToAttach(f)
  <2>1. file' = file /\ loose' = loose
    BY <1>6 DEF FilerStarts, FilerLooks, FilerReads, FilerReadsToAttach
  <2>2. filer \in [Filers -> FilerState]
    BY DEF TypeOK
  <2>3. \A g \in Filers : filer'[g].snap \in {filer[g].snap, file, NoRows}
    <3>1. CASE FilerStarts(f)
      BY <2>2, <3>1 DEF FilerStarts, FilerState
    <3>2. CASE FilerLooks(f)
      BY <2>2, <3>2 DEF FilerLooks, FilerState
    <3>3. CASE FilerReads(f)
      BY <2>2, <3>3 DEF FilerReads, FilerState
    <3>4. CASE FilerReadsToAttach(f)
      BY <2>2, <3>4 DEF FilerReadsToAttach, FilerIdle, FilerState
    <3> QED
      BY <1>6, <3>1, <3>2, <3>3, <3>4
  <2> QED
    BY <1>2, <1>3, <1>4, <2>1, <2>3, AloneStep, SchedStays
<1>7. CASE FilerRecurs(f)
  <2> DEFINE r == snap[i]
             q == Recurred(r)
  <2>1. i \in DOMAIN snap
    BY <1>7 DEF FilerRecurs, TypeOK, Located
  <2>2. r \in Row
    BY <1>1, <2>1, RowsAre
  <2>3. q \in Row /\ q.attempts = r.attempts /\ q.lastAt = r.lastAt
    BY <2>2 DEF Row, Recurred, Status
  <2>4. /\ file' = With(snap, i, q) /\ loose' = loose \cup GivenBack(i, r, q)
        /\ AfterFiling(f, i)
    BY <1>7 DEF FilerRecurs
  <2>5. i \in loose' \/ Truthful(q, launches[i], Mark)
    <3>1. CASE i \in loose'
      BY <3>1
    <3>2. CASE i \notin loose'
      <4>1. Truthful(r, launches[i], Mark)
        BY <1>2, <2>1, <2>4, <3>2 DEF Sound
      <4>2. Eligible(q) /\ q.attempts > 0 => Eligible(r)
        BY <2>4, <3>2 DEF GivenBack
      <4> HIDE DEF q, r
      <4> QED
        BY <2>3, <4>1, <4>2, KeepsTruth
    <3> QED
      BY <3>1, <3>2
  <2>6. Sound(file', launches, loose', Mark)
    BY <1>1, <1>2, <2>1, <2>3, <2>4, <2>5, UpdateIsSound
  <2> QED
    BY <1>3, <1>4, <1>5, <2>4, <2>6, AloneStep, SchedStays
<1>8. CASE FilerAdds(f)
  <2>1. /\ file' = [j \in DOMAIN snap \cup {nextId} |->
                      IF j \in DOMAIN snap THEN snap[j] ELSE NewRow(filer[f].topic)]
        /\ loose' = loose /\ AfterFiling(f, nextId)
        /\ nextId \in Ids
    BY <1>8, FindingsAssumption DEF FilerAdds, TypeOK, Ids
  <2>2. Truthful(NewRow(filer[f].topic), launches[nextId], Mark)
    BY <2>1 DEF Truthful, NewRow, TypeOK
  <2>3. Sound(file', launches, loose', Mark)
    BY <1>2, <2>1, <2>2 DEF Sound
  <2> QED
    BY <1>3, <1>4, <1>5, <2>1, <2>3, AloneStep, SchedStays
<1>9. CASE FilerAttaches(f)
  <2> DEFINE r == snap[i]
             q == [r EXCEPT !.status = "session"]
  <2>1. i \in DOMAIN snap
    BY <1>9 DEF FilerAttaches, TypeOK, Located
  <2>2. r \in Row /\ q \in Row /\ q.attempts = r.attempts /\ q.lastAt = r.lastAt /\ ~Eligible(q)
    BY <1>1, <2>1, RowsAre DEF Row, Status, Eligible
  <2>3. /\ file' = With(snap, i, q) /\ loose' = loose
        /\ \A g \in Filers : filer'[g].snap \in {filer[g].snap, file, NoRows}
    BY <1>9 DEF FilerAttaches, FilerIdle, TypeOK
  <2>4. i \in loose \/ Truthful(q, launches[i], Mark)
    <3>1. i \in loose \/ Truthful(r, launches[i], Mark)
      BY <1>2, <2>1 DEF Sound
    <3> HIDE DEF q, r
    <3> QED
      BY <2>2, <3>1, KeepsTruth
  <2>5. Sound(file', launches, loose', Mark)
    BY <1>1, <1>2, <2>1, <2>2, <2>3, <2>4, UpdateIsSound
  <2> QED
    BY <1>3, <1>4, <2>3, <2>5, AloneStep, SchedStays
<1> QED
  BY <1>6, <1>7, <1>8, <1>9 DEF Filing

LEMMA ClickingOne ==
  ASSUME TypeOK, TypeOK', OneInv, NEW c \in Clicks, Clicking(c)
  PROVE  OneInv'
<1> DEFINE snap == click[c].snap
<1>1. snap \in Rows /\ snap \in Versions /\ file \in Versions /\ click[c].patch \in Patch
  BY DEF TypeOK, ClickState, Versions
<1>2. Sound(snap, launches, loose, Mark) /\ Sound(file, launches, loose, Mark)
  BY <1>1 DEF OneInv
<1>3. Quiet /\ UNCHANGED <<now, filer, sched, pilot>>
  BY DEF Clicking, ClickReads, ClickWrites, ClearReads, ClearWrites, Quiet
<1>4. Versions' \subseteq Versions \cup {file', NoRows}
  <2>1. click \in [Clicks -> ClickState]
    BY DEF TypeOK
  <2>2. \A d \in Clicks : click'[d].snap \in {click[d].snap, file, NoRows}
    <3>1. CASE ClickReads(c)
      BY <2>1, <3>1 DEF ClickReads, ClickState
    <3>2. CASE ClickWrites(c) \/ ClearWrites(c)
      BY <2>1, <3>2 DEF ClickWrites, ClearWrites, ClickIdle, ClickState
    <3>3. CASE ClearReads(c)
      BY <2>1, <3>3 DEF ClearReads, ClickState
    <3> QED
      BY <3>1, <3>2, <3>3 DEF Clicking
  <2> QED
    BY <1>3, <2>2 DEF Versions
<1>5. CASE ClickReads(c) \/ ClearReads(c)
  <2>1. file' = file /\ loose' = loose
    BY <1>5 DEF ClickReads, ClearReads
  <2> QED
    BY <1>2, <1>3, <1>4, <2>1, AloneStep, SchedStays
<1>6. CASE ClickWrites(c)
  <2>1. PICK i \in click[c].ids :
          /\ file' = With(snap, i, Patched(snap[i], click[c].patch))
          /\ loose' = loose \cup GivenBack(i, snap[i], Patched(snap[i], click[c].patch))
    BY <1>6 DEF ClickWrites
  <2> DEFINE r == snap[i]
             q == Patched(r, click[c].patch)
  <2>2. i \in DOMAIN snap /\ r \in Row
    BY <1>1, <2>1, RowsAre DEF TypeOK, Located
  <2>3. q \in Row /\ q.attempts = r.attempts /\ q.lastAt = r.lastAt
    BY <1>1, <2>2 DEF Patched, Patch, Row
  <2>4. i \in loose' \/ Truthful(q, launches[i], Mark)
    <3>1. CASE i \in loose'
      BY <3>1
    <3>2. CASE i \notin loose'
      <4>1. Truthful(r, launches[i], Mark)
        BY <1>2, <2>1, <2>2, <3>2 DEF Sound
      <4>2. Eligible(q) /\ q.attempts > 0 => Eligible(r)
        BY <2>1, <3>2 DEF GivenBack
      <4> HIDE DEF q, r
      <4> QED
        BY <2>3, <4>1, <4>2, KeepsTruth
    <3> QED
      BY <3>1, <3>2
  <2>5. Sound(file', launches, loose', Mark)
    BY <1>1, <1>2, <2>1, <2>2, <2>3, <2>4, UpdateIsSound
  <2> QED
    BY <1>3, <1>4, <2>1, <2>5, AloneStep, SchedStays
<1>7. CASE ClearWrites(c)
  <2>1. /\ file' = [i \in DOMAIN snap |-> IF i \in click[c].ids
                                          THEN [snap[i] EXCEPT !.status = "dismissed"]
                                          ELSE snap[i]]
        /\ loose' = loose
    BY <1>7 DEF ClearWrites
  <2>2. ASSUME NEW i \in DOMAIN snap \ loose PROVE Truthful(file'[i], launches[i], Mark)
    <3>1. Truthful(snap[i], launches[i], Mark) /\ snap[i] \in Row
      BY <1>1, <1>2, RowsAre DEF Sound
    <3>2. /\ file'[i].attempts = snap[i].attempts /\ file'[i].lastAt = snap[i].lastAt
          /\ Eligible(file'[i]) => Eligible(snap[i])
      BY <2>1, <3>1 DEF Row, Eligible
    <3> QED
      BY <3>1, <3>2, KeepsTruth
  <2>3. Sound(file', launches, loose', Mark)
    BY <2>1, <2>2 DEF Sound
  <2> QED
    BY <1>3, <1>4, <2>1, <2>3, AloneStep, SchedStays
<1> QED
  BY <1>5, <1>6, <1>7 DEF Clicking

\* The pass ends and may fire the autopilot's tick, with the time at which it began.
LEMMA PassEndsOne ==
  ASSUME TypeOK, TypeOK', OneInv, PassEnds, Quiet, UNCHANGED <<now, filer, click, loose>>,
         sched.at # "idle", Sound(file', launches, loose, Mark)
  PROVE  OneInv'
<1>1. sched'.snap = NoRows /\ sched'.at = "idle"
  BY DEF PassEnds, SchedIdle
<1>2. CASE pilot' = pilot
  <2>1. Versions' \subseteq Versions \cup {file', NoRows}
    BY <1>1, <1>2 DEF Versions
  <2> QED
    BY <1>1, <1>2, <2>1, AloneStep DEF SchedGoesOn
<1>3. CASE pilot' # pilot
  <2>1. pilot.at = "idle" /\ pilot' = [PilotIdle EXCEPT !.at = "begin", !.time = sched.time]
    BY <1>3 DEF PassEnds
  <2>2. /\ pilot'.at = "begin" /\ pilot'.time = sched.time
        /\ pilot'.snap = NoRows /\ pilot'.todo = NoRows
    BY <2>1 DEF PilotIdle
  <2>3. Mark' = Mark /\ Mark <= Mark' /\ Timely'
    BY <1>1, <2>1, <2>2, MarkIsTime DEF Mark, Timely, OneInv
  <2>4. Knows(pilot', launches, loose')
    BY <2>2, NoTodo DEF Knows
  <2>5. Versions' \subseteq Versions \cup {file', NoRows}
    BY <1>1, <2>2 DEF Versions
  <2> QED
    BY <2>3, <2>4, <2>5, QuietStep
<1> QED
  BY <1>2, <1>3

LEMMA SchedOne ==
  ASSUME TypeOK, TypeOK', OneInv, SchedStep
  PROVE  OneInv'
<1> DEFINE snap == sched.snap
<1>1. snap \in Rows /\ snap \in Versions /\ file \in Versions /\ sched \in SchedState
  BY DEF TypeOK, SchedState, Versions
<1>2. Sound(snap, launches, loose, Mark) /\ Sound(file, launches, loose, Mark)
  BY <1>1 DEF OneInv
<1>3. Quiet /\ UNCHANGED <<now, filer, click, loose>>
  BY DEF SchedStep, SchedStarts, SchedLooks, SchedReads, SchedMarks, SchedReadsQuiet,
         SchedPromotes, Quiet
<1>4. ASSUME UNCHANGED pilot, sched'.snap \in {snap, file, NoRows}, SchedGoesOn,
             Sound(file', launches, loose, Mark)
      PROVE  OneInv'
  <2>1. Versions' \subseteq Versions \cup {file', NoRows}
    BY <1>3, <1>4 DEF Versions
  <2> QED
    BY <1>3, <1>4, <2>1, AloneStep
<1>5. CASE SchedStarts
  <2>1. sched'.snap = NoRows /\ sched'.time = now
    BY <1>5 DEF SchedStarts, SchedIdle
  <2> QED
    BY <1>2, <1>4, <1>5, <2>1 DEF SchedStarts, SchedGoesOn
<1>6. ASSUME NEW i \in Ids, SchedLooks(i) PROVE OneInv'
  <2>1. sched'.snap = snap /\ sched'.time = sched.time /\ sched.at # "idle"
    BY <1>1, <1>6 DEF SchedLooks, SchedState
  <2> QED
    BY <1>2, <1>4, <1>6, <2>1 DEF SchedLooks, SchedGoesOn
<1>7. CASE SchedReads
  <2>1. sched'.snap \in {snap, file} /\ sched'.time = sched.time /\ sched.at # "idle"
    BY <1>1, <1>7 DEF SchedReads, SchedState
  <2> QED
    BY <1>2, <1>4, <1>7, <2>1 DEF SchedReads, SchedGoesOn
<1>8. CASE SchedMarks
  <2> DEFINE i == sched.id
             r == snap[i]
             q == [r EXCEPT !.status = "fix-landed"]
  <2>1. i \in DOMAIN snap
    BY <1>8 DEF SchedMarks, TypeOK, Located
  <2>2. r \in Row /\ q \in Row /\ q.attempts = r.attempts /\ q.lastAt = r.lastAt /\ ~Eligible(q)
    BY <1>1, <2>1, RowsAre DEF Row, Status, Eligible
  <2>3. /\ file' = With(snap, i, q) /\ UNCHANGED pilot /\ sched'.snap = NoRows
        /\ sched'.time = sched.time /\ sched.at # "idle"
    BY <1>1, <1>8 DEF SchedMarks, SchedState
  <2>4. i \in loose \/ Truthful(q, launches[i], Mark)
    <3>1. i \in loose \/ Truthful(r, launches[i], Mark)
      BY <1>2, <2>1 DEF Sound
    <3> HIDE DEF q, r
    <3> QED
      BY <2>2, <3>1, KeepsTruth
  <2>5. Sound(file', launches, loose, Mark)
    BY <1>1, <1>2, <2>1, <2>2, <2>3, <2>4, UpdateIsSound
  <2> QED
    BY <1>4, <2>3, <2>5 DEF SchedGoesOn
<1>9. CASE SchedReadsQuiet
  <2>1. file' = file /\ sched.at # "idle"
    BY <1>9 DEF SchedReadsQuiet
  <2>2. CASE PassEnds
    BY <1>2, <1>3, <2>1, <2>2, PassEndsOne
  <2>3. CASE ~PassEnds
    <3>1. PICK quiet : sched' = [sched EXCEPT !.at = "promote", !.todo = quiet, !.snap = file]
                       /\ UNCHANGED pilot
      BY <1>9, <2>3 DEF SchedReadsQuiet
    <3>2. sched'.snap = file /\ sched'.time = sched.time
      BY <1>1, <3>1 DEF SchedState
    <3> QED
      BY <1>2, <1>4, <2>1, <3>1, <3>2 DEF SchedGoesOn
  <2> QED
    BY <2>2, <2>3
<1>10. CASE SchedPromotes
  <2>1. /\ file' = [i \in DOMAIN snap |-> IF i \in sched.todo
                                          THEN [snap[i] EXCEPT !.status = "resolved"]
                                          ELSE snap[i]]
        /\ PassEnds /\ sched.at # "idle"
    BY <1>10 DEF SchedPromotes
  <2>2. ASSUME NEW i \in DOMAIN snap \ loose PROVE Truthful(file'[i], launches[i], Mark)
    <3>1. Truthful(snap[i], launches[i], Mark) /\ snap[i] \in Row
      BY <1>1, <1>2, RowsAre DEF Sound
    <3>2. /\ file'[i].attempts = snap[i].attempts /\ file'[i].lastAt = snap[i].lastAt
          /\ Eligible(file'[i]) => Eligible(snap[i])
      BY <2>1, <3>1 DEF Row, Eligible
    <3> QED
      BY <3>1, <3>2, KeepsTruth
  <2>3. Sound(file', launches, loose, Mark)
    BY <2>1, <2>2 DEF Sound
  <2> QED
    BY <1>3, <2>1, <2>3, PassEndsOne
<1> QED
  BY <1>5, <1>6, <1>7, <1>8, <1>9, <1>10 DEF SchedStep

\* One finding less to do.
LEMMA KnowsTheRest ==
  ASSUME NEW p, p.todo \in Todo, NEW q, NEW ls, NEW lo, NEW mo, lo \subseteq mo, NEW i,
         q.todo = Without(p.todo, i), q.time = p.time,
         q.at \in {"stuck", "dispatch"}, q.at = "stuck" => p.at \in {"stuck", "reopen"},
         Knows(p, ls, lo)
  PROVE  Knows(q, ls, mo)
<1> SUFFICES ASSUME NEW j \in DOMAIN q.todo \ mo
             PROVE  /\ q.todo[j] <= Len(ls[j])
                    /\ q.todo[j] > 0 => ls[j][q.todo[j]] + Window <= q.time
                    /\ q.at = "stuck" => q.todo[j] > 0
  BY DEF Knows
<1>1. j \in DOMAIN p.todo \ lo /\ q.todo[j] = p.todo[j]
  <2> DEFINE w == Without(p.todo, i)
  <2>1. DOMAIN w = DOMAIN p.todo \ {i} /\ \A k \in DOMAIN p.todo \ {i} : w[k] = p.todo[k]
    BY WithoutIsTodo
  <2>2. q.todo = w
    OBVIOUS
  <2> HIDE DEF w
  <2> QED
    BY <2>1, <2>2
<1> QED
  BY <1>1 DEF Knows

\* The server starts a session, or answers with the one it made under the key.
LEMMA PostOne ==
  ASSUME TypeOK, TypeOK', OneInv, NEW i \in Ids, PilotPosts(i)
  PROVE  OneInv'
<1> DEFINE todo == pilot.todo
           n == todo[i] + 1
           l == launches[i]
<1>1. /\ pilot.at = "dispatch" /\ i \in DOMAIN todo
      /\ claims' = [claims EXCEPT ![i] = @ \cup {n}]
      /\ launches' = IF n \in claims[i] THEN launches
                     ELSE [launches EXCEPT ![i] = Append(@, pilot.time)]
      /\ \E at \in {"started", "refused"} : pilot' = [pilot EXCEPT !.at = at, !.id = i]
      /\ UNCHANGED <<file, now, filer, click, sched, loose>>
  BY DEF PilotPosts
<1>2. /\ pilot \in PilotState /\ todo \in Todo /\ pilot.time \in Times /\ pilot.time \in Int
      /\ launches \in [Ids -> Seq(Times)] /\ launches' \in [Ids -> Seq(Times)]
      /\ claims \in [Ids -> SUBSET (1 .. MaxAttempts)]
  BY FindingsAssumption DEF TypeOK, PilotState, Times
<1>3. /\ pilot' \in PilotState /\ pilot'.at \in {"started", "refused"} /\ pilot'.id = i
      /\ pilot'.todo = todo /\ pilot'.time = pilot.time /\ pilot'.snap = pilot.snap
  BY <1>1, <1>2 DEF TypeOK, PilotState
<1>4. Mark = pilot.time /\ Mark' = Mark /\ Timely'
  BY <1>1, <1>3 DEF Mark, Timely, OneInv
<1>5. /\ todo[i] \in Nat /\ n \in Nat /\ n >= 1 /\ Len(l) \in Nat
      /\ \A a \in 1 .. Len(l) : l[a] \in Int
  <2>1. todo[i] \in 0 .. MaxAttempts
    BY <1>1, <1>2, TodoIs
  <2>2. l \in Seq(Times)
    BY <1>2
  <2>3. Len(l) \in Nat /\ \A a \in 1 .. Len(l) : l[a] \in Times
    BY <2>2
  <2> QED
    BY <2>1, <2>3, FindingsAssumption DEF Times
<1>6. ASSUME i \notin loose
      PROVE  /\ claims'[i] = 1 .. Len(launches'[i]) /\ Spaced(launches'[i], Mark)
             /\ Len(l) <= Len(launches'[i])
             /\ \A a \in 1 .. Len(l) : launches'[i][a] = l[a]
             /\ n <= Len(launches'[i])
  <2>1. claims[i] = 1 .. Len(l) /\ Spaced(l, Mark)
    BY <1>6 DEF OneInv
  <2>2. todo[i] <= Len(l) /\ (todo[i] > 0 => l[todo[i]] + Window <= pilot.time)
    BY <1>1, <1>6 DEF OneInv, Knows
  <2>3. CASE n \in claims[i]
    <3>1. launches' = launches /\ claims'[i] = claims[i] /\ n <= Len(l)
      BY <1>1, <1>2, <2>1, <2>3
    <3> QED
      BY <2>1, <3>1
  <2>4. CASE n \notin claims[i]
    <3>1. n = Len(l) + 1
      BY <1>5, <2>1, <2>2, <2>4
    <3>2. launches'[i] = Append(l, pilot.time) /\ claims'[i] = claims[i] \cup {n}
      BY <1>1, <1>2, <2>4
    <3>3. /\ Len(launches'[i]) = n /\ DOMAIN launches'[i] = 1 .. n
          /\ \A a \in 1 .. Len(l) : launches'[i][a] = l[a]
          /\ launches'[i][n] = pilot.time
      BY <1>2, <3>1, <3>2
    <3>4. claims'[i] = 1 .. n
      BY <1>5, <2>1, <3>1, <3>2
    <3>5. Spaced(launches'[i], Mark)
      <4>1. \A a \in 1 .. n : launches'[i][a] <= Mark
        <5>1. \A a \in 1 .. Len(l) : l[a] <= Mark
          BY <1>2, <2>1 DEF Spaced
        <5>2. \A a \in 1 .. n : a = n \/ a \in 1 .. Len(l)
          BY <1>5, <3>1
        <5>3. pilot.time <= Mark
          BY <1>2, <1>4
        <5> QED
          BY <3>3, <5>1, <5>2, <5>3
      <4>2. \A a \in 1 .. Len(l) : pilot.time - l[a] >= Window
        <5> SUFFICES ASSUME NEW a \in 1 .. Len(l) PROVE pilot.time - l[a] >= Window
          OBVIOUS
        <5>1. Len(l) \in 1 .. Len(l) /\ l[Len(l)] + Window <= pilot.time
          BY <1>5, <2>2, <3>1
        <5>2. a = Len(l) \/ l[Len(l)] - l[a] >= Window
          BY <1>2, <1>5, <2>1, <5>1 DEF Spaced
        <5>3. l[a] \in Int /\ l[Len(l)] \in Int /\ pilot.time \in Int /\ Window \in Nat
          BY <1>2, <1>5, <5>1, FindingsAssumption
        <5> HIDE DEF l
        <5> QED
          BY <5>1, <5>2, <5>3
      <4>3. ASSUME NEW a \in 1 .. n, NEW b \in 1 .. n, a < b
            PROVE  launches'[i][b] - launches'[i][a] >= Window
        <5>1. a \in 1 .. Len(l) /\ (b = n \/ b \in 1 .. Len(l))
          BY <1>5, <3>1, <4>3
        <5>2. b \in 1 .. Len(l) => l[b] - l[a] >= Window
          BY <1>2, <2>1, <4>3, <5>1 DEF Spaced
        <5> QED
          BY <3>3, <4>2, <5>1, <5>2
      <4> QED
        BY <3>3, <4>1, <4>3 DEF Spaced
    <3> QED
      BY <1>5, <3>1, <3>3, <3>4, <3>5
  <2> QED
    BY <2>3, <2>4
<1>7. \A j \in Ids \ {i} : launches'[j] = launches[j] /\ claims'[j] = claims[j]
  BY <1>1, <1>2
<1>8. ASSUME NEW j \in Ids \ loose
      PROVE  /\ claims'[j] = 1 .. Len(launches'[j]) /\ Spaced(launches'[j], Mark)
             /\ Len(launches[j]) <= Len(launches'[j])
             /\ \A a \in 1 .. Len(launches[j]) : launches'[j][a] = launches[j][a]
  <2>1. CASE j = i
    BY <1>6, <1>8, <2>1
  <2>2. CASE j # i
    <3>1. Len(launches[j]) <= Len(launches[j])
      BY <1>2
    <3> QED
      BY <1>7, <1>8, <2>2, <3>1 DEF OneInv
  <2> QED
    BY <2>1, <2>2
<1>9. ASSUME NEW rows \in Versions' PROVE Sound(rows, launches', loose', Mark')
  <2>1. rows \in Versions
    BY <1>1, <1>3 DEF Versions
  <2>2. rows \in Rows /\ Sound(rows, launches, loose, Mark) /\ Mark \in Int /\ Mark <= Mark
    BY <2>1, VersionsAreRows, MarkIsTime DEF OneInv
  <2>3. Sound(rows, launches', loose, Mark)
    BY <1>2, <1>8, <2>2, StaysSound
  <2> QED
    BY <1>1, <1>4, <2>3
<1>10. Knows(pilot', launches', loose')
  <2> SUFFICES ASSUME NEW j \in DOMAIN todo \ loose
               PROVE  /\ todo[j] <= Len(launches'[j])
                      /\ todo[j] > 0 => launches'[j][todo[j]] + Window <= pilot.time
                      /\ j = i => todo[j] + 1 <= Len(launches'[j])
    BY <1>1, <1>3 DEF Knows
  <2>1. j \in Ids /\ todo[j] \in Nat
    BY <1>2, TodoIs, FindingsAssumption
  <2>2. todo[j] <= Len(launches[j]) /\ (todo[j] > 0 => launches[j][todo[j]] + Window <= pilot.time)
    BY DEF OneInv, Knows
  <2>3. Len(launches[j]) \in Nat /\ Len(launches'[j]) \in Nat
    BY <1>2, <2>1
  <2>4. /\ Len(launches[j]) <= Len(launches'[j])
        /\ todo[j] > 0 => launches'[j][todo[j]] = launches[j][todo[j]]
    BY <1>8, <2>1, <2>2, <2>3
  <2>5. j = i => todo[j] + 1 <= Len(launches'[j])
    BY <1>6
  <2> QED
    BY <2>1, <2>2, <2>3, <2>4, <2>5
<1> QED
  BY <1>1, <1>3, <1>4, <1>8, <1>9, <1>10 DEF OneInv

\* The autopilot's other steps.
LEMMA PilotOne ==
  ASSUME TypeOK, TypeOK', OneInv, PilotStep
  PROVE  OneInv'
<1> DEFINE todo == pilot.todo
           snap == pilot.snap
           i == pilot.id
<1>1. /\ pilot \in PilotState /\ todo \in Todo /\ snap \in Rows /\ file \in Rows
      /\ pilot.time \in Int /\ snap \in Versions /\ file \in Versions
      /\ \A j \in Ids : launches[j] \in Seq(Times)
  BY FindingsAssumption DEF TypeOK, PilotState, Times, Versions
<1>2. Sound(snap, launches, loose, Mark) /\ Sound(file, launches, loose, Mark)
  BY <1>1 DEF OneInv
<1>3. Timely /\ Knows(pilot, launches, loose) /\ now \in Int /\ sched.time \in Int
  BY MarkIsTime DEF OneInv
<1>4. /\ DOMAIN todo \in SUBSET Ids /\ \A j \in DOMAIN todo : todo[j] \in Nat
      /\ DOMAIN file \in SUBSET Ids /\ \A j \in DOMAIN file : file[j] \in Row
  BY <1>1, TodoIs, RowsAre, FindingsAssumption
<1>5. ASSUME Quiet, UNCHANGED <<now, filer, click, sched>>, loose \subseteq loose',
             pilot.at # "idle", pilot'.at # "idle", pilot'.time = pilot.time,
             pilot'.snap \in {snap, file, NoRows},
             Knows(pilot', launches, loose'), Sound(file', launches, loose', Mark)
      PROVE  OneInv'
  <2>1. Mark <= Mark' /\ Timely'
    BY <1>1, <1>3, <1>5 DEF Mark, Timely
  <2>2. Versions' \subseteq Versions \cup {file', NoRows}
    BY <1>5 DEF Versions
  <2> QED
    BY <1>5, <2>1, <2>2, QuietStep
<1>6. ASSUME Quiet, UNCHANGED <<file, now, filer, click, sched, loose>>,
             pilot.at # "idle", pilot' = PilotIdle
      PROVE  OneInv'
  <2>1. pilot'.at = "idle" /\ pilot'.time = 0 /\ pilot'.snap = NoRows /\ pilot'.todo = NoRows
    BY <1>6 DEF PilotIdle
  <2>2. Mark <= Mark' /\ Timely'
    <3>1. 0 <= pilot.time
      BY FindingsAssumption DEF TypeOK, PilotState, Times
    <3> QED
      BY <1>1, <1>3, <1>6, <2>1, <3>1 DEF Mark, Timely
  <2>3. Knows(pilot', launches, loose')
    BY <2>1, NoTodo DEF Knows
  <2>4. Versions' \subseteq Versions \cup {file', NoRows}
    BY <1>6, <2>1 DEF Versions
  <2> QED
    BY <1>2, <1>6, <2>2, <2>3, <2>4, QuietStep
<1>7. CASE PilotBegins
  <2> DEFINE S == Stuck(file, pilot.time)
  <2>1. /\ pilot.at = "begin" /\ pilot' = [pilot EXCEPT !.at = "stuck", !.todo = Attempts(file, S)]
        /\ Quiet /\ UNCHANGED <<file, now, filer, click, sched, loose>>
    BY <1>7 DEF PilotBegins, Quiet
  <2>2. pilot'.at = "stuck" /\ pilot'.time = pilot.time /\ pilot'.snap = snap
        /\ pilot'.todo = Attempts(file, S)
    BY <1>1, <2>1 DEF PilotState
  <2>3. S \in SUBSET DOMAIN file
    BY DEF Stuck
  <2>4. DOMAIN Attempts(file, S) = S /\ \A j \in S : Attempts(file, S)[j] = file[j].attempts
    BY <1>1, <2>3, AttemptsAreTodo
  <2>5. Knows(pilot', launches, loose)
    <3> SUFFICES ASSUME NEW j \in S \ loose
                 PROVE  /\ file[j].attempts <= Len(launches[j]) /\ file[j].attempts > 0
                        /\ launches[j][file[j].attempts] + Window <= pilot.time
      BY <2>2, <2>4 DEF Knows
    <3> DEFINE n == file[j].attempts
    <3>1. /\ j \in Ids /\ file[j] \in Row /\ Truthful(file[j], launches[j], Mark)
          /\ n > 0 /\ pilot.time - file[j].lastAt >= Window
      BY <1>2, <1>4, <2>3 DEF Stuck, Piloted, Sound
    <3>2. n \in Nat /\ n <= Len(launches[j]) /\ launches[j][n] <= file[j].lastAt
      BY <3>1, FindingsAssumption DEF Truthful, Row
    <3>3. launches[j][n] \in Int /\ file[j].lastAt \in Int
      <4>1. launches[j] \in Seq(Times) /\ n \in 1 .. Len(launches[j])
        BY <1>1, <3>1, <3>2
      <4>2. launches[j][n] \in Times
        BY <4>1
      <4> QED
        BY <3>1, <4>2, FindingsAssumption DEF Times, Row
    <3>4. \A x, y, t \in Int : x <= y /\ t - y >= Window => x + Window <= t
      BY FindingsAssumption
    <3>5. launches[j][n] + Window <= pilot.time
      BY <1>1, <3>1, <3>2, <3>3, <3>4
    <3> QED
      BY <3>1, <3>2, <3>5
  <2> QED
    BY <1>2, <1>5, <2>1, <2>2, <2>5
<1>8. ASSUME NEW j \in Ids, PilotReadsStuck(j) PROVE OneInv'
  <2>1. pilot.at = "stuck" /\ Quiet /\ UNCHANGED <<file, now, filer, click, sched, loose>>
    BY <1>8 DEF PilotReadsStuck, Quiet
  <2>2. CASE j \in DOMAIN file
    <3>1. pilot' = [pilot EXCEPT !.at = "reopen", !.id = j, !.snap = file]
      BY <1>8, <2>2 DEF PilotReadsStuck
    <3>2. pilot'.at = "reopen" /\ pilot'.time = pilot.time /\ pilot'.snap = file /\ pilot'.todo = todo
      BY <1>1, <3>1 DEF PilotState
    <3>3. Knows(pilot', launches, loose)
      BY <1>3, <2>1, <3>2 DEF Knows
    <3> QED
      BY <1>2, <1>5, <2>1, <3>2, <3>3
  <2>3. CASE j \notin DOMAIN file
    <3>1. pilot' = [pilot EXCEPT !.todo = Without(@, j)]
      BY <1>8, <2>3 DEF PilotReadsStuck
    <3>2. pilot'.at = "stuck" /\ pilot'.time = pilot.time /\ pilot'.snap = snap
          /\ pilot'.todo = Without(todo, j)
      BY <1>1, <2>1, <3>1 DEF PilotState
    <3>3. Knows(pilot', launches, loose)
      BY <1>1, <1>3, <2>1, <3>2, KnowsTheRest
    <3> QED
      BY <1>2, <1>5, <2>1, <3>2, <3>3
  <2> QED
    BY <2>2, <2>3
<1>9. CASE PilotReopens
  <2> DEFINE r == snap[i]
             q == [r EXCEPT !.status = "open", !.human = todo[i] >= MaxAttempts]
  <2>1. /\ pilot.at = "reopen" /\ file' = With(snap, i, q)
        /\ pilot' = [pilot EXCEPT !.at = "stuck", !.id = 0, !.snap = NoRows, !.todo = Without(@, i)]
        /\ loose' = IF r.attempts = todo[i] THEN loose ELSE loose \cup {i}
        /\ Quiet /\ UNCHANGED <<now, filer, click, sched>>
    BY <1>9 DEF PilotReopens, Quiet
  <2>2. i \in DOMAIN snap /\ i \in DOMAIN todo
    BY <2>1 DEF TypeOK, Located
  <2>3. r \in Row
    BY <1>1, <2>2, RowsAre
  <2>4. q \in Row /\ q.attempts = r.attempts /\ q.lastAt = r.lastAt
    <3> DEFINE gaveUp == todo[i] >= MaxAttempts
    <3>1. gaveUp \in BOOLEAN
      OBVIOUS
    <3> HIDE DEF gaveUp
    <3> DEFINE p == [r EXCEPT !.status = "open", !.human = gaveUp]
    <3>2. p \in Row /\ p.attempts = r.attempts /\ p.lastAt = r.lastAt
      BY <2>3, <3>1 DEF Row, Status
    <3> QED
      BY <3>2 DEF gaveUp
  <2>5. pilot'.at = "stuck" /\ pilot'.time = pilot.time /\ pilot'.snap = NoRows
        /\ pilot'.todo = Without(todo, i)
    BY <1>1, <2>1 DEF PilotState
  <2>6. Knows(pilot', launches, loose')
    <3>1. loose \subseteq loose' /\ pilot.at = "reopen"
      BY <2>1
    <3> QED
      BY <1>1, <1>3, <2>5, <3>1, KnowsTheRest
  <2>7. i \in loose' \/ Truthful(q, launches[i], Mark)
    <3> SUFFICES ASSUME i \notin loose' PROVE Truthful(q, launches[i], Mark)
      OBVIOUS
    <3>1. r.attempts = todo[i] /\ i \notin loose
      BY <2>1
    <3>2. Truthful(r, launches[i], Mark)
      BY <1>2, <2>2, <3>1 DEF Sound
    <3>3. launches[i][todo[i]] + Window <= pilot.time
      BY <1>3, <2>1, <2>2, <3>1 DEF Knows
    <3>4. Mark = pilot.time
      BY <2>1 DEF Mark
    <3> HIDE DEF q, r
    <3> QED
      BY <2>4, <3>1, <3>2, <3>3, <3>4 DEF Truthful
  <2>8. Sound(file', launches, loose', Mark)
    BY <1>1, <1>2, <2>1, <2>2, <2>4, <2>7, UpdateIsSound
  <2> QED
    BY <1>5, <2>1, <2>5, <2>6, <2>8
<1>10. CASE PilotPicks
  <2>1. /\ pilot.at = "stuck" /\ Quiet /\ UNCHANGED <<file, now, filer, click, sched, loose>>
    BY <1>10 DEF PilotPicks, Quiet
  <2>2. PICK S \in SUBSET Candidates(file) :
          pilot' = IF S = {} THEN PilotIdle
                   ELSE [pilot EXCEPT !.at = "dispatch", !.todo = Attempts(file, S)]
    BY <1>10 DEF PilotPicks
  <2>3. CASE S = {}
    BY <1>6, <2>1, <2>2, <2>3
  <2>4. CASE S # {}
    <3>1. pilot'.at = "dispatch" /\ pilot'.time = pilot.time /\ pilot'.snap = snap
          /\ pilot'.todo = Attempts(file, S)
      BY <1>1, <2>2, <2>4 DEF PilotState
    <3>2. S \in SUBSET DOMAIN file /\ \A j \in S : Eligible(file[j])
      BY DEF Candidates
    <3>3. DOMAIN Attempts(file, S) = S /\ \A j \in S : Attempts(file, S)[j] = file[j].attempts
      BY <1>1, <3>2, AttemptsAreTodo
    <3>4. Mark = pilot.time
      BY <2>1 DEF Mark
    <3>5. Knows(pilot', launches, loose)
      <4> SUFFICES ASSUME NEW j \in S \ loose
                   PROVE  /\ file[j].attempts <= Len(launches[j])
                          /\ file[j].attempts > 0 =>
                               launches[j][file[j].attempts] + Window <= pilot.time
        BY <3>1, <3>3 DEF Knows
      <4> QED
        BY <1>2, <3>2, <3>4 DEF Sound, Truthful
    <3> QED
      BY <1>2, <1>5, <2>1, <3>1, <3>5
  <2> QED
    BY <2>3, <2>4
<1>11. ASSUME NEW j \in Ids, PilotRefused(j) PROVE OneInv'
  <2>1. /\ pilot.at = "dispatch" /\ pilot' = [pilot EXCEPT !.at = "refused", !.id = j]
        /\ Quiet /\ UNCHANGED <<file, now, filer, click, sched, loose>>
    BY <1>11 DEF PilotRefused, Quiet
  <2>2. pilot'.at = "refused" /\ pilot'.time = pilot.time /\ pilot'.snap = snap /\ pilot'.todo = todo
    BY <1>1, <2>1 DEF PilotState
  <2>3. Knows(pilot', launches, loose)
    BY <1>3, <2>2 DEF Knows
  <2> QED
    BY <1>2, <1>5, <2>1, <2>2, <2>3
<1>12. CASE PilotReads
  <2>1. /\ pilot.at \in {"started", "refused"}
        /\ Quiet /\ UNCHANGED <<file, now, filer, click, sched, loose>>
    BY <1>12 DEF PilotReads, Quiet
  <2>2. CASE i \notin DOMAIN file
    <3>1. pilot' = [pilot EXCEPT !.at = "dispatch", !.id = 0, !.todo = Without(@, i)]
      BY <1>12, <2>2 DEF PilotReads
    <3>2. pilot'.at = "dispatch" /\ pilot'.time = pilot.time /\ pilot'.snap = snap
          /\ pilot'.todo = Without(todo, i)
      BY <1>1, <3>1 DEF PilotState
    <3>3. Knows(pilot', launches, loose)
      BY <1>1, <1>3, <3>2, KnowsTheRest
    <3> QED
      BY <1>2, <1>5, <2>1, <3>2, <3>3
  <2>3. CASE i \in DOMAIN file
    <3>1. pilot' = [pilot EXCEPT !.at = IF @ = "started" THEN "linking" ELSE "counting",
                                 !.snap = file]
      BY <1>12, <2>3 DEF PilotReads
    <3>2. /\ pilot'.at = IF pilot.at = "started" THEN "linking" ELSE "counting"
          /\ pilot'.time = pilot.time /\ pilot'.snap = file /\ pilot'.todo = todo /\ pilot'.id = i
      BY <1>1, <3>1 DEF PilotState
    <3>3. Knows(pilot', launches, loose)
      BY <1>3, <2>1, <3>2 DEF Knows
    <3> QED
      BY <1>2, <1>5, <2>1, <3>2, <3>3
  <2> QED
    BY <2>2, <2>3
<1>13. ASSUME pilot.at \in {"linking", "counting"}, NEW q \in Row, PilotWrites(q),
              loose \subseteq loose', i \in loose' \/ Truthful(q, launches[i], Mark)
       PROVE  OneInv'
  <2>1. /\ file' = With(snap, i, q)
        /\ pilot' = [pilot EXCEPT !.at = "dispatch", !.id = 0, !.snap = NoRows, !.todo = Without(@, i)]
        /\ Quiet /\ UNCHANGED <<now, filer, click, sched>>
    BY <1>13 DEF PilotWrites, Quiet
  <2>2. i \in DOMAIN snap
    BY <1>13 DEF TypeOK, Located
  <2>3. pilot'.at = "dispatch" /\ pilot'.time = pilot.time /\ pilot'.snap = NoRows
        /\ pilot'.todo = Without(todo, i)
    BY <1>1, <2>1 DEF PilotState
  <2>4. Knows(pilot', launches, loose')
    BY <1>1, <1>3, <1>13, <2>3, KnowsTheRest
  <2>5. Sound(file', launches, loose', Mark)
    BY <1>1, <1>2, <1>13, <2>1, <2>2, UpdateIsSound
  <2> QED
    BY <1>5, <1>13, <2>1, <2>3, <2>4, <2>5
<1>14. ASSUME pilot.at \in {"linking", "counting"}
       PROVE  /\ i \in DOMAIN todo /\ i \in Ids /\ snap[i] \in Row
              /\ todo[i] + 1 \in 0 .. MaxAttempts /\ pilot.time \in Times
  <2>1. i \in DOMAIN snap /\ i \in DOMAIN todo /\ todo[i] < MaxAttempts
    BY <1>14 DEF TypeOK, Located
  <2>2. pilot.time \in Times
    BY <1>1 DEF PilotState
  <2> QED
    BY <1>1, <1>4, <2>1, <2>2, RowsAre, FindingsAssumption
<1>15. CASE PilotLinks
  <2> DEFINE n == todo[i] + 1
             q == [snap[i] EXCEPT !.status = "session", !.lastAt = pilot.time, !.attempts = n]
  <2>1. pilot.at = "linking" /\ PilotWrites(q) /\ loose' = loose
    BY <1>15 DEF PilotLinks
  <2>2. q \in Row /\ q.attempts = n /\ q.lastAt = pilot.time /\ ~Eligible(q)
    <3>1. n \in 0 .. MaxAttempts /\ pilot.time \in Times /\ snap[i] \in Row
      BY <1>14, <2>1
    <3> HIDE DEF n
    <3> QED
      BY <3>1 DEF Row, Status, Eligible
  <2>3. i \in loose \/ Truthful(q, launches[i], Mark)
    <3> SUFFICES ASSUME i \notin loose PROVE Truthful(q, launches[i], Mark)
      OBVIOUS
    <3>1. n <= Len(launches[i]) /\ n >= 1 /\ n \in Nat
      BY <1>3, <1>4, <1>14, <2>1 DEF Knows
    <3>2. Spaced(launches[i], Mark) /\ Mark = pilot.time
      BY <1>14, <2>1 DEF OneInv, Mark
    <3>3. launches[i][n] <= pilot.time
      <4>1. launches[i] \in Seq(Times)
        BY <1>1, <1>14, <2>1
      <4>2. n \in DOMAIN launches[i]
        BY <3>1, <4>1
      <4> QED
        BY <3>2, <4>2 DEF Spaced
    <3> HIDE DEF n, q
    <3> QED
      BY <2>2, <3>1, <3>3 DEF Truthful
  <2> HIDE DEF q
  <2> QED
    BY <1>13, <2>1, <2>2, <2>3
<1>16. CASE PilotCounts
  <2> DEFINE n == todo[i] + 1
             q == [snap[i] EXCEPT !.attempts = n, !.lastAt = pilot.time,
                     !.human = @ \/ n >= MaxAttempts]
  <2>1. pilot.at = "counting" /\ PilotWrites(q) /\ loose' = loose \cup {i}
    BY <1>16 DEF PilotCounts
  <2>2. q \in Row
    <3>1. n \in 0 .. MaxAttempts /\ pilot.time \in Times /\ snap[i] \in Row
      BY <1>14, <2>1
    <3>2. (snap[i].human \/ n >= MaxAttempts) \in BOOLEAN
      OBVIOUS
    <3> HIDE DEF n
    <3> QED
      BY <3>1, <3>2 DEF Row
  <2> HIDE DEF q
  <2> QED
    BY <1>13, <2>1, <2>2
<1>17. CASE PilotEnds
  <2>1. /\ pilot.at # "idle" /\ pilot' = PilotIdle
        /\ Quiet /\ UNCHANGED <<file, now, filer, click, sched, loose>>
    BY <1>17 DEF PilotEnds, Quiet
  <2> QED
    BY <1>6, <2>1
<1> QED
  BY <1>7, <1>8, <1>9, <1>10, <1>11, <1>12, <1>15, <1>16, <1>17, PostOne DEF PilotStep

LEMMA AdvanceOne ==
  ASSUME TypeOK, TypeOK', OneInv, Advance
  PROVE  OneInv'
<1>1. /\ now' = now + 1 /\ Quiet /\ UNCHANGED <<file, filer, click, sched, pilot, loose>>
  BY DEF Advance, Quiet
<1>2. Mark <= Mark' /\ Timely'
  BY <1>1, MarkIsTime DEF Mark, Timely, OneInv
<1>3. Knows(pilot', launches, loose') /\ Sound(file', launches, loose', Mark)
  BY <1>1 DEF OneInv, Versions
<1>4. Versions' \subseteq Versions \cup {file', NoRows}
  BY <1>1 DEF Versions
<1> QED
  BY <1>1, <1>2, <1>3, <1>4, QuietStep

LEMMA CrashOne ==
  ASSUME TypeOK, TypeOK', OneInv, Crash
  PROVE  OneInv'
<1>1. /\ sched' = SchedIdle /\ pilot' = PilotIdle /\ Quiet /\ UNCHANGED <<file, now, loose>>
      /\ \A f \in Filers : filer'[f].snap \in {filer[f].snap, NoRows}
      /\ \A c \in Clicks : click'[c].snap \in {click[c].snap, NoRows}
  BY DEF Crash, Quiet, FilerIdle, ClickIdle
<1>2. sched'.snap = NoRows /\ pilot'.snap = NoRows /\ pilot'.at = "idle" /\ pilot'.time = 0
      /\ pilot'.todo = NoRows /\ sched'.at = "idle"
  BY <1>1 DEF SchedIdle, PilotIdle
<1>3. Mark <= Mark' /\ Timely'
  BY <1>1, <1>2, MarkIsTime, FindingsAssumption DEF Mark, Timely, OneInv, TypeOK, Times
<1>4. Knows(pilot', launches, loose') /\ Sound(file', launches, loose', Mark)
  BY <1>1, <1>2, NoTodo DEF Knows, OneInv, Versions
<1>5. Versions' \subseteq Versions \cup {file', NoRows}
  BY <1>1, <1>2 DEF Versions
<1> QED
  BY <1>1, <1>3, <1>4, <1>5, QuietStep

LEMMA InitOne == Init => OneInv
<1> SUFFICES ASSUME Init PROVE OneInv
  OBVIOUS
<1>1. \A i \in Ids : claims[i] = 1 .. Len(launches[i]) /\ Spaced(launches[i], Mark)
  BY DEF Init, Spaced
<1>2. Timely /\ Knows(pilot, launches, loose)
  BY NoTodo, FindingsAssumption DEF Init, PilotIdle, SchedIdle, Timely, Knows
<1>3. Sound(NoRows, launches, loose, Mark)
  BY NoTodo DEF Sound
<1>4. Sound(file, launches, loose, Mark)
  <2>1. \A i \in DOMAIN FirstTopics : launches[i] = <<>> /\ file[i].attempts = 0
    BY FindingsAssumption DEF Init, NewRow, Ids
  <2> QED
    BY <2>1 DEF Init, Sound, Truthful
<1>5. Versions \subseteq {file, NoRows}
  BY DEF Init, Versions, FilerIdle, ClickIdle, SchedIdle, PilotIdle
<1> QED
  BY <1>1, <1>2, <1>3, <1>4, <1>5 DEF OneInv

\* Whatever updates are lost and wherever the server restarts, the autopilot starts a
\* second session of a finding only a window after the first, but for the findings
\* that were given back to it, counted as refused, or reopened for another attempt.
THEOREM OneSessionHolds == Spec => []OneSessionAtATime
<1>1. TypeOK /\ TypeOK' /\ OneInv /\ [Next]_vars => OneInv'
  <2> SUFFICES ASSUME TypeOK, TypeOK', OneInv, [Next]_vars PROVE OneInv'
    OBVIOUS
  <2>1. CASE UNCHANGED vars
    BY <2>1 DEF vars, OneInv, Mark, Timely, Versions
  <2> QED
    BY <2>1, FilingOne, ClickingOne, SchedOne, PilotOne, AdvanceOne, CrashOne DEF Next
<1>2. OneInv => OneSessionAtATime
  BY DEF OneInv, Spaced, OneSessionAtATime
<1> QED
  BY <1>1, <1>2, InitOne, TypeCorrect, PTL DEF Spec

===============================================================================
