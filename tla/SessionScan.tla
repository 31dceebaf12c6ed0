------------------------------ MODULE SessionScan ------------------------------
(***************************************************************************)
(* What the session list promises its readers (the comments of             *)
(* src/src/session-cache.ts), without saying how it keeps the promise.     *)
(*                                                                         *)
(* A scan (listSessions) takes seconds and looks at each row at some       *)
(* moment of its own, so its result is any set between the rows listed all *)
(* the time it ran and the rows listed at some time.  A `window' follows   *)
(* those two sets over an interval.  An invalidation says that a change is *)
(* complete; a reader who asks after it gets the list as it was at some    *)
(* time since then.                                                        *)
(***************************************************************************)
EXTENDS Integers

CONSTANTS
  Rows,      \* sessions that may be listed
  Slots,     \* scans that may run at the same time
  Readers,   \* callers of get()
  MaxTime    \* bound: the clock

ASSUME ScanAssumption == MaxTime \in Nat

VARIABLES
  now,       \* Date.now()
  world,     \* the rows a scan would list now
  settled,   \* the window since the last invalidation
  scans,     \* the scans in progress
  latest,    \* the newest scan that finished
  reader     \* the callers

scanVars == <<now, world, settled, scans, latest, reader>>

Window == [sure : SUBSET Rows, maybe : SUBSET Rows]
From(w) == [sure |-> w, maybe |-> w]
Through(win, w) == [sure |-> win.sure \cap w, maybe |-> win.maybe \cup w]
Seen(win) == {S \in SUBSET Rows : win.sure \subseteq S /\ S \subseteq win.maybe}

Time == 0..MaxTime
NoScan == [on |-> FALSE, startedAt |-> 0, win |-> From({})]
NoLatest == [known |-> FALSE, startedAt |-> 0, rows |-> {}]
Idle == [state |-> "idle", win |-> From({}), ans |-> {}]

ScanTypeOK ==
  /\ now \in Time
  /\ world \subseteq Rows
  /\ settled \in Window
  /\ scans \in [Slots -> [on : BOOLEAN, startedAt : Time, win : Window]]
  /\ latest \in [known : BOOLEAN, startedAt : Time, rows : SUBSET Rows]
  /\ reader \in [Readers -> [state : {"idle", "waiting", "done"}, win : Window,
                             ans : SUBSET Rows]]

ScanInit ==
  /\ now = 0
  /\ world = {}
  /\ settled = From({})
  /\ scans = [s \in Slots |-> NoScan]
  /\ latest = NoLatest
  /\ reader = [r \in Readers |-> Idle]

-----------------------------------------------------------------------------

Tick ==
  /\ now < MaxTime
  /\ now' = now + 1
  /\ UNCHANGED <<world, settled, scans, latest, reader>>

\* The scans in progress, once the list is w.
ScansThrough(w) ==
  [s \in Slots |-> IF scans[s].on THEN [scans[s] EXCEPT !.win = Through(@, w)] ELSE scans[s]]

\* The list changes: every window that is open takes note.
Change(w) ==
  /\ world' = w
  /\ settled' = Through(settled, w)
  /\ scans' = ScansThrough(w)
  /\ reader' = [r \in Readers |->
       IF reader[r].state = "waiting"
       THEN [reader[r] EXCEPT !.win = Through(@, w)] ELSE reader[r]]
  /\ UNCHANGED <<now, latest>>

Invalidate ==
  /\ settled' = From(world)
  /\ UNCHANGED <<now, world, scans, latest, reader>>

Begin(s) ==
  /\ ~scans[s].on
  /\ scans' = [scans EXCEPT ![s] = [on |-> TRUE, startedAt |-> now, win |-> From(world)]]

\* Only a scan that began no earlier than the newest one replaces it.
Adopt(s, S) ==
  latest' = IF latest.known /\ latest.startedAt > scans[s].startedAt
            THEN latest
            ELSE [known |-> TRUE, startedAt |-> scans[s].startedAt, rows |-> S]

Waiting(r) == reader[r].state = "waiting"
Waits(win) == [state |-> "waiting", win |-> win, ans |-> {}]
Answered(win, S) == [state |-> "done", win |-> win, ans |-> S]

\* get(): an answer at once, or a wait for a scan, which it may have to begin.
Ask(r) ==
  /\ ~Waiting(r)
  /\ \/ \E S \in Seen(settled) : reader' = [reader EXCEPT ![r] = Answered(settled, S)] /\ UNCHANGED scans
     \/ /\ reader' = [reader EXCEPT ![r] = Waits(settled)]
        /\ UNCHANGED scans \/ \E s \in Slots : Begin(s)
  /\ UNCHANGED <<now, world, settled, latest>>

\* A scan begun without a caller.
Start(s) == Begin(s) /\ UNCHANGED <<now, world, settled, latest, reader>>

\* A scan ends, with a result or with an error; some readers get their answer.
Finish(s) ==
  /\ scans[s].on
  /\ scans' = [scans EXCEPT ![s] = NoScan]
  /\ \/ \E S \in Seen(scans[s].win) : Adopt(s, S)
     \/ UNCHANGED latest
  /\ \E R \in SUBSET {r \in Readers : Waiting(r)} :
       \/ \E S \in SUBSET Rows :
            /\ \A r \in R : S \in Seen(reader[r].win)
            /\ reader' = [r \in Readers |-> IF r \in R THEN Answered(reader[r].win, S) ELSE reader[r]]
       \/ reader' = [r \in Readers |-> IF r \in R THEN Idle ELSE reader[r]]
  /\ UNCHANGED <<now, world, settled>>

ScanNext ==
  \/ Tick
  \/ \E w \in SUBSET Rows : Change(w)
  \/ Invalidate
  \/ \E r \in Readers : Ask(r)
  \/ \E s \in Slots : Start(s) \/ Finish(s)

ScanSpec == ScanInit /\ [][ScanNext]_scanVars

-----------------------------------------------------------------------------

\* A reader who asks after an invalidation sees every row that was listed all the
\* time since, and no row that was listed at no time since: a change that was
\* announced before the call is never missing from the answer.
AnswerIsCurrent == \A r \in Readers : reader[r].state = "done" => reader[r].ans \in Seen(reader[r].win)

\* latest() never goes back to an older scan.
LatestMovesForward ==
  [][latest.known => latest'.known /\ latest'.startedAt >= latest.startedAt]_scanVars

=============================================================================
