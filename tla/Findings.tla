------------------------------ MODULE Findings ------------------------------
(***************************************************************************)
(* The findings of the auto agents: one file that every writer reads whole *)
(* and writes whole, with awaits in between and no lock (auto/store.ts).   *)
(*                                                                         *)
(* The writers are the runs of auto agents and the reports of client       *)
(* errors (filers), people and sessions who change a finding (clicks), the *)
(* scheduler's pass that looks for landed fixes (sched) and the autopilot, *)
(* which starts a session for each open finding (pilot).  A step is what   *)
(* runs between two awaits, so a write puts back the file as its writer    *)
(* read it, whatever was written in between: every row is some version     *)
(* that was once written, but an update of it may be lost.  The question   *)
(* is what the autopilot still keeps over such a file and over crashes.    *)
(*                                                                         *)
(* Titles that the recurrence match takes for the same problem of the same *)
(* agent are one topic.  A time stands for the steps of a coarse clock.    *)
(***************************************************************************)
EXTENDS Integers, Sequences, FiniteSets

CONSTANTS
  Topics,         \* what a finding is about: agent and normalized title
  Filers,         \* runs of auto agents and reports of client errors
  Clicks,         \* requests and commands that change findings
  Patches,        \* what such a request may set: a status, needsHuman
  FirstTopics,    \* the open findings in the file at the start
  MaxRows,        \* bound: findings ever filed
  MaxAttempts,    \* autopilot.json: dispatches per finding
  MaxConcurrent,  \* autopilot.json: sessions in flight at once
  Window,         \* inFlightMs, in steps of the clock
  MaxNow,         \* bound: steps of the clock
  MaxLandings,    \* bound: fixes that land
  MaxCalls,       \* bound: runs, reports and requests of a behaviour
  MaxCrashes      \* bound: restarts of the server

Ids == 1 .. MaxRows
Times == 0 .. MaxNow
Status == {"open", "dismissed", "session", "read", "resolved", "fix-landed"}
Unresolved == Status \ {"resolved"}
Keep == "keep"    \* a field that a patch does not mention

Row == [topic : Topics, status : Status, attempts : 0 .. MaxAttempts,
        lastAt : Times, human : BOOLEAN]
Rows == UNION {[S -> Row] : S \in SUBSET Ids}
NoRows == [i \in {} |-> FALSE]

ASSUME FindingsAssumption ==
  /\ MaxRows \in Nat /\ MaxNow \in Nat /\ MaxCrashes \in Nat /\ MaxCalls \in Nat
  /\ MaxLandings \in Nat
  /\ MaxAttempts \in Nat \ {0} /\ MaxConcurrent \in Nat
  /\ Window \in Nat \ {0}
  /\ Patches \subseteq [status : (Status \ {"fix-landed"}) \cup {Keep},
                        human : {"yes", "no", Keep}]
  /\ Topics # {} /\ FirstTopics \in Seq(Topics) /\ Len(FirstTopics) <= MaxRows

VARIABLES
  file,      \* findings.jsonl
  nextId,    \* the next finding's id (the code's ids are random)
  now,       \* the clock
  filer,     \* per filer: where it is, whether it is a report, what it found, the
             \* row it is at, the rows as it read them
  click,     \* per click: where it is, its rows and patch, the rows as it read them
  sched,     \* the pass over landed fixes
  landings,  \* landed fixes it found, for the bound
  pilot,     \* the autopilot's tick
  claims,    \* creation claims of the managed registry: the attempts of a finding
  crashes,
  launches,  \* history: when the autopilot's sessions of a finding were started
  loose      \* history: findings that a click or a recurrence gave back to the
             \* autopilot, of which an attempt was counted as refused, or that were
             \* reopened for another attempt than the one that ran out of time

vars == <<file, nextId, now, filer, click, sched, landings, pilot, claims, crashes,
          launches, loose>>

FilerIdle == [at |-> "idle", report |-> FALSE, topic |-> CHOOSE t \in Topics : TRUE,
              id |-> 0, snap |-> NoRows]
ClickIdle == [at |-> "idle", ids |-> {}, patch |-> [status |-> Keep, human |-> Keep],
              snap |-> NoRows]
SchedIdle == [at |-> "idle", todo |-> {}, time |-> 0, id |-> 0, snap |-> NoRows]
PilotIdle == [at |-> "idle", todo |-> NoRows, time |-> 0, id |-> 0, snap |-> NoRows]

-----------------------------------------------------------------------------
\* What the store's calls make of the rows they read

\* The row an agent's report of the topic recurs on, the newest first.
Matches(rows, topic) ==
  {i \in DOMAIN rows : rows[i].topic = topic /\ rows[i].status \in Unresolved}
Newest(S) == CHOOSE i \in S : \A j \in S : j <= i

Recurred(r) == [r EXCEPT !.status = IF @ = "session" THEN @ ELSE "open"]

NewRow(topic) == [topic |-> topic, status |-> "open", attempts |-> 0,
                  lastAt |-> 0, human |-> FALSE]

Patched(r, patch) ==
  [r EXCEPT !.status = IF patch.status = Keep THEN @ ELSE patch.status,
            !.human = IF patch.human = Keep THEN @ ELSE patch.human = "yes"]

\* updateFinding: the other rows go back as they were read.
With(rows, i, r) == [rows EXCEPT ![i] = r]

\* The finding i, if the change from r to q gives it back to the autopilot.
Eligible(r) == r.status = "open" /\ ~r.human
GivenBack(i, r, q) == IF Eligible(q) /\ ~Eligible(r) /\ q.attempts > 0 THEN {i} ELSE {}

\* Filers and clicks of a behaviour, within their bound.
MayCall == Cardinality({f \in Filers : filer[f].at # "idle"})
             + Cardinality({c \in Clicks : click[c].at # "idle"}) < MaxCalls

-----------------------------------------------------------------------------
\* Runs of auto agents (runAutoAgent) and reports of client errors
\* (reportClientError): what was found recurs on a row or is a new one.  A run that
\* found several things files them one after the other, each as here.

FilerStarts(f) ==
  /\ filer[f].at = "idle" /\ MayCall
  /\ \E topic \in Topics, report \in BOOLEAN :
       filer' = [filer EXCEPT ![f].at = "find", ![f].topic = topic, ![f].report = report]
  /\ UNCHANGED <<file, nextId, now, click, sched, landings, pilot, claims, crashes,
                 launches, loose>>

\* recordRecurrence reads the file and looks for the row; with none the caller goes
\* on to addFinding.
FilerLooks(f) ==
  /\ filer[f].at = "find"
  /\ filer' = IF Matches(file, filer[f].topic) = {}
              THEN [filer EXCEPT ![f].at = "miss"]
              ELSE [filer EXCEPT ![f].at = "match", ![f].snap = file,
                                 ![f].id = Newest(Matches(file, filer[f].topic))]
  /\ UNCHANGED <<file, nextId, now, click, sched, landings, pilot, claims, crashes,
                 launches, loose>>

\* After the row is written a report asks for a fix agent; if one is dispatched, the
\* row is linked to its session.
AfterFiling(f, i) ==
  \/ filer' = [filer EXCEPT ![f] = [FilerIdle EXCEPT !.at = "done"]]
  \/ /\ filer[f].report
     /\ filer' = [filer EXCEPT ![f] = [FilerIdle EXCEPT !.at = "attach", !.id = i]]

FilerRecurs(f) ==
  /\ filer[f].at = "match"
  /\ LET i == filer[f].id
         r == filer[f].snap[i]
     IN  /\ file' = With(filer[f].snap, i, Recurred(r))
         /\ loose' = loose \cup GivenBack(i, r, Recurred(r))
         /\ AfterFiling(f, i)
  /\ UNCHANGED <<nextId, now, click, sched, landings, pilot, claims, crashes, launches>>

FilerReads(f) ==
  /\ filer[f].at = "miss" /\ nextId <= MaxRows
  /\ filer' = [filer EXCEPT ![f].at = "add", ![f].snap = file]
  /\ UNCHANGED <<file, nextId, now, click, sched, landings, pilot, claims, crashes,
                 launches, loose>>

FilerAdds(f) ==
  /\ filer[f].at = "add" /\ nextId <= MaxRows
  /\ LET rows == filer[f].snap
     IN  file' = [i \in DOMAIN rows \cup {nextId} |->
                    IF i \in DOMAIN rows THEN rows[i] ELSE NewRow(filer[f].topic)]
  /\ nextId' = nextId + 1
  /\ AfterFiling(f, nextId)
  /\ UNCHANGED <<now, click, sched, landings, pilot, claims, crashes,
                 launches, loose>>

\* attachFixSession; a row that is gone by then is not brought back.
FilerReadsToAttach(f) ==
  /\ filer[f].at = "attach"
  /\ filer' = [filer EXCEPT ![f] =
                 IF @.id \in DOMAIN file THEN [@ EXCEPT !.at = "attaching", !.snap = file]
                                         ELSE [FilerIdle EXCEPT !.at = "done"]]
  /\ UNCHANGED <<file, nextId, now, click, sched, landings, pilot, claims, crashes,
                 launches, loose>>

FilerAttaches(f) ==
  /\ filer[f].at = "attaching"
  /\ file' = With(filer[f].snap, filer[f].id,
                  [filer[f].snap[filer[f].id] EXCEPT !.status = "session"])
  /\ filer' = [filer EXCEPT ![f] = [FilerIdle EXCEPT !.at = "done"]]
  /\ UNCHANGED <<nextId, now, click, sched, landings, pilot, claims, crashes,
                 launches, loose>>

-----------------------------------------------------------------------------
\* Changes by people and sessions

\* POST /api/auto/findings/:id and the commands: updateFinding reads the file.
ClickReads(c) ==
  /\ click[c].at = "idle" /\ MayCall
  /\ \E i \in DOMAIN file, patch \in Patches :
       click' = [click EXCEPT ![c] = [at |-> "update", ids |-> {i}, patch |-> patch,
                                      snap |-> file]]
  /\ UNCHANGED <<file, nextId, now, filer, sched, landings, pilot, claims, crashes,
                 launches, loose>>

ClickWrites(c) ==
  /\ click[c].at = "update"
  /\ \E i \in click[c].ids :
       LET r == click[c].snap[i]
           q == Patched(r, click[c].patch)
       IN  /\ file' = With(click[c].snap, i, q)
           /\ loose' = loose \cup GivenBack(i, r, q)
  /\ click' = [click EXCEPT ![c] = [ClickIdle EXCEPT !.at = "done"]]
  /\ UNCHANGED <<nextId, now, filer, sched, landings, pilot, claims, crashes, launches>>

\* POST /api/auto/findings/clear: dismissAllFindings over what the page showed.
ClearReads(c) ==
  /\ click[c].at = "idle" /\ MayCall
  /\ \E ids \in SUBSET {i \in DOMAIN file : file[i].status = "open"} :
       /\ ids # {}
       /\ click' = [click EXCEPT ![c].at = "clear", ![c].ids = ids, ![c].snap = file]
  /\ UNCHANGED <<file, nextId, now, filer, sched, landings, pilot, claims, crashes,
                 launches, loose>>

ClearWrites(c) ==
  /\ click[c].at = "clear"
  /\ file' = [i \in DOMAIN click[c].snap |->
                IF i \in click[c].ids
                THEN [click[c].snap[i] EXCEPT !.status = "dismissed"]
                ELSE click[c].snap[i]]
  /\ click' = [click EXCEPT ![c] = [ClickIdle EXCEPT !.at = "done"]]
  /\ UNCHANGED <<nextId, now, filer, sched, landings, pilot, claims, crashes,
                 launches, loose>>

-----------------------------------------------------------------------------
\* The scheduler's pass over landed fixes (reconcileFixLandings)

\* Of the findings with a session, those whose work the pass will find in main; it
\* leaves the others, and those whose session nobody knows any more.
SchedStarts ==
  /\ sched.at = "idle"
  /\ \E landed \in SUBSET {i \in DOMAIN file : file[i].status = "session"} :
       /\ landings + Cardinality(landed) <= MaxLandings
       /\ landings' = landings + Cardinality(landed)
       /\ sched' = [SchedIdle EXCEPT !.at = "land", !.todo = landed, !.time = now]
  /\ UNCHANGED <<file, nextId, now, filer, click, pilot, claims, crashes, launches, loose>>

\* markFixLanded looks whether the row still is in a session.
SchedLooks(i) ==
  /\ sched.at = "land" /\ i \in sched.todo
  /\ sched' = [sched EXCEPT !.todo = @ \ {i},
                 !.at = IF i \in DOMAIN file /\ file[i].status = "session"
                        THEN "mark" ELSE "land",
                 !.id = IF i \in DOMAIN file /\ file[i].status = "session" THEN i ELSE 0]
  /\ UNCHANGED <<file, nextId, now, filer, click, landings, pilot, claims, crashes,
                 launches, loose>>

\* ... and then reads the file again to update it.
SchedReads ==
  /\ sched.at = "mark"
  /\ sched' = IF sched.id \in DOMAIN file
              THEN [sched EXCEPT !.at = "marking", !.snap = file]
              ELSE [sched EXCEPT !.at = "land", !.id = 0]
  /\ UNCHANGED <<file, nextId, now, filer, click, landings, pilot, claims, crashes,
                 launches, loose>>

SchedMarks ==
  /\ sched.at = "marking"
  /\ file' = With(sched.snap, sched.id,
                  [sched.snap[sched.id] EXCEPT !.status = "fix-landed"])
  /\ sched' = [sched EXCEPT !.at = "land", !.id = 0, !.snap = NoRows]
  /\ UNCHANGED <<nextId, now, filer, click, landings, pilot, claims, crashes, launches,
                 loose>>

\* promoteLandedFixes: any landed fix may have been quiet for the grace window.
Landed(rows) == {i \in DOMAIN rows : rows[i].status = "fix-landed"}

\* Then the scheduler fires the autopilot's tick, with the time at which the pass began,
\* unless the one before is still under way, and does not wait for it.
PassEnds ==
  /\ sched' = SchedIdle
  /\ pilot' = IF pilot.at = "idle" THEN [PilotIdle EXCEPT !.at = "begin", !.time = sched.time]
                                   ELSE pilot

SchedReadsQuiet ==
  /\ sched.at = "land" /\ sched.todo = {}
  /\ \E quiet \in SUBSET Landed(file) :
       IF quiet = {} THEN PassEnds
       ELSE /\ sched' = [sched EXCEPT !.at = "promote", !.todo = quiet, !.snap = file]
            /\ UNCHANGED pilot
  /\ UNCHANGED <<file, nextId, now, filer, click, landings, claims, crashes, launches,
                 loose>>

SchedPromotes ==
  /\ sched.at = "promote"
  /\ file' = [i \in DOMAIN sched.snap |->
                IF i \in sched.todo THEN [sched.snap[i] EXCEPT !.status = "resolved"]
                ELSE sched.snap[i]]
  /\ PassEnds
  /\ UNCHANGED <<nextId, now, filer, click, landings, claims, crashes, launches, loose>>

-----------------------------------------------------------------------------
\* The autopilot (autopilotTick), one tick at a time, with the time the scheduler gave
\* it.

Piloted(r) == r.status = "session" /\ r.attempts > 0
InFlight(rows, t) == {i \in DOMAIN rows : Piloted(rows[i]) /\ t - rows[i].lastAt < Window}

\* Mutants of Stuck: the last step of the window is not waited for; a finding that
\* used up its attempts is passed over.
StuckEarly(rows, t) ==
  {i \in DOMAIN rows : Piloted(rows[i]) /\ t - rows[i].lastAt >= Window - 1}
StuckButExhausted(rows, t) ==
  {i \in DOMAIN rows : /\ Piloted(rows[i]) /\ t - rows[i].lastAt >= Window
                        /\ rows[i].attempts < MaxAttempts}
Stuck(rows, t) == {i \in DOMAIN rows : Piloted(rows[i]) /\ t - rows[i].lastAt >= Window}

\* Mutant of Candidates: the attempts are not looked at.
CandidatesAnyway(rows) == {i \in DOMAIN rows : Eligible(rows[i])}
Candidates(rows) ==
  {i \in DOMAIN rows : Eligible(rows[i]) /\ rows[i].attempts < MaxAttempts}

Attempts(rows, S) == [i \in S |-> rows[i].attempts]
Without(todo, i)  == [j \in DOMAIN todo \ {i} |-> todo[j]]

PilotBegins ==
  /\ pilot.at = "begin"
  /\ pilot' = [pilot EXCEPT !.at = "stuck",
                            !.todo = Attempts(file, Stuck(file, pilot.time))]
  /\ UNCHANGED <<file, nextId, now, filer, click, sched, landings, claims, crashes,
                 launches, loose>>

\* updateFinding for a session that ran out of time, whatever became of it since.
PilotReadsStuck(i) ==
  /\ pilot.at = "stuck" /\ i \in DOMAIN pilot.todo
  /\ pilot' = IF i \in DOMAIN file
              THEN [pilot EXCEPT !.at = "reopen", !.id = i, !.snap = file]
              ELSE [pilot EXCEPT !.todo = Without(@, i)]
  /\ UNCHANGED <<file, nextId, now, filer, click, sched, landings, claims, crashes,
                 launches, loose>>

PilotReopens ==
  /\ pilot.at = "reopen"
  /\ LET i == pilot.id
         gaveUp == pilot.todo[i] >= MaxAttempts
     IN  /\ file' = With(pilot.snap, i,
                         [pilot.snap[i] EXCEPT !.status = "open", !.human = gaveUp])
         /\ pilot' = [pilot EXCEPT !.at = "stuck", !.id = 0, !.snap = NoRows,
                                   !.todo = Without(@, i)]
         /\ loose' = IF pilot.snap[i].attempts = pilot.todo[i] THEN loose
                     ELSE loose \cup {i}
  /\ UNCHANGED <<nextId, now, filer, click, sched, landings, claims, crashes, launches>>

\* As many candidates as the budget allows; severity and the hourly budget decide
\* which, and how many of them.
PilotPicks ==
  /\ pilot.at = "stuck" /\ DOMAIN pilot.todo = {}
  /\ \E S \in SUBSET Candidates(file) :
       /\ S = {} \/ Cardinality(S) + Cardinality(InFlight(file, pilot.time)) <= MaxConcurrent
       /\ pilot' = IF S = {} THEN PilotIdle
                   ELSE [pilot EXCEPT !.at = "dispatch", !.todo = Attempts(file, S)]
  /\ UNCHANGED <<file, nextId, now, filer, click, sched, landings, claims, crashes,
                 launches, loose>>

\* dispatch: POST /api/sessions/new under the key of the finding and the attempt.
\* The server answers a key it knows with the session it made then.  Its answer may be
\* lost: the attempt then counts as refused, though its session runs.
\* Mutant: it starts a session whatever the key.
PilotPostsAnew(i) ==
  /\ pilot.at = "dispatch" /\ i \in DOMAIN pilot.todo
  /\ claims' = [claims EXCEPT ![i] = @ \cup {pilot.todo[i] + 1}]
  /\ launches' = [launches EXCEPT ![i] = Append(@, pilot.time)]
  /\ pilot' = [pilot EXCEPT !.at = "started", !.id = i]
  /\ UNCHANGED <<file, nextId, now, filer, click, sched, landings, crashes, loose>>
PilotPosts(i) ==
  /\ pilot.at = "dispatch" /\ i \in DOMAIN pilot.todo
  /\ LET attempt == pilot.todo[i] + 1
     IN  /\ claims' = [claims EXCEPT ![i] = @ \cup {attempt}]
         /\ launches' = IF attempt \in claims[i] THEN launches
                        ELSE [launches EXCEPT ![i] = Append(@, pilot.time)]
  /\ \E answer \in {"started", "refused"} : pilot' = [pilot EXCEPT !.at = answer, !.id = i]
  /\ UNCHANGED <<file, nextId, now, filer, click, sched, landings, crashes, loose>>

\* It refuses: the box is full, or the launch is not valid.
PilotRefused(i) ==
  /\ pilot.at = "dispatch" /\ i \in DOMAIN pilot.todo
  /\ pilot.todo[i] + 1 \notin claims[i]
  /\ pilot' = [pilot EXCEPT !.at = "refused", !.id = i]
  /\ UNCHANGED <<file, nextId, now, filer, click, sched, landings, claims, crashes,
                 launches, loose>>

\* Either way the outcome is written by an updateFinding that reads the file first;
\* a row that is gone by then is left alone.
PilotReads ==
  /\ pilot.at \in {"started", "refused"}
  /\ pilot' = IF pilot.id \notin DOMAIN file
              THEN [pilot EXCEPT !.at = "dispatch", !.id = 0, !.todo = Without(@, pilot.id)]
              ELSE [pilot EXCEPT !.at = IF @ = "started" THEN "linking" ELSE "counting",
                                 !.snap = file]
  /\ UNCHANGED <<file, nextId, now, filer, click, sched, landings, claims, crashes,
                 launches, loose>>

PilotWrites(r) ==
  /\ file' = With(pilot.snap, pilot.id, r)
  /\ pilot' = [pilot EXCEPT !.at = "dispatch", !.id = 0, !.snap = NoRows,
                            !.todo = Without(@, pilot.id)]
  /\ UNCHANGED <<nextId, now, filer, click, sched, landings, claims, crashes, launches>>

PilotLinks ==
  /\ pilot.at = "linking"
  /\ PilotWrites([pilot.snap[pilot.id] EXCEPT !.status = "session", !.lastAt = pilot.time,
                    !.attempts = pilot.todo[pilot.id] + 1])
  /\ UNCHANGED loose

PilotCounts ==
  /\ pilot.at = "counting"
  /\ LET attempts == pilot.todo[pilot.id] + 1
     IN  PilotWrites([pilot.snap[pilot.id] EXCEPT !.attempts = attempts,
                        !.lastAt = pilot.time, !.human = @ \/ attempts >= MaxAttempts])
  /\ loose' = loose \cup {pilot.id}

PilotEnds ==
  /\ pilot.at = "dispatch" /\ DOMAIN pilot.todo = {}
  /\ pilot' = PilotIdle
  /\ UNCHANGED <<file, nextId, now, filer, click, sched, landings, claims, crashes,
                 launches, loose>>

-----------------------------------------------------------------------------
\* Time, and a restart of the server, which forgets everything but the files.

Advance ==
  /\ now < MaxNow
  /\ now' = now + 1
  /\ UNCHANGED <<file, nextId, filer, click, sched, landings, pilot, claims, crashes,
                 launches, loose>>

Crash ==
  /\ crashes < MaxCrashes
  /\ crashes' = crashes + 1
  /\ filer' = [f \in Filers |-> IF filer[f].at = "idle" THEN filer[f]
                                ELSE [FilerIdle EXCEPT !.at = "done"]]
  /\ click' = [c \in Clicks |-> IF click[c].at = "idle" THEN click[c]
                                ELSE [ClickIdle EXCEPT !.at = "done"]]
  /\ sched' = SchedIdle
  /\ pilot' = PilotIdle
  /\ UNCHANGED <<file, nextId, now, landings, claims, launches, loose>>

Init ==
  /\ file = [i \in DOMAIN FirstTopics |-> NewRow(FirstTopics[i])]
  /\ nextId = Len(FirstTopics) + 1
  /\ now = 0
  /\ filer = [f \in Filers |-> FilerIdle]
  /\ click = [c \in Clicks |-> ClickIdle]
  /\ sched = SchedIdle
  /\ landings = 0
  /\ pilot = PilotIdle
  /\ claims = [i \in Ids |-> {}]
  /\ crashes = 0
  /\ launches = [i \in Ids |-> <<>>]
  /\ loose = {}

Filing(f) == \/ FilerStarts(f) \/ FilerLooks(f) \/ FilerRecurs(f) \/ FilerReads(f)
             \/ FilerAdds(f) \/ FilerReadsToAttach(f) \/ FilerAttaches(f)
Clicking(c) == ClickReads(c) \/ ClickWrites(c) \/ ClearReads(c) \/ ClearWrites(c)

SchedStep ==
  \/ SchedStarts \/ SchedReads \/ SchedMarks \/ SchedReadsQuiet \/ SchedPromotes
  \/ \E i \in Ids : SchedLooks(i)

PilotStep ==
  \/ PilotBegins \/ PilotReopens \/ PilotPicks \/ PilotReads \/ PilotLinks
  \/ PilotCounts \/ PilotEnds
  \/ \E i \in Ids : PilotReadsStuck(i) \/ PilotPosts(i) \/ PilotRefused(i)

Next ==
  \/ \E f \in Filers : Filing(f)
  \/ \E c \in Clicks : Clicking(c)
  \/ SchedStep \/ PilotStep
  \/ Advance \/ Crash

\* Time goes on, the scheduler's timer fires, and its awaits and the autopilot's end.
\* (Each of these steps changes the variable it is fair for.)
Fairness == WF_sched(SchedStep) /\ WF_pilot(PilotStep) /\ WF_now(Advance)

Spec == Init /\ [][Next]_vars /\ Fairness

-----------------------------------------------------------------------------
\* Properties

Patch == [status : Status \cup {Keep}, human : {"yes", "no", Keep}]
Todo  == UNION {[S -> 0 .. MaxAttempts] : S \in SUBSET Ids}

FilerState ==
  [at : {"idle", "find", "match", "miss", "add", "attach", "attaching", "done"},
   report : BOOLEAN, topic : Topics, id : 0 .. MaxRows, snap : Rows]
ClickState ==
  [at : {"idle", "update", "clear", "done"}, ids : SUBSET Ids, patch : Patch, snap : Rows]
SchedState ==
  [at : {"idle", "land", "mark", "marking", "promote"}, todo : SUBSET Ids,
   time : Times, id : 0 .. MaxRows, snap : Rows]
PilotState ==
  [at : {"idle", "begin", "stuck", "reopen", "dispatch", "started", "refused", "linking",
         "counting"},
   todo : Todo, time : Times, id : 0 .. MaxRows, snap : Rows]

\* Whoever is about to write a row has read it.
Located ==
  /\ \A f \in Filers : filer[f].at \in {"match", "attaching"} =>
       filer[f].id \in DOMAIN filer[f].snap
  /\ \A c \in Clicks : click[c].ids \subseteq DOMAIN click[c].snap
  /\ sched.at = "marking" => sched.id \in DOMAIN sched.snap
  /\ pilot.at \in {"reopen", "started", "refused", "linking", "counting"} =>
       pilot.id \in DOMAIN pilot.todo
  /\ pilot.at \in {"reopen", "linking", "counting"} => pilot.id \in DOMAIN pilot.snap
  /\ pilot.at \in {"dispatch", "started", "refused", "linking", "counting"} =>
       \A i \in DOMAIN pilot.todo : pilot.todo[i] < MaxAttempts

TypeOK ==
  /\ file \in Rows
  /\ nextId \in 1 .. MaxRows + 1
  /\ now \in Times
  /\ filer \in [Filers -> FilerState]
  /\ click \in [Clicks -> ClickState]
  /\ sched \in SchedState
  /\ landings \in 0 .. MaxLandings
  /\ pilot \in PilotState
  /\ claims \in [Ids -> SUBSET (1 .. MaxAttempts)]
  /\ crashes \in 0 .. MaxCrashes
  /\ launches \in [Ids -> Seq(Times)]
  /\ loose \subseteq Ids
  /\ Located

\* However many updates of a finding are lost, the autopilot never starts more than
\* MaxAttempts sessions for it: the server knows the key of a lost attempt.
SessionsBounded == \A i \in Ids : Len(launches[i]) <= MaxAttempts

\* ``One finding, one session'': whatever is lost, the autopilot starts another only
\* after the time of the one before is up, unless somebody gave the finding back to
\* it, an attempt was counted as refused, or two lost updates made it reopen the
\* finding for the wrong attempt.
OneSessionAtATime ==
  \A i \in Ids : \A a, b \in DOMAIN launches[i] :
    a < b => launches[i][b] - launches[i][a] >= Window \/ i \in loose

\* The findings whose session's time can run out before the bounded clock ends.
TimeRunsOut(i) == i \in DOMAIN file /\ Piloted(file[i]) /\ file[i].lastAt + Window <= MaxNow

\* ``Either way the finding is visible in the feed again'': no finding stays with a
\* session that did not close it, though an update that reopens it may be lost.
VisibleAgain == \A i \in Ids : TimeRunsOut(i) ~> ~TimeRunsOut(i)

=============================================================================
