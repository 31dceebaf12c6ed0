------------------------------ MODULE SendQueue ------------------------------
(***************************************************************************)
(* The outbound send queue of ONE session (src/src/sendq.ts) over its      *)
(* SQLite table (src/src/sendq-store.ts).                                  *)
(*                                                                         *)
(* A row is an object shared by reference: `status' is the object, `mem'   *)
(* says which objects the in-memory list holds, `store' is the table.  An  *)
(* asynchronous operation keeps its reference across an await, so it may   *)
(* write, and persist, a row that has left the list in the meantime.       *)
(* An action is the code between two awaits.                               *)
(*                                                                         *)
(* Simplifications.  A row's id is its place in creation order (the code   *)
(* keeps createdAt strictly increasing inside a queue).  What deliver()    *)
(* sees of the composer is a choice: any look may show the text there or   *)
(* not, whether the agent has it or not.  However often a text is taken,   *)
(* its row has one row of the transcript; rows with the same text are not  *)
(* told apart.  Of the delivered rows over the retention limit any may be  *)
(* the ones pruned.                                                        *)
(***************************************************************************)
EXTENDS Integers, FiniteSets

CONSTANTS
  Ticks,         \* slots for runs of the held watcher's tick
  Pollers,       \* clients whose polling reconciles the queue
  CommandFile,   \* TRUE: the harness tails a command file; FALSE: a tmux pane
  KeepTerminal,  \* KEEP_TERMINAL
  MaxAttempts,   \* MAX_ATTEMPTS
  MaxMsgs,       \* bound: rows ever created
  MaxCrashes,    \* bound: server crashes
  MaxRetries,    \* bound: retries of one row
  MaxEdits       \* bound: edits of one held row

ASSUME ConstAssumption ==
  /\ CommandFile \in BOOLEAN
  /\ KeepTerminal \in Nat
  /\ MaxAttempts \in Nat
  /\ MaxMsgs \in Nat
  /\ MaxCrashes \in Nat
  /\ MaxRetries \in Nat
  /\ MaxEdits \in Nat
  /\ Ticks \cap Pollers = {}

Id == 1..MaxMsgs
Live == {"pending", "sending", "delivered", "queued", "held", "failed"}
Absent == "none"
Status == Live \cup {Absent}
InFlight == {"pending", "sending", "queued"}
\* deliver(): the text is typed, or Enter was pressed; and the agent does not have
\* the text from this delivery, or has it, which the worker cannot tell.
Typing == {"typing", "retyping"}
Entered == {"missed", "taken"}
Phase == {"off"} \cup Typing \cup Entered
KeptOnClear == {"pending", "sending", "held"}
Undelivered == {"pending", "queued", "held"}
Procs == Ticks \cup Pollers

VARIABLES
  \* the queue
  nextId, mem, status, text, store,
  \* the delivery worker
  running, phase, attempts,
  \* the held watcher and the reconcile passes in progress
  watching, ticking, tick, snap,
  \* the server process, the session list's busy snapshot
  server, cachedBusy,
  \* the harness
  busy, transcript,
  \* history, read by the properties and the bounds only; sub[id] counts the
  \* deliveries, or appends, from which the agent got the text
  sub, retries, origin, handed, gone, ended, crashes

queueVars == <<nextId, mem, status, text, store>>
workVars  == <<running, phase>>
watchVars == <<watching, ticking, tick>>
envVars   == <<server, cachedBusy, busy, transcript>>
histVars  == <<sub, retries, origin, handed, gone, ended, crashes>>
vars == <<queueVars, workVars, attempts, watchVars, snap, envVars, histVars>>

IdleTick == [pc |-> "idle", row |-> 0, text |-> 0]
TickPc == {"idle", "reconcile", "probe", "fresh", "call", "handler"}

TypeOK ==
  /\ nextId \in 1..(MaxMsgs + 1)
  /\ mem \subseteq Id
  /\ status \in [Id -> Status]
  /\ text \in [Id -> 0..MaxEdits]
  /\ store \in [Id -> Status]
  /\ running \in BOOLEAN
  /\ phase \in [Id -> Phase]
  /\ attempts \in [Id -> 0..MaxAttempts]
  /\ watching \in BOOLEAN
  /\ ticking \in BOOLEAN
  /\ tick \in [Ticks -> [pc : TickPc, row : 0..MaxMsgs, text : 0..MaxEdits]]
  /\ snap \in [Procs -> SUBSET Id]
  /\ server \in {"down", "booting", "up"}
  /\ cachedBusy \in BOOLEAN
  /\ busy \in BOOLEAN
  /\ transcript \subseteq Id
  /\ sub \in [Id -> Nat]
  /\ retries \in [Id -> 0..MaxRetries]
  /\ origin \in [Id -> 0..MaxMsgs]
  /\ handed \in [Id -> Nat]
  /\ gone \in [Id -> {"no", "dropped", "cleared", "taken"}]
  /\ ended \subseteq Id
  /\ crashes \in 0..MaxCrashes

Init ==
  /\ nextId = 1
  /\ mem = {}
  /\ status = [id \in Id |-> Absent]
  /\ text = [id \in Id |-> 0]
  /\ store = [id \in Id |-> Absent]
  /\ running = FALSE
  /\ phase = [id \in Id |-> "off"]
  /\ attempts = [id \in Id |-> 0]
  /\ watching = FALSE
  /\ ticking = FALSE
  /\ tick = [t \in Ticks |-> IdleTick]
  /\ snap = [p \in Procs |-> {}]
  /\ server = "up"
  /\ busy \in BOOLEAN
  /\ cachedBusy = busy
  /\ transcript = {}
  /\ sub = [id \in Id |-> 0]
  /\ retries = [id \in Id |-> 0]
  /\ origin = [id \in Id |-> 0]
  /\ handed = [id \in Id |-> 0]
  /\ gone = [id \in Id |-> "no"]
  /\ ended = {}
  /\ crashes = 0

-----------------------------------------------------------------------------
\* Helpers

Rows(m, st, S) == {id \in m : st[id] \in S}
Oldest(S) == CHOOSE id \in S : \A other \in S : id <= other

Listening == server # "down"
HasInFlight == Rows(mem, status, InFlight) # {}
Held == Rows(mem, status, {"held"})

\* f with the value v on every member of S.
SetAll(f, S, v) == [id \in DOMAIN f |-> IF id \in S THEN v ELSE f[id]]

\* The bound: a user's row leaves an id for the release of every held row.
Room(extra) == nextId + Cardinality(Held) + extra <= MaxMsgs

\* The delivered rows an insert prunes, given the list and the statuses after
\* it: the ones over the limit.
PruneChoices(m, st) ==
  LET done == Rows(m, st, {"delivered"})
  IN  {D \in SUBSET done :
         Cardinality(D) = IF Cardinality(done) > KeepTerminal
                          THEN Cardinality(done) - KeepTerminal ELSE 0}

\* The worker loop looks for its next row: the oldest pending one, or it ends.
PickNext(m, st, sto, ph) ==
  LET waiting == Rows(m, st, {"pending"})
  IN  /\ mem' = m
      /\ running' = (waiting # {})
      /\ IF waiting = {}
         THEN status' = st /\ store' = sto /\ phase' = ph
         ELSE /\ status' = [st EXCEPT ![Oldest(waiting)] = "sending"]
              /\ store' = [sto EXCEPT ![Oldest(waiting)] = "sending"]
              /\ phase' = [ph EXCEPT ![Oldest(waiting)] = "typing"]

\* Mutant: kick() without its running guard.
InstallUnguarded(kicked, m, st, sto) ==
  IF kicked
  THEN PickNext(m, st, sto, phase)
  ELSE mem' = m /\ status' = st /\ store' = sto /\ UNCHANGED workVars

\* Install a new list and its rows; with `kicked', kick() then starts the worker
\* loop unless it runs.
Install(kicked, m, st, sto) ==
  IF kicked /\ ~running
  THEN PickNext(m, st, sto, phase)
  ELSE mem' = m /\ status' = st /\ store' = sto /\ UNCHANGED workVars

\* Append a row: push, persist, prune, kick if the row is pending.  A released
\* held row (`from', 0 for none) leaves the list and the table with it.
Push(st0, txt, from) ==
  LET m  == mem \cup {nextId}
      st == [status EXCEPT ![nextId] = st0]
      so == [store EXCEPT ![nextId] = st0]
  IN  /\ nextId \in Id
      /\ nextId' = nextId + 1
      /\ text' = [text EXCEPT ![nextId] = txt]
      /\ origin' = [origin EXCEPT ![nextId] = from]
      /\ \E D \in PruneChoices(m, st) :
           Install(st0 = "pending", m \ (D \cup {from}), st,
                   SetAll(so, D \cup {from}, Absent))

-----------------------------------------------------------------------------
\* The routes: what a client of the session asks for

\* enqueueMessage, from sendPromptToLiveSession on a tmux session.
EnqueueMessage ==
  /\ Listening /\ ~CommandFile /\ Room(0)
  /\ Push("pending", 0, 0)
  /\ UNCHANGED <<watchVars, snap, envVars, sub, attempts, retries, handed, gone, ended, crashes>>

\* appendAisdkCmd then recordCommandFileMessage: the harness owns delivery.
RecordCommandFileMessage ==
  /\ Listening /\ CommandFile /\ Room(0)
  /\ Push("queued", 0, 0)
  /\ sub' = [sub EXCEPT ![nextId] = 1]
  /\ UNCHANGED <<watchVars, snap, envVars, attempts, retries, handed, gone, ended, crashes>>

\* holdMessage: queue mode while the session list, fresh or not, says busy.
HoldMessage ==
  /\ Listening /\ (busy \/ cachedBusy) /\ Room(1)
  /\ Push("held", 0, 0)
  /\ watching' = TRUE
  /\ UNCHANGED <<ticking, tick, snap, envVars, sub, attempts, retries, handed, gone, ended, crashes>>

\* updateHeldMessage
UpdateHeldMessage(id) ==
  /\ Listening
  /\ id \in Held
  /\ text[id] < MaxEdits
  /\ text' = [text EXCEPT ![id] = @ + 1]
  /\ UNCHANGED <<nextId, mem, status, store, workVars, watchVars, snap, envVars, attempts, histVars>>

\* Mutant: a removal that forgets the table.
RemoveFromListOnly(S, why) ==
  /\ mem' = mem \ S
  /\ gone' = SetAll(gone, S, why)
  /\ UNCHANGED <<nextId, status, text, store, workVars, watchVars, snap, envVars,
                 sub, attempts, retries, origin, handed, ended, crashes>>

\* Rows S leave the list and the table; the history keeps `why'.
Remove(S, why) ==
  /\ mem' = mem \ S
  /\ store' = SetAll(store, S, Absent)
  /\ gone' = SetAll(gone, S, why)
  /\ UNCHANGED <<nextId, status, text, workVars, watchVars, snap, envVars,
                 sub, attempts, retries, origin, handed, ended, crashes>>

\* removeHeldMessage
RemoveHeldMessage(id) ==
  /\ Listening
  /\ id \in Held
  /\ Remove({id}, "dropped")

\* clearResolved
ClearResolved ==
  /\ Listening
  /\ mem \ Rows(mem, status, KeptOnClear) # {}
  /\ Remove(mem \ Rows(mem, status, KeptOnClear), "cleared")

\* takeUndeliveredQueue: a bot restart carries the rows to another session.
TakeUndeliveredQueue ==
  /\ Listening
  /\ Rows(mem, status, Undelivered) # {}
  /\ Remove(Rows(mem, status, Undelivered), "taken")

\* retryMessage
RetryMessage(id) ==
  /\ Listening
  /\ id \in Rows(mem, status, {"failed"})
  /\ retries[id] < MaxRetries
  /\ Install(TRUE, mem, [status EXCEPT ![id] = "pending"], [store EXCEPT ![id] = "pending"])
  /\ attempts' = [attempts EXCEPT ![id] = 0]
  /\ retries' = [retries EXCEPT ![id] = @ + 1]
  /\ UNCHANGED <<nextId, text, watchVars, snap, envVars, sub, origin, handed, gone, ended, crashes>>

-----------------------------------------------------------------------------
\* The delivery worker: kick()'s loop awaiting deliver(row)

\* An attempt: the text is in the composer, Enter is pressed.  The agent takes the
\* text, or the key is swallowed.
DeliverEnter(id) ==
  /\ phase[id] \in Typing /\ ~CommandFile
  /\ attempts[id] < MaxAttempts
  /\ attempts' = [attempts EXCEPT ![id] = @ + 1]
  /\ \/ /\ phase' = [phase EXCEPT ![id] = "taken"]
        /\ sub' = IF phase[id] = "typing" THEN [sub EXCEPT ![id] = @ + 1] ELSE sub
     \/ /\ phase' = [phase EXCEPT ![id] = IF @ = "typing" THEN "missed" ELSE "taken"]
        /\ UNCHANGED sub
  /\ UNCHANGED <<queueVars, running, watchVars, snap, envVars,
                 retries, origin, handed, gone, ended, crashes>>

\* An attempt whose typing never shows in the composer: no Enter, and round again.
DeliverTypeRetry(id) ==
  /\ phase[id] \in Typing /\ ~CommandFile
  /\ attempts[id] < MaxAttempts
  /\ attempts' = [attempts EXCEPT ![id] = @ + 1]
  /\ UNCHANGED <<queueVars, workVars, watchVars, snap, envVars, histVars>>

\* Every look after Enter shows the text in the composer and no new row of the
\* transcript: the loop goes round.  If the next attempt finds the text gone, it
\* clears, types and enters it again, though the agent may have it.
DeliverAgain(id) ==
  /\ phase[id] \in Entered /\ attempts[id] < MaxAttempts
  /\ phase' = [phase EXCEPT ![id] = IF @ = "taken" THEN "retyping" ELSE "typing"]
  /\ UNCHANGED <<queueVars, running, attempts, watchVars, snap, envVars, histVars>>

\* Mutant: the loop does not persist the outcome.
SettleUnpersisted(id, outcome) ==
  /\ phase[id] # "off"
  /\ PickNext(mem, [status EXCEPT ![id] = outcome], store, [phase EXCEPT ![id] = "off"])
  /\ attempts' = [attempts EXCEPT ![id] = 0]
  /\ UNCHANGED <<nextId, text, watchVars, snap, envVars, histVars>>

\* deliver() settles the row, the loop persists it and looks for the next one.
\* Nothing asks for the attempts of a delivery that has ended.
Settle(id, outcome) ==
  /\ phase[id] # "off"
  /\ PickNext(mem, [status EXCEPT ![id] = outcome], [store EXCEPT ![id] = outcome],
              [phase EXCEPT ![id] = "off"])
  /\ attempts' = [attempts EXCEPT ![id] = 0]
  /\ UNCHANGED <<nextId, text, watchVars, snap, envVars, histVars>>

\* A look after Enter: the text left the composer (the agent's own queue may hold
\* it), or the composer is covered, or the row surfaced in the transcript; a slash
\* command is delivered as it leaves.
DeliverAccept(id) ==
  /\ phase[id] \in Entered
  /\ \E outcome \in {"queued", "delivered"} : Settle(id, outcome)

\* No pane, a selector that stays open, a text that is in the composer after the
\* last attempt, or deliver() threw.  A command-file session has no pane to type into.
DeliverFail(id) == Settle(id, "failed")

-----------------------------------------------------------------------------
\* reconcileQueued, by a polling client or by the held watcher's tick

StartReconcile(p) ==
  /\ snap[p] = {}
  /\ Rows(mem, status, {"queued"}) # {}
  /\ snap' = [snap EXCEPT ![p] = Rows(mem, status, {"queued"})]

\* Every row of the snapshot the transcript shows becomes delivered, whether the
\* list still holds it or not.
Promote(p) ==
  LET seen == snap[p] \cap transcript
  IN  /\ snap[p] # {}
      /\ status' = SetAll(status, seen, "delivered")
      /\ store' = SetAll(store, seen, "delivered")
      /\ snap' = [snap EXCEPT ![p] = {}]
      /\ UNCHANGED <<nextId, mem, text>>

\* No transcript, or it could not be read.
GiveUp(p) ==
  /\ snap[p] # {}
  /\ snap' = [snap EXCEPT ![p] = {}]
  /\ UNCHANGED queueVars

PollStart(p) ==
  /\ Listening
  /\ StartReconcile(p)
  /\ UNCHANGED <<queueVars, workVars, watchVars, envVars, attempts, histVars>>

PollEnd(p) ==
  /\ Promote(p) \/ GiveUp(p)
  /\ UNCHANGED <<workVars, watchVars, envVars, attempts, histVars>>

-----------------------------------------------------------------------------
\* watchHeld: the held watcher's tick, one step per await

Goto(t, pc) == tick' = [tick EXCEPT ![t].pc = pc]
EndTick(t) == tick' = [tick EXCEPT ![t] = IdleTick] /\ ticking' = FALSE

\* Mutants: the tick without its ticking guard, without its in-flight gate, and
\* leaving the reconcile pass to connected clients.
TickStartOverlapping(t) ==
  /\ watching
  /\ tick[t].pc = "idle"
  /\ Held # {} /\ ~HasInFlight
  /\ ticking' = TRUE
  /\ Goto(t, "probe")
  /\ UNCHANGED <<watching, snap, queueVars, workVars, envVars, attempts, histVars>>
TickStartUngated(t) ==
  /\ watching /\ ~ticking
  /\ tick[t].pc = "idle"
  /\ Held # {}
  /\ ticking' = TRUE
  /\ Goto(t, "probe")
  /\ UNCHANGED <<watching, snap, queueVars, workVars, envVars, attempts, histVars>>
TickStartUnreconciled(t) ==
  /\ watching /\ ~ticking
  /\ tick[t].pc = "idle"
  /\ IF Held = {}
     THEN watching' = FALSE /\ UNCHANGED <<ticking, tick>>
     ELSE ~HasInFlight /\ ticking' = TRUE /\ Goto(t, "probe") /\ UNCHANGED watching
  /\ UNCHANGED <<snap, queueVars, workVars, envVars, attempts, histVars>>

\* The interval fires: no held row stops the watcher, a send in flight is
\* reconciled first.
TickStart(t) ==
  /\ watching /\ ~ticking
  /\ tick[t].pc = "idle"
  /\ IF Held = {}
     THEN watching' = FALSE /\ UNCHANGED <<ticking, tick, snap>>
     ELSE /\ ticking' = TRUE
          /\ UNCHANGED watching
          /\ IF ~HasInFlight
             THEN Goto(t, "probe") /\ UNCHANGED snap
             ELSE /\ Goto(t, "reconcile")
                  /\ StartReconcile(t) \/ (Rows(mem, status, {"queued"}) = {} /\ UNCHANGED snap)
  /\ UNCHANGED <<queueVars, workVars, envVars, attempts, histVars>>

\* The reconcile pass returns: still in flight, give up until the next tick.
TickReconciled(t) ==
  /\ tick[t].pc = "reconcile"
  /\ \/ Promote(t)
     \/ GiveUp(t)
     \/ snap[t] = {} /\ UNCHANGED <<queueVars, snap>>
  /\ IF Rows(mem, status', InFlight) # {}
     THEN EndTick(t)
     ELSE Goto(t, "probe") /\ UNCHANGED ticking
  /\ UNCHANGED <<watching, workVars, envVars, attempts, histVars>>

\* Mutant: the cheap probe has the last word.
TickProbeOnlyCheap(t) ==
  /\ tick[t].pc = "probe"
  /\ cachedBusy' \in {cachedBusy, busy}
  /\ \/ ~cachedBusy' /\ Goto(t, "call") /\ UNCHANGED ticking
     \/ EndTick(t)
  /\ UNCHANGED <<queueVars, workVars, watching, snap, server, busy, transcript, attempts, histVars>>

\* The cheap probe: the session list's snapshot, refreshed if it has expired.
TickProbe(t) ==
  /\ tick[t].pc = "probe"
  /\ cachedBusy' \in {cachedBusy, busy}
  /\ \/ ~cachedBusy' /\ Goto(t, "fresh") /\ UNCHANGED ticking
     \/ EndTick(t)        \* busy, not listed, or the probe threw
  /\ UNCHANGED <<queueVars, workVars, watching, snap, server, busy, transcript, attempts, histVars>>

\* The fresh probe: a scan that starts now.
TickFreshProbe(t) ==
  /\ tick[t].pc = "fresh"
  /\ cachedBusy' = busy
  /\ \/ ~cachedBusy' /\ Goto(t, "call") /\ UNCHANGED ticking
     \/ EndTick(t)
  /\ UNCHANGED <<queueVars, workVars, watching, snap, server, busy, transcript, attempts, histVars>>

\* releaseNextHeldMessage calls the handler with the oldest held row's text.  The
\* handler is installed at the end of the boot.
TickCall(t) ==
  /\ tick[t].pc = "call"
  /\ IF Held = {} \/ server # "up"
     THEN EndTick(t)
     ELSE /\ tick' = [tick EXCEPT ![t] = [pc |-> "handler", row |-> Oldest(Held),
                                          text |-> text[Oldest(Held)]]]
          /\ UNCHANGED ticking
  /\ UNCHANGED <<queueVars, workVars, watching, snap, envVars, attempts, histVars>>

\* The handler found the session and sent the text it was given; back in
\* releaseNextHeldMessage the held row is removed.
TickRelease(t) ==
  LET row == tick[t].row
  IN  /\ tick[t].pc = "handler"
      /\ Push(IF CommandFile THEN "queued" ELSE "pending", tick[t].text, row)
      /\ sub' = [sub EXCEPT ![nextId] = IF CommandFile THEN 1 ELSE 0]
      /\ handed' = [handed EXCEPT ![row] = @ + 1]
      /\ EndTick(t)
      /\ UNCHANGED <<watching, snap, envVars, attempts, retries, gone, ended, crashes>>

\* The handler refused (no such session, it is moving, no pane) or threw.
TickRefused(t) ==
  LET row == tick[t].row
  IN  /\ tick[t].pc = "handler"
      /\ status' = [status EXCEPT ![row] = "failed"]
      /\ store' = [store EXCEPT ![row] = "failed"]
      /\ EndTick(t)
      /\ UNCHANGED <<nextId, mem, text, workVars, watching, snap, envVars, attempts, histVars>>

-----------------------------------------------------------------------------
\* The server process

\* Memory is gone; the table, and what the harness has, stay.  A row that waits in
\* the table has no attempts, and one that was being sent starts anew if retried.
LoseMemory(sto) ==
  /\ crashes < MaxCrashes
  /\ crashes' = crashes + 1
  /\ server' = "down"
  /\ mem' = {}
  /\ status' = sto
  /\ store' = sto
  /\ running' = FALSE
  /\ phase' = [id \in Id |-> "off"]
  /\ attempts' = [id \in Id |-> 0]
  /\ watching' = FALSE
  /\ ticking' = FALSE
  /\ tick' = [t \in Ticks |-> IdleTick]
  /\ snap' = [p \in Procs |-> {}]
  /\ UNCHANGED <<cachedBusy, busy, transcript, retries, gone, ended>>

Crash ==
  /\ Listening
  /\ LoseMemory(store)
  /\ UNCHANGED <<nextId, text, sub, origin, handed>>

\* The crash falls between the handler's new row and the held row's deletion:
\* both are in the table.
CrashMidRelease(t) ==
  LET sent == IF CommandFile THEN "queued" ELSE "pending"
      row  == tick[t].row
  IN  /\ tick[t].pc = "handler"
      /\ nextId \in Id
      /\ nextId' = nextId + 1
      /\ text' = [text EXCEPT ![nextId] = tick[t].text]
      /\ origin' = [origin EXCEPT ![nextId] = row]
      /\ sub' = [sub EXCEPT ![nextId] = IF CommandFile THEN 1 ELSE 0]
      /\ handed' = [handed EXCEPT ![row] = @ + 1]
      /\ LoseMemory([store EXCEPT ![nextId] = sent])

\* The server listens again; the queue loads from the table when first used.
Boot ==
  /\ server = "down"
  /\ server' = "booting"
  /\ mem' = {id \in Id : store[id] # Absent}
  /\ cachedBusy' = busy
  /\ UNCHANGED <<nextId, status, text, store, workVars, watchVars, snap,
                 busy, transcript, attempts, histVars>>

\* Mutants: an interrupted send is resumed, or gets a status of its own; the
\* pending rows wait for the next send.
ResumeAs(outcome, kicked) ==
  LET cut == Rows(mem, status, {"sending"})
  IN  /\ server = "booting"
      /\ server' = "up"
      /\ Install(kicked, mem, SetAll(status, cut, outcome), SetAll(store, cut, outcome))
      /\ watching' = (watching \/ Held # {})
      /\ UNCHANGED <<nextId, text, ticking, tick, snap, cachedBusy, busy, transcript, attempts, histVars>>
ResumeRedelivers == ResumeAs("pending", TRUE)
ResumeInterrupted == ResumeAs("interrupted", TRUE)
ResumeWithoutKick == ResumeAs("failed", FALSE)

\* resumePersistedQueues, at the end of the boot: requests may have come before.
ResumePersistedQueues ==
  LET cut == Rows(mem, status, {"sending"})
  IN  /\ server = "booting"
      /\ server' = "up"
      /\ Install(TRUE, mem, SetAll(status, cut, "failed"), SetAll(store, cut, "failed"))
      /\ watching' = (watching \/ Held # {})
      /\ UNCHANGED <<nextId, text, ticking, tick, snap, cachedBusy, busy, transcript, attempts, histVars>>

-----------------------------------------------------------------------------
\* The harness

\* It takes a submitted text as a user turn: it marks itself busy, then writes
\* the user row.
AgentReads(id) ==
  /\ sub[id] > 0
  /\ id \notin transcript
  /\ transcript' = transcript \cup {id}
  /\ busy' = TRUE
  /\ UNCHANGED <<queueVars, workVars, watchVars, snap, server, cachedBusy, attempts, histVars>>

AgentIdles ==
  /\ busy
  /\ busy' = FALSE
  /\ ended' = transcript
  /\ UNCHANGED <<queueVars, workVars, watchVars, snap, server, cachedBusy, transcript,
                 sub, attempts, retries, origin, handed, gone, crashes>>

-----------------------------------------------------------------------------

Routes ==
  \/ EnqueueMessage
  \/ RecordCommandFileMessage
  \/ HoldMessage
  \/ ClearResolved
  \/ TakeUndeliveredQueue
  \/ \E id \in Id : UpdateHeldMessage(id) \/ RemoveHeldMessage(id) \/ RetryMessage(id)

Worker ==
  \E id \in Id :
    \/ DeliverEnter(id)
    \/ DeliverTypeRetry(id)
    \/ DeliverAgain(id)
    \/ DeliverAccept(id)
    \/ DeliverFail(id)

Polls == \E p \in Pollers : PollStart(p) \/ PollEnd(p)

Watcher ==
  \E t \in Ticks :
    \/ TickStart(t)
    \/ TickReconciled(t)
    \/ TickProbe(t)
    \/ TickFreshProbe(t)
    \/ TickCall(t)
    \/ TickRelease(t)
    \/ TickRefused(t)

Process ==
  \/ Crash
  \/ \E t \in Ticks : CrashMidRelease(t)
  \/ Boot
  \/ ResumePersistedQueues

Harness == AgentIdles \/ \E id \in Id : AgentReads(id)

Next == Routes \/ Worker \/ Polls \/ Watcher \/ Process \/ Harness

Spec == Init /\ [][Next]_vars

\* The event loop runs what is runnable: the worker's awaits return, its loop is
\* bounded, the boot completes.
WorkerFairness ==
  /\ \A id \in Id : WF_vars(DeliverAccept(id) \/ DeliverFail(id))
  /\ WF_vars(Boot) /\ WF_vars(ResumePersistedQueues)

\* The interval fires.  A live harness reads what it was sent and ends its turns.
\* Polls that keep being made keep seeing the transcript.
WatcherFairness ==
  /\ \A t \in Ticks :
       /\ WF_vars(TickStart(t))
       /\ WF_vars(TickReconciled(t))
       /\ SF_vars(tick[t].pc = "reconcile" /\ Promote(t) /\ TickReconciled(t))
       /\ WF_vars(TickProbe(t)) /\ SF_vars(TickProbe(t) /\ tick'[t].pc = "fresh")
       /\ WF_vars(TickFreshProbe(t)) /\ SF_vars(TickFreshProbe(t) /\ tick'[t].pc = "call")
       /\ WF_vars(TickCall(t))
       /\ WF_vars(TickRelease(t) \/ TickRefused(t))
  /\ \A id \in Id : WF_vars(AgentReads(id))
  /\ WF_vars(AgentIdles)

WorkerSpec == Spec /\ WorkerFairness
FairSpec == WorkerSpec /\ WatcherFairness

-----------------------------------------------------------------------------
\* Properties

\* One delivery at a time per session: however sends, retries, restarts and a
\* request that arrives before the boot is over interleave, kick()'s running flag
\* never lets two loops type into one composer.
OneDelivery == \A a, b \in Id : phase[a] # "off" /\ phase[b] # "off" => a = b

\* While the server is up, what the list shows is what a restart would reload:
\* every row of the list is in the table with the same status.
StoreMirrorsMemory == Listening => \A id \in mem : store[id] = status[id]

\* Nothing that left the list (cleared, dropped by the user, taken by a restart,
\* released) is in the table as something a restart would send: the writes of the
\* operations that still hold a reference only bring back settled rows.
NoResurrectedSend ==
  Listening => \A id \in Id \ mem : store[id] \notin {"pending", "sending", "held"}

\* A delivery is never repeated on the queue's own account, whatever a crash, the
\* boot, requests before its end and a retry in the middle of a delivery do: the
\* agent gets a row's text from at most one delivery for each time a person asked.
\* (One delivery may enter it up to MaxAttempts times.)
NoRedelivery == \A id \in Id : sub[id] <= 1 + retries[id]

\* A held row is handed to the harness once, whatever overlaps: edits, polls, a
\* slow probe, a slow handler.  Only a crash before its deletion repeats it.
HandedOncePerBoot == \A id \in Id : handed[id] <= 1 + crashes

\* Released rows of a command-file session go out one by one: the next waits until
\* the one before it is resolved, unless a person retried it.  (On a tmux session
\* resumePersistedQueues may mark a live delivery failed and its worker settle it
\* `queued' later, while the rows behind it go out.)
OneReleaseAtATime ==
  \A a, b \in Rows(mem, status, InFlight) :
    (/\ origin[a] # 0 /\ retries[a] = 0
     /\ origin[b] # 0 /\ retries[b] = 0) => a = b

\* A held row always has a watcher that will look at it, and a pending row a
\* worker: no order of restarts and requests strands them.
HeldIsWatched == server = "up" /\ Held # {} => watching
PendingHasWorker == server = "up" /\ Rows(mem, status, {"pending"}) # {} => running

\* The next held row does not ride on the turn of the one before it: when a
\* release is sent, every earlier release the agent has read, and nobody cleared
\* or took, is in a turn that has ended.
Releases(id) == origin[id] = 0 /\ origin'[id] # 0
NotOnTheSameTurn ==
  [][\A id \in Id : Releases(id) =>
       \A prev \in transcript : (origin[prev] # 0 /\ gone[prev] = "no") => prev \in ended]_vars

\* Every pending row is settled, across any number of restarts.
PendingSettles ==
  \A id \in Id : (id \in mem /\ status[id] = "pending")
                   ~> ((id \notin mem /\ Listening) \/ status[id] # "pending")

\* Every held row is sent, refused or dropped.
HeldDrains ==
  \A id \in Id : (id \in mem /\ status[id] = "held") ~> ((id \notin mem /\ Listening) \/ status[id] # "held")

-----------------------------------------------------------------------------
\* What the code says of itself and does not do

\* "A held row ... is the user's text, still theirs to edit or drop until the idle
\* release sends it" (commands/serve.ts): a release sends a text its user has not
\* dropped, as last edited.
HeldTextIsTheirs ==
  [][\A id \in Id : Releases(id) =>
       /\ gone[origin'[id]] # "dropped"
       /\ text'[id] = text[origin'[id]]]_vars

\* "Still in the box -> the Enter didn't submit" (sendq.ts): a delivery goes round
\* only with a text the agent does not have.
GoesRoundUntaken == [][\A id \in Id : DeliverAgain(id) => phase[id] # "taken"]_vars

\* "keeps cleared queue rows removed after a process restart" (sendq.test.ts).
ClearedStaysCleared == \A id \in mem : gone[id] # "cleared"

=============================================================================
