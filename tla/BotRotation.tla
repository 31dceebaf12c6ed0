------------------------------ MODULE BotRotation ------------------------------
(***************************************************************************)
(* Rotation of one persistent bot onto a fresh session, and everything     *)
(* that races it: rotateBotSession, the routes and timers that call it,    *)
(* the deliveries that share its per-bot mutex (serializeBotWork) and the  *)
(* writers that do not take the mutex -- edits of the record, sends to a   *)
(* session and reports of delegated work.  src/src/commands/serve.ts over  *)
(* src/src/bots/rotation.ts, bots/session.ts and bots/store.ts.            *)
(*                                                                         *)
(* A request is a process; it stops at every await, so a program counter   *)
(* names the await it is in, and a step runs to the next one.  Every       *)
(* write of the record is mutateBot's: read and written in one step.       *)
(*                                                                         *)
(* Left out: the bot's first session (it has one from the start), deletion *)
(* and disabling, delegated children beyond what blocks a rotation,        *)
(* runtimes other than command files, rows the person holds back, and the  *)
(* text of checkpoints.                                                    *)
(***************************************************************************)
EXTENDS Integers, Sequences

CONSTANTS
  Requests,         \* the requests and timer ticks of a behaviour
  Kinds,            \* what a request may be
  ConcurrentEdits,  \* FALSE: an edit begins after the one before was saved
  MaxCrashes        \* bound: crashes of the server

None == 0

\* Through applyPendingBotRotation, under the mutex, and past it.
Pending == {"message", "routine", "sweep"}
Delivers == {"message", "routine", "peer", "mention"}
Edits == {"edit", "self_update"}
AllKinds == Pending \cup Delivers \cup Edits \cup {"restart", "apply", "report", "send"}

ASSUME BotRotationAssumption ==
  /\ Kinds \subseteq AllKinds
  /\ ConcurrentEdits \in BOOLEAN
  /\ MaxCrashes \in Nat

Sessions == Nat \ {0}

VARIABLES
  bot,      \* the record on disk
  running,  \* sessions whose process runs
  listed,   \* those a scan shows as this bot's own conversation
  minted,   \* session ids used so far
  line,     \* botWorkTails: the critical section's holder, then those who wait
  pc,       \* the await each request is in
  req,      \* what each request has captured
  msg,      \* the message of each request that sends one
  given,    \* history: the configurations some runtime was launched with
  closed,   \* history: sessions the server closed since they were launched
  crashes   \* history, for the bound

vars == <<bot, running, listed, minted, line, pc, req, msg, given, closed, crashes>>

Reason == {"none", "config", "restart", "compaction"}

Bot == [sid : Sessions, config : Nat, applied : Nat, content : Nat,
        rot : {"idle", "queued", "rotating", "failed"}, reason : Reason,
        expected : Nat, archived : SUBSET Sessions]

Request == [kind : AllKinds \cup {"none"}, job : {"none", "rotate", "deliver"},
            reason : Reason, expected : Nat, seen : Bot,
            primary : Sessions \cup {None}, fresh : Sessions \cup {None},
            had : SUBSET Requests]

Message == [st : {"none", "queued", "read", "dropped"}, at : Sessions \cup {None}]

Rotating == {"admit", "drain", "prepare", "stage", "retire", "carry", "stop"}
Delivering == {"scan", "send", "launch"}
PC == {"new", "asked", "line", "saving", "done"} \cup Rotating \cup Delivering

InLine(p) == \E i \in DOMAIN line : line[i] = p
Holds(p) == line # <<>> /\ Head(line) = p

\* The types, and who has the mutex: a request is in the line exactly while it waits
\* for its turn or takes it, once, and only the head is past waiting.
TypeOK ==
  /\ bot \in Bot
  /\ minted \in Sessions /\ bot.sid <= minted
  /\ running \subseteq 1..minted /\ listed \subseteq running
  /\ line \in Seq(Requests)
  /\ \A i, j \in DOMAIN line : line[i] = line[j] => i = j
  /\ pc \in [Requests -> PC]
  /\ req \in [Requests -> Request]
  /\ msg \in [Requests -> Message]
  /\ given \subseteq Nat /\ closed \subseteq Sessions
  /\ crashes \in 0..MaxCrashes
  /\ \A p \in Requests :
       /\ pc[p] \in Rotating => Holds(p)
       /\ InLine(p) => pc[p] \in {"line"} \cup Rotating \cup Delivering
       /\ pc[p] = "line" => InLine(p)
       /\ pc[p] \in Delivering /\ req[p].kind # "report" => Holds(p)

FirstBot == [sid |-> 1, config |-> 1, applied |-> 1, content |-> 1, rot |-> "idle",
             reason |-> "none", expected |-> None, archived |-> {}]

Idle == [kind |-> "none", job |-> "none", reason |-> "none", expected |-> None,
         seen |-> FirstBot, primary |-> None, fresh |-> None, had |-> {}]

Init ==
  /\ bot = FirstBot
  /\ running = {1} /\ listed = {1} /\ minted = 1
  /\ line = <<>>
  /\ pc = [p \in Requests |-> "new"]
  /\ req = [p \in Requests |-> Idle]
  /\ msg = [p \in Requests |-> [st |-> "none", at |-> None]]
  /\ given = {1}
  /\ closed = {}
  /\ crashes = 0

-----------------------------------------------------------------------------
\* What the steps are made of

\* findBotMainSession: the saved session if the scan shows it, else another one of
\* the bot's own.
Main(b) == IF b.sid \in listed THEN {b.sid}
           ELSE IF listed # {} THEN listed ELSE {None}

\* botCanonicalSessionId, as the rotation uses it.
Previous(p) == IF req[p].primary # None THEN req[p].primary ELSE req[p].seen.sid

QueuedAt(s) == {q \in Requests : msg[q].st = "queued" /\ msg[q].at = s}

HasPendingConfig(b) == b.applied < b.config

Goto(p, where) == pc' = [pc EXCEPT ![p] = where]

\* Mutant: the section is left without its release.
LeaveHeld(p) == line' = line /\ Goto(p, "done") /\ req' = req

\* The critical section ends; a request that came to rotate first goes on to deliver.
Leave(p) ==
  /\ line' = Tail(line)
  /\ IF req[p].job = "rotate" /\ req[p].kind \in {"message", "routine"}
     THEN Goto(p, "asked") /\ req' = [req EXCEPT ![p].job = "deliver"]
     ELSE Goto(p, "done") /\ req' = req

\* A report is not in the section.
Finish(p) ==
  IF req[p].kind = "report" THEN Goto(p, "done") /\ UNCHANGED <<line, req>> ELSE Leave(p)

Launches(s, b) ==
  /\ running' = running \cup {s}
  /\ closed' = closed \ {s}
  /\ given' = given \cup {b.content}

\* closeLiveSession when it succeeds: the process and its row go, and clearResolved
\* deletes the rows the agent has not taken.
Closes(s) ==
  /\ running' = running \ {s}
  /\ listed' = listed \ {s}
  /\ closed' = closed \cup {s}
  /\ msg' = [q \in Requests |->
               IF q \in QueuedAt(s) THEN [msg[q] EXCEPT !.st = "dropped"] ELSE msg[q]]

Sends(p, st, s) == msg' = [msg EXCEPT ![p] = [st |-> st, at |-> s]]

RefreshFailed(b) == b.rot = "failed" /\ b.reason = "config"
Unsettled(b) == b.rot \in {"queued", "rotating"} \/ RefreshFailed(b)

runtimes == <<running, listed, minted, given, closed>>

-----------------------------------------------------------------------------
\* Requests and ticks arrive

Asks(p, r) == req' = [req EXCEPT ![p] = r] /\ Goto(p, "asked")

As(k) == [Idle EXCEPT !.kind = k, !.seen = bot]
ToRotate(k, reason, expected) ==
  [As(k) EXCEPT !.job = "rotate", !.reason = reason, !.expected = expected]

\* applyPendingBotRotation's request: the rotation the record has queued.
Queued(k) ==
  ToRotate(k, bot.reason, CASE bot.reason = "config" -> bot.config
                            [] bot.reason = "restart" -> bot.expected
                            [] OTHER -> None)

Deliver(p, k) ==
  /\ k \in Delivers
  /\ k = "mention" => ~Unsettled(bot)
  /\ Asks(p, IF k \in {"message", "routine"} /\ bot.rot = "queued"
             THEN Queued(k) ELSE [As(k) EXCEPT !.job = "deliver"])
  /\ UNCHANGED msg

\* A person restarts the runtime the client shows, or applies the revision it shows.
AskRestart(p, k) ==
  /\ k = "restart"
  /\ \E s \in 1..minted : Asks(p, ToRotate(k, "restart", s))
  /\ UNCHANGED msg

AskApply(p, k) ==
  /\ k = "apply"
  /\ IF bot.reason = "compaction" /\ ~HasPendingConfig(bot)
     THEN Asks(p, ToRotate(k, "compaction", None))
     ELSE \E revision \in 0..bot.config : Asks(p, ToRotate(k, "config", revision))
  /\ UNCHANGED msg

\* checkBotCompactionOnce; whether the context is full is measured outside.
Sweep(p, k) ==
  /\ k = "sweep"
  /\ \A q \in Requests : req[q].kind = "sweep" => pc[q] = "done"
  /\ bot.rot \notin {"rotating", "failed"}
  /\ ~(bot.rot = "queued" /\ bot.reason = "config")
  /\ Asks(p, IF bot.rot = "queued" THEN Queued(k) ELSE ToRotate(k, "compaction", None))
  /\ UNCHANGED msg

\* reviveBotSessionForReport: a child reports to a session that is gone.
Report(p, k) ==
  /\ k = "report"
  /\ ({bot.sid} \cup bot.archived) \ listed # {}
  /\ req' = [req EXCEPT ![p] = As(k)]
  /\ Goto(p, "scan")
  /\ UNCHANGED msg

\* POST /api/sessions/:id/send, to a session that is live.
SendDirectly(p, k) ==
  /\ k = "send"
  /\ \E s \in listed : Sends(p, "queued", s)
  /\ Goto(p, "done")
  /\ UNCHANGED req

StartEdit(p, k) ==
  /\ k \in Edits
  /\ ConcurrentEdits \/ \A q \in Requests : pc[q] # "saving"
  /\ req' = [req EXCEPT ![p] = As(k)]
  /\ Goto(p, "saving")
  /\ UNCHANGED msg

Arrive(p) ==
  /\ pc[p] = "new"
  /\ \E k \in Kinds :
       \/ Deliver(p, k) \/ AskRestart(p, k) \/ AskApply(p, k) \/ Sweep(p, k)
       \/ Report(p, k) \/ SendDirectly(p, k) \/ StartEdit(p, k)
  /\ UNCHANGED <<bot, runtimes, line, crashes>>

\* PATCH of the record, from what was read before the body and the repositories were:
\* a person's edit clears the rotation state, the bot's own queues a rotation.
SaveEdit(p) ==
  /\ pc[p] = "saving"
  /\ LET saved == [bot EXCEPT !.config = req[p].seen.config + 1, !.content = @ + 1]
     IN bot' = IF req[p].kind = "edit"
               THEN [saved EXCEPT !.rot = "idle", !.reason = "none", !.expected = None]
               ELSE [saved EXCEPT !.rot = "queued", !.reason = "config"]
  /\ Goto(p, "done")
  /\ UNCHANGED <<runtimes, line, req, msg, crashes>>

\* serializeBotWork: last in line.
Enlist(p) ==
  /\ pc[p] = "asked"
  /\ IF req[p].kind = "routine" /\ req[p].job = "deliver" /\ RefreshFailed(bot)
     THEN Goto(p, "done") /\ line' = line
     ELSE Goto(p, "line") /\ line' = Append(line, p)
  /\ UNCHANGED <<bot, runtimes, req, msg, crashes>>

-----------------------------------------------------------------------------
\* rotateBotSession

Stands(p, where) == pc[p] = where /\ Holds(p)

\* rotationCompareAndSwap and runtimeRotationCompareAndSwap.
Proceeds(p) ==
  CASE req[p].reason = "restart" -> bot.sid = req[p].expected
    [] req[p].expected # None    -> req[p].expected > bot.applied /\ req[p].expected = bot.config
    [] OTHER                     -> TRUE

Begin(p) ==
  /\ Stands(p, "line") /\ req[p].job = "rotate"
  /\ \/ /\ Proceeds(p)
        /\ req' = [req EXCEPT ![p].seen = bot,
                              ![p].had = {q \in Requests : msg[q].st = "queued"}]
        /\ Goto(p, "admit")
        /\ UNCHANGED <<bot, line>>
     \/ /\ ~Proceeds(p)
        /\ bot' = IF req[p].reason = "restart" /\ bot.rot = "queued"
                  THEN [bot EXCEPT !.rot = "idle", !.reason = "none", !.expected = None]
                  ELSE bot
        /\ Leave(p)
  /\ UNCHANGED <<runtimes, msg, crashes>>

ExpectedOf(p) == IF req[p].reason = "restart" THEN req[p].expected ELSE None

\* The rotation is queued on the record, or announced there.
Becomes(p, rot) ==
  bot' = [bot EXCEPT !.rot = rot, !.reason = req[p].reason, !.expected = ExpectedOf(p)]

\* The scan is in: a busy primary or a running child defers all but a restart.
Admit(p) ==
  /\ Stands(p, "admit")
  /\ \/ \E m \in Main(req[p].seen) :
          /\ req' = [req EXCEPT ![p].primary = m]
          /\ IF req[p].reason = "restart"
             THEN Becomes(p, "rotating") /\ Goto(p, "prepare")
             ELSE bot' = bot /\ Goto(p, "drain")
          /\ line' = line
     \/ req[p].reason # "restart" /\ Becomes(p, "queued") /\ Leave(p)
  /\ UNCHANGED <<runtimes, msg, crashes>>

\* Mutant: the queue is not asked.
DrainNothing(p) ==
  /\ Stands(p, "drain")
  /\ Becomes(p, "rotating") /\ Goto(p, "prepare") /\ UNCHANGED <<line, req>>
  /\ UNCHANGED <<runtimes, msg, crashes>>

\* reconcileQueued is back: sends the agent has not taken defer it too.
Drain(p) ==
  /\ Stands(p, "drain")
  /\ IF QueuedAt(Previous(p)) # {}
     THEN Becomes(p, "queued") /\ Leave(p)
     ELSE Becomes(p, "rotating") /\ Goto(p, "prepare") /\ UNCHANGED <<line, req>>
  /\ UNCHANGED <<runtimes, msg, crashes>>


Fails(p) ==
  /\ bot' = [bot EXCEPT !.rot = "failed", !.reason = req[p].reason]
  /\ Leave(p)

\* Mutant: the old runtime makes room before the new one starts.
PrepareInPlace(p) ==
  /\ Stands(p, "prepare")
  /\ \/ Fails(p) /\ Closes(req[p].primary) /\ UNCHANGED <<minted, given>>
     \/ LET s == minted + 1 IN
        /\ minted' = s
        /\ Launches(s, req[p].seen)
        /\ listed' = listed \cup {s}
        /\ req' = [req EXCEPT ![p].fresh = s]
        /\ Goto(p, "stage")
        /\ UNCHANGED <<bot, line, msg>>
  /\ UNCHANGED crashes

\* The checkpoint and the replacement's start, either of which may fail.
Prepare(p) ==
  /\ Stands(p, "prepare")
  /\ \/ Fails(p) /\ UNCHANGED runtimes
     \/ LET s == minted + 1 IN
        /\ minted' = s
        /\ Launches(s, req[p].seen)
        /\ listed' = listed \cup {s}
        /\ req' = [req EXCEPT ![p].fresh = s]
        /\ Goto(p, "stage")
        /\ UNCHANGED <<bot, line>>
  /\ UNCHANGED <<msg, crashes>>


\* Mutant: what is applied is the revision the record has by now.
StageCurrent(p) ==
  /\ Stands(p, "stage")
  /\ \/ Goto(p, "stop") /\ UNCHANGED bot
     \/ /\ bot' = [bot EXCEPT !.sid = req[p].fresh, !.applied = bot.config,
                              !.rot = "rotating", !.reason = req[p].reason]
        /\ Goto(p, IF req[p].primary # None THEN "retire" ELSE "carry")
  /\ UNCHANGED <<runtimes, line, req, msg, crashes>>

\* The conversation takes the replacement, and the record names it.
Stage(p) ==
  /\ Stands(p, "stage")
  /\ \/ Goto(p, "stop") /\ UNCHANGED bot
     \/ /\ bot' = [bot EXCEPT !.sid = req[p].fresh, !.applied = req[p].seen.config,
                              !.rot = "rotating", !.reason = req[p].reason]
        /\ Goto(p, IF req[p].primary # None THEN "retire" ELSE "carry")
  /\ UNCHANGED <<runtimes, line, req, msg, crashes>>


\* The old primary is closed; when it cannot be, the record goes back to it.
Retire(p) ==
  /\ Stands(p, "retire")
  /\ \/ Closes(req[p].primary) /\ Goto(p, "carry") /\ UNCHANGED bot
     \/ /\ bot' = [bot EXCEPT !.sid = Previous(p), !.applied = req[p].seen.applied,
                              !.rot = "failed", !.reason = req[p].reason]
        /\ Goto(p, "stop")
        /\ UNCHANGED <<running, listed, closed, msg>>
  /\ UNCHANGED <<minted, given, line, req, crashes>>

\* stopReplacement, whose failure is not looked at.
Stop(p) ==
  /\ Stands(p, "stop")
  /\ Closes(req[p].fresh) \/ UNCHANGED <<running, listed, closed, msg>>
  /\ Fails(p)
  /\ UNCHANGED <<minted, given, crashes>>

\* takeUndeliveredQueue, the sends to the replacement -- the first that fails is the
\* last, and what was taken is gone -- and the record's last write.
Carry(p) ==
  /\ Stands(p, "carry")
  /\ LET taken == QueuedAt(Previous(p)) IN
     \E sent \in SUBSET taken :
       msg' = [q \in Requests |->
                 CASE q \in sent          -> [msg[q] EXCEPT !.at = req[p].fresh]
                   [] q \in taken \ sent  -> [msg[q] EXCEPT !.st = "dropped"]
                   [] OTHER              -> msg[q]]
  /\ bot' = [bot EXCEPT !.rot = "idle", !.reason = "none", !.expected = None,
                        !.archived = @ \cup {Previous(p)}]
  /\ Leave(p)
  /\ UNCHANGED <<runtimes, crashes>>

-----------------------------------------------------------------------------
\* deliverBotMessage and ensureBotSession

\* Mutant: a queued rotation is applied from inside the section, behind itself.
OpenRotating(p) ==
  /\ Stands(p, "line") /\ req[p].job = "deliver"
  /\ IF req[p].kind \in {"message", "peer"} /\ bot.rot = "queued"
     THEN /\ line' = Append(line, p)
          /\ req' = [req EXCEPT ![p].job = "none"]
          /\ pc' = pc
     ELSE /\ req' = IF req[p].kind = "mention" THEN req ELSE [req EXCEPT ![p].seen = bot]
          /\ Goto(p, "scan")
          /\ line' = line
  /\ UNCHANGED <<bot, runtimes, msg, crashes>>

\* In the section: the record is read again and refuses while a rotation is unsettled.
\* A mention comes with the record it was resolved from; a routine is not refused.
Open(p) ==
  /\ Stands(p, "line") /\ req[p].job = "deliver"
  /\ IF req[p].kind \in {"message", "peer"} /\ Unsettled(bot)
     THEN Leave(p)
     ELSE /\ req' = IF req[p].kind = "mention" THEN req ELSE [req EXCEPT ![p].seen = bot]
          /\ Goto(p, "scan")
          /\ line' = line
  /\ UNCHANGED <<bot, runtimes, msg, crashes>>


Delivery(p, where) == pc[p] = where /\ (Holds(p) \/ req[p].kind = "report")

\* The scan is in: a live conversation heals a record that names another.
Find(p) ==
  /\ Delivery(p, "scan")
  /\ \E m \in Main(req[p].seen) :
       /\ req' = [req EXCEPT ![p].primary = m]
       /\ bot' = IF m \notin {None, req[p].seen.sid} THEN [bot EXCEPT !.sid = m] ELSE bot
       /\ Goto(p, IF m = None THEN "launch" ELSE "send")
  /\ UNCHANGED <<runtimes, line, msg, crashes>>

\* It may be refused, while the session moves.
Send(p) ==
  /\ Delivery(p, "send")
  /\ \/ Sends(p, "queued", req[p].primary) /\ bot' = [bot EXCEPT !.sid = req[p].primary]
     \/ UNCHANGED <<bot, msg>>
  /\ Finish(p)
  /\ UNCHANGED <<runtimes, crashes>>

\* A cold start under the record's own id; a message rides in the prompt, except a
\* peer's, which is queued.  The bot's other rows leave the list, also when the start
\* then fails.
ColdStart(p) ==
  /\ Delivery(p, "launch")
  /\ LET b == req[p].seen IN
     \/ listed' \in {listed, {}} /\ UNCHANGED <<bot, running, minted, given, closed, msg>>
     \/ /\ Launches(b.sid, b)
        /\ listed' = {b.sid}
        /\ minted' = minted
        /\ bot' = [bot EXCEPT !.sid = b.sid, !.applied = b.config]
        /\ Sends(p, IF req[p].kind = "peer" THEN "queued" ELSE "read", b.sid)
  /\ Finish(p)
  /\ UNCHANGED crashes

-----------------------------------------------------------------------------
\* The agents, the server, and time

AgentReads(q) ==
  /\ msg[q].st = "queued" /\ msg[q].at \in running
  /\ msg' = [msg EXCEPT ![q].st = "read"]
  /\ UNCHANGED <<bot, runtimes, line, pc, req, crashes>>

Die(s) ==
  /\ s \in running
  /\ running' = running \ {s} /\ listed' = listed \ {s}
  /\ UNCHANGED <<bot, minted, given, closed, line, pc, req, msg, crashes>>

\* The server stops and starts again; agents and records stay.
Crash ==
  /\ crashes < MaxCrashes
  /\ crashes' = crashes + 1
  /\ line' = <<>>
  /\ pc' = [p \in Requests |-> IF pc[p] = "new" THEN "new" ELSE "done"]
  /\ UNCHANGED <<bot, runtimes, req, msg>>

Rotate(p) ==
  Begin(p) \/ Admit(p) \/ Drain(p) \/ Prepare(p) \/ Stage(p) \/ Retire(p) \/ Stop(p) \/ Carry(p)

Step(p) ==
  SaveEdit(p) \/ Enlist(p) \/ Rotate(p) \/ Open(p) \/ Find(p) \/ Send(p) \/ ColdStart(p)

Next ==
  \/ \E p \in Requests : Arrive(p) \/ Step(p) \/ AgentReads(p)
  \/ \E s \in running : Die(s)
  \/ Crash

Spec == Init /\ [][Next]_vars

\* Every await a request is in comes back.
FairSpec == Spec /\ \A p \in Requests : WF_vars(Step(p))

-----------------------------------------------------------------------------
\* Properties

\* An edit that lands while a rotation runs is still offered (rotateBotSession's
\* targetRevision): the record calls its configuration applied only if some runtime was
\* launched with it.
EditsAreOffered == HasPendingConfig(bot) \/ bot.content \in given

\* A rotation that fails has left the old primary alone: no runtime is closed before
\* its replacement runs, is attached and is named by the record.
FailureKeepsPrimary ==
  [][bot.rot # "failed" /\ bot'.rot = "failed" =>
       \A p \in Requests : Holds(p) => req[p].primary \notin closed']_vars

\* A rotation the server decided on waits for the queue: it drops no message that was
\* queued when it began.
AutomaticRotationDrains ==
  [][\A p \in Requests : pc[p] = "retire" /\ req[p].reason # "restart" =>
       \A q \in req[p].had : msg[q].st = "queued" => msg'[q].st # "dropped"]_vars

\* The section is never held by a request that waits for it: every request ends.
RequestsEnd == \A p \in Requests : pc[p] # "new" ~> pc[p] = "done"

-----------------------------------------------------------------------------
\* What the code says of itself and does not do

\* "dropping it would make "restart now" cost the user the messages they were waiting
\* on" (commands/serve.ts): a restart drops no message.
RestartCarriesQueue ==
  [][\A p, q \in Requests : pc[p] = "retire" /\ req[p].reason = "restart"
                              /\ q \in req[p].had /\ msg[q].st = "queued"
                            => msg'[q].st # "dropped"]_vars

\* "bot refresh is in progress; retry in a moment" (commands/serve.ts): the state that
\* answers so ends.
RotationSettles == bot.rot = "rotating" ~> bot.rot # "rotating"

=============================================================================
