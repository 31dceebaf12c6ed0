# A TLA+ verification of omg.dev

omg.dev (`src/package.json`, the `omg`/`lfg` CLI) runs coding agents as long-lived
*sessions* on one machine: a Bun server (`src/src/commands/serve.ts`) starts agents in
tmux panes or behind command-file harnesses, shows them in a web app, a desktop app and
a small MCP server, and lets people, bots and schedules talk to them. This directory
models the parts of the server whose correctness depends on interleavings, crashes,
stale reads and retries, checks them with TLC on small instances, and proves what
matters most with TLAPS for every instance.

Paths are given as `sendq.ts:303`, relative to `src/src/`.

1. Inventory — 2. How the modules fit together — 3. Conventions — 4. The send queue —
5. The session list — 6. Launch admission — 7. Bot rotation — 8. The live transcript —
9. The command-file harness — 10. Findings and the autopilot — 11. The release install —
12. The runs — 13. The proofs — 14. What the code does that its words deny —
15. What is not modelled

## 1. Inventory

| Component | Source | State it keeps | Operations | What makes it hard | Here |
|---|---|---|---|---|---|
| Send queue | `sendq.ts`, `sendq-store.ts` | per session: rows in memory, the same rows in SQLite, a `running` flag, the held-row timer | enqueue, hold, edit, drop, retry, clear, deliver, reconcile, release, resume at boot | worker, timer, polls, routes and restarts interleave between awaits; rows are shared by reference | `SendQueue` |
| Session list cache | `session-cache.ts` | epoch, scan in flight, cached list, newest scan | get, invalidate, warm refresh | scans take seconds, overlap and end out of order | `SessionListCache`, promise in `SessionScan` |
| Launch admission | `agent-admission.ts`, `activationGate` in `commands/serve.ts` | reservations; managed records | fast pass, own scan, record, hydrate, release, revive, close | counting from a list that is seconds old while launches move from reservation to row | `Admission` |
| Bot rotation | `rotateBotSession` and the bot routes in `commands/serve.ts`, `bots/rotation.ts`, `bots/session.ts`, `bots/store.ts` | the bot's record, the per-bot mutex | rotate, deliver, edit, restart, apply, sweep, report | a rotation awaits a dozen times; some writers do not take the mutex; failures are rolled back; a crash is not | `BotRotation` |
| Live transcript | `live-ws.ts`, `packages/client` | per session: a sequence number, a ring of frames, a tail with its sockets; per client: a cursor | subscribe, resume, snapshot, gap, publish, close, restart | a subscription awaits; rows are indexed by another process; connections break between two frames | `LiveFeed`, promise in `TranscriptFeed` |
| Command-file harness | `agents/backends/*-session.ts`, `cmd-tail.ts`, `aisdk-registry.ts`, `session-recovery.ts`, the routes of `commands/serve.ts` | command file, cursor, registry entry, owner row | send, resume, close, move, poll, relaunch, recover at boot | two processes share three files; server, harness and host die at any point; pids are reused | `Harness` |
| Findings, autopilot | `auto/store.ts`, `auto/autopilot.ts`, `auto/fix-landing.ts`, `client-errors.ts` | one file of findings; creation claims | file, recur, click, clear, mark landed, promote, dispatch, reopen | every writer reads the file whole and writes it whole, awaits in between, and holds no lock | `Findings` |
| Self update | `self-update.ts`, `commands/update.ts` | the installed files, `node_modules`, its copy | check, download, unpack, reuse, install, restore | an update works in place, may fail or die at any point, and the next one begins from what it left | `ReleaseInstall` |
| Terminal delivery | `sendq.ts` `deliver`, `tmux.ts` | the screen | type, submit, answer selectors | the screen changes between look and keystroke | its outcomes in `SendQueue` |
| Transcript reconciliation | `sendq.ts` `reconcileQueued`, `transcript-index.ts` | transcript pages | match submitted texts to user rows | identical texts, pages that arrive late | its outcomes in `SendQueue` |
| Ask store | `ask/store.ts` | questions in a file | ask, answer, expire | read and write around awaits | no |
| Artifact refresh | `artifact-refresh.ts`, `artifacts.ts` | manifest, index, one child per artifact | refresh, publish, delete, replay | a child outlives the change of what it runs for; file and index are two writes | no |

Everything else (agent drivers, accounts, media, terminals, the user interface) is
listed in `PROJECT.json` with the reason it is left out.

How they interact. A *send* enters by a route, becomes a row of the send queue of its
session, is typed into a pane or appended to a command file, and is settled when the
transcript shows it. The *harness* of a session reads that file with a cursor; requests,
moves and recoveries start and stop it. What the agent then says reaches the browser
through the *live feed*. A *launch* asks the gate, which counts the session list; what
the gate admits shows up in that list later. A *bot* is a record that names a session; a
rotation launches a replacement through the gate, moves the record and the rows of the
queue, and closes the old session, which clears its queue. A *finding* is filed by a run
or a client, and the autopilot starts a session for it. The session list is what all of
them read, always some seconds old.

What makes each component correct, in a sentence:

- send queue: a text reaches the agent once per request for it, in order, and nothing
  that was removed comes back or goes out;
- session list: a reader never misses a change announced before it asked;
- admission: no more agents than the limit, and no reservation that outlives its launch;
- bot rotation: one runtime per bot, an edit is offered until some runtime has it, a
  failure leaves the old runtime, no message of a person is lost, nobody waits for ever;
- live feed: a client that was answered misses no row, and none it shows goes away;
- harness: one harness per session, a message dispatched once, no accepted message
  without a harness that will read it, no stop that hits another harness;
- findings: a bounded number of sessions per finding, one at a time, and none that is
  forgotten with a session that did not close it;
- release install: an update that says it is installed is, and a failed one leaves what
  was there.

The hazards behind these, each at its line, are `PROJECT.json`'s `hazards`.

## 2. How the modules fit together

| Module | Stands on | Abstract specification |
|---|---|---|
| `SendQueue` | — | — |
| `SessionScan` | — | is one: what a scan of the session list promises |
| `SessionListCache` | `SessionScan`'s variables and properties | implements `SessionScan` (`Promise`) |
| `Admission` | extends `SessionScan`: its scans are the promise's | — |
| `BotRotation` | — | — |
| `TranscriptFeed` | — | is one: what following a transcript promises |
| `LiveFeed` | — | implements `TranscriptFeed` (`FeedSpec`) |
| `Harness` | — | — |
| `Findings` | — | — |
| `ReleaseInstall` | — | — |

`Admission` is checked and proved over `SessionScan`, so the cache, which implements
that promise, may stand in for it. The agent of `SendQueue` (`AgentReads`,
`AgentIdles`) is external there; `Harness` is what is behind it for a command-file
session, seen from the file. `*Proofs` modules hold the theorems, `MC*` modules the
sets of the instances.

## 3. Conventions

The server is one JavaScript thread. What runs between two awaits is one action; a
program counter names the await a request, tick or scan is in. A harness, a command and
the server are processes of their own and interleave at every step. Every write to
SQLite or to a JSON file is synchronous unless a section says otherwise, so it belongs
to the step it stands in. A crash may follow any step, keeps what is on disk, and keeps
the agents, which are processes of their own.

Data is abstracted to what the properties tell apart: a row's id is its place in
creation order, a text is a version number, a session is a number, a configuration is a
number that no two edits share, a command says only which request it belongs to.

History variables are marked as such where they are declared; they are read by the
properties and by the bounds and by nothing else. Every bound is a constant whose name
begins with `Max`, or a field of a `Mode` in `LiveFeed`. Mutants are definitions beside
the ones they spoil; no specification uses them. A definition whose comment says that it
does not hold states what a comment of the code promises; section 14 tells the story.

## 4. The send queue

`SendQueue` is one session's queue. A row of the code is an object that the list, the
worker, a reconcile pass and a release share by reference, so the model keeps three
things apart: `status` and `text` (the object), `mem` (the list that holds it) and
`store` (its row in the table). Losing that distinction would hide the interesting
cases: an operation that awaits keeps its references, and writes rows that have left the
list meanwhile.

| Code | Model |
|---|---|
| `enqueueMessage`, `recordCommandFileMessage`, `holdMessage` | actions of the same names, over `Push` |
| `pruneTerminal` | `PruneChoices` inside `Push` |
| `kick` and its loop | `Install`, `PickNext`, `Settle` |
| `deliver` and its loop of three attempts | `DeliverEnter` (the text is in the composer, Enter; the agent takes it or not) or `DeliverTypeRetry` (it never showed), then `DeliverAccept`, `DeliverAgain` (24 looks without acceptance) or `DeliverFail` |
| `reconcileQueued` | `StartReconcile`, then `Promote` or `GiveUp` after its awaits |
| `watchHeld`'s tick | `TickStart`, `TickReconciled`, `TickProbe`, `TickFreshProbe`, `TickCall`, one per await |
| `releaseNextHeldMessage` and the handler | `TickCall`, then `TickRelease` or `TickRefused` |
| a stop of the server | `Crash`, or `CrashMidRelease` between the two table writes of a release |
| the boot | `Boot` (requests are served, the list loads lazily) then `ResumePersistedQueues` |

A screen is not modelled: what a look at the composer shows is a choice, whatever the
agent has taken, so an attempt may go round although the text was taken (`phase` is
`taken`, `missed` or, for the next attempt, `retyping`). `sub` counts a row's deliveries,
not the Enters in them: those from which the agent got the text, and the appends to a
command file.

`CommandFile` says which of the two transports the session has; the queue behaves
differently enough that each has runs and theorems of its own. The agent (`AgentReads`,
`AgentIdles`) is external: it takes a submitted text as a user turn at some time, is
busy until it idles, and marks itself busy before the transcript shows the row.

## 5. The session list

`SessionScan` is the promise of `session-cache.ts`'s comments. A scan looks at each row
at a moment of its own, so its result is any set between the rows listed all the time it
ran and the rows listed at some time; a `Window` follows both. `Seen(window)` are the
answers a scan over that interval may give. A reader's answer must be in the window
that began with the last invalidation before it asked.

`SessionListCache` is `createSessionListCache`: `get`, `invalidate`, `startScan` with
its two exits, `warmRefreshTick`. Scans are slots, so that they overlap; a scan that an
invalidation retired still ends (`ScanDone`, `ScanFails`), and only the owner of the
slot in flight may install its rows (`Owns`). `cached.begun` is history.

## 6. Launch admission

`Admission` is `activationGate` with its two passes. The fast pass counts the newest
finished scan, plus the records created since that scan began
(`recentAdmissionSessions`), plus the reservations; a refusal there is decided again on
a scan of its own (`ScanBegins`, `ScanEnds`), which takes time. `stage` follows a launch
from its record (`Record`, with the folder made in the background by `Hydrated` or
`StartNothing`; or `RecordAndRun`, a cold resume) to `up`, `dead`, `gone`. `Abort` is
the request that fails before its record; `Revive` the harness that died and is asked
for again; `Restart` the server's, after which reservations are forgotten and the
records stay. The scans are those of `SessionScan`: nothing else about the cache is
assumed. `Kind` gives each launch its pool and its exemption.

Left out: the memory budget and the reclaim of idle agents (what remains is the count),
and limit 0, which means unlimited.

## 7. Bot rotation

`BotRotation` is one bot. A request (a route, a timer tick, a child's report) is a
process; its kind decides what it does:

| Kind | Code | Inside the mutex? |
|---|---|---|
| message | `POST /api/bots/:id/messages`: first `applyPendingBotRotation`, then the delivery | both, separately |
| routine | `setBotRoutineDelivery`: the same, without the refusal while a rotation is unsettled | both, separately |
| peer | the peer route: delivery, refused while unsettled | yes |
| mention | `dispatchBotMentions`: delivery with the record it was resolved from | yes |
| restart, apply | `/restart` with the runtime the client saw, `/rotate` with the revision it saw | yes |
| sweep | `checkBotCompactionOnce`; whether the context is full is not modelled | yes |
| report | `reviveBotSessionForReport` | no |
| send | `POST /api/sessions/:id/send` to a live session | no |
| edit, self_update | `PATCH` of the record by a person, by the bot | no |

`line` is `serializeBotWork`: the holder is its head. A rotation walks `admit` (the
scan), `drain` (the reconcile), `prepare` (checkpoint, gate and launch), `stage`
(attachment and record), `retire` (the close of the old primary), `carry` (the queue)
or `stop` (the roll-back), each of which may fail as the code allows. A delivery walks
`scan`, then `send` or `launch`. The record is written by `mutateBot`, which reads and
writes in one step; what a request captured before an await is `req[p].seen`.

`listed` are the sessions a scan shows as this bot's own conversation. A scan is taken
as of the moment it ends here; section 5 is about what happens when it is not.
`content` is history made visible: it numbers the configurations themselves, where
`config` and `applied` are the record's revision numbers.

## 8. The live transcript

`LiveFeed` is one session's transcript on the sockets. The server counts the frames of
a channel, keeps the last of them in a ring, and follows the transcript with one *tail*
while some socket is subscribed. A client keeps a cursor; when it comes back it asks to
be resumed from it and is replayed, told of a gap, or sent a snapshot.

| Code | Model |
|---|---|
| `publishChannelDelta`, `stamp`, `rememberDelta` | `Publish`, `Remember`, `Trim` |
| the tail's two polls | `PollTranscript` (rows), `PollState` (busy) |
| `publishCurrentBatch` at the end of a turn | `SendBatch` |
| `subscribeTranscript` | `Subscribe`, then `Resume`, `Gap`, or `ReadSnapshot` and `SendSnapshot`, and `Join` |
| `cleanupSidTail`, `unsubscribe`, `close` | `Unsubscribe`, `Close` |
| `subscribeIndexedArtifactMessages` | `ShowArtifact` |
| the client's connection and its reducer | `Connect`, `Lose`, `Leave`, `Come`, `Deliver` with `Shows` |
| a restart of the server | `Restart` |

`mode` says what a behaviour may contain: a harness that indexes its own rows (then a
subscription never gives up the thread) or a file that the server ingests (then it
awaits twice), artifacts that are published past the tail, clients that leave and open
the page again, restarts, and, as bounds, the rows and the frames without a row. One run
takes the union of the modes, each with its own bounds: what a fault costs is then told
apart from what another costs. `Plain` names the modes in which a resume tells the
truth; the other modes check the rest, and section 14 says what they would refute.

`TranscriptFeed` is the abstract specification: a log that grows and readers that see
more and more of it. The refinement says that rings, replays, snapshots, gaps and
broken connections never show a row that is not in the log and never take one away. It
says nothing of rows that a client lacks; `HolesAreSkips` does (the only rows missing
are those indexed between a snapshot and the tail that follows it), and
`ConnectedCatchesUp` says that a client that stays gets those too.

## 9. The command-file harness

`Harness` is one session whose agent runs behind a command file. The server appends a
command; the harness, a process of its own, reads what is behind its *cursor*,
dispatches it and writes the cursor back. The entry of the registry names the harness's
pid; the owner row (`managed.json`) says that the session should have one.

| Code | Model |
|---|---|
| the poll of a harness: read, dispatch, write the cursor | `Poll`, `SaveCursor` |
| start, registration and the first cursor, in each backend's order | `Register`, `Start` |
| shutdown, the provider's stream that ends, a kill | `Exit`, `StreamEnds`, `Crash` |
| `sendPromptToLiveSession`, `/resume`, `/resume/send` | `Arrive`, `Send`, `Resume`, `Revive`, `ReviveFails`, `ColdStart` |
| close: ask, then reap | `CloseAsk`, `CloseReap` |
| move: stop here, start there, undo | `MoveStart`, `MoveRelaunch`, `MoveRefused`, `MoveReady`, `MoveUndo`, `MoveRestore`, `MoveRestoreFails`, `MoveFails` |
| boot recovery | `Adopt`, `Recover`, `Reconcile` |
| server, host | `ServerStops`, `ServerStarts`, `HostReboots` |
| the 60 s of a relaunch claim | `ClaimAges` |

`Kinds` are the backends, which differ in when they register and when they place or give
up the cursor: `managed` (managed-sdk-session), `aisdk`, `codex` (and opencode), `pi`.
The history variables separate what the code promises from the windows it leaves open:
`torn` (dispatched, cursor not written when the harness died), `early` (sent before
there was a cursor), `stray` and `behind` (a cursor written after its file was removed,
and what was sent beside it), `shared` (two harnesses at once), `misfired` and `loose`
(the stop of an undone move), `unclaimed` (a harness that boots and that no claim
covers: one started beside another, or the restored one of a move that was given up
after ten seconds). A property that excludes one of them says so, and section 14 says
why the code cannot do without.

Left out: interrupts and answers (read like a message), the busy flag, agents in a
systemd unit, whose second start systemd refuses.

## 10. Findings and the autopilot

`Findings` is `findings.jsonl` with all its writers. `updateFinding` and its like read
the file, await, and write all of it: an update made meanwhile by another is lost, and
nothing is retried. The model keeps that: a writer's step puts back the rows as it read
them (`snap`).

| Code | Model |
|---|---|
| a run that files what it found, a client error | `FilerStarts`, `FilerLooks`, `FilerRecurs` or `FilerAdds`, and for an error `FilerReadsToAttach`, `FilerAttaches` |
| a person's change, "clear all" | `ClickReads`, `ClickWrites`; `ClearReads`, `ClearWrites` |
| `reconcileFixLandings` | `SchedStarts`, `SchedLooks`, `SchedReads`, `SchedMarks`, then `SchedReadsQuiet`, `SchedPromotes` |
| `autopilotTick` | `PilotBegins`, then per stuck row `PilotReadsStuck`, `PilotReopens`; `PilotPicks`; per candidate `PilotPosts`, or `PilotRefused`, then `PilotReads` and `PilotLinks` or `PilotCounts` |
| `addManaged` with a creation key | `claims`: the one write that is atomic and idempotent |
| restarts | `Crash`: the file and the claims stay |

The question is what the autopilot keeps over such a file. That a lost update does not
start a session twice rests on the claim: the key is the finding and the number of the
attempt, and a session that exists for it is found again instead of started.

Abstractions: titles that match are one topic; `closedAt`, the occurrence count, the
order by severity, the hourly budget, the agents excluded and the session's id are left
out; a client error's own fix session is a choice of the environment. The answer to a
dispatch may be lost: it then counts as refused, and its session runs. The tick is one
process, because its `ticking` flag refuses a second one; a restart ends it. The write of
the file is taken as atomic (section 14).

## 11. The release install

`ReleaseInstall` is one release install on disk: the release its `package.json` is of
(`disk`), whether the other files are all of it (`mixed`), `node_modules` and
`node_modules.previous`. Two updaters work on it: the server, for its timer and for the
button, behind one lock, and the command `omg update`, a process of its own that asks
for no lock.

| Code | Model |
|---|---|
| `maybeAutoUpdateOnStart` | `LoopLooks`, `LoopApplies` |
| `POST /api/install` | `ButtonLooks`, `ButtonApplies` |
| `commands/update.ts` | `CliStarts` |
| `applyReleaseUpdate` | `LooksUp`, `GivesUp` (network, checksum, unsafe paths), and the next row |
| `installReleaseBundle` | `SetsAside`, `Clears`, `Unpacks`, `Unpacked` or `UnpackFails` and `Restores`; `KeepsBundled`, `Reuses`, or `Discards` with `Fetches`, `Installs`, `InstallFails` |
| a restart | `ServerStops`, `ServerStarts` |

`Unpacks` is tar between its first and its last file: the package.json may be the old or
the new one, and a bundle with a `node_modules` may have begun to write it. A tree knows
the release it was made for; `Fits` says when it satisfies another's manifest
(`dependencyManifest` speaks only for packages from the registry). `harm` is history:
which of the files an update that failed, or died, may have left without its other half,
and whether two updaters were at the files at once.

Left out: source checkouts, the cached tag, the skipped version, the changelog; the
server's other reasons not to update.

## 12. The runs

TLC runs with two workers; each run is named after its cfg.

| Run | Instance | States | What it asks |
|---|---|---|---|
| `SendQueue_tmux` | tmux, 2 rows, 1 tick slot, 1 poller, 1 retry, 1 edit, 1 crash, 2 attempts of a delivery; fair | 719 623 | list and table agree, nothing removed is resurrected, one delivery at a time, no text is delivered again without a request for it, every pending row is settled |
| `SendQueue_held` | command file, 3 rows, 2 tick slots, 1 crash; fair | 80 587 | a held row is handed over once per boot, one at a time, on its own turn, and every held row is sent, refused or dropped |
| `SessionListCache` | 2 rows, 2 scans, 1 reader, 2 ticks, 2 invalidations | 401 310 | answers are current, and the cache implements `SessionScan` |
| `Admission` | a person's override and an interactive launch, limit 1, scans that fail, 1 restart; fair | 83 384 | the fast pass is safe, reservations end |
| `BotRotation` | 2 requests of any kind, 1 crash; fair | 121 467 | edits stay offered, a failure leaves the old primary, automatic rotations drain the queue, every request ends |
| `BotRotation_x_carry` | 2 requests | | section 14 |
| `LiveFeed` | 1 client, a ring of 2 frames, 2 rows, 2 connections, 2 subscriptions under way; the union of six modes; fair | 781 263 | a tail has its sockets and no others, no row is missing but the skipped ones, `TranscriptFeed` is implemented, a connected client catches up |
| `LiveFeed_x_gap` | 3 connections | | section 14 |
| `Harness` | kinds managed, aisdk and pi; 2 requests of any sort, 3 launches, 1 fault, moves; fair | 411 598 | one harness, at most one dispatch, nothing behind the cursor but the known windows, stops hit their harness, an accepted message is attended and read |
| `Harness_x_early` | aisdk, 2 launches, no fault | | section 14 |
| `Findings` | 1 topic, 1 filer or click beside the landing pass and the autopilot, 2 findings, 2 attempts, 1 landing, 1 clock step, 1 crash; fair | 365 073 | sessions per finding are bounded, one at a time, and none hides its finding |
| `ReleaseInstall` | 3 releases, of which two share a manifest and one has none; both kinds of bundle; any number of failures, deaths and restarts | 641 429 | an update that claims left a complete release, a failed unpacking costs no tree |

Deadlock is checked in `Findings` and `ReleaseInstall`; elsewhere rows, requests and
launches are finitely many and everything may be done.

Why the bounds are enough to be interesting. Three rows are one released, one held
behind it and one sent directly, the smallest setting in which a gate can be overtaken;
two tick slots let ticks overlap. The code makes three attempts of a delivery; two are
one that goes round and the last, and a third adds only a second going round. One crash
is a boot over whatever a first life left. Two scans in slots are the fewest that end
out of order, and two invalidations the fewest with a retired scan between them. Two
launches at limit one are the fewest that can exceed it through the fast pass. Two
requests are every pair: a rotation against each of its rivals; the crash adds what a
second life finds. In `LiveFeed` a ring of two frames overflows within a turn of two
rows and a busy delta, and two connections are one that breaks and the one that resumes.
In `Harness` three launches are the first harness, the one that replaces it and the one
that a twin or an undo starts. In `Findings` one call and one crash make the autopilot,
the landing pass and one more writer overlap in every order; one clock step is the
window of a first attempt that runs out. Larger instances were checked once: `Findings`
with two clock steps (1 648 344 states, with its liveness property) and with two
landings (807 548, likewise), `ReleaseInstall` with four releases (2 745 768). Mutants
of the code, one for each property, are found under the same bounds. The theorems of
section 13 need no bounds.

Fairness. `SendQueue_tmux` assumes of the server that a delivery under way ends and that
a boot does (`WorkerSpec`): the awaits are sleeps and reads of files, the attempts are
counted. `SendQueue_held` (`FairSpec`) adds the ticks and the agent, weakly fair, and a
probe that is asked again and again is answered in both ways (strong fairness); an agent
that never ends its turn, or a route that nobody calls, is not assumed away where the
property does not need it. `Admission`: the code of a launch runs to its end, because
each of its awaits (git, a file, a child) returns or throws. `BotRotation`: the same for
the awaits of a request. `LiveFeed`: the tail's timers fire, an agent's turn ends, file
reads of a subscription return, and a frame on a connection that does not break arrives.
`Harness`: a harness that runs takes its steps (its poll is a timer); nothing is assumed
of the server, of requests or of recoveries. `Findings`: the scheduler's timer fires,
the awaits of its pass and of the tick end, and time goes on, each of the three by
itself; the pass waits for the runs it has started, so this includes that they end.
`ReleaseInstall` has no liveness property. No fairness is assumed of people, of clients
or of crashes. Each await returns because a timeout or the event loop makes it: what a
child process that hangs does is outside of these models.

## 13. The proofs

All theorems hold for every value of the constants that satisfies the modules' named
assumptions (`ConstAssumption`, `ScanAssumption`, `CacheAssumption`,
`AdmissionAssumption`, `BotRotationAssumption`, `FeedAssumption`, the five of `Harness`,
`FindingsAssumption`, `ReleaseAssumption`), which only give types (the fifth of `Harness`:
no request is also a stop); two theorems say more and are marked below.

**Send queue.** `TypeCorrect` is inductive by itself. The safety invariants rest on
`QueueInv` and `HeldInv` (`SendQueueProofs`). The invariants that the runs check
are not inductive: nothing in "one row is being typed" says why a worker that resumes
after an await may still write its row. `QueueInv` counts deliveries. A row that waits
in the table has one left, its first or one a person asked for; a row under delivery
has one left until the agent takes its text and none after that, in whichever attempt,
and belongs to the one loop that holds `running`; a row may be both
typed and waiting (the boot took a live delivery for an interrupted one and its user
retried it), and then it has two. `HeldInv` says the same of releases and crashes, with
one tick at a time past the gate. From these come `OneDelivery`, `StoreMirrorsMemory`,
`NoResurrectedSend`, `NoRedelivery`, `HandedOncePerBoot`, and `AttendedHolds`: a timer
or a worker exists for whatever waits (`HeldIsWatched`, `PendingHasWorker`, which are
proved and in no run: the liveness properties of the runs fail without them).
It also proves, for command-file sessions (`CommandFile` is a hypothesis),
`OneReleaseAtATime` and `NotOnTheSameTurn`: `TurnInv` follows a tick through its two
gates. The in-flight gate says that every earlier release was read; the fresh probe,
which asks the harness itself, that the agent has been idle since, so that those turns
have ended.

**Session list.** `CacheInv` compares windows: a scan of the current epoch began after
the last invalidation, so what it has seen lies within the settled window; likewise for
the cached list and for the reader who joined. `Implements` is the refinement of
`SessionScan`; its step lemma gives, for each action of the cache, the action of the
promise it is. `CacheStaysYoung` and `LatestGoesForward` are proved beside it.

**Admission.** `AdmissionInv` says of every scan, running or finished, that a launch
with a live record is in its rows or has a record no older than the scan. What
`recentAdmissionSessions` adds is then all that the scan can have missed, and a lemma
about cardinalities turns this into `FastPassIsSafe`.

**Bot rotation.** `Data` says where session ids come from: what a request captured is
never newer than what was minted, and a request that is to close or to carry has
something to close or to carry to. `Place` says who is in the line: a request past
waiting is its head, a report never is in it. Both are inductive; their steps come in
three shapes (the head stays, the head leaves, somebody outside moves), each a lemma.
`TypeOK`, with mutual exclusion, follows for any number of requests. `EditsOffered`
assumes `ConcurrentEdits = FALSE`: an edit begins after the one before it was saved. Its
invariant, `Claims`, says that a captured record still tells the truth as far as it can:
its revision is at most the record's, names the same configuration when it is the same,
and what it calls applied was launched, so that committing it, or rolling back to it,
never hides an edit. Without the assumption the theorem is false (section 14).
Two action properties have invariants of their own. `Spared`: what a rotation is to
replace has not been closed while it drains, prepares, stages, retires or stops, and its
successor is a later session, so that a roll-back, which stops the successor, cannot hit
it; this gives `FailureKeepsPrimaryHolds`. `Settled`: a row of the queue exists only once
its request has ended, so no row arrives while a rotation holds the mutex, and from the
drained queue on none of the rows it began with is queued under the runtime it retires;
this gives `AutomaticRotationDrainsHolds`.

**Live feed.** `LiveInv` says who owns what: sockets belong to one client, which is
subscribed on the one it has (`Owners`); a subscribed socket is on the tail or its
subscription is under way (`Followed`); a harness session's subscription runs through, so
its socket is still there when it joins (`RunsThrough`); and a frame, a snapshot under
way and a client carry only rows that are in the index (`RowsWritten`). From it follow
`TailKeepsItsSockets` and, with a step lemma per action, the refinement
`LiveImplementsFeed`: a delivered frame is `Show`, a committed row is `Write`, all else
stutters. `HolesAreSkipsHolds` needs to know where a row is that a client lacks, and
`HoleInv` says it, in the plain modes. The ring is in order, and has every delta from its
first on; so has a queue of frames, and what it holds is also in the ring, as far as the
ring reaches (`QueueOK`). A client that was answered finds each published row shown,
skipped, or in a delta under way, unless a gap is in front of it, and a snapshot under
way leaves nothing open behind it (`ComingOK`). A client that was not answered finds
them shown, skipped, or in the ring past its cursor, if the ring reaches back to it
(`LaterOK`); a broken connection leads from the first to the second, a replay back. A
gap is told only where the ring does not reach, and no later publication makes it reach
again (`ReachBack`). `Asking` says what a client may have received between its request
and the answer, `OneByOne` that requests and batches run through alone.

**Harness.** `TypeCorrect`; `OneHarnessHolds` from `OneInv`, which says what the entry
knows of the processes until somebody starts one under no claim: who runs is named by
it, who boots is under a claim (its own, or the row's age), and a move that holds the
session knows the one process there may be. A move that is given up while its restored
harness boots lets go of it under no claim, and from there `unclaimed` holds.
`AcceptedAttended` says of the same invariant that an accepted message finds a live
harness or a cold start on its way. `AtMostOnceHolds`, from `OnceInv`: as long as one
harness at a time reads, a message that was dispatched lies behind the cursor, or in the
batch that this harness has dispatched and not yet written a cursor for, and behind the
offset of every harness that polls. `NothingSkippedHolds`, from `SkipInv`: a message
that was neither dispatched nor lost in one of the windows that `early` and `behind`
record lies ahead of the cursor and of every offset; for that, a cursor or an offset
past the end of the file has to be explained (a file removed under a harness, during
which no move can begin), and while a move holds the session no message is unread.
`StopsHitTheirHarnessHolds`, from `StopsInv`: a stop in the file lies behind the cursor
and every offset, so that nobody takes it again, or is the one the move under way is
waiting for.

**Findings.** `TypeCorrect` is inductive by itself. `SessionsBoundedHolds` rests on
`Counted`: a finding has as many launches as keys of claims, and there are `MaxAttempts`
keys. `OneSessionHolds` rests on `OneInv`. A lost update puts back an older version of a
row, so the invariant speaks of every version that anybody still holds (`Versions`): the
attempts it counts were launched, the last of them no later than it says, and if it
offers the finding to the autopilot, that launch is a window ago (`Truthful`), measured
at the time of the tick that is or may come next (`Mark`): a tick gets the time at which
the pass before it began, and no pass is older than the tick before it (`Timely`). What
the tick remembers of a version says as much (`Knows`). A version that is true stays
true while time goes on and sessions start, so a step only has to answer for the row it
changes.

**Release install.** `Inv` says, as long as two updaters have not crossed, that one
update is at the files at most; that between updates the files are a pair unless `harm`
says otherwise (`AtRest`); and during one, what it has made of them and that the tree it
set aside is the one its manifest speaks for (`UnderWay`). Steps come in four shapes
(away from the files, staying, coming, leaving), each a lemma. From it follow
`ClaimIsSoundHolds` and `FailureKeepsTreeHolds`.

What stays with TLC: all liveness (`PendingSettles`, `HeldDrains`, `ReservationsEnd`,
`RequestsEnd`, `ConnectedCatchesUp`, `SentIsRead`, `VisibleAgain`: the prover has no
rules for fairness), and the violations, which are counterexamples. Every invariant and
every action property of a passing run is a theorem. TLC checked the inductive
invariants on small instances before they were proved.

## 14. What the code does that its words deny

Each of these is a run that TLC finds violated; `findings` in `PROJECT.json` quotes the
words.

- `BotRotation_x_carry`: a restart closes the old runtime, which deletes the `queued`
  rows of its queue, before it takes that queue over. Messages that waited behind the
  turn are lost, which is what the carry exists to prevent. Rows that the person holds
  back, or that were not handed to a harness yet, do survive.
- `LiveFeed_x_gap`: a client moves its cursor on a gap frame, before the snapshot that
  answers the gap. A connection that breaks in between is resumed past it, and the rows
  of the gap stay missing without a sign.
- `Harness_x_early`: every backend but managed-sdk-session places its first cursor at
  the end of the file when it is ready. A message accepted before that is never read.

The modules were also run, outside the list above, against other promises; what follows
are traces TLC found, or readings of the code that no run covers.

*Send queue.* A release hands over the text it captured, then awaits; the person edits or
drops the row meanwhile, is told that it worked, and the old text goes out all the same
(`HeldTextIsTheirs`). `reconcileQueued` persists the rows it collected before its awaits:
a row cleared meanwhile is written back and is there again after a restart
(`ClearedStaysCleared`). `sendq.ts:322`: the in-flight gate is checked before the two
probes are awaited; a send accepted in between makes it stale, and a held row may follow
that send onto its turn (`NotOnTheSameTurn` is about releases and holds). `sendq.ts:511`,
`commands/serve.ts:12387`: requests are served before `resumePersistedQueues` runs, which
may then mark a live delivery `failed`; a person who believes it and retries sends the
text twice (`NoRedelivery` counts that retry). `sendq.ts:900`: 24 looks that find the
text in the composer are read as an Enter that did not submit, and the loop goes round.
The agent may have it all the same (Codex keeps a submitted prompt visible,
`sendq.ts:896`); if the text is gone when the next attempt looks, it is cleared, typed
and entered again, so one delivery may submit up to three times (`GoesRoundUntaken` is
refuted). `sendq.ts:716`: two submitted rows with
the same text may be matched to one user row. `sendq.ts:767`: a selector or overlay may
appear between two looks at the screen and take the Enter; neither screens nor
transcripts are modelled.

*Admission.* The gate's own scan takes seconds: a launch admitted earlier may move from
reservation to row while the scan runs, after the scan has passed it, and is counted
nowhere (`NeverOverLimit`, three launches at limit two). `agent-admission.ts:378`: a
hydrating launch is both a listed row and a reservation, so the refusing pass counts it
twice and refuses below the limit while its folder is made; one reservation map serves
pools that are counted apart, with the same effect.

*Bots.* A server that stops while a record says `rotating` leaves it so: the sweep skips
such a bot, messages, peers and mentions are refused with "retry in a moment", and only
an edit, a restart or an apply by a person ends it (`RotationSettles`).
`commands/serve.ts:4304`: a report revives the bot outside the mutex. It may read the
record, find the old primary live and rebind the record to it after a rotation has staged
the replacement, or start a second runtime beside a cold start of a message.
`commands/serve.ts:7472`: two edits at once compute the same next revision from records
read before their awaits. If a rotation applies it between the two saves, the second edit
is never offered: this is `ConcurrentEdits = TRUE`, under which TLC refutes
`EditsAreOffered` on three requests. `bots/rotation.ts:187`: a record from before
revisions existed has no applied revision, and an absent one reads as the current one, so
its first edit reads as applied and is not offered. `commands/serve.ts:11079`: a direct
send recorded between the queue check of an automatic rotation and its close is lost with
the old session.

*Live feed.* An artifact published while no tail runs goes into a ring that was cleared,
and a client with an older cursor is resumed past the rows between (`ModesArtifact`). For
a session without a harness, a socket that closes during the awaits of
`subscribeTranscript` is still added to the tail, and `isSessionWatched` answers yes for
ever, against its comment at `live-ws.ts:469` (`NeverStaleYes`, `ModesFile`); in the same
mode a delta published while a resume waits moves the client's cursor past frames the
replay then sends. A restart counts frames from one again, and an old cursor may fall
into the new ring's range; a frame in flight when the client unsubscribes brings its
cursor back. A row indexed between snapshot and tail stays missing for a client that is
not connected when the turn ends. `live-ws.ts:876`: a status baseline read before a
broadcast may be sent after it.

*Harness.* A codex, opencode or pi harness that obeys a close removes its files inside
the poll, and the same tick writes the cursor again; the next harness skips what was
written into the new file (`NoStrayCursor`, against the comment of `removeEntry`). The
undo of a move appends a second stop that the restored harness does not step over
(`misfired` with `loose`). Two resumes within the boot window of the first, or one
during that of the boot recovery, start twins (`unclaimed`). So does the next send after
a move that was given up: the restored harness has ten seconds to register
(`session-recovery.ts:221`); one that needs longer goes on booting, with an entry
without a pid, no claim, the owner `failed` and the session let go (`unclaimed`). A
crash between dispatch and cursor delivers a command again. A close of a session that
still boots leaves an orphan; after a reboot a close may signal, and a resume may take
for alive, a process that got the pid. A server that stops in a move forgets that it
holds the session and leaves the stop unread. The end of an aisdk stream removes the
file with what is unread in it.

*Findings.* `dismissAllFindings` (`auto/store.ts:527`) is said not to interleave with a
concurrent add; it awaits between its read and its write like the others. A landing
signal may overwrite what a person decided meanwhile: `updateFinding` reads again and
does not ask for the status again. `promoteLandedFixes` may overwrite a recurrence. The
list of stuck findings is stale when the tick reopens them; a dispatch may undo a
dismissal and ignore a `needsHuman` set meanwhile. A finding whose attempts are used up
and that recurs is open, never dispatched and not marked for a person. With three
attempts or more, two lost updates let a session start while the one before it runs
(`loose`). A dispatch whose answer is lost counts as refused, though the server made the
session: the finding stays open, and the next tick starts a second one beside it, under
the next attempt's key (`loose`). Two reports of the same new error may file it twice, and
`client-errors.ts:245` looks at the cooldown before an await, so that both dispatch. A
run that hangs stops the scheduler (`ticking`). `Bun.write` is not atomic: a read of half
a file makes `listFindings` throw.

*Self update.* An update whose `bun install` fails, or that dies after the new
package.json was written, leaves a release that `releaseUpdateStatus` reports as
"installed and starts after a restart", that the timer leaves alone and the button
restarts into (`StagedIsSound`). The next update takes the new package.json for the old
tree's and may put a partial tree back as one that satisfies it (`harm` in
`ClaimIsSound`). If the installed package.json names a dependency outside the registry,
the old tree is removed before the unpacking and cannot be put back when that fails; the
same for a bundle with its own tree when part of it was written. The timer asks for the
status before it takes the lock: after a button's update that finished meanwhile it
updates again, into the restart the button scheduled. `omg update` shares no lock with
the server.

*Artifacts* (read, not modelled). A crash between the rename of a deleted artifact and
the write of the index leaves it listed with its file gone (`artifacts.ts:513` says that
the index can never point at a missing file). The status of a refresh that is disabled
while it runs may stay `running` after a restart. A deferred index update is lost with
the server. A child that never closes its output blocks all refreshes.

## 15. What is not modelled

- The content of transcripts, screens and command files: what a scan reads from
  processes and files, how a text is recognised, which text matches which row.
- The memory budget in admission; deletion, disabling and the first session of a bot;
  the compaction threshold with its hysteresis; rotations of bots on other runtimes than
  command files; the peer-message ledger.
- The sockets' other channels (status, lists, terminals), the page size of snapshots;
  more than one session on a socket.
- When a routine is due and which folder it locks; what an agent does.
- The ask store, whose file is read and written around awaits like the findings', and
  the artifact refreshes, whose state is shared between a manifest, SQLite and a child.
- Two servers on one machine: the code assumes one.
- The remaining components of `PROJECT.json`, each with its reason: they are I/O,
  rendering, wire formats of external programs, or decisions about one request. The web
  application alone is a fifth of the lines of the repository; of a program of this kind
  the part with state of its own over time is small, and the share of lines that the map
  names is small with it.
