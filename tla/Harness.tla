------------------------------ MODULE Harness ------------------------------
(* One command-file session: the file the server appends commands to, the  *)
(* cursor, the registry entry, the owner row, the harness processes that    *)
(* tail the file, and the requests that send to, resume, close or move the  *)
(* session. One action is what runs between two awaits of the server or     *)
(* between two turns of a harness's event loop; the server, a harness or    *)
(* the host may stop between any two.                                       *)
(*                                                                          *)
(* Left out: what a command says, interrupts and answers (read like a       *)
(* send), the busy flag, and agents in a unit of their own, whose second    *)
(* start systemd refuses. The kinds of harness place and give up the cursor *)
(* at different moments: managed-sdk-session, aisdk-session, codex-aisdk-   *)
(* and opencode-aisdk-session, pi-session.                                  *)
EXTENDS Naturals, Sequences, SequencesExt

CONSTANTS Kinds,        \* kinds of harness this session's agent may have
          Requests,     \* requests to the server, each made at most once
          MaxLaunches,  \* harness processes ever started
          MaxFaults,    \* crashes, ended streams, server and host restarts
          Moves,        \* whether requests may move the session
          None

ASSUME KindsAssumption == Kinds \subseteq {"managed", "aisdk", "codex", "pi"}
ASSUME LaunchesAssumption == MaxLaunches \in Nat \ {0}
ASSUME FaultsAssumption == MaxFaults \in Nat
ASSUME NoneAssumption == None \notin Nat \cup Requests

Launches == 1..MaxLaunches
Pids == Launches \cup {None}

VARIABLES kind,        \* the kind of harness this session's agent has
          file,        \* the command file; <<>> when it is absent
          cursor,      \* the persisted cursor, or None
          entry,       \* the registry entry, or None
          owner,       \* the launch state of the owner row; "none" without one
          ownerFresh,  \* the row is newer than the entry and under 60 s old
          proc,        \* the harness processes, numbered as they start
          boot,        \* the boot of the host
          reused,      \* numbers of dead harnesses that another process has now
          up,          \* the server runs
          reconciled,  \* and has reconciled the registry since it started
          moving,      \* the request that moves the session, or None
          op,          \* the requests
          faults

server == <<up, reconciled, moving>>
disk   == <<file, cursor, entry>>
world  == <<kind, boot, reused, faults>>

(* History, read by properties only *)
VARIABLES handed,      \* handed[r]: how many times r's command was dispatched
          torn,        \* dispatched, and the cursor not written when they died
          early,       \* appended while there was no cursor, or no owner row
          stray,       \* the cursor was written after its file was removed
          behind,      \* appended under a stray cursor
          shared,      \* two harnesses tailed the file at once, or a close left one
          misfired,    \* a harness obeyed the stop of a move meant for another
          loose,       \* such a stop is left in the file for whoever reads it
          unclaimed    \* a harness booted with no claim on its start

history == <<handed, torn, early, stray, behind, shared, misfired, loose, unclaimed>>
vars == <<kind, disk, owner, ownerFresh, proc, boot, reused, server, op, faults, history>>

(* A command is a message, a user's close, or the stop of a move with the  *)
(* process it is meant for.                                                 *)
Close == [close |-> TRUE]
StopOf(p) == [stop |-> p]
Stops == {Close} \cup {StopOf(p) : p \in Pids}
Commands == Requests \cup Stops
ASSUME StopsAssumption == Requests \cap Stops = {}

Entry == [pid: Pids, boot: Nat, recBoot: Nat, claim: {"none", "fresh", "old"}, claimPid: Pids]
Live == {"booting", "connecting", "running", "closing"}

Proc == [st: Live \cup {"unused", "dead"},
         rec: BOOLEAN,                \* launched with recoveredAt
         off: Nat,                    \* commandOffset
         dirty: BOOLEAN,              \* dispatched, and the cursor not yet written
         batch: SUBSET Requests]      \* history: what it dispatched since
Unused == [st |-> "unused", rec |-> FALSE, off |-> 0, dirty |-> FALSE, batch |-> {}]

Op == [what: {"none", "send", "resume", "close", "move"},
       pc: {"idle", "look", "gate", "cold", "wait", "stopping", "ready", "undo", "restore", "done"},
       pid: Pids,
       recBoot: Nat]     \* recoveryClaimBootId of the entry a move read

--------------------------------------------------------------------------
(* isPidAlive: the number may be another process's after a reboot. *)
PidAlive(p) == p \in Launches /\ (proc[p].st \in Live \/ p \in reused)

(* commandFileHarnessIsDead *)
DeadByPid(e) == ~PidAlive(e.pid)   \* mutant: the boot is not asked
Dead(e) == ~PidAlive(e.pid) \/ e.boot # boot

Tailing == {p \in Launches : proc[p].st \in {"connecting", "running"} \/ proc[p].dirty}
Booting == {p \in Launches : proc[p].st = "booting"}

(* managedLaunchRow lists a row; a live harness is listed without one. *)
Listed == owner # "none" \/ (entry # None /\ PidAlive(entry.pid))

(* initialCmdOffset and managedSdkStartupCmdOffset *)
InitialOffsetAtEnd == Len(file)   \* mutant: the cursor is not asked
InitialOffset ==
  IF cursor = None THEN Len(file)
  ELSE IF cursor > Len(file) THEN 0 ELSE cursor
StartupOffset(p) ==
  IF kind # "managed" \/ proc[p].rec THEN InitialOffset
  ELSE IF cursor = None THEN 0 ELSE cursor

Append1(c) ==
  /\ file' = Append(file, c)
  /\ early' = IF c \in Requests /\ (cursor = None \/ owner = "none") THEN early \cup {c} ELSE early
  /\ behind' = IF c \in Requests /\ stray THEN behind \cup {c} ELSE behind

RemoveEntry == file' = <<>> /\ cursor' = None /\ entry' = None /\ stray' = FALSE

NextPid == CHOOSE p \in Launches : proc[p].st = "unused"
Spawned(rec) == [Unused EXCEPT !.st = "booting", !.rec = rec]
Spawn(rec) == [proc EXCEPT ![NextPid] = Spawned(rec)]
CanSpawn == \E p \in Launches : proc[p].st = "unused"

Stopped == [Unused EXCEPT !.st = "dead"]
Kill(P) == [p \in Launches |-> IF p \in P /\ proc[p].st \in Live THEN Stopped ELSE proc[p]]
TornBy(P) == torn \cup UNION {proc[p].batch : p \in P}

--------------------------------------------------------------------------
(* The harness *)

(* A managed harness and pi register before the provider is connected, the  *)
(* others afterwards; only pi places its cursor later than it registers.    *)
PlaceCursor(p) == cursor' = StartupOffset(p) /\ stray' = FALSE

Register(p) ==
  /\ proc[p].st = "booting"
  /\ LET placed == [proc[p] EXCEPT !.off = StartupOffset(p)]
     IN CASE kind = "pi" -> /\ proc' = [proc EXCEPT ![p].st = "connecting"]
                            /\ UNCHANGED <<cursor, stray>>
          [] kind = "managed" -> proc' = [proc EXCEPT ![p] = [placed EXCEPT !.st = "connecting"]] /\ PlaceCursor(p)
          [] OTHER -> proc' = [proc EXCEPT ![p] = [placed EXCEPT !.st = "running"]] /\ PlaceCursor(p)
  /\ entry' = [pid |-> p, boot |-> boot, recBoot |-> IF proc[p].rec THEN boot ELSE 0,
               claim |-> "none", claimPid |-> None]
  /\ ownerFresh' = FALSE
  /\ shared' = (shared \/ Tailing # {})
  /\ UNCHANGED <<world, file, owner, server, op, handed, torn, early, behind, misfired, loose, unclaimed>>

(* The provider is connected; the poll begins. *)
Start(p) ==
  /\ proc[p].st = "connecting"
  /\ IF kind = "managed"
     THEN proc' = [proc EXCEPT ![p].st = "running"] /\ UNCHANGED <<cursor, stray>>
     ELSE proc' = [proc EXCEPT ![p].st = "running", ![p].off = StartupOffset(p)] /\ PlaceCursor(p)
  /\ UNCHANGED <<world, file, entry, owner, ownerFresh, server, op,
                 handed, torn, early, behind, shared, misfired, loose, unclaimed>>

(* readNewCmdLines: what follows the offset, or all of a file that shrank. *)
ReadFromNext(p) == proc[p].off + 1   \* mutant: one line off
ReadFrom(p) == IF Len(file) < proc[p].off THEN 0 ELSE proc[p].off
NewLines(p) == SubSeq(file, ReadFrom(p) + 1, Len(file))
FirstStop(s) == {i \in DOMAIN s : s[i] \in Stops /\ \A j \in 1..(i - 1) : s[j] \in Requests}
Obeyed(s) == IF FirstStop(s) = {} THEN s ELSE SubSeq(s, 1, CHOOSE i \in FirstStop(s) : TRUE)

(* One tick of the poll up to the write of the cursor: every line is        *)
(* dispatched; what follows a close is not acted on. All but aisdk remove   *)
(* the session's files as they obey a close, and all but a managed harness  *)
(* write the cursor afterwards.                                             *)
Poll(p) ==
  /\ proc[p].st = "running" /\ ~proc[p].dirty
  /\ file # <<>> /\ Len(file) # proc[p].off
  /\ LET done == Obeyed(NewLines(p))
         sends == {r \in Requests : r \in ToSet(done)}
         closes == \E c \in Stops : c \in ToSet(done)
         saves == ~closes \/ kind # "managed"
     IN /\ handed' = [r \in Requests |-> IF r \in sends /\ handed[r] < 2 THEN handed[r] + 1 ELSE handed[r]]
        /\ misfired' = (misfired \/ \E q \in Pids \ {p} : StopOf(q) \in ToSet(done))
        /\ proc' = [proc EXCEPT ![p].off = Len(file),
                                ![p].st = IF closes THEN "closing" ELSE "running",
                                ![p].dirty = saves,
                                ![p].batch = IF saves THEN sends ELSE {}]
        /\ IF closes /\ kind # "aisdk" THEN RemoveEntry ELSE UNCHANGED <<disk, stray>>
  /\ UNCHANGED <<world, owner, ownerFresh, server, op, torn, early, behind, shared, loose, unclaimed>>

\* Mutant: the cursor is written when the harness exits only.
SaveCursorLate(p) ==
  /\ proc[p].st \in {"running", "closing"} /\ proc[p].dirty
  /\ cursor' = IF proc[p].st = "closing" THEN proc[p].off ELSE cursor
  /\ proc' = [proc EXCEPT ![p].dirty = FALSE, ![p].batch = {}]
  /\ UNCHANGED <<world, file, entry, owner, ownerFresh, server, op, history>>
SaveCursor(p) ==
  /\ proc[p].st \in {"running", "closing"} /\ proc[p].dirty
  /\ cursor' = proc[p].off
  /\ stray' = (\/ proc[p].st = "closing" /\ kind # "aisdk"
               \/ Len(file) < proc[p].off)
  /\ proc' = [proc EXCEPT ![p].dirty = FALSE, ![p].batch = {}]
  /\ UNCHANGED <<world, file, entry, owner, ownerFresh, server, op,
                 handed, torn, early, behind, shared, misfired, loose, unclaimed>>

(* The runtime has wound down. aisdk removes the session's files only now. *)
Exit(p) ==
  /\ proc[p].st = "closing" /\ ~proc[p].dirty
  /\ proc' = [proc EXCEPT ![p] = Stopped]
  /\ IF kind = "aisdk" THEN RemoveEntry ELSE UNCHANGED <<disk, stray>>
  /\ UNCHANGED <<world, owner, ownerFresh, server, op,
                 handed, torn, early, behind, shared, misfired, loose, unclaimed>>

(* The provider's stream ends by itself: the files go, read or not. *)
StreamEnds(p) ==
  /\ faults < MaxFaults /\ kind = "aisdk" /\ proc[p].st = "running" /\ ~proc[p].dirty
  /\ faults' = faults + 1
  /\ proc' = [proc EXCEPT ![p] = Stopped]
  /\ RemoveEntry
  /\ UNCHANGED <<kind, boot, reused, owner, ownerFresh, server, op,
                 handed, torn, early, behind, shared, misfired, loose, unclaimed>>

(* Killed from outside, or a runtime that fails to start *)
Crash(p) ==
  /\ faults < MaxFaults /\ proc[p].st \in Live
  /\ faults' = faults + 1
  /\ proc' = Kill({p}) /\ torn' = TornBy({p})
  /\ UNCHANGED <<kind, boot, reused, disk, owner, ownerFresh, server, op, handed, early, stray, behind, shared, misfired, loose, unclaimed>>

HarnessStep(p) == Register(p) \/ Start(p) \/ Poll(p) \/ SaveCursor(p) \/ Exit(p)

--------------------------------------------------------------------------
(* Requests. Each reads the session list first, an await long before it     *)
(* acts on what it saw.                                                     *)

To(r, pc) == op' = [op EXCEPT ![r].pc = pc]
Idle == [what |-> "none", pc |-> "idle", pid |-> None, recBoot |-> 0]
End(r) == op' = [op EXCEPT ![r] = [Idle EXCEPT !.pc = "done"]]

Arrive(r, what) ==
  /\ up /\ op[r].pc = "idle"
  /\ what = "resume" \/ Listed
  /\ what # "send" => moving = None
  /\ what = "move" => Moves
  /\ op' = [op EXCEPT ![r] = [what |-> what, pc |-> "look", pid |-> None, recBoot |-> 0]]
  /\ UNCHANGED <<world, disk, owner, ownerFresh, proc, server, history>>

(* sendPromptToLiveSession: refused while the session moves, else appended. *)
Deliver(r) ==
  IF moving # None THEN End(r) /\ UNCHANGED <<file, early, behind>>
  ELSE End(r) /\ Append1(r)

(* POST /send, and /resume of a session that is listed as live: a message   *)
(* for a dead harness goes to the gate first.                               *)
Send(r) ==
  /\ op[r].what = "send" /\ op[r].pc = "look"
  /\ IF entry # None /\ moving = None /\ Dead(entry)
     THEN To(r, "gate") /\ UNCHANGED <<file, early, behind>>
     ELSE Deliver(r)
  /\ UNCHANGED <<world, cursor, entry, owner, ownerFresh, proc, server, handed, torn, stray, shared, misfired, loose, unclaimed>>

Resume(r) ==
  /\ op[r].what = "resume" /\ op[r].pc = "look"
  /\ IF entry # None /\ PidAlive(entry.pid) THEN Deliver(r)
     ELSE /\ IF Listed /\ moving # None THEN End(r)
             ELSE To(r, IF Listed /\ entry # None THEN "gate" ELSE "cold")
          /\ UNCHANGED <<file, early, behind>>
  /\ UNCHANGED <<world, cursor, entry, owner, ownerFresh, proc, server, handed, torn, stray, shared, misfired, loose, unclaimed>>

(* Another start is on its way, as far as the entry and the row can tell. *)
ClaimedByRow == ownerFresh   \* mutant: the claim of a relaunch is not asked
Claimed ==
  \/ entry.claim = "fresh" /\ (entry.claimPid = None \/ PidAlive(entry.claimPid))
  \/ ownerFresh

Relaunchable == entry # None /\ owner # "none" /\ Dead(entry) /\ ~Claimed

(* The gate lets the request through: relaunchDeadCommandFileHarness, then  *)
(* the delivery, in one turn. Nobody asks again whether the session moves.  *)
Revive(r) ==
  /\ op[r].pc = "gate"
  /\ IF Relaunchable
     THEN /\ CanSpawn
          /\ proc' = Spawn(TRUE)
          /\ entry' = [entry EXCEPT !.claim = "fresh", !.claimPid = NextPid, !.recBoot = boot]
          /\ owner' = "running"
          /\ unclaimed' = (unclaimed \/ moving # None)
     ELSE UNCHANGED <<proc, entry, owner, unclaimed>>
  /\ Deliver(r)
  /\ UNCHANGED <<world, cursor, ownerFresh, server, handed, torn, stray, shared, misfired, loose>>

(* The gate refuses, the session is in no catalog, or the start fails. *)
ReviveFails(r) ==
  /\ op[r].pc \in {"gate", "cold"}
  /\ End(r)
  /\ \/ UNCHANGED <<entry, owner, ownerFresh>>
     \/ /\ op[r].pc = "gate" /\ Relaunchable
        /\ entry' = [entry EXCEPT !.claim = "none", !.claimPid = None, !.recBoot = boot]
        /\ owner' = "failed" /\ UNCHANGED ownerFresh
     \/ /\ op[r].pc = "cold"
        /\ owner' = "none" /\ ownerFresh' = FALSE
        /\ UNCHANGED entry
  /\ UNCHANGED <<world, file, cursor, proc, server, history>>

(* A cold start: a new owner row and a harness with the prompt in its       *)
(* arguments.                                                               *)
ColdStart(r) ==
  /\ op[r].pc = "cold" /\ CanSpawn
  /\ proc' = Spawn(FALSE)
  /\ owner' = "running" /\ ownerFresh' = TRUE
  /\ End(r)
  /\ unclaimed' = TRUE
  /\ UNCHANGED <<world, disk, server, handed, torn, early, stray, behind, shared, misfired, loose>>

(* closeLiveSession: asks the harness, waits at most 300 ms, ... *)
CloseAsk(r) ==
  /\ op[r].what = "close" /\ op[r].pc = "look"
  /\ IF moving # None
     THEN End(r) /\ UNCHANGED <<file, early, behind>>
     ELSE /\ op' = [op EXCEPT ![r].pc = "wait", ![r].pid = IF entry = None THEN None ELSE entry.pid]
          /\ Append1(Close)
  /\ UNCHANGED <<world, cursor, entry, owner, ownerFresh, proc, server, handed, torn, stray, shared, misfired, loose, unclaimed>>

(* ... then stops what is left and removes the session's files and rows. *)
CloseReap(r) ==
  /\ op[r].what = "close" /\ op[r].pc = "wait"
  /\ proc' = Kill({op[r].pid}) /\ torn' = TornBy({op[r].pid} \cap Launches)
  /\ RemoveEntry
  /\ owner' = "none" /\ ownerFresh' = FALSE
  /\ End(r)
  /\ shared' = (shared \/ (Tailing \cup Booting) \ {op[r].pid} # {})
  /\ UNCHANGED <<world, server, handed, early, behind, misfired, loose, unclaimed>>

--------------------------------------------------------------------------
(* A move stops the harness at an idle boundary and starts another one. *)

Pending == cursor # None /\ (IF cursor > Len(file) THEN 0 ELSE cursor) # Len(file)

MoveStart(r) ==
  /\ op[r].what = "move" /\ op[r].pc = "look"
  /\ IF moving # None \/ entry = None \/ owner \in {"none", "launching"} \/ Dead(entry) \/ Pending
     THEN End(r) /\ UNCHANGED <<file, early, behind, moving, owner>>
     ELSE /\ moving' = r
          /\ op' = [op EXCEPT ![r].pc = "stopping", ![r].pid = entry.pid, ![r].recBoot = entry.recBoot]
          /\ owner' = "launching"
          /\ Append1(StopOf(entry.pid))
  /\ UNCHANGED <<world, cursor, entry, ownerFresh, proc, up, reconciled, handed, torn, stray, shared, misfired, loose, unclaimed>>

(* The entry a move writes back: the one it read, without a process. *)
EntryWithout(r) == [pid |-> None, boot |-> boot, recBoot |-> op[r].recBoot, claim |-> "none", claimPid |-> None]
(* A start still under way is under no claim any more. *)
LetGo == unclaimed' = (unclaimed \/ Booting # {})
PatchOwner(state) == owner' = IF owner = "none" THEN "none" ELSE state

\* Mutant: the stop is not stepped over.
MoveRelaunchBlind(r) ==
  /\ op[r].pc = "stopping"
  /\ torn' = TornBy({op[r].pid} \cap Launches)
  /\ entry' = EntryWithout(r)
  /\ \/ /\ CanSpawn
        /\ proc' = [Kill({op[r].pid}) EXCEPT ![NextPid] = Spawned(TRUE)]
        /\ op' = [op EXCEPT ![r].pc = "ready", ![r].pid = NextPid]
     \/ /\ proc' = Kill({op[r].pid})
        /\ op' = [op EXCEPT ![r].pc = "undo", ![r].pid = None]
  /\ UNCHANGED <<world, file, cursor, owner, ownerFresh, server, handed, early, stray, behind, shared, misfired, loose, unclaimed>>

(* A forced stop may leave the stop unread: the cursor goes past it. *)
MoveRelaunch(r) ==
  /\ op[r].pc = "stopping"
  /\ torn' = TornBy({op[r].pid} \cap Launches)
  /\ IF file = <<>> THEN UNCHANGED <<cursor, stray>> ELSE cursor' = Len(file) /\ stray' = FALSE
  /\ entry' = EntryWithout(r)
  /\ \/ /\ CanSpawn
        /\ proc' = [Kill({op[r].pid}) EXCEPT ![NextPid] = Spawned(TRUE)]
        /\ op' = [op EXCEPT ![r].pc = "ready", ![r].pid = NextPid]
     \/ /\ proc' = Kill({op[r].pid})
        /\ op' = [op EXCEPT ![r].pc = "undo", ![r].pid = None]
  /\ UNCHANGED <<world, file, owner, ownerFresh, server, handed, early, behind, shared, misfired, loose, unclaimed>>

\* Mutant: the early return keeps the session held.
MoveRefusedHolds(r) ==
  /\ op[r].pc \in {"stopping", "undo"} /\ PidAlive(op[r].pid)
  /\ End(r)
  /\ PatchOwner(IF op[r].pc = "stopping" THEN "running" ELSE "failed")
  /\ LetGo /\ loose' = TRUE
  /\ UNCHANGED <<world, disk, ownerFresh, proc, server, handed, torn, early, stray, behind, shared, misfired>>

(* The old harness, or the replacement, cannot be stopped. *)
MoveRefused(r) ==
  /\ op[r].pc \in {"stopping", "undo"} /\ PidAlive(op[r].pid)
  /\ End(r) /\ moving' = None
  /\ PatchOwner(IF op[r].pc = "stopping" THEN "running" ELSE "failed")
  /\ LetGo /\ loose' = TRUE
  /\ UNCHANGED <<world, disk, ownerFresh, proc, up, reconciled, handed, torn, early, stray, behind, shared, misfired>>

MoveReady(r) ==
  /\ op[r].pc \in {"ready", "restore"}
  /\ entry # None /\ PidAlive(entry.pid)
  /\ End(r)
  /\ moving' = None /\ PatchOwner("running")
  /\ UNCHANGED <<world, disk, ownerFresh, proc, up, reconciled, history>>

(* Not ready in ten seconds, or dead: the replacement is stopped, ... *)
MoveUndo(r) ==
  /\ op[r].pc = "ready"
  /\ To(r, "undo")
  /\ IF PidAlive(op[r].pid) THEN Append1(StopOf(op[r].pid)) /\ loose' = TRUE
     ELSE UNCHANGED <<file, early, behind, loose>>
  /\ UNCHANGED <<world, cursor, entry, owner, ownerFresh, proc, server, handed, torn, stray, shared, misfired, unclaimed>>

(* ... and the old configuration is started again, ... *)
MoveRestore(r) ==
  /\ op[r].pc = "undo" /\ CanSpawn
  /\ proc' = [Kill({op[r].pid}) EXCEPT ![NextPid] = Spawned(TRUE)]
  /\ torn' = TornBy({op[r].pid} \cap Launches)
  /\ entry' = EntryWithout(r)
  /\ op' = [op EXCEPT ![r].pc = "restore", ![r].pid = NextPid]
  /\ UNCHANGED <<world, file, cursor, owner, ownerFresh, server, handed, early, stray, behind, shared, misfired, loose, unclaimed>>

(* ... unless that launch fails, too. *)
MoveRestoreFails(r) ==
  /\ op[r].pc = "undo"
  /\ proc' = Kill({op[r].pid})
  /\ torn' = TornBy({op[r].pid} \cap Launches)
  /\ entry' = EntryWithout(r)
  /\ End(r) /\ moving' = None /\ PatchOwner("failed")
  /\ UNCHANGED <<world, file, cursor, ownerFresh, up, reconciled, handed, early, stray, behind, shared, misfired, loose, unclaimed>>

(* The restored harness is dead, or not ready in ten seconds: it is left as *)
(* it is, and when it has not registered yet nothing claims its start.      *)
MoveFails(r) ==
  /\ op[r].pc = "restore"
  /\ End(r) /\ moving' = None /\ PatchOwner("failed")
  /\ LetGo
  /\ UNCHANGED <<world, disk, ownerFresh, proc, up, reconciled, handed, torn, early, stray, behind, shared, misfired, loose>>

RequestStep(r) ==
  \/ Send(r) \/ Resume(r) \/ Revive(r) \/ ReviveFails(r) \/ ColdStart(r)
  \/ CloseAsk(r) \/ CloseReap(r)
  \/ MoveStart(r) \/ MoveRelaunch(r) \/ MoveRefused(r) \/ MoveReady(r)
  \/ MoveUndo(r) \/ MoveRestore(r) \/ MoveRestoreFails(r) \/ MoveFails(r)

--------------------------------------------------------------------------
(* The server and the host *)

(* Requests in flight go with the process, and with them a move's hold on   *)
(* the session; harnesses live on.                                          *)
ServerGone ==
  /\ up' = FALSE /\ reconciled' = FALSE /\ moving' = None
  /\ loose' = (loose \/ moving # None)
Dropped == [r \in Requests |-> IF op[r].pc = "idle" THEN Idle ELSE [Idle EXCEPT !.pc = "done"]]

ServerStops ==
  /\ faults < MaxFaults /\ up
  /\ faults' = faults + 1 /\ op' = Dropped /\ ServerGone
  /\ IF moving = None THEN UNCHANGED unclaimed ELSE LetGo
  /\ UNCHANGED <<kind, boot, reused, disk, owner, ownerFresh, proc, handed, torn, early, stray, behind, shared, misfired>>

HostReboots ==
  /\ faults < MaxFaults
  /\ faults' = faults + 1 /\ op' = Dropped /\ ServerGone
  /\ boot' = boot + 1
  /\ proc' = Kill(Launches) /\ torn' = TornBy(Launches)
  /\ \E numbers \in {{}, IF entry = None THEN {} ELSE {entry.pid} \cap Launches} : reused' = numbers
  /\ UNCHANGED <<kind, disk, owner, ownerFresh, handed, early, stray, behind, shared, misfired, unclaimed>>

(* Requests are served from here on, before the registry is reconciled. *)
ServerStarts ==
  /\ ~up /\ up' = TRUE
  /\ UNCHANGED <<world, disk, owner, ownerFresh, proc, reconciled, moving, op, history>>

(* reconcileCommandFileSessions *)
Adopt == entry' = [entry EXCEPT !.recBoot = 0] /\ UNCHANGED <<proc, owner, unclaimed>>
Recover ==
  /\ entry' = [entry EXCEPT !.recBoot = boot]
  /\ \/ CanSpawn /\ proc' = Spawn(TRUE) /\ owner' = "running" /\ unclaimed' = TRUE
     \/ owner' = "failed" /\ UNCHANGED <<proc, unclaimed>>
Reconcile ==
  /\ up /\ ~reconciled /\ reconciled' = TRUE
  /\ IF entry = None \/ owner = "none" THEN UNCHANGED <<entry, proc, owner, unclaimed>>
     ELSE IF PidAlive(entry.pid) /\ entry.boot = boot THEN Adopt
     ELSE IF entry.recBoot = boot THEN UNCHANGED <<entry, proc, owner, unclaimed>>
     ELSE Recover
  /\ UNCHANGED <<world, file, cursor, ownerFresh, up, moving, op, handed, torn, early, stray, behind, shared, misfired, loose>>

(* HARNESS_RELAUNCH_CLAIM_MS pass. *)
ClaimAges ==
  /\ \/ entry # None /\ entry.claim = "fresh"
     \/ ownerFresh
  /\ entry' = IF entry # None /\ entry.claim = "fresh" THEN [entry EXCEPT !.claim = "old"] ELSE entry
  /\ ownerFresh' = FALSE
  /\ LetGo
  /\ UNCHANGED <<world, file, cursor, owner, proc, server, op, handed, torn, early, stray, behind, shared, misfired, loose>>

(* POST /api/sessions/new has spawned the first harness. *)
Init ==
  /\ kind \in Kinds
  /\ file = <<>> /\ cursor = None /\ entry = None
  /\ owner = "running" /\ ownerFresh = TRUE
  /\ proc = [p \in Launches |-> IF p = 1 THEN [Unused EXCEPT !.st = "booting"] ELSE Unused]
  /\ boot = 1 /\ reused = {}
  /\ up = TRUE /\ reconciled = TRUE /\ moving = None
  /\ op = [r \in Requests |-> Idle]
  /\ faults = 0
  /\ handed = [r \in Requests |-> 0] /\ torn = {} /\ early = {} /\ stray = FALSE /\ behind = {}
  /\ shared = FALSE /\ misfired = FALSE /\ loose = FALSE /\ unclaimed = FALSE

Next ==
  \/ \E p \in Launches : HarnessStep(p) \/ StreamEnds(p) \/ Crash(p)
  \/ \E r \in Requests : \/ \E what \in {"send", "resume", "close", "move"} : Arrive(r, what)
                         \/ RequestStep(r)
  \/ ServerStops \/ HostReboots \/ ServerStarts \/ Reconcile \/ ClaimAges

(* Timers of the harness fire, and its awaits end. *)
Fairness == \A p \in Launches : WF_vars(HarnessStep(p))

Spec == Init /\ [][Next]_vars /\ Fairness

--------------------------------------------------------------------------
TypeOK ==
  /\ kind \in Kinds
  /\ file \in Seq(Commands) /\ cursor \in Nat \cup {None} /\ entry \in Entry \cup {None}
  /\ owner \in {"none", "launching", "running", "failed"} /\ ownerFresh \in BOOLEAN
  /\ proc \in [Launches -> Proc]
  /\ boot \in Nat /\ reused \subseteq Launches
  /\ up \in BOOLEAN /\ reconciled \in BOOLEAN /\ moving \in Requests \cup {None}
  /\ op \in [Requests -> Op] /\ faults \in 0..MaxFaults
  /\ handed \in [Requests -> 0..2] /\ torn \subseteq Requests /\ early \subseteq Requests /\ behind \subseteq Requests /\ stray \in BOOLEAN
  /\ shared \in BOOLEAN /\ misfired \in BOOLEAN /\ loose \in BOOLEAN /\ unclaimed \in BOOLEAN
  /\ \A p \in Launches : proc[p].dirty => proc[p].st \in {"running", "closing"}
  /\ \A r \in Requests : op[r].pc \in {"stopping", "ready", "undo", "restore"} <=> moving = r

LiveSet == {p \in Launches : proc[p].st \in Live}

\* A session has one harness at most: of the requests, the move and the
\* server's start, only a start nobody claims makes a second one. That is a
\* cold start or one by the server's start, one whose claim grew old or whose
\* move was forgotten or given up (also with the restored harness still
\* booting after ten seconds), and one beside a move.
OneHarness == ~unclaimed => \A p, q \in LiveSet : p = q

\* A message is dispatched twice only if the harness died between the
\* dispatch and the write of the cursor.
AtMostOnce == ~shared => \A r \in Requests : handed[r] > 1 => r \in torn

\* The message at i, with no stop before it that would end its harness
Readable(i) == \A j \in 1..i : file[j] \in Requests

Skipped ==
  IF cursor = None \/ shared THEN {}
  ELSE {file[i] : i \in {k \in 1..Len(file) : k <= cursor /\ Readable(k) /\ handed[file[k]] = 0}}

\* What lies behind the cursor was dispatched; only a message that was sent
\* before the session had a cursor of its own and an owner row may have been
\* skipped.
NothingSkipped == Skipped \subseteq early \cup behind

\* The stop of a move closes no harness but the one it was meant for, unless
\* the move was forgotten or given up with the stop unread, or a second start
\* under no claim reads it.
StopsHitTheirHarness == misfired => loose \/ unclaimed

\* A message that is accepted for a session that should have a harness finds
\* one, or a cold start on its way: not a number that another process has
\* since the host rebooted, nor a claim of a start that died.
AcceptedIsAttended ==
  [][\A r \in Requests :
       ((Send(r) \/ Revive(r)) /\ file' # file /\ entry # None /\ owner # "none") =>
          LiveSet' # {} \/ ownerFresh]_vars

\* A message in the file is dispatched, unless the file goes or no harness is
\* left to read it.
Waits(r) == r \notin early \cup behind /\ \E i \in 1..Len(file) : file[i] = r /\ Readable(i)
SentIsRead == \A r \in Requests : Waits(r) ~> (handed[r] > 0 \/ ~Waits(r) \/ LiveSet = {})

\* managedSdkStartupCmdOffset's comment, for every kind of harness: a message
\* written before the harness is ready is not skipped.
NothingLost == Skipped \subseteq behind

\* removeEntry's comment: no cursor stays behind for the next file.  It does not
\* hold: a codex, opencode or pi harness writes its cursor after removeEntry.
NoStrayCursor == (\E p \in Launches : proc[p].st = "running") => Skipped \subseteq early
=============================================================================
