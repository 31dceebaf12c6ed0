---------------------------- MODULE HarnessProofs ----------------------------
(***************************************************************************)
(* Type correctness of Harness; that no claimed start makes a second       *)
(* harness, and that an accepted message finds one; that a message is      *)
(* dispatched once, and none is skipped; and that the stop of a move       *)
(* closes no other harness: for every number of requests, launches and     *)
(* faults.                                                                 *)
(***************************************************************************)
EXTENDS Harness, TLAPS

-----------------------------------------------------------------------------
(* Types *)

\* The type invariant, in the parts an action disturbs together
OpOK ==
  /\ moving \in Requests \cup {None} /\ op \in [Requests -> Op]
  /\ \A r \in Requests : op[r].pc \in {"stopping", "ready", "undo", "restore"} <=> moving = r
ProcOK ==
  /\ proc \in [Launches -> Proc]
  /\ \A p \in Launches : proc[p].dirty => proc[p].st \in {"running", "closing"}
DiskOK == file \in Seq(Commands) /\ cursor \in Nat \cup {None} /\ entry \in Entry \cup {None}
RowOK ==
  /\ owner \in {"none", "launching", "running", "failed"} /\ ownerFresh \in BOOLEAN
  /\ up \in BOOLEAN /\ reconciled \in BOOLEAN
WorldOK == kind \in Kinds /\ boot \in Nat /\ reused \subseteq Launches /\ faults \in 0..MaxFaults
PastOK ==
  /\ handed \in [Requests -> 0..2]
  /\ torn \subseteq Requests /\ early \subseteq Requests /\ behind \subseteq Requests
  /\ stray \in BOOLEAN /\ shared \in BOOLEAN /\ misfired \in BOOLEAN
  /\ loose \in BOOLEAN /\ unclaimed \in BOOLEAN

LEMMA TypeParts == TypeOK <=> OpOK /\ ProcOK /\ DiskOK /\ RowOK /\ WorldOK /\ PastOK
BY DEF TypeOK, OpOK, ProcOK, DiskOK, RowOK, WorldOK, PastOK

LEMMA TypePartsNext == OpOK' /\ ProcOK' /\ DiskOK' /\ RowOK' /\ WorldOK' /\ PastOK' => TypeOK'
BY DEF TypeOK, OpOK, ProcOK, DiskOK, RowOK, WorldOK, PastOK

\* One process changes.
LEMMA ProcType ==
  ASSUME ProcOK, NEW p \in Launches, NEW h \in Proc, h.dirty => h.st \in {"running", "closing"},
         proc' = [proc EXCEPT ![p] = h]
  PROVE  ProcOK'
BY DEF ProcOK

\* A number that was never used can be taken.
LEMMA NextPidIsNew ==
  CanSpawn => NextPid \in Launches /\ proc[NextPid].st = "unused"
BY DEF CanSpawn, NextPid

LEMMA LaunchesAreNumbers == Launches \subseteq Nat /\ None \notin Launches /\ None \notin Requests
BY NoneAssumption, LaunchesAssumption DEF Launches

\* Offsets are numbers.
LEMMA OffsetType ==
  ASSUME TypeOK, NEW p \in Launches
  PROVE  InitialOffset \in Nat /\ StartupOffset(p) \in Nat
BY DEF TypeOK, InitialOffset, StartupOffset

\* A killed process keeps its type, and has nothing left to write.
LEMMA KillType ==
  ASSUME TypeOK, NEW P
  PROVE  /\ Kill(P) \in [Launches -> Proc]
         /\ \A p \in Launches : Kill(P)[p].dirty => Kill(P)[p].st \in {"running", "closing"}
         /\ TornBy(P \cap Launches) \subseteq Requests
<1>1. Stopped \in Proc /\ ~Stopped.dirty
  BY DEF Stopped, Unused, Proc
<1>2. \A p \in Launches : proc[p] \in Proc /\ proc[p].batch \subseteq Requests
  BY DEF TypeOK, Proc
<1>3. TornBy(P \cap Launches) \subseteq Requests
  BY <1>2 DEF TornBy, TypeOK
<1> QED BY <1>1, <1>2, <1>3 DEF Kill, TypeOK

\* So does a process that is started.
LEMMA SpawnType ==
  ASSUME NEW f \in [Launches -> Proc], NEW p \in Launches, NEW rec \in BOOLEAN,
         \A q \in Launches : f[q].dirty => f[q].st \in {"running", "closing"}
  PROVE  /\ [f EXCEPT ![p] = Spawned(rec)] \in [Launches -> Proc]
         /\ \A q \in Launches : [f EXCEPT ![p] = Spawned(rec)][q].dirty
              => [f EXCEPT ![p] = Spawned(rec)][q].st \in {"running", "closing"}
<1>1. Spawned(rec) \in Proc /\ ~Spawned(rec).dirty
  BY DEF Spawned, Unused, Proc, Live
<1> QED BY <1>1

LEMMA SpawnKeeps ==
  ASSUME ProcOK, CanSpawn, NEW rec \in BOOLEAN, proc' = Spawn(rec)
  PROVE  ProcOK'
<1>1. NextPid \in Launches
  BY NextPidIsNew
<1> QED BY <1>1, SpawnType DEF Spawn, ProcOK

\* A command keeps the file a sequence of commands.
LEMMA AppendType ==
  ASSUME TypeOK, NEW c \in Commands, Append1(c)
  PROVE  file' \in Seq(Commands) /\ early' \subseteq Requests /\ behind' \subseteq Requests
BY DEF TypeOK, Append1

LEMMA RemoveType ==
  ASSUME TypeOK, RemoveEntry \/ UNCHANGED <<disk, stray>>
  PROVE  DiskOK' /\ stray' \in BOOLEAN
<1>1. CASE RemoveEntry
  <2>1. <<>> \in Seq(Commands)
    OBVIOUS
  <2> QED BY <1>1, <2>1 DEF DiskOK, RemoveEntry
<1>2. CASE UNCHANGED <<disk, stray>>
  BY <1>2 DEF TypeOK, DiskOK, disk
<1> QED BY <1>1, <1>2

\* A request that waits for something else keeps what it holds.
LEMMA OpType ==
  ASSUME OpOK, NEW r \in Requests, NEW o \in Op, op' = [op EXCEPT ![r] = o],
         \/ moving' = r /\ moving \in {None, r} /\ o.pc \in {"stopping", "ready", "undo", "restore"}
         \/ moving' = moving /\ moving # r /\ o.pc \notin {"stopping", "ready", "undo", "restore"}
         \/ moving = r /\ moving' = None /\ o.pc \notin {"stopping", "ready", "undo", "restore"}
  PROVE  OpOK'
BY LaunchesAreNumbers DEF OpOK

LEMMA EndType ==
  ASSUME OpOK, NEW r \in Requests, End(r),
         \/ moving' = moving /\ moving # r
         \/ moving = r /\ moving' = None
  PROVE  OpOK'
<1>1. [Idle EXCEPT !.pc = "done"] \in Op /\ [Idle EXCEPT !.pc = "done"].pc = "done"
  BY DEF Idle, Op, Pids
<1> QED BY <1>1, OpType DEF End

LEMMA ToType ==
  ASSUME OpOK, NEW r \in Requests, NEW pc, To(r, pc), moving' = moving,
         \/ moving = r /\ pc \in {"stopping", "ready", "undo", "restore"}
         \/ moving # r /\ pc \in {"look", "gate", "cold", "wait"}
  PROVE  OpOK'
<1>1. [op[r] EXCEPT !.pc = pc] \in Op /\ [op[r] EXCEPT !.pc = pc].pc = pc
  BY DEF OpOK, Op
<1>2. op' = [op EXCEPT ![r] = [op[r] EXCEPT !.pc = pc]]
  BY DEF To
<1> QED BY <1>1, <1>2, OpType DEF OpOK

LEMMA DeliverType ==
  ASSUME TypeOK, NEW r \in Requests, moving' = moving, moving # r, Deliver(r)
  PROVE  OpOK' /\ file' \in Seq(Commands) /\ early' \subseteq Requests /\ behind' \subseteq Requests
<1>1. OpOK'
  BY TypeParts, EndType DEF Deliver
<1>2. r \in Commands
  BY DEF Commands
<1> QED BY <1>1, <1>2, AppendType DEF Deliver, TypeOK

-----------------------------------------------------------------------------
(* Every action keeps the types. *)

LEMMA RegisterType ==
  ASSUME TypeOK, NEW p \in Launches, Register(p)
  PROVE  TypeOK'
<1>1. StartupOffset(p) \in Nat
  BY OffsetType
<1>2. proc[p] \in Proc /\ ~proc[p].dirty /\ boot \in Nat
  BY DEF Register, TypeOK
<1>3. ProcOK'
  <2> DEFINE h(st, off) == [proc[p] EXCEPT !.st = st, !.off = off]
  <2>1. \A st \in Live, off \in Nat : h(st, off) \in Proc /\ h(st, off).dirty = FALSE
    BY <1>2 DEF Proc
  <2>2. proc[p].off \in Nat /\ "connecting" \in Live /\ "running" \in Live
    BY <1>2 DEF Proc, Live
  <2>3. \E st \in Live, off \in Nat : proc' = [proc EXCEPT ![p] = h(st, off)]
    <3>1. CASE kind = "pi"
      <4>1. proc' = [proc EXCEPT ![p] = h("connecting", proc[p].off)]
        BY <3>1, <1>2 DEF Register, Proc
      <4> QED BY <4>1, <2>2
    <3>2. CASE kind = "managed"
      <4>1. proc' = [proc EXCEPT ![p] = h("connecting", StartupOffset(p))]
        BY <3>2, <1>2 DEF Register, Proc
      <4> QED BY <4>1, <2>2, <1>1
    <3>3. CASE kind \notin {"pi", "managed"}
      <4>1. proc' = [proc EXCEPT ![p] = h("running", StartupOffset(p))]
        BY <3>3, <1>2 DEF Register, Proc
      <4> QED BY <4>1, <2>2, <1>1
    <3> QED BY <3>1, <3>2, <3>3
  <2> HIDE DEF h
  <2> QED BY <2>1, <2>3, ProcType, TypeParts
<1>7. cursor' \in Nat \cup {None} /\ stray' \in BOOLEAN
  BY <1>1 DEF Register, PlaceCursor, TypeOK
<1>4. entry' \in Entry
  BY <1>2 DEF Register, Entry, Pids, Proc
<1>5. OpOK' /\ RowOK' /\ WorldOK'
  BY DEF Register, TypeOK, OpOK, RowOK, WorldOK, world, server
<1>6. PastOK' /\ file' \in Seq(Commands)
  BY <1>7 DEF Register, TypeOK, PastOK
<1> QED BY <1>3, <1>4, <1>5, <1>6, <1>7, TypePartsNext DEF DiskOK

LEMMA StartType ==
  ASSUME TypeOK, NEW p \in Launches, Start(p)
  PROVE  TypeOK'
<1>1. StartupOffset(p) \in Nat
  BY OffsetType
<1>2. ProcOK'
  <2> DEFINE h(off) == [proc[p] EXCEPT !.st = "running", !.off = off]
  <2>1. proc[p] \in Proc
    BY DEF TypeOK
  <2>2. \A off \in Nat : h(off) \in Proc /\ h(off).st = "running"
    BY <2>1 DEF Proc, Live
  <2>3. \E off \in Nat : proc' = [proc EXCEPT ![p] = h(off)]
    <3>1. CASE kind = "managed"
      <4>1. proc' = [proc EXCEPT ![p] = h(proc[p].off)]
        BY <3>1, <2>1 DEF Start, Proc
      <4> QED BY <4>1, <2>1 DEF Proc
    <3>2. CASE kind # "managed"
      <4>1. proc' = [proc EXCEPT ![p] = h(StartupOffset(p))]
        BY <3>2, <2>1 DEF Start, Proc, TypeOK
      <4> QED BY <4>1, <1>1
    <3> QED BY <3>1, <3>2
  <2> HIDE DEF h
  <2> QED BY <2>2, <2>3, ProcType, TypeParts
<1>5. cursor' \in Nat \cup {None} /\ stray' \in BOOLEAN
  BY <1>1 DEF Start, PlaceCursor, TypeOK
<1>3. OpOK' /\ RowOK' /\ WorldOK'
  BY DEF Start, TypeOK, OpOK, RowOK, WorldOK, world, server
<1>4. PastOK' /\ DiskOK'
  BY <1>5 DEF Start, TypeOK, PastOK, DiskOK
<1> QED BY <1>2, <1>3, <1>4, TypePartsNext

LEMMA PollType ==
  ASSUME TypeOK, NEW p \in Launches, Poll(p)
  PROVE  TypeOK'
<1>1. OpOK' /\ RowOK' /\ WorldOK'
  BY DEF Poll, TypeOK, OpOK, RowOK, WorldOK, world, server
<1>2. Len(file) \in Nat
  BY DEF TypeOK
<1>3. handed' \in [Requests -> 0..2]
  <2>1. PICK S : handed' = [r \in Requests |-> IF r \in S /\ handed[r] < 2 THEN handed[r] + 1 ELSE handed[r]]
    BY DEF Poll
  <2>2. handed \in [Requests -> 0..2]
    BY DEF TypeOK
  <2> QED BY <2>1, <2>2
<1>4. ProcOK'
  <2> DEFINE h(st, dirty, batch) ==
        [proc[p] EXCEPT !.off = Len(file), !.st = st, !.dirty = dirty, !.batch = batch]
  <2>1. proc[p] \in Proc
    BY DEF TypeOK
  <2>2. \A st \in {"running", "closing"}, dirty \in BOOLEAN, batch \in SUBSET Requests :
          h(st, dirty, batch) \in Proc /\ h(st, dirty, batch).st = st
    BY <1>2, <2>1 DEF Proc, Live
  <2>3. \E st \in {"running", "closing"}, dirty \in BOOLEAN, batch \in SUBSET Requests :
          proc' = [proc EXCEPT ![p] = h(st, dirty, batch)]
    <3> DEFINE done == Obeyed(NewLines(p))
               sends == {r \in Requests : r \in ToSet(done)}
               closes == \E c \in Stops : c \in ToSet(done)
               saves == ~closes \/ kind # "managed"
    <3>1. proc' = [proc EXCEPT ![p].off = Len(file),
                               ![p].st = IF closes THEN "closing" ELSE "running",
                               ![p].dirty = saves,
                               ![p].batch = IF saves THEN sends ELSE {}]
      BY DEF Poll
    <3>2. sends \in SUBSET Requests /\ saves \in BOOLEAN /\ closes \in BOOLEAN
      OBVIOUS
    <3> HIDE DEF done, sends, closes, saves
    <3>3. proc' = [proc EXCEPT ![p] = h(IF closes THEN "closing" ELSE "running", saves,
                                        IF saves THEN sends ELSE {})]
      BY <3>1, <2>1 DEF TypeOK, Proc
    <3> QED BY <3>2, <3>3
  <2> HIDE DEF h
  <2> QED BY <2>2, <2>3, ProcType, TypeParts
<1>5. DiskOK' /\ stray' \in BOOLEAN
  <2>1. RemoveEntry \/ UNCHANGED <<disk, stray>>
    BY DEF Poll
  <2> QED BY <2>1, RemoveType
<1>6. PastOK'
  <2>1. misfired' \in BOOLEAN
    BY TypeParts DEF Poll, PastOK
  <2> QED BY <1>3, <1>5, <2>1, TypeParts DEF Poll, PastOK
<1> QED BY <1>1, <1>4, <1>5, <1>6, TypePartsNext

LEMMA SaveType ==
  ASSUME TypeOK, NEW p \in Launches, SaveCursor(p)
  PROVE  TypeOK'
<1>1. OpOK' /\ RowOK' /\ WorldOK'
  BY DEF SaveCursor, TypeOK, OpOK, RowOK, WorldOK, world, server
<1>2. ProcOK'
  <2> DEFINE h == [proc[p] EXCEPT !.dirty = FALSE, !.batch = {}]
  <2>1. proc[p] \in Proc
    BY DEF TypeOK
  <2>2. h \in Proc /\ h.dirty = FALSE
    BY <2>1 DEF Proc
  <2>3. proc' = [proc EXCEPT ![p] = h]
    BY <2>1 DEF SaveCursor, TypeOK, Proc
  <2> HIDE DEF h
  <2> QED BY <2>2, <2>3, ProcType, TypeParts
<1>3. DiskOK' /\ PastOK'
  <2>1. proc[p].off \in Nat
    BY DEF TypeOK, Proc
  <2>2. stray' \in BOOLEAN
    BY DEF SaveCursor
  <2> QED BY <2>1, <2>2, TypeParts DEF SaveCursor, DiskOK, PastOK
<1> QED BY <1>1, <1>2, <1>3, TypePartsNext

\* A harness that ends, in whatever way
LEMMA EndsType ==
  ASSUME TypeOK, NEW p \in Launches, Exit(p) \/ StreamEnds(p) \/ Crash(p)
  PROVE  TypeOK'
<1>1. Stopped \in Proc /\ ~Stopped.dirty
  BY DEF Stopped, Unused, Proc
<1>2. ProcOK' /\ torn' \subseteq Requests
  <2>1. CASE Crash(p)
    <3>1. {p} = {p} \cap Launches
      OBVIOUS
    <3> QED BY <2>1, <3>1, KillType DEF Crash, ProcOK
  <2> QED BY <1>1, <2>1 DEF Exit, StreamEnds, TypeOK, ProcOK
<1>3. OpOK' /\ RowOK' /\ WorldOK'
  BY FaultsAssumption DEF Exit, StreamEnds, Crash, TypeOK, OpOK, RowOK, WorldOK, world, server
<1>4. DiskOK' /\ PastOK'
  <2>1. RemoveEntry \/ UNCHANGED <<disk, stray>>
    BY DEF Exit, StreamEnds, Crash
  <2>2. DiskOK' /\ stray' \in BOOLEAN
    BY <2>1, RemoveType
  <2> QED BY <1>2, <2>2, TypeParts DEF Exit, StreamEnds, Crash, PastOK
<1> QED BY <1>2, <1>3, <1>4, TypePartsNext

LEMMA SendType ==
  ASSUME TypeOK, NEW r \in Requests, Send(r) \/ Resume(r)
  PROVE  TypeOK'
<1>1. moving # r /\ moving' = moving
  BY DEF Send, Resume, TypeOK, server
<1>2. OpOK' /\ file' \in Seq(Commands) /\ early' \subseteq Requests /\ behind' \subseteq Requests
  <2>1. CASE Deliver(r)
    BY <1>1, <2>1, DeliverType
  <2>2. CASE \E pc \in {"gate", "cold"} : To(r, pc) /\ UNCHANGED <<file, early, behind>>
    BY <1>1, <2>2, ToType, TypeParts DEF DiskOK, PastOK
  <2>3. CASE End(r) /\ UNCHANGED <<file, early, behind>>
    BY <1>1, <2>3, EndType, TypeParts DEF DiskOK, PastOK
  <2> QED BY <2>1, <2>2, <2>3 DEF Send, Resume
<1>3. ProcOK' /\ RowOK' /\ WorldOK'
  BY DEF Send, Resume, TypeOK, ProcOK, RowOK, WorldOK, world, server
<1>4. DiskOK' /\ PastOK'
  BY <1>2 DEF Send, Resume, TypeOK, DiskOK, PastOK
<1> QED BY <1>2, <1>3, <1>4, TypePartsNext

LEMMA ReviveType ==
  ASSUME TypeOK, NEW r \in Requests, Revive(r)
  PROVE  TypeOK'
<1>1. moving # r /\ moving' = moving
  BY DEF Revive, TypeOK, server
<1>2. OpOK' /\ file' \in Seq(Commands) /\ early' \subseteq Requests /\ behind' \subseteq Requests
  BY <1>1, DeliverType DEF Revive
<1>3. ProcOK' /\ entry' \in Entry \cup {None} /\ owner' \in {"none", "launching", "running", "failed"}
      /\ unclaimed' \in BOOLEAN
  <2>1. CASE Relaunchable
    <3>1. ProcOK'
      BY <2>1, SpawnKeeps, TypeParts DEF Revive
    <3>2. entry' \in Entry
      BY <2>1, NextPidIsNew, TypeParts DEF Revive, Relaunchable, DiskOK, WorldOK, Entry, Pids
    <3> QED BY <2>1, <3>1, <3>2, TypeParts DEF Revive, PastOK
  <2> QED BY <2>1, TypeParts DEF Revive, ProcOK, DiskOK, RowOK, PastOK
<1>4. WorldOK' /\ RowOK'
  BY <1>3 DEF Revive, TypeOK, RowOK, WorldOK, world, server
<1>5. DiskOK' /\ PastOK'
  BY <1>2, <1>3 DEF Revive, TypeOK, DiskOK, PastOK
<1> QED BY <1>2, <1>3, <1>4, <1>5, TypePartsNext

LEMMA StartsType ==
  ASSUME TypeOK, NEW r \in Requests, ReviveFails(r) \/ ColdStart(r)
  PROVE  TypeOK'
<1>1. moving # r /\ moving' = moving
  BY DEF ReviveFails, ColdStart, TypeOK, server
<1>2. OpOK'
  BY <1>1, EndType, TypeParts DEF ReviveFails, ColdStart
<1>3. ProcOK'
  <2>1. CASE ReviveFails(r)
    BY <2>1, TypeParts DEF ReviveFails, ProcOK
  <2>2. CASE ColdStart(r)
    BY <2>2, SpawnKeeps, TypeParts DEF ColdStart
  <2> QED BY <2>1, <2>2
<1>4. DiskOK'
  BY TypeParts DEF ReviveFails, ColdStart, Relaunchable, DiskOK, WorldOK, Entry, Pids, disk
<1>5. RowOK' /\ WorldOK' /\ PastOK'
  <2>1. CASE ReviveFails(r)
    BY <2>1, TypeParts DEF ReviveFails, RowOK, WorldOK, PastOK, world, server, history
  <2>2. CASE ColdStart(r)
    BY <2>2, TypeParts DEF ColdStart, RowOK, WorldOK, PastOK, world, server
  <2> QED BY <2>1, <2>2
<1> QED BY <1>2, <1>3, <1>4, <1>5, TypePartsNext

LEMMA ArriveType ==
  ASSUME TypeOK, NEW r \in Requests, NEW what \in {"send", "resume", "close", "move"}, Arrive(r, what)
  PROVE  TypeOK'
<1> DEFINE o == [what |-> what, pc |-> "look", pid |-> None, recBoot |-> 0]
<1>1. o \in Op /\ o.pc = "look"
  BY DEF Op, Pids
<1>2. moving # r /\ moving' = moving /\ op' = [op EXCEPT ![r] = o]
  BY DEF Arrive, TypeOK, server
<1> HIDE DEF o
<1>3. OpOK'
  BY <1>1, <1>2, OpType, TypeParts
<1>4. ProcOK' /\ DiskOK' /\ RowOK' /\ WorldOK' /\ PastOK'
  BY TypeParts DEF Arrive, ProcOK, DiskOK, RowOK, WorldOK, PastOK, world, disk, server, history
<1> QED BY <1>3, <1>4, TypePartsNext

LEMMA CloseType ==
  ASSUME TypeOK, NEW r \in Requests, CloseAsk(r) \/ CloseReap(r)
  PROVE  TypeOK'
<1>1. moving # r /\ moving' = moving
  BY DEF CloseAsk, CloseReap, TypeOK, server
<1>2. CASE CloseAsk(r)
  <2> DEFINE o == [op[r] EXCEPT !.pc = "wait", !.pid = IF entry = None THEN None ELSE entry.pid]
  <2>1. o \in Op /\ o.pc = "wait"
    BY DEF TypeOK, Op, Entry, Pids
  <2>2. OpOK'
    <3>1. CASE moving # None
      BY <1>1, <1>2, <3>1, EndType, TypeParts DEF CloseAsk
    <3>2. CASE moving = None
      <4>1. op' = [op EXCEPT ![r] = o]
        BY <1>2, <3>2 DEF CloseAsk, TypeOK, Op
      <4> HIDE DEF o
      <4> QED BY <1>1, <2>1, <4>1, OpType, TypeParts
    <3> QED BY <3>1, <3>2
  <2>3. file' \in Seq(Commands) /\ early' \subseteq Requests /\ behind' \subseteq Requests
    <3>1. Close \in Commands
      BY DEF Commands, Stops
    <3> QED BY <1>2, <3>1, AppendType, TypeParts DEF CloseAsk, DiskOK, PastOK
  <2>4. ProcOK' /\ DiskOK' /\ RowOK' /\ WorldOK' /\ PastOK'
    BY <1>2, <2>3, TypeParts DEF CloseAsk, ProcOK, DiskOK, RowOK, WorldOK, PastOK, world, server
  <2> QED BY <2>2, <2>4, TypePartsNext
<1>3. CASE CloseReap(r)
  <2>1. OpOK'
    BY <1>1, <1>3, EndType, TypeParts DEF CloseReap
  <2>2. ProcOK' /\ torn' \subseteq Requests
    BY <1>3, KillType DEF CloseReap, ProcOK
  <2>3. DiskOK' /\ stray' \in BOOLEAN
    BY <1>3, RemoveType DEF CloseReap
  <2>4. RowOK' /\ WorldOK' /\ PastOK'
    BY <1>3, <2>2, <2>3, TypeParts DEF CloseReap, RowOK, WorldOK, PastOK, world, server
  <2> QED BY <2>1, <2>2, <2>3, <2>4, TypePartsNext
<1> QED BY <1>2, <1>3

LEMMA MoveStartType ==
  ASSUME TypeOK, NEW r \in Requests, MoveStart(r)
  PROVE  TypeOK'
<1>1. moving # r
  BY DEF MoveStart, TypeOK
<1>2. ProcOK' /\ WorldOK' /\ up' \in BOOLEAN /\ reconciled' \in BOOLEAN
  BY TypeParts DEF MoveStart, ProcOK, WorldOK, RowOK, world
<1>3. CASE End(r) /\ UNCHANGED <<file, early, behind, moving, owner>>
  <2>1. OpOK'
    BY <1>1, <1>3, EndType, TypeParts
  <2>2. DiskOK' /\ RowOK' /\ PastOK'
    BY <1>3, TypeParts DEF MoveStart, DiskOK, RowOK, PastOK
  <2> QED BY <1>2, <2>1, <2>2, TypePartsNext
<1>4. CASE ~(End(r) /\ UNCHANGED <<file, early, behind, moving, owner>>)
  <2> DEFINE o == [op[r] EXCEPT !.pc = "stopping", !.pid = entry.pid, !.recBoot = entry.recBoot]
  <2>1. /\ moving = None /\ entry # None /\ moving' = r /\ owner' = "launching"
        /\ Append1(StopOf(entry.pid))
        /\ op' = [op EXCEPT ![r].pc = "stopping", ![r].pid = entry.pid, ![r].recBoot = entry.recBoot]
    BY <1>4 DEF MoveStart
  <2>2. entry \in Entry
    BY <2>1 DEF TypeOK
  <2>3. o \in Op /\ o.pc = "stopping"
    BY <2>2 DEF TypeOK, Op, Entry
  <2>4. op' = [op EXCEPT ![r] = o]
    BY <2>1 DEF TypeOK, Op
  <2> HIDE DEF o
  <2>5. OpOK'
    BY <2>1, <2>3, <2>4, OpType, TypeParts
  <2>6. StopOf(entry.pid) \in Commands
    BY <2>2 DEF Commands, Stops, Entry
  <2>7. file' \in Seq(Commands) /\ early' \subseteq Requests /\ behind' \subseteq Requests
    BY <2>1, <2>6, AppendType
  <2>8. DiskOK' /\ RowOK' /\ PastOK'
    BY <2>1, <2>7, TypeParts DEF MoveStart, DiskOK, RowOK, PastOK
  <2> QED BY <1>2, <2>5, <2>8, TypePartsNext
<1> QED BY <1>3, <1>4

\* A launch of a move, or of what restores the old configuration
LEMMA RelaunchType ==
  ASSUME TypeOK, NEW r \in Requests, MoveRelaunch(r) \/ MoveRestore(r)
  PROVE  TypeOK'
<1>1. moving = r /\ moving' = moving
  BY DEF MoveRelaunch, MoveRestore, TypeOK, server
<1>2. op[r] \in Op
  BY DEF TypeOK
<1>3. EntryWithout(r) \in Entry
  BY <1>2 DEF EntryWithout, Entry, Op, Pids, TypeOK
<1>4. file' \in Seq(Commands) /\ cursor' \in Nat \cup {None} /\ entry' \in Entry /\ stray' \in BOOLEAN
  <2>1. Len(file) \in Nat
    BY DEF TypeOK
  <2>2. file' = file /\ entry' = EntryWithout(r)
    BY DEF MoveRelaunch, MoveRestore
  <2>3. cursor' \in Nat \cup {None} /\ stray' \in BOOLEAN
    BY <2>1, TypeParts DEF MoveRelaunch, MoveRestore, DiskOK, PastOK
  <2> QED BY <1>3, <2>2, <2>3, TypeParts DEF DiskOK
<1>5. torn' \subseteq Requests
  <2>1. torn' = TornBy({op[r].pid} \cap Launches)
    BY DEF MoveRelaunch, MoveRestore
  <2> QED BY <2>1, KillType
<1>6. ProcOK'
  <2>2. CASE proc' = Kill({op[r].pid})
    BY <2>2, KillType DEF ProcOK
  <2>3. CASE CanSpawn /\ proc' = [Kill({op[r].pid}) EXCEPT ![NextPid] = Spawned(TRUE)]
    BY <2>3, KillType, NextPidIsNew, SpawnType DEF ProcOK
  <2> QED BY <2>2, <2>3 DEF MoveRelaunch, MoveRestore
<1>7. OpOK'
  <2> DEFINE o(pc, pid) == [op[r] EXCEPT !.pc = pc, !.pid = pid]
  <2>1. \A pc \in {"ready", "undo", "restore"}, pid \in Pids : o(pc, pid) \in Op /\ o(pc, pid).pc = pc
    BY <1>2 DEF Op
  <2>2. \E pc \in {"ready", "undo", "restore"}, pid \in Pids : op' = [op EXCEPT ![r] = o(pc, pid)]
    <3>1. None \in Pids /\ (CanSpawn => NextPid \in Pids)
      BY NextPidIsNew DEF Pids
    <3>2. CASE op' = [op EXCEPT ![r].pc = "undo", ![r].pid = None]
      <4>1. op' = [op EXCEPT ![r] = o("undo", None)]
        BY <1>2, <3>2 DEF TypeOK, Op
      <4> QED BY <3>1, <4>1
    <3>3. CASE CanSpawn /\ \E pc \in {"ready", "restore"} : op' = [op EXCEPT ![r].pc = pc, ![r].pid = NextPid]
      <4>1. PICK pc \in {"ready", "restore"} : op' = [op EXCEPT ![r].pc = pc, ![r].pid = NextPid]
        BY <3>3
      <4>2. op' = [op EXCEPT ![r] = o(pc, NextPid)]
        BY <1>2, <4>1 DEF TypeOK, Op
      <4> QED BY <3>1, <3>3, <4>2
    <3> QED BY <3>2, <3>3 DEF MoveRelaunch, MoveRestore
  <2> HIDE DEF o
  <2>3. PICK pc \in {"ready", "undo", "restore"}, pid \in Pids : op' = [op EXCEPT ![r] = o(pc, pid)]
    BY <2>2
  <2>4. o(pc, pid) \in Op /\ o(pc, pid).pc = pc
    BY <2>1
  <2> QED BY <1>1, <2>3, <2>4, OpType, TypeParts
<1>8. RowOK' /\ WorldOK' /\ PastOK'
  BY <1>4, <1>5, TypeParts DEF MoveRelaunch, MoveRestore, RowOK, WorldOK, PastOK, world, server
<1> QED BY <1>4, <1>6, <1>7, <1>8, TypePartsNext DEF DiskOK

\* A move ends.
LEMMA MoveEndType ==
  ASSUME TypeOK, NEW r \in Requests, MoveRefused(r) \/ MoveReady(r) \/ MoveFails(r)
  PROVE  TypeOK'
<1>1. moving = r /\ moving' = None
  BY DEF MoveRefused, MoveReady, MoveFails, TypeOK
<1>2. OpOK'
  BY <1>1, EndType, TypeParts DEF MoveRefused, MoveReady, MoveFails
<1>3. RowOK'
  BY TypeParts DEF MoveRefused, MoveReady, MoveFails, PatchOwner, RowOK
<1>4. ProcOK' /\ DiskOK' /\ WorldOK'
  BY TypeParts DEF MoveRefused, MoveReady, MoveFails, ProcOK, DiskOK, WorldOK, world, disk
<1>5. PastOK'
  <2>1. CASE MoveRefused(r) \/ MoveFails(r)
    BY <2>1, TypeParts DEF MoveRefused, MoveFails, LetGo, PastOK
  <2>2. CASE MoveReady(r)
    BY <2>2, TypeParts DEF MoveReady, PastOK, history
  <2> QED BY <2>1, <2>2
<1> QED BY <1>2, <1>3, <1>4, <1>5, TypePartsNext

\* A move ends with what restores the old configuration not even started.
LEMMA RestoreFailsType ==
  ASSUME TypeOK, NEW r \in Requests, MoveRestoreFails(r)
  PROVE  TypeOK'
<1>1. moving = r /\ moving' = None
  BY DEF MoveRestoreFails, TypeOK
<1>2. OpOK'
  BY <1>1, EndType, TypeParts DEF MoveRestoreFails
<1>3. RowOK'
  BY TypeParts DEF MoveRestoreFails, PatchOwner, RowOK
<1>4. torn' \subseteq Requests /\ ProcOK'
  <2>1. proc' = Kill({op[r].pid}) /\ torn' = TornBy({op[r].pid} \cap Launches)
    BY DEF MoveRestoreFails
  <2> QED BY <2>1, KillType DEF ProcOK
<1>5. EntryWithout(r) \in Entry
  BY DEF EntryWithout, Entry, Op, Pids, TypeOK
<1>6. DiskOK' /\ WorldOK' /\ PastOK'
  BY <1>4, <1>5, TypeParts DEF MoveRestoreFails, DiskOK, WorldOK, PastOK, world
<1> QED BY <1>2, <1>3, <1>4, <1>6, TypePartsNext

LEMMA MoveUndoType ==
  ASSUME TypeOK, NEW r \in Requests, MoveUndo(r)
  PROVE  TypeOK'
<1>1. moving = r /\ moving' = moving
  BY DEF MoveUndo, TypeOK, server
<1>2. OpOK'
  BY <1>1, ToType, TypeParts DEF MoveUndo
<1>3. StopOf(op[r].pid) \in Commands
  BY DEF TypeOK, Op, Commands, Stops
<1>4. file' \in Seq(Commands) /\ early' \subseteq Requests /\ behind' \subseteq Requests /\ loose' \in BOOLEAN
  BY <1>3, AppendType, TypeParts DEF MoveUndo, DiskOK, PastOK
<1>5. ProcOK' /\ DiskOK' /\ RowOK' /\ WorldOK' /\ PastOK'
  BY <1>4, TypeParts DEF MoveUndo, ProcOK, DiskOK, RowOK, WorldOK, PastOK, world, server
<1> QED BY <1>2, <1>5, TypePartsNext

\* The server or the host goes, and the requests with it.
LEMMA GoneType ==
  ASSUME TypeOK, ServerStops \/ HostReboots
  PROVE  TypeOK'
<1>1. /\ Idle \in Op /\ [Idle EXCEPT !.pc = "done"] \in Op
      /\ Idle.pc = "idle" /\ [Idle EXCEPT !.pc = "done"].pc = "done"
  BY DEF Idle, Op, Pids
<1>2. OpOK'
  <2>1. op' = Dropped /\ moving' = None
    BY DEF ServerStops, HostReboots, ServerGone
  <2> QED BY <1>1, <2>1, LaunchesAreNumbers DEF OpOK, Dropped
<1>3. RowOK'
  BY TypeParts DEF ServerStops, HostReboots, ServerGone, RowOK
<1>4. WorldOK'
  BY TypeParts, FaultsAssumption DEF ServerStops, HostReboots, WorldOK
<1>5. ProcOK' /\ DiskOK' /\ torn' \subseteq Requests
  <2>1. CASE ServerStops
    BY <2>1, TypeParts DEF ServerStops, ProcOK, DiskOK, disk, PastOK
  <2>2. CASE HostReboots
    <3>1. Launches = Launches \cap Launches
      OBVIOUS
    <3>2. torn' \subseteq Requests
      BY <2>2, <3>1, KillType DEF HostReboots
    <3> QED BY <2>2, <3>2, KillType, TypeParts DEF HostReboots, ProcOK, DiskOK, disk
  <2> QED BY <2>1, <2>2
<1>6. loose' \in BOOLEAN /\ unclaimed' \in BOOLEAN
  BY TypeParts DEF ServerStops, HostReboots, ServerGone, LetGo, PastOK
<1>7. PastOK'
  BY <1>5, <1>6, TypeParts DEF ServerStops, HostReboots, PastOK
<1> QED BY <1>2, <1>3, <1>4, <1>5, <1>7, TypePartsNext

LEMMA ServerType ==
  ASSUME TypeOK, ServerStarts \/ Reconcile \/ ClaimAges
  PROVE  TypeOK'
<1>1. OpOK' /\ WorldOK'
  BY TypeParts DEF ServerStarts, Reconcile, ClaimAges, OpOK, WorldOK, world, server
<1>2. CASE ServerStarts
  BY <1>1, <1>2, TypeParts, TypePartsNext DEF ServerStarts, ProcOK, DiskOK, RowOK, PastOK, disk, history
<1>3. CASE ClaimAges
  <2>1. entry' \in Entry \cup {None}
    BY <1>3, TypeParts DEF ClaimAges, DiskOK, Entry
  <2>2. ProcOK' /\ DiskOK' /\ RowOK' /\ PastOK'
    BY <1>3, <2>1, TypeParts DEF ClaimAges, LetGo, ProcOK, DiskOK, RowOK, PastOK, server
  <2> QED BY <1>1, <2>2, TypePartsNext
<1>4. CASE Reconcile
  <2>1. ProcOK'
    <3>1. CASE proc' = proc
      BY <3>1, TypeParts DEF ProcOK
    <3>2. CASE CanSpawn /\ proc' = Spawn(TRUE)
      BY <3>2, SpawnKeeps, TypeParts
    <3> QED BY <1>4, <3>1, <3>2 DEF Reconcile, Adopt, Recover
  <2>2. entry' \in Entry \cup {None} /\ owner' \in {"none", "launching", "running", "failed"}
        /\ unclaimed' \in BOOLEAN
    <3>1. CASE UNCHANGED <<entry, owner, unclaimed>>
      BY <3>1, TypeParts DEF DiskOK, RowOK, PastOK
    <3>2. CASE entry # None /\ (Adopt \/ Recover)
      <4>1. entry \in Entry /\ boot \in Nat
        BY <3>2 DEF TypeOK
      <4>2. entry' \in Entry
        <5>1. PICK b \in Nat : entry' = [entry EXCEPT !.recBoot = b]
          BY <3>2, <4>1 DEF Adopt, Recover
        <5> QED BY <4>1, <5>1 DEF Entry
      <4> QED BY <3>2, <4>2, TypeParts DEF Adopt, Recover, RowOK, PastOK
    <3> QED BY <1>4, <3>1, <3>2 DEF Reconcile
  <2>3. DiskOK' /\ RowOK' /\ PastOK'
    BY <1>4, <2>2, TypeParts DEF Reconcile, DiskOK, RowOK, PastOK
  <2> QED BY <1>1, <2>1, <2>3, TypePartsNext
<1> QED BY <1>2, <1>3, <1>4

\* The invariant holds at first: one harness, no file, no entry.
LEMMA InitType == Init => TypeOK
<1> SUFFICES ASSUME Init PROVE TypeOK
  OBVIOUS
<1>1. ProcOK
  <2>1. Unused \in Proc /\ [Unused EXCEPT !.st = "booting"] \in Proc
        /\ Unused.dirty = FALSE /\ [Unused EXCEPT !.st = "booting"].dirty = FALSE
    BY DEF Unused, Proc, Live
  <2> QED BY <2>1 DEF Init, ProcOK
<1>2. OpOK
  <2>1. Idle \in Op /\ Idle.pc = "idle"
    BY DEF Idle, Op, Pids
  <2> QED BY <2>1, LaunchesAreNumbers DEF Init, OpOK
<1>3. DiskOK
  <2>1. <<>> \in Seq(Commands)
    OBVIOUS
  <2> QED BY <2>1 DEF Init, DiskOK
<1>4. RowOK /\ PastOK
  <2>1. RowOK
    BY DEF Init, RowOK
  <2>2. handed \in [Requests -> 0..2]
    BY DEF Init
  <2> QED BY <2>1, <2>2 DEF Init, PastOK
<1>5. WorldOK
  BY FaultsAssumption DEF Init, WorldOK
<1> QED BY <1>1, <1>2, <1>3, <1>4, <1>5, TypeParts

LEMMA NextType == TypeOK /\ [Next]_vars => TypeOK'
<1> SUFFICES ASSUME TypeOK, [Next]_vars PROVE TypeOK'
  OBVIOUS
<1>1. CASE UNCHANGED vars
  BY <1>1 DEF vars, disk, server, history, TypeOK
<1>2. ASSUME NEW p \in Launches, HarnessStep(p) \/ StreamEnds(p) \/ Crash(p) PROVE TypeOK'
  BY <1>2, RegisterType, StartType, PollType, SaveType, EndsType DEF HarnessStep
<1>3. ASSUME NEW r \in Requests, RequestStep(r) PROVE TypeOK'
  BY <1>3, SendType, ReviveType, StartsType, CloseType, MoveStartType, RelaunchType,
     MoveEndType, MoveUndoType, RestoreFailsType DEF RequestStep
<1> QED BY <1>1, <1>2, <1>3, ArriveType, GoneType, ServerType DEF Next

\* The variables keep their types, a process with an unwritten cursor runs,
\* and the request that holds the session is the one that moves it.
THEOREM TypeCorrect == Spec => []TypeOK
BY InitType, NextType, PTL DEF Spec

-----------------------------------------------------------------------------
(* One harness. The invariant says what the entry knows of the processes:   *)
(* who runs is named by it, who boots is under a claim, and a move that     *)
(* holds the session knows the one process there may be.                    *)

Started ==
  /\ \A p \in reused : proc[p].st = "dead"
  /\ entry # None =>
       /\ entry.boot <= boot
       /\ entry.pid \in Launches => proc[entry.pid].st # "unused"
       /\ entry.boot = boot => entry.pid \notin reused
       /\ entry.claim = "fresh" =>
            /\ entry.claimPid \in Launches \ (reused \cup {entry.pid})
            /\ proc[entry.claimPid].st # "unused"
  /\ moving # None /\ entry # None => entry.boot = boot

Held ==
  /\ \A p, q \in LiveSet : p = q
  /\ entry # None => \A p \in LiveSet :
       IF proc[p].st = "booting" THEN entry.pid # p ELSE entry.pid = p /\ entry.boot = boot
  /\ (moving = None /\ entry # None /\ owner # "none") =>
       \A p \in Booting : ownerFresh \/ (entry.claim = "fresh" /\ entry.claimPid = p)
  /\ moving # None => LiveSet \subseteq {op[moving].pid}

OneInv == TypeOK /\ Started /\ (~unclaimed => Held)

\* What most steps have in common: no harness is started, none that booted
\* runs, and the entry and the row say of them what they said.
Calm ==
  /\ \A p \in Launches :
       /\ proc'[p].st = "unused" <=> proc[p].st = "unused"
       /\ proc[p].st = "dead" => proc'[p].st = "dead"
       /\ proc'[p].st \in Live =>
            proc[p].st \in Live /\ (proc'[p].st = "booting" <=> proc[p].st = "booting")
  /\ boot' = boot /\ reused' = reused /\ moving' = moving /\ unclaimed' = unclaimed
  /\ moving # None => op'[moving].pid = op[moving].pid
  /\ entry' # None =>
       /\ entry # None
       /\ entry'.pid = entry.pid /\ entry'.boot = entry.boot
       /\ entry'.claim = entry.claim /\ entry'.claimPid = entry.claimPid
       /\ owner' # "none" => owner # "none" /\ ownerFresh' = ownerFresh

LEMMA CalmKeeps ==
  ASSUME OneInv, Calm, TypeOK'
  PROVE  OneInv'
<1>1. reused \subseteq Launches
  BY DEF OneInv, TypeOK
<1>2. Started'
  BY <1>1 DEF OneInv, Calm, Started
<1>3. ASSUME ~unclaimed' PROVE Held'
  <2>1. Held
    BY <1>3 DEF OneInv, Calm
  <2>2. LiveSet' \subseteq LiveSet
    BY DEF Calm, LiveSet
  <2>3. \A p \in LiveSet' : proc'[p].st = "booting" <=> proc[p].st = "booting"
    BY DEF Calm, LiveSet
  <2>4. Booting' \subseteq Booting
    BY DEF Calm, Booting, Live
  <2>5. \A p, q \in LiveSet' : p = q
    BY <2>1, <2>2 DEF Held
  <2>6. entry' # None => \A p \in LiveSet' :
          IF proc'[p].st = "booting" THEN entry'.pid # p ELSE entry'.pid = p /\ entry'.boot = boot'
    BY <2>1, <2>2, <2>3 DEF Held, Calm
  <2>7. (moving' = None /\ entry' # None /\ owner' # "none") =>
          \A p \in Booting' : ownerFresh' \/ (entry'.claim = "fresh" /\ entry'.claimPid = p)
    BY <2>1, <2>4 DEF Held, Calm
  <2>8. moving' # None => LiveSet' \subseteq {op'[moving'].pid}
    BY <2>1, <2>2 DEF Held, Calm
  <2> QED BY <2>5, <2>6, <2>7, <2>8 DEF Held
<1> QED BY <1>2, <1>3 DEF OneInv

\* A harness that connects, reads, saves its cursor or ends
LEMMA HarnessCalm ==
  ASSUME TypeOK, NEW p \in Launches,
         Start(p) \/ Poll(p) \/ SaveCursor(p) \/ Exit(p) \/ StreamEnds(p) \/ Crash(p)
  PROVE  Calm
<1>1. /\ boot' = boot /\ reused' = reused /\ moving' = moving /\ unclaimed' = unclaimed
      /\ op' = op /\ owner' = owner /\ ownerFresh' = ownerFresh
  BY DEF Start, Poll, SaveCursor, Exit, StreamEnds, Crash, world, server
<1>2. entry' = None \/ entry' = entry
  BY DEF Start, Poll, SaveCursor, Exit, StreamEnds, Crash, RemoveEntry, disk
<1>3. /\ proc[p].st \in Live
      /\ \A q \in Launches \ {p} : proc'[q] = proc[q]
      /\ proc'[p].st \in {"running", "closing", "dead"}
      /\ proc'[p].st # "dead" => proc[p].st # "booting"
  <2>0. proc \in [Launches -> Proc] /\ proc[p] \in Proc
    BY DEF TypeOK
  <2>1. CASE Start(p)
    BY <2>0, <2>1 DEF Start, Proc, Live
  <2>2. CASE Poll(p)
    <3> DEFINE done == Obeyed(NewLines(p))
               sends == {r \in Requests : r \in ToSet(done)}
               closes == \E c \in Stops : c \in ToSet(done)
               saves == ~closes \/ kind # "managed"
    <3>1. proc' = [proc EXCEPT ![p].off = Len(file),
                               ![p].st = IF closes THEN "closing" ELSE "running",
                               ![p].dirty = saves,
                               ![p].batch = IF saves THEN sends ELSE {}]
      BY <2>2 DEF Poll
    <3> HIDE DEF done, sends, closes, saves
    <3>2. proc[p].st = "running"
      BY <2>2 DEF Poll
    <3>3. proc'[p].st \in {"running", "closing"} /\ \A q \in Launches \ {p} : proc'[q] = proc[q]
      BY <2>0, <3>1 DEF Proc
    <3> QED BY <3>2, <3>3 DEF Live
  <2>3. CASE SaveCursor(p)
    BY <2>0, <2>3 DEF SaveCursor, Proc, Live
  <2>4. CASE Exit(p) \/ StreamEnds(p)
    BY <2>0, <2>4 DEF Exit, StreamEnds, Stopped, Unused, Live
  <2>5. CASE Crash(p)
    BY <2>0, <2>5 DEF Crash, Kill, Stopped, Unused
  <2> QED BY <2>1, <2>2, <2>3, <2>4, <2>5
<1>4. ~("unused" \in Live) /\ ~("dead" \in Live)
  BY DEF Live
<1> QED BY <1>1, <1>2, <1>3, <1>4 DEF Calm

\* A step of a request, or of the server, that starts and stops nothing
LEMMA ServerCalm ==
  ASSUME TypeOK, proc' = proc, boot' = boot, reused' = reused, moving' = moving,
         unclaimed' = unclaimed, moving # None => op'[moving].pid = op[moving].pid,
         entry' = entry, owner' = owner \/ owner' = "none" \/ owner # "none",
         ownerFresh' = ownerFresh \/ owner' = "none"
  PROVE  Calm
BY DEF Calm

LEMMA RequestCalm ==
  ASSUME TypeOK, NEW r \in Requests,
         \/ \E what \in {"send", "resume", "close", "move"} : Arrive(r, what)
         \/ Send(r) \/ Resume(r) \/ CloseAsk(r) \/ MoveUndo(r)
  PROVE  Calm
<1>1. proc' = proc /\ boot' = boot /\ reused' = reused /\ moving' = moving /\ unclaimed' = unclaimed
      /\ entry' = entry /\ owner' = owner /\ ownerFresh' = ownerFresh
  BY DEF Arrive, Send, Resume, CloseAsk, MoveUndo, world, disk, server, history
<1>2. op \in [Requests -> Op]
  BY DEF TypeOK
<1>3. moving # None => op'[moving].pid = op[moving].pid
  <2>1. CASE moving = r
    <3>1. MoveUndo(r)
      BY <2>1 DEF Arrive, Send, Resume, CloseAsk, TypeOK
    <3>2. op' = [op EXCEPT ![r].pc = "undo"]
      BY <3>1 DEF MoveUndo, To
    <3>3. op'[r].pid = op[r].pid
      BY <1>2, <3>2 DEF Op
    <3> QED BY <2>1, <3>3
  <2>2. CASE moving # r
    <3>1. \E o : op' = [op EXCEPT ![r] = o]
      <4>1. CASE MoveUndo(r) \/ \E what \in {"send", "resume", "close", "move"} : Arrive(r, what)
        BY <4>1 DEF MoveUndo, Arrive, To
      <4>2. CASE Send(r) \/ Resume(r) \/ CloseAsk(r)
        BY <4>2 DEF Send, Resume, CloseAsk, Deliver, To, End
      <4> QED BY <4>1, <4>2
    <3> QED BY <1>2, <2>2, <3>1 DEF TypeOK
  <2> QED BY <2>1, <2>2
<1> QED BY <1>1, <1>3, ServerCalm

\* What a started process is, and what a stopped one.
LEMMA NewProcess ==
  ASSUME NEW f \in [Launches -> Proc], NEW rec \in BOOLEAN, CanSpawn
  PROVE  /\ NextPid \in Launches /\ proc[NextPid].st = "unused"
         /\ [f EXCEPT ![NextPid] = Spawned(rec)][NextPid].st = "booting"
         /\ \A q \in Launches \ {NextPid} : [f EXCEPT ![NextPid] = Spawned(rec)][q] = f[q]
BY NextPidIsNew DEF Spawned, Unused

LEMMA Killed ==
  ASSUME TypeOK, NEW P
  PROVE  \A q \in Launches :
           /\ q \in P => Kill(P)[q].st \notin Live
           /\ q \notin P => Kill(P)[q] = proc[q]
           /\ Kill(P)[q].st = "unused" <=> proc[q].st = "unused"
           /\ proc[q].st = "dead" => Kill(P)[q].st = "dead"
           /\ proc[q].st \in Live => Kill(P)[q].st \in {"dead", proc[q].st}
           /\ Kill(P)[q].st \in Live => proc[q].st \in Live /\ Kill(P)[q] = proc[q]
BY DEF Kill, Stopped, Unused, Live

\* A number that was free is in no entry, and no other process has it.
LEMMA SpawnStarted ==
  ASSUME OneInv, NEW q \in Launches, proc[q].st = "unused", proc'[q].st = "booting",
         \A p \in Launches \ {q} : proc'[p] = proc[p],
         boot' = boot, reused' = reused, moving' = moving,
         \/ entry' = entry
         \/ /\ entry # None /\ entry'.pid = entry.pid /\ entry'.boot = entry.boot
            /\ entry'.claim = "fresh" => entry'.claimPid = q
         \/ entry'.pid = None /\ entry'.boot = boot /\ entry'.claim = "none"
  PROVE  Started' /\ q \notin reused
<1>1. reused \subseteq Launches /\ q \notin reused /\ boot \in Nat /\ None \notin Launches
  BY LaunchesAreNumbers DEF OneInv, TypeOK, Started
<1>2. \A p \in reused' : proc'[p].st = "dead"
  BY <1>1 DEF OneInv, Started
<1>3. CASE entry' = entry
  BY <1>1, <1>2, <1>3 DEF OneInv, Started
<1>4. CASE /\ entry # None /\ entry'.pid = entry.pid /\ entry'.boot = entry.boot
           /\ entry'.claim = "fresh" => entry'.claimPid = q
  <2>1. entry.pid # q
    BY <1>4 DEF OneInv, Started
  <2> QED BY <1>1, <1>2, <1>4, <2>1 DEF OneInv, Started
<1>5. CASE entry'.pid = None /\ entry'.boot = boot /\ entry'.claim = "none"
  BY <1>1, <1>2, <1>5 DEF OneInv, Started
<1> QED BY <1>1, <1>3, <1>4, <1>5

\* A live process under the entry's number on this boot is the harness.
LEMMA TheEntryLives ==
  ASSUME TypeOK, Started, entry # None, ~Dead(entry)
  PROVE  entry.pid \in LiveSet /\ entry.boot = boot
BY DEF TypeOK, Started, Dead, PidAlive, LiveSet

\* Nobody boots under no claim: what may be started again runs nowhere.
LEMMA RelaunchableIsStopped ==
  ASSUME OneInv, ~unclaimed, moving = None, Relaunchable
  PROVE  LiveSet = {}
<1> SUFFICES ASSUME NEW p \in LiveSet PROVE FALSE
  OBVIOUS
<1>1. Held
  BY DEF OneInv
<1>2. entry # None /\ owner # "none" /\ Dead(entry) /\ ~Claimed
  BY DEF Relaunchable
<1>3. p \in Launches /\ PidAlive(p)
  BY DEF LiveSet, PidAlive
<1>4. CASE proc[p].st = "booting"
  <2>1. ~ownerFresh /\ entry.claim = "fresh" /\ entry.claimPid = p
    BY <1>1, <1>2, <1>3, <1>4 DEF Held, Booting, Claimed
  <2> QED BY <1>2, <1>3, <2>1 DEF Claimed
<1>5. CASE proc[p].st # "booting"
  BY <1>1, <1>2, <1>3, <1>5 DEF Held, Dead
<1> QED BY <1>4, <1>5

LEMMA RegisterOne ==
  ASSUME OneInv, TypeOK', NEW p \in Launches, Register(p)
  PROVE  OneInv'
<1>1. /\ boot' = boot /\ reused' = reused /\ moving' = moving /\ unclaimed' = unclaimed /\ op' = op
      /\ entry'.pid = p /\ entry'.boot = boot /\ entry'.claim = "none" /\ proc[p].st = "booting"
  BY DEF Register, world, server
<1>2. proc'[p].st \in {"connecting", "running"} /\ \A q \in Launches \ {p} : proc'[q] = proc[q]
  <2>1. proc \in [Launches -> Proc] /\ proc[p] \in Proc
    BY DEF OneInv, TypeOK
  <2>2. CASE kind = "pi"
    BY <2>1, <2>2 DEF Register, Proc
  <2>3. CASE kind = "managed"
    BY <2>1, <2>3 DEF Register, Proc
  <2>4. CASE kind \notin {"pi", "managed"}
    BY <2>1, <2>4 DEF Register, Proc
  <2> QED BY <2>2, <2>3, <2>4
<1>3. reused \subseteq Launches /\ boot \in Nat
  BY DEF OneInv, TypeOK
<1>4. Started'
  BY <1>1, <1>2, <1>3 DEF OneInv, Started
<1>5. ASSUME ~unclaimed' PROVE Held'
  <2>1. Held /\ p \in LiveSet
    BY <1>1, <1>5 DEF OneInv, LiveSet, Live
  <2>2. LiveSet = {p}
    BY <2>1 DEF Held
  <2>3. LiveSet' = {p} /\ Booting' = {}
    BY <1>2, <2>2 DEF LiveSet, Booting, Live
  <2> QED BY <1>1, <1>2, <2>1, <2>2, <2>3 DEF Held
<1> QED BY <1>4, <1>5 DEF OneInv

LEMMA ReviveOne ==
  ASSUME OneInv, TypeOK', NEW r \in Requests, Revive(r)
  PROVE  OneInv'
<1>1. boot' = boot /\ reused' = reused /\ moving' = moving /\ ownerFresh' = ownerFresh
  BY DEF Revive, world, server
<1>2. moving # r /\ \A q \in Requests \ {r} : op'[q] = op[q]
  BY DEF Revive, Deliver, End, OneInv, TypeOK
<1>3. CASE ~Relaunchable
  <2>1. Calm
    BY <1>1, <1>2, <1>3, ServerCalm DEF Revive, OneInv, TypeOK
  <2> QED BY <2>1, CalmKeeps
<1>4. CASE Relaunchable
  <2>1. /\ CanSpawn /\ proc' = Spawn(TRUE) /\ owner' = "running"
        /\ unclaimed' = (unclaimed \/ moving # None)
        /\ entry' = [entry EXCEPT !.claim = "fresh", !.claimPid = NextPid, !.recBoot = boot]
    BY <1>4 DEF Revive
  <2>2. /\ NextPid \in Launches /\ proc[NextPid].st = "unused"
        /\ proc'[NextPid].st = "booting" /\ \A q \in Launches \ {NextPid} : proc'[q] = proc[q]
    BY <2>1, NewProcess DEF Spawn, OneInv, TypeOK
  <2>3. entry \in Entry /\ entry # None
    BY <1>4 DEF Relaunchable, OneInv, TypeOK
  <2>4. entry'.pid = entry.pid /\ entry'.boot = entry.boot /\ entry'.claim = "fresh" /\ entry'.claimPid = NextPid
    BY <2>1, <2>3 DEF Entry
  <2>5. entry.pid # NextPid /\ NextPid \notin reused
    BY <2>2, <2>3 DEF OneInv, Started
  <2>6. Started'
    BY <1>1, <2>2, <2>3, <2>4, SpawnStarted
  <2>7. ASSUME ~unclaimed' PROVE Held'
    <3>1. LiveSet = {} /\ moving = None
      BY <1>4, <2>1, <2>7, RelaunchableIsStopped
    <3>2. LiveSet' = {NextPid} /\ Booting' = {NextPid}
      BY <2>2, <3>1 DEF LiveSet, Booting, Live
    <3> QED BY <1>1, <2>2, <2>4, <2>5, <3>1, <3>2 DEF Held
  <2> QED BY <2>6, <2>7 DEF OneInv
<1> QED BY <1>3, <1>4

LEMMA StartsOne ==
  ASSUME OneInv, TypeOK', NEW r \in Requests, ReviveFails(r) \/ ColdStart(r)
  PROVE  OneInv'
<1>1. boot' = boot /\ reused' = reused /\ moving' = moving
  BY DEF ReviveFails, ColdStart, world, server
<1>2. moving # r /\ \A q \in Requests \ {r} : op'[q] = op[q]
  BY DEF ReviveFails, ColdStart, End, OneInv, TypeOK
<1>3. CASE ColdStart(r)
  <2>1. unclaimed' = TRUE /\ entry' = entry
    BY <1>3 DEF ColdStart, disk
  <2>2. /\ NextPid \in Launches /\ proc[NextPid].st = "unused"
        /\ proc'[NextPid].st = "booting" /\ \A q \in Launches \ {NextPid} : proc'[q] = proc[q]
    BY <1>3, NewProcess DEF ColdStart, Spawn, OneInv, TypeOK
  <2>3. Started'
    BY <1>1, <2>1, <2>2, SpawnStarted
  <2> QED BY <2>1, <2>3 DEF OneInv
<1>4. CASE ReviveFails(r) /\ entry' = entry
  <2>1. Calm
    BY <1>1, <1>2, <1>4, ServerCalm DEF ReviveFails, Relaunchable, history, OneInv, TypeOK
  <2> QED BY <2>1, CalmKeeps
<1>5. CASE ReviveFails(r) /\ entry' # entry
  <2>1. /\ Relaunchable /\ proc' = proc /\ unclaimed' = unclaimed
        /\ entry' = [entry EXCEPT !.claim = "none", !.claimPid = None, !.recBoot = boot]
    BY <1>5 DEF ReviveFails, history
  <2>2. entry \in Entry /\ entry # None
    BY <2>1 DEF Relaunchable, OneInv, TypeOK
  <2>3. entry'.pid = entry.pid /\ entry'.boot = entry.boot /\ entry'.claim = "none"
    BY <2>1, <2>2 DEF Entry
  <2>4. Started'
    BY <1>1, <2>1, <2>2, <2>3 DEF OneInv, Started
  <2>5. ASSUME ~unclaimed' PROVE Held'
    <3>1. CASE moving = None
      <4>1. LiveSet = {}
        BY <2>1, <2>5, <3>1, RelaunchableIsStopped
      <4>2. LiveSet' = {} /\ Booting' = {}
        BY <2>1, <4>1 DEF LiveSet, Booting, Live
      <4> QED BY <1>1, <3>1, <4>2 DEF Held
    <3>2. CASE moving # None
      <4>1. Held /\ LiveSet' = LiveSet /\ op'[moving] = op[moving]
        BY <1>2, <2>1, <2>5, <3>2 DEF OneInv, LiveSet, TypeOK
      <4> QED BY <1>1, <2>1, <2>2, <2>3, <3>2, <4>1 DEF Held
    <3> QED BY <3>1, <3>2
  <2> QED BY <2>4, <2>5 DEF OneInv
<1> QED BY <1>3, <1>4, <1>5

LEMMA CloseReapOne ==
  ASSUME OneInv, TypeOK', NEW r \in Requests, CloseReap(r)
  PROVE  OneInv'
<1>1. /\ boot' = boot /\ reused' = reused /\ moving' = moving /\ unclaimed' = unclaimed
      /\ entry' = None /\ proc' = Kill({op[r].pid})
  BY DEF CloseReap, RemoveEntry, world, server
<1>2. moving # r /\ \A q \in Requests \ {r} : op'[q] = op[q]
  BY DEF CloseReap, End, OneInv, TypeOK
<1>3. \A q \in Launches :
        /\ proc'[q].st = "unused" <=> proc[q].st = "unused"
        /\ proc[q].st = "dead" => proc'[q].st = "dead"
        /\ proc'[q].st \in Live => proc[q].st \in Live /\ proc'[q] = proc[q]
  BY <1>1, Killed DEF OneInv
<1>4. Calm
  BY <1>1, <1>2, <1>3 DEF Calm, OneInv, TypeOK
<1> QED BY <1>4, CalmKeeps

LEMMA MoveStartOne ==
  ASSUME OneInv, TypeOK', NEW r \in Requests, MoveStart(r)
  PROVE  OneInv'
<1>1. /\ boot' = boot /\ reused' = reused /\ unclaimed' = unclaimed /\ entry' = entry /\ proc' = proc
      /\ ownerFresh' = ownerFresh
  BY DEF MoveStart, world
<1>2. moving # r /\ \A q \in Requests \ {r} : op'[q] = op[q]
  BY DEF MoveStart, End, OneInv, TypeOK
<1>3. CASE moving' = moving
  <2>1. owner' = owner
    BY <1>2, <1>3 DEF MoveStart
  <2>2. Calm
    BY <1>1, <1>2, <1>3, <2>1, ServerCalm DEF OneInv, TypeOK
  <2> QED BY <2>2, CalmKeeps
<1>4. CASE moving' # moving
  <2>1. /\ moving = None /\ moving' = r /\ entry # None /\ owner # "none" /\ ~Dead(entry)
        /\ op' = [op EXCEPT ![r].pc = "stopping", ![r].pid = entry.pid, ![r].recBoot = entry.recBoot]
    BY <1>4 DEF MoveStart
  <2>2. entry.pid \in LiveSet /\ entry.boot = boot
    BY <2>1, TheEntryLives DEF OneInv
  <2>3. op'[r].pid = entry.pid
    BY <2>1 DEF OneInv, TypeOK, Op
  <2>4. Started'
    BY <1>1, <2>2 DEF OneInv, Started
  <2>5. ASSUME ~unclaimed' PROVE Held'
    <3>1. Held /\ LiveSet' = LiveSet
      BY <1>1, <2>5 DEF OneInv, LiveSet
    <3>2. r # None
      BY LaunchesAreNumbers
    <3>3. LiveSet' \subseteq {op'[moving'].pid}
      BY <2>1, <2>2, <2>3, <3>1 DEF Held
    <3> QED BY <1>1, <2>1, <3>1, <3>2, <3>3 DEF Held
  <2> QED BY <2>4, <2>5 DEF OneInv
<1> QED BY <1>3, <1>4

\* The old process is stopped before the next one is started.
LEMMA RelaunchOne ==
  ASSUME OneInv, TypeOK', NEW r \in Requests, MoveRelaunch(r) \/ MoveRestore(r)
  PROVE  OneInv'
<1> DEFINE killed == Kill({op[r].pid})
<1>1. /\ moving = r /\ moving' = moving /\ boot' = boot /\ reused' = reused
      /\ unclaimed' = unclaimed /\ entry' = EntryWithout(r)
  BY DEF MoveRelaunch, MoveRestore, OneInv, TypeOK, world, server
<1>2. entry'.pid = None /\ entry'.boot = boot /\ entry'.claim = "none"
  BY <1>1 DEF EntryWithout
<1>3. /\ killed \in [Launches -> Proc] /\ reused \subseteq Launches /\ r # None /\ boot \in Nat
      /\ op \in [Requests -> Op] /\ None \notin Launches
  BY KillType, LaunchesAreNumbers DEF OneInv, TypeOK
<1>4. ~unclaimed => \A q \in Launches : killed[q].st \notin Live
  <2>1. ~unclaimed => LiveSet \subseteq {op[r].pid}
    BY <1>1, <1>3 DEF OneInv, Held
  <2> QED BY <2>1, Killed DEF OneInv, LiveSet
<1>5. \A q \in Launches : /\ killed[q].st = "unused" <=> proc[q].st = "unused"
                          /\ proc[q].st = "dead" => killed[q].st = "dead"
  BY Killed DEF OneInv
<1>6. CASE proc' = killed
  <2>1. \A p \in reused' : proc'[p].st = "dead"
    BY <1>1, <1>3, <1>5, <1>6 DEF OneInv, Started
  <2>2. Started'
    BY <1>1, <1>2, <1>3, <2>1 DEF Started
  <2>3. ~unclaimed' => LiveSet' = {}
    BY <1>1, <1>4, <1>6 DEF LiveSet
  <2>4. ~unclaimed' => Held'
    BY <1>1, <1>3, <2>3 DEF Held
  <2> QED BY <2>2, <2>4 DEF OneInv
<1>7. CASE /\ CanSpawn /\ proc' = [killed EXCEPT ![NextPid] = Spawned(TRUE)]
           /\ \E pc \in {"ready", "restore"} : op' = [op EXCEPT ![r].pc = pc, ![r].pid = NextPid]
  <2>1. /\ NextPid \in Launches /\ proc[NextPid].st = "unused"
        /\ proc'[NextPid].st = "booting" /\ \A q \in Launches \ {NextPid} : proc'[q] = killed[q]
    BY <1>3, <1>7, NewProcess
  <2>2. NextPid \notin reused
    BY <2>1 DEF OneInv, Started
  <2>3. Started'
    <3>1. \A p \in reused' : proc'[p].st = "dead"
      BY <1>1, <1>3, <1>5, <2>1, <2>2 DEF OneInv, Started
    <3> QED BY <1>1, <1>2, <1>3, <3>1 DEF Started
  <2>4. op'[r].pid = NextPid
    BY <1>3, <1>7 DEF Op
  <2>5. ~unclaimed' => LiveSet' = {NextPid}
    BY <1>1, <1>4, <2>1 DEF LiveSet, Live
  <2>6. ~unclaimed' => Held'
    BY <1>1, <1>2, <1>3, <2>1, <2>4, <2>5 DEF Held
  <2> QED BY <2>3, <2>6 DEF OneInv
<1> HIDE DEF killed
<1> QED BY <1>6, <1>7 DEF MoveRelaunch, MoveRestore, killed

\* A move ends: the one live process, if any, is the entry's.
LEMMA MoveEndOne ==
  ASSUME OneInv, TypeOK', NEW r \in Requests, MoveRefused(r) \/ MoveReady(r) \/ MoveFails(r)
  PROVE  OneInv'
<1>1. /\ moving = r /\ moving' = None /\ boot' = boot /\ reused' = reused
      /\ entry' = entry /\ proc' = proc /\ r # None
  BY LaunchesAreNumbers DEF MoveRefused, MoveReady, MoveFails, OneInv, TypeOK, world, disk
<1>2. Started'
  BY <1>1 DEF OneInv, Started
<1>3. ASSUME ~unclaimed' PROVE Held' 
  <2>1. ~unclaimed
    BY <1>3 DEF MoveRefused, MoveReady, MoveFails, LetGo, history
  <2>2. Held /\ LiveSet' = LiveSet /\ Booting' = Booting /\ LiveSet \subseteq {op[r].pid}
    BY <1>1, <2>1 DEF OneInv, Held, LiveSet, Booting
  <2>3. Booting = {}
    <3>1. CASE MoveRefused(r) \/ MoveFails(r)
      BY <1>3, <3>1 DEF MoveRefused, MoveFails, LetGo
    <3>2. CASE MoveReady(r)
      <4>1. entry # None /\ PidAlive(entry.pid)
        BY <3>2 DEF MoveReady
      <4>2. entry.pid \in LiveSet
        BY <1>1, <4>1 DEF OneInv, TypeOK, Started, PidAlive, LiveSet
      <4>3. Booting \subseteq LiveSet
        BY DEF Booting, LiveSet, Live
      <4>4. \A p \in Booting : p = entry.pid /\ entry.pid # p
        BY <2>2, <4>1, <4>2, <4>3 DEF Held, Booting
      <4> QED BY <4>4
    <3> QED BY <3>1, <3>2
  <2> QED BY <1>1, <2>2, <2>3 DEF Held
<1> QED BY <1>2, <1>3 DEF OneInv

\* The process the move stopped was the last one; the entry names none.
LEMMA RestoreFailsOne ==
  ASSUME OneInv, TypeOK', NEW r \in Requests, MoveRestoreFails(r)
  PROVE  OneInv'
<1> DEFINE killed == Kill({op[r].pid})
<1>1. /\ moving = r /\ moving' = None /\ boot' = boot /\ reused' = reused
      /\ unclaimed' = unclaimed /\ entry' = EntryWithout(r) /\ proc' = killed
  BY DEF MoveRestoreFails, OneInv, TypeOK, world
<1>2. entry'.pid = None /\ entry'.boot = boot /\ entry'.claim = "none"
  BY <1>1 DEF EntryWithout
<1>3. reused \subseteq Launches /\ r # None /\ boot \in Nat /\ None \notin Launches
  BY LaunchesAreNumbers DEF OneInv, TypeOK
<1>4. ~unclaimed => LiveSet \subseteq {op[r].pid}
  BY <1>1, <1>3 DEF OneInv, Held
<1>5. ~unclaimed' => LiveSet' = {}
  BY <1>1, <1>4, Killed DEF OneInv, LiveSet
<1>6. \A p \in reused' : proc'[p].st = "dead"
  BY <1>1, <1>3, Killed DEF OneInv, Started
<1>7. Started'
  BY <1>1, <1>2, <1>3, <1>6 DEF Started
<1>8. ~unclaimed' => Held'
  <2>1. LiveSet' = {} => Booting' = {}
    BY DEF LiveSet, Booting, Live
  <2> QED BY <1>1, <1>2, <1>5, <2>1 DEF Held
<1> QED BY <1>7, <1>8 DEF OneInv

LEMMA ServerOne ==
  ASSUME OneInv, TypeOK', ServerStops \/ ServerStarts \/ ClaimAges
  PROVE  OneInv'
<1>1. CASE ServerStarts
  <2>1. Calm
    BY <1>1, ServerCalm DEF ServerStarts, world, disk, history, OneInv
  <2> QED BY <2>1, CalmKeeps
<1>2. CASE ServerStops
  <2>1. proc' = proc /\ boot' = boot /\ reused' = reused /\ entry' = entry /\ moving' = None
        /\ owner' = owner /\ ownerFresh' = ownerFresh
    BY <1>2 DEF ServerStops, ServerGone, disk
  <2>2. Started'
    BY <2>1 DEF OneInv, Started
  <2>3. ASSUME ~unclaimed' PROVE Held'
    <3>1. ~unclaimed /\ (moving = None \/ Booting = {})
      BY <1>2, <2>3 DEF ServerStops, LetGo
    <3>2. LiveSet' = LiveSet /\ Booting' = Booting
      BY <2>1 DEF LiveSet, Booting
    <3> QED BY <2>1, <3>1, <3>2 DEF OneInv, Held
  <2> QED BY <2>2, <2>3 DEF OneInv
<1>3. CASE ClaimAges
  <2>1. proc' = proc /\ boot' = boot /\ reused' = reused /\ moving' = moving /\ op' = op
    BY <1>3 DEF ClaimAges, world, server
  <2>2. entry' = entry \/ (entry # None /\ entry'.pid = entry.pid /\ entry'.boot = entry.boot /\ entry'.claim = "old")
    BY <1>3 DEF ClaimAges, OneInv, TypeOK, Entry
  <2>3. Started'
    BY <2>1, <2>2 DEF OneInv, Started
  <2>4. ASSUME ~unclaimed' PROVE Held'
    <3>1. ~unclaimed /\ Booting = {}
      BY <1>3, <2>4 DEF ClaimAges, LetGo
    <3>2. LiveSet' = LiveSet /\ Booting' = {}
      BY <2>1, <3>1 DEF LiveSet, Booting
    <3> QED BY <2>1, <2>2, <3>1, <3>2 DEF OneInv, Held
  <2> QED BY <2>3, <2>4 DEF OneInv
<1> QED BY <1>1, <1>2, <1>3

\* After a reboot nothing runs, and the entry is of an earlier boot.
LEMMA RebootOne ==
  ASSUME OneInv, TypeOK', HostReboots
  PROVE  OneInv'
<1>1. boot' = boot + 1 /\ entry' = entry /\ moving' = None /\ proc' = Kill(Launches)
  BY DEF HostReboots, ServerGone, disk
<1>2. reused' \subseteq IF entry = None THEN {} ELSE {entry.pid} \cap Launches
  BY DEF HostReboots
<1>3. \A q \in Launches : proc[q].st # "unused" => proc'[q].st = "dead"
  <2>1. \A q \in Launches : proc[q].st \in Live \cup {"unused", "dead"} /\ proc'[q].st \in Live \cup {"unused", "dead"}
    BY DEF OneInv, TypeOK, Proc
  <2> QED BY <1>1, <2>1, Killed DEF OneInv
<1>4. \A q \in Launches : proc'[q].st \notin Live /\ (proc[q].st # "unused" => proc'[q].st # "unused")
  BY <1>1, Killed DEF OneInv
<1>5. boot \in Nat /\ (entry # None => entry \in Entry)
  BY DEF OneInv, TypeOK
<1>6. Started'
  <2>1. \A p \in reused' : proc'[p].st = "dead"
    BY <1>2, <1>3 DEF OneInv, Started
  <2>2. entry # None => entry.boot <= boot /\ entry.boot \in Nat
    BY <1>5 DEF OneInv, Started, Entry
  <2>3. entry # None /\ entry.claim = "fresh" =>
          entry.claimPid \in Launches \ (reused' \cup {entry.pid}) /\ proc'[entry.claimPid].st # "unused"
    BY <1>2, <1>4 DEF OneInv, Started
  <2>4. entry # None => (entry.pid \in Launches => proc'[entry.pid].st # "unused")
    BY <1>4 DEF OneInv, Started
  <2> QED BY <1>1, <1>5, <2>1, <2>2, <2>3, <2>4 DEF Started
<1>7. LiveSet' = {} /\ Booting' = {}
  BY <1>4 DEF LiveSet, Booting, Live
<1>8. Held'
  BY <1>1, <1>7 DEF Held
<1> QED BY <1>6, <1>8 DEF OneInv

LEMMA ReconcileOne ==
  ASSUME OneInv, TypeOK', Reconcile
  PROVE  OneInv'
<1>1. boot' = boot /\ reused' = reused /\ moving' = moving /\ op' = op /\ ownerFresh' = ownerFresh
  BY DEF Reconcile, world, server
<1>2. \/ entry' = entry
      \/ /\ entry # None /\ owner # "none"
         /\ entry'.pid = entry.pid /\ entry'.boot = entry.boot
         /\ entry'.claim = entry.claim /\ entry'.claimPid = entry.claimPid
  <2>1. entry' = entry \/ (entry # None /\ owner # "none" /\ (Adopt \/ Recover))
    BY DEF Reconcile
  <2>2. CASE entry # None /\ owner # "none" /\ (Adopt \/ Recover)
    <3>1. entry \in Entry
      BY <2>2 DEF OneInv, TypeOK
    <3>2. \E b : entry' = [entry EXCEPT !.recBoot = b]
      BY <2>2 DEF Adopt, Recover
    <3> QED BY <2>2, <3>1, <3>2 DEF Entry
  <2> QED BY <2>1, <2>2
<1>3. CASE proc' = proc /\ unclaimed' = unclaimed
  <2>1. owner' = owner \/ owner # "none"
    BY DEF Reconcile, Adopt, Recover
  <2>2. Calm
    BY <1>1, <1>2, <1>3, <2>1 DEF Calm
  <2> QED BY <2>2, CalmKeeps
<1>4. CASE CanSpawn /\ proc' = Spawn(TRUE) /\ unclaimed' = TRUE
  <2>1. /\ NextPid \in Launches /\ proc[NextPid].st = "unused"
        /\ proc'[NextPid].st = "booting" /\ \A q \in Launches \ {NextPid} : proc'[q] = proc[q]
    BY <1>4, NewProcess DEF Spawn, OneInv, TypeOK
  <2>2. reused \subseteq Launches /\ NextPid \notin reused
    BY <2>1 DEF OneInv, Started, TypeOK
  <2>3. Started'
    <3>1. \A p \in reused' : proc'[p].st = "dead"
      BY <1>1, <2>1, <2>2 DEF OneInv, Started
    <3>2. \A p \in Launches : proc[p].st # "unused" => proc'[p].st # "unused"
      BY <2>1
    <3> QED BY <1>1, <1>2, <3>1, <3>2 DEF OneInv, Started
  <2> QED BY <1>4, <2>3 DEF OneInv
<1> QED BY <1>3, <1>4 DEF Reconcile, Adopt, Recover

LEMMA OneInit == Init => OneInv
<1> SUFFICES ASSUME Init PROVE OneInv
  OBVIOUS
<1>1. entry = None /\ reused = {} /\ moving = None
  BY DEF Init
<1>2. Started
  BY <1>1 DEF Started
<1>3. LiveSet \subseteq {1}
  BY DEF Init, LiveSet, Live, Unused
<1>4. Held
  BY <1>1, <1>3 DEF Held
<1> QED BY <1>2, <1>4, InitType DEF OneInv

LEMMA OneNext == OneInv /\ [Next]_vars => OneInv'
<1> SUFFICES ASSUME OneInv, [Next]_vars PROVE OneInv'
  OBVIOUS
<1>0. TypeOK /\ TypeOK'
  BY NextType DEF OneInv
<1>1. CASE UNCHANGED vars
  <2>1. Calm
    BY <1>1, <1>0, ServerCalm DEF vars, disk, server, history
  <2> QED BY <1>0, <2>1, CalmKeeps
<1>2. ASSUME NEW p \in Launches, HarnessStep(p) \/ StreamEnds(p) \/ Crash(p) PROVE OneInv'
  <2>1. CASE Register(p)
    BY <1>0, <2>1, RegisterOne
  <2>2. CASE ~Register(p)
    BY <1>0, <1>2, <2>2, HarnessCalm, CalmKeeps DEF HarnessStep
  <2> QED BY <2>1, <2>2
<1>3. ASSUME NEW r \in Requests,
             RequestStep(r) \/ \E what \in {"send", "resume", "close", "move"} : Arrive(r, what)
      PROVE  OneInv'
  <2>1. CASE Revive(r) \/ ReviveFails(r) \/ ColdStart(r)
    BY <1>0, <2>1, ReviveOne, StartsOne
  <2>2. CASE CloseReap(r) \/ MoveStart(r)
    BY <1>0, <2>2, CloseReapOne, MoveStartOne
  <2>3. CASE MoveRelaunch(r) \/ MoveRestore(r)
    BY <1>0, <2>3, RelaunchOne
  <2>4. CASE MoveRefused(r) \/ MoveReady(r) \/ MoveRestoreFails(r) \/ MoveFails(r)
    BY <1>0, <2>4, MoveEndOne, RestoreFailsOne
  <2>5. CASE \/ \E what \in {"send", "resume", "close", "move"} : Arrive(r, what)
             \/ Send(r) \/ Resume(r) \/ CloseAsk(r) \/ MoveUndo(r)
    BY <1>0, <2>5, RequestCalm, CalmKeeps
  <2> QED BY <1>3, <2>1, <2>2, <2>3, <2>4, <2>5 DEF RequestStep
<1>4. CASE ServerStops \/ HostReboots \/ ServerStarts \/ Reconcile \/ ClaimAges
  BY <1>0, <1>4, ServerOne, RebootOne, ReconcileOne
<1> QED BY <1>1, <1>2, <1>3, <1>4 DEF Next

\* Of the requests, the move and the server's start, only a start under no
\* claim gives a session a second harness.
THEOREM OneHarnessHolds == Spec => []OneHarness
<1>1. OneInv => OneHarness
  BY DEF OneInv, Held, OneHarness
<1> QED BY OneInit, OneNext, <1>1, PTL DEF Spec

LEMMA AttendedStep == OneInv /\ [Next]_vars =>
  [\A r \in Requests :
     ((Send(r) \/ Revive(r)) /\ file' # file /\ entry # None /\ owner # "none") =>
        LiveSet' # {} \/ ownerFresh]_vars
<1> SUFFICES ASSUME OneInv, NEW r \in Requests, Send(r) \/ Revive(r), file' # file,
                    entry # None, owner # "none"
             PROVE  LiveSet' # {} \/ ownerFresh
  OBVIOUS
<1>1. TypeOK /\ Started
  BY DEF OneInv
<1>2. CASE ~Dead(entry) /\ proc' = proc
  <2>1. entry.pid \in LiveSet'
    BY <1>1, <1>2, TheEntryLives DEF LiveSet
  <2> QED BY <2>1
<1>3. CASE Send(r)
  <2>1. ~Dead(entry)
    BY <1>3 DEF Send, Deliver
  <2> QED BY <1>2, <1>3, <2>1 DEF Send
<1>4. CASE Revive(r) /\ Relaunchable
  <2>1. NextPid \in Launches /\ proc'[NextPid].st = "booting"
    BY <1>1, <1>4, NewProcess DEF Revive, Spawn, TypeOK
  <2>2. NextPid \in LiveSet'
    BY <2>1 DEF LiveSet, Live
  <2> QED BY <2>2
<1>5. CASE Revive(r) /\ ~Relaunchable
  <2>1. proc' = proc
    BY <1>5 DEF Revive
  <2>2. CASE Claimed /\ ~ownerFresh
    <3>1. entry.claim = "fresh" /\ entry.claimPid \in Launches \ reused
      BY <1>1, <2>2 DEF Claimed, Started
    <3>2. entry.claimPid \in LiveSet'
      BY <2>1, <2>2, <3>1, LaunchesAreNumbers DEF Claimed, PidAlive, LiveSet
    <3> QED BY <3>2
  <2> QED BY <1>2, <1>5, <2>1, <2>2 DEF Relaunchable
<1> QED BY <1>3, <1>4, <1>5

\* An accepted message finds a harness, or a cold start on its way.
THEOREM AcceptedAttended == Spec => AcceptedIsAttended
BY OneInit, OneNext, AttendedStep, PTL DEF Spec, AcceptedIsAttended

-----------------------------------------------------------------------------
(* Once. As long as no two harnesses tail the file, what was dispatched of  *)
(* it lies behind the cursor, or is the batch of the one harness that has   *)
(* not written its cursor yet; and it lies behind the offset of whoever     *)
(* reads the file.                                                          *)

\* A command that was dispatched, by nobody who died before he wrote so
Seen(i) == file[i] \in Requests /\ handed[file[i]] > 0 /\ file[i] \notin torn
Unwritten(i) == \E p \in Launches : proc[p].dirty /\ file[i] \in proc[p].batch
HasOffset(p) == proc[p].st = "running" \/ proc[p].dirty \/ (kind = "managed" /\ proc[p].st = "connecting")

Sent ==
  /\ \A i \in DOMAIN file : file[i] \in Requests => op[file[i]].pc = "done"
  /\ \A r \in Requests : handed[r] > 0 => op[r].pc = "done"
OneTail == \A p, q \in Tailing : p = q
BehindCursor ==
  \A i \in DOMAIN file : Seen(i) =>
     (cursor # None /\ i <= cursor /\ cursor <= Len(file)) \/ Unwritten(i)
BehindOffset ==
  \A p \in Launches, i \in DOMAIN file :
     HasOffset(p) /\ Seen(i) => i <= proc[p].off /\ proc[p].off <= Len(file)
TwiceIsTorn == \A r \in Requests : handed[r] > 1 => r \in torn

OnceInv == TypeOK /\ Sent /\ (~shared => OneTail /\ BehindCursor /\ BehindOffset /\ TwiceIsTorn)

\* What most steps have in common: nothing is dispatched, the file only grows
\* by what was not, no harness begins to tail it, and none stops with its
\* cursor unwritten but by dying.
Quiet ==
  /\ handed' = handed /\ kind' = kind /\ torn \subseteq torn'
  /\ shared => shared'
  /\ \A i \in DOMAIN file' :
       \/ i \in DOMAIN file /\ file'[i] = file[i] /\ Len(file) <= Len(file')
       \/ file'[i] \in Requests => handed[file'[i]] = 0
  /\ file' = <<>> \/ cursor' = cursor \/ cursor' = Len(file')
  /\ \A p \in Launches :
       /\ p \in Tailing' => proc'[p] = proc[p]
       /\ proc[p].dirty => proc'[p] = proc[p] \/ proc[p].batch \subseteq torn'

LEMMA QuietKeeps ==
  ASSUME OnceInv, TypeOK', Sent', Quiet
  PROVE  OnceInv'
<1> SUFFICES ASSUME ~shared'
             PROVE  OneTail' /\ BehindCursor' /\ BehindOffset' /\ TwiceIsTorn'
  BY DEF OnceInv
<1>0. OneTail /\ BehindCursor /\ BehindOffset /\ TwiceIsTorn
  BY DEF OnceInv, Quiet
<1>1. \A p \in Tailing' : p \in Tailing /\ proc'[p] = proc[p]
  BY DEF Quiet, Tailing
<1>2. OneTail'
  BY <1>0, <1>1 DEF OneTail
<1>3. ASSUME NEW i \in DOMAIN file', Seen(i)'
      PROVE  i \in DOMAIN file /\ file'[i] = file[i] /\ Len(file) <= Len(file') /\ Seen(i)
  <2>1. handed[file'[i]] > 0 /\ file'[i] \in Requests /\ handed \in [Requests -> 0..2]
    BY <1>3 DEF Seen, Quiet, OnceInv, TypeOK
  <2>2. i \in DOMAIN file /\ file'[i] = file[i] /\ Len(file) <= Len(file')
    BY <2>1 DEF Quiet
  <2> QED BY <1>3, <2>2 DEF Seen, Quiet
<1>4. BehindCursor'
  <2> SUFFICES ASSUME NEW i \in DOMAIN file', Seen(i)'
               PROVE  (cursor' # None /\ i <= cursor' /\ cursor' <= Len(file')) \/ Unwritten(i)'
    BY DEF BehindCursor
  <2>1. i \in DOMAIN file /\ file'[i] = file[i] /\ Len(file) <= Len(file') /\ Seen(i)
    BY <1>3
  <2>2. Len(file) \in Nat /\ Len(file') \in Nat /\ i \in 1..Len(file') /\ cursor \in Nat \cup {None}
    BY DEF OnceInv, TypeOK
  <2>3. file' # <<>>
    BY <2>2
  <2>4. CASE cursor' = Len(file')
    BY <2>2, <2>4, NoneAssumption
  <2>5. CASE Unwritten(i)
    <3>1. PICK p \in Launches : proc[p].dirty /\ file[i] \in proc[p].batch
      BY <2>5 DEF Unwritten
    <3>2. file[i] \notin torn'
      BY <2>1 DEF Seen
    <3> QED BY <2>1, <3>1, <3>2 DEF Quiet, Unwritten
  <2>6. CASE cursor' = cursor /\ cursor # None /\ i <= cursor /\ cursor <= Len(file)
    BY <2>1, <2>2, <2>6
  <2> QED BY <1>0, <2>1, <2>3, <2>4, <2>5, <2>6 DEF BehindCursor, Quiet
<1>5. BehindOffset'
  <2> SUFFICES ASSUME NEW p \in Launches, NEW i \in DOMAIN file', HasOffset(p)', Seen(i)'
               PROVE  i <= proc'[p].off /\ proc'[p].off <= Len(file')
    BY DEF BehindOffset
  <2>1. i \in DOMAIN file /\ Len(file) <= Len(file') /\ Seen(i)
    BY <1>3
  <2>2. p \in Tailing'
    BY DEF HasOffset, Tailing
  <2>3. proc'[p] = proc[p] /\ HasOffset(p)
    BY <1>1, <2>2 DEF HasOffset, Quiet
  <2>4. Len(file) \in Nat /\ Len(file') \in Nat /\ proc[p].off \in Nat
    BY DEF OnceInv, TypeOK, Proc
  <2> QED BY <1>0, <2>1, <2>3, <2>4 DEF BehindOffset
<1>6. TwiceIsTorn'
  BY <1>0 DEF TwiceIsTorn, Quiet
<1> QED BY <1>2, <1>4, <1>5, <1>6

\* A request that is answered stays so, and what enters the file is from one.
LEMMA SentKeeps ==
  ASSUME Sent, handed' = handed,
         \A r \in Requests : op[r].pc = "done" => op'[r].pc = "done",
         \A i \in DOMAIN file' : file'[i] \in Requests =>
            (i \in DOMAIN file /\ file'[i] = file[i]) \/ op'[file'[i]].pc = "done"
  PROVE  Sent'
BY DEF Sent

LEMMA Grows ==
  ASSUME TypeOK, Sent, NEW c \in Commands, Append1(c), c \in Requests => op[c].pc # "done",
         NEW i \in DOMAIN file'
  PROVE  \/ i \in DOMAIN file /\ file'[i] = file[i] /\ Len(file) <= Len(file')
         \/ file'[i] = c /\ (c \in Requests => handed[c] = 0)
<1>1. file \in Seq(Commands) /\ file' = Append(file, c) /\ handed \in [Requests -> 0..2]
  BY DEF TypeOK, Append1
<1>2. c \in Requests => handed[c] = 0
  BY <1>1 DEF Sent
<1> QED BY <1>1, <1>2

\* A request, or a move, that starts and stops nobody
LEMMA AskQuiet ==
  ASSUME OnceInv, NEW r \in Requests, op[r].pc # "done", op' = [op EXCEPT ![r] = op'[r]],
         proc' = proc, handed' = handed, kind' = kind, torn' = torn, shared' = shared, cursor' = cursor,
         \/ file' = file
         \/ \E s \in Stops : Append1(s)
         \/ Append1(r) /\ op'[r].pc = "done"
  PROVE  Sent' /\ Quiet
<1>0. TypeOK /\ Sent /\ op \in [Requests -> Op]
  BY DEF OnceInv, TypeOK
<1>1. \A q \in Requests : op[q].pc = "done" => op'[q].pc = "done"
  BY <1>0
<1>2. \A p \in Launches : (p \in Tailing' => proc'[p] = proc[p]) /\ proc'[p] = proc[p]
  OBVIOUS
<1>3. CASE file' = file
  <2>1. Len(file) \in Nat
    BY <1>0 DEF TypeOK
  <2> QED BY <1>0, <1>1, <1>2, <1>3, <2>1, SentKeeps DEF Quiet
<1>4. CASE \E s \in Stops : Append1(s)
  <2>1. PICK s \in Stops : Append1(s)
    BY <1>4
  <2>2. s \in Commands
    BY DEF Commands
  <2>3. s \notin Requests
    BY StopsAssumption
  <2>4. \A i \in DOMAIN file' : \/ i \in DOMAIN file /\ file'[i] = file[i] /\ Len(file) <= Len(file')
                                \/ file'[i] \notin Requests
    BY <1>0, <2>1, <2>2, <2>3, Grows
  <2> QED BY <1>0, <1>1, <1>2, <2>4, SentKeeps DEF Quiet
<1>5. CASE Append1(r) /\ op'[r].pc = "done"
  <2>1. r \in Commands
    BY DEF Commands
  <2>2. \A i \in DOMAIN file' : \/ i \in DOMAIN file /\ file'[i] = file[i] /\ Len(file) <= Len(file')
                                \/ file'[i] = r /\ handed[r] = 0
    BY <1>0, <1>5, <2>1, Grows
  <2> QED BY <1>0, <1>1, <1>2, <1>5, <2>2, SentKeeps DEF Quiet
<1> QED BY <1>3, <1>4, <1>5

LEMMA AsksQuiet ==
  ASSUME OnceInv, NEW r \in Requests,
         \/ \E what \in {"send", "resume", "close", "move"} : Arrive(r, what)
         \/ Send(r) \/ Resume(r) \/ ReviveFails(r) \/ CloseAsk(r) \/ MoveStart(r)
         \/ MoveRefused(r) \/ MoveReady(r) \/ MoveUndo(r) \/ MoveFails(r)
  PROVE  Sent' /\ Quiet
<1>0. op \in [Requests -> Op] /\ op[r] \in Op
  BY DEF OnceInv, TypeOK
<1>1. Idle.pc = "idle" /\ [Idle EXCEPT !.pc = "done"].pc = "done"
  BY DEF Idle
<1>2. CASE \E what \in {"send", "resume", "close", "move"} : Arrive(r, what)
  BY <1>0, <1>2, AskQuiet DEF Arrive, world, disk, history
<1>3. CASE Send(r) \/ Resume(r)
  <2>1. op[r].pc # "done" /\ op' = [op EXCEPT ![r] = op'[r]]
    BY <1>0, <1>3 DEF Send, Resume, Deliver, To, End
  <2>2. file' = file \/ (Append1(r) /\ op'[r].pc = "done")
    BY <1>0, <1>1, <1>3 DEF Send, Resume, Deliver, End
  <2> QED BY <1>3, <2>1, <2>2, AskQuiet DEF Send, Resume, world
<1>4. CASE ReviveFails(r)
  BY <1>0, <1>4, AskQuiet DEF ReviveFails, End, world, history
<1>5. CASE CloseAsk(r)
  <2>1. op[r].pc # "done" /\ op' = [op EXCEPT ![r] = op'[r]]
    BY <1>0, <1>5 DEF CloseAsk, End
  <2>2. file' = file \/ \E s \in Stops : Append1(s)
    BY <1>5 DEF CloseAsk, Stops
  <2> QED BY <1>5, <2>1, <2>2, AskQuiet DEF CloseAsk, world
<1>6. CASE MoveStart(r)
  <2>1. op[r].pc # "done" /\ op' = [op EXCEPT ![r] = op'[r]]
    BY <1>0, <1>6 DEF MoveStart, End
  <2>2. file' = file \/ \E s \in Stops : Append1(s)
    <3>1. entry \in Entry \cup {None}
      BY DEF OnceInv, TypeOK
    <3> QED BY <1>6, <3>1 DEF MoveStart, Stops, Entry
  <2> QED BY <1>6, <2>1, <2>2, AskQuiet DEF MoveStart, world
<1>7. CASE MoveRefused(r) \/ MoveReady(r) \/ MoveFails(r)
  BY <1>0, <1>7, AskQuiet DEF MoveRefused, MoveReady, MoveFails, End, world, disk, history
<1>8. CASE MoveUndo(r)
  <2>1. op[r].pc # "done" /\ op' = [op EXCEPT ![r] = op'[r]]
    BY <1>0, <1>8 DEF MoveUndo, To
  <2>2. file' = file \/ \E s \in Stops : Append1(s)
    BY <1>0, <1>8 DEF MoveUndo, Stops, Op
  <2> QED BY <1>8, <2>1, <2>2, AskQuiet DEF MoveUndo, world
<1> QED BY <1>2, <1>3, <1>4, <1>5, <1>6, <1>7, <1>8

\* A process that is started reads nothing yet, a killed one nothing more.
LEMMA KillQuiet ==
  ASSUME TypeOK, NEW P \in SUBSET Launches,
         torn' = TornBy(P),
         proc' = Kill(P) \/ (CanSpawn /\ \E rec \in BOOLEAN : proc' = [Kill(P) EXCEPT ![NextPid] = Spawned(rec)])
  PROVE  /\ torn \subseteq torn'
         /\ \A p \in Launches :
              /\ p \in Tailing' => proc'[p] = proc[p]
              /\ proc[p].dirty => proc'[p] = proc[p] \/ proc[p].batch \subseteq torn'
<1>1. torn \subseteq torn' /\ \A p \in P : proc[p].batch \subseteq torn'
  BY DEF TornBy
<1>2. Stopped.st = "dead" /\ ~Stopped.dirty
  BY DEF Stopped, Unused
<1>3. \A rec \in BOOLEAN : Spawned(rec).st = "booting" /\ ~Spawned(rec).dirty
  BY DEF Spawned, Unused
<1>4. CanSpawn => NextPid \in Launches /\ ~proc[NextPid].dirty
  BY NextPidIsNew DEF TypeOK
<1> SUFFICES ASSUME NEW p \in Launches
             PROVE  /\ p \in Tailing' => proc'[p] = proc[p]
                    /\ proc[p].dirty => proc'[p] = proc[p] \/ proc[p].batch \subseteq torn'
  BY <1>1
<1>5. Kill(P)[p] = proc[p] \/ (p \in P /\ Kill(P)[p] = Stopped)
  BY DEF Kill
<1>6. Kill(P) \in [Launches -> Proc]
  <2>1. P \cap Launches = P
    OBVIOUS
  <2> QED BY <2>1, KillType
<1>7. CASE proc' = Kill(P)
  BY <1>1, <1>2, <1>5, <1>7 DEF Tailing
<1>8. CASE CanSpawn /\ \E rec \in BOOLEAN : proc' = [Kill(P) EXCEPT ![NextPid] = Spawned(rec)]
  <2>1. p # NextPid => proc'[p] = Kill(P)[p]
    BY <1>4, <1>6, <1>8
  <2>2. proc'[NextPid].st = "booting" /\ ~proc'[NextPid].dirty
    BY <1>3, <1>4, <1>6, <1>8
  <2> QED BY <1>1, <1>2, <1>4, <1>5, <2>1, <2>2 DEF Tailing
<1> QED BY <1>7, <1>8

LEMMA SpawnQuiet ==
  ASSUME TypeOK, CanSpawn, NEW rec \in BOOLEAN, proc' = Spawn(rec)
  PROVE  \A p \in Launches :
           /\ p \in Tailing' => proc'[p] = proc[p]
           /\ proc[p].dirty => proc'[p] = proc[p]
<1>1. Spawned(rec).st = "booting" /\ ~Spawned(rec).dirty
  BY DEF Spawned, Unused
<1>2. NextPid \in Launches /\ ~proc[NextPid].dirty /\ proc \in [Launches -> Proc]
  BY NextPidIsNew DEF TypeOK
<1>3. \A p \in Launches \ {NextPid} : proc'[p] = proc[p]
  BY <1>2 DEF Spawn
<1>4. proc'[NextPid].st = "booting" /\ ~proc'[NextPid].dirty
  BY <1>1, <1>2 DEF Spawn
<1> QED BY <1>2, <1>3, <1>4 DEF Tailing

LEMMA SpawnsQuiet ==
  ASSUME OnceInv, NEW r \in Requests, Revive(r) \/ ColdStart(r)
  PROVE  Sent' /\ Quiet
<1>0. TypeOK /\ Sent /\ op \in [Requests -> Op] /\ op[r].pc # "done" /\ End(r) /\ Len(file) \in Nat
  <2>1. TypeOK /\ Sent /\ op \in [Requests -> Op] /\ Len(file) \in Nat
    BY DEF OnceInv, TypeOK
  <2>2. op[r].pc # "done" /\ End(r)
    BY DEF Revive, ColdStart, Deliver
  <2> QED BY <2>1, <2>2
<1>1. op'[r].pc = "done" /\ \A q \in Requests : op[q].pc = "done" => op'[q].pc = "done"
  BY <1>0 DEF End, Idle
<1>2. \A p \in Launches : /\ p \in Tailing' => proc'[p] = proc[p]
                          /\ proc[p].dirty => proc'[p] = proc[p]
  <2>1. CASE proc' = proc
    BY <2>1
  <2>2. CASE CanSpawn /\ \E rec \in BOOLEAN : proc' = Spawn(rec)
    BY <1>0, <2>2, SpawnQuiet
  <2> QED BY <2>1, <2>2 DEF Revive, ColdStart
<1>3. handed' = handed /\ kind' = kind /\ torn' = torn /\ shared' = shared /\ cursor' = cursor
  BY DEF Revive, ColdStart, world, disk
<1>4. \A i \in DOMAIN file' : \/ i \in DOMAIN file /\ file'[i] = file[i] /\ Len(file) <= Len(file')
                              \/ file'[i] = r /\ handed[r] = 0
  <2>1. CASE file' = file
    BY <1>0, <2>1
  <2>2. CASE Append1(r)
    <3>1. r \in Commands
      BY DEF Commands
    <3> QED BY <1>0, <2>2, <3>1, Grows
  <2> QED BY <2>1, <2>2 DEF Revive, ColdStart, Deliver, disk
<1>5. Sent'
  BY <1>0, <1>1, <1>3, <1>4, SentKeeps
<1>6. Quiet
  BY <1>2, <1>3, <1>4 DEF Quiet
<1> QED BY <1>5, <1>6

LEMMA ReapsQuiet ==
  ASSUME OnceInv, NEW r \in Requests, CloseReap(r) \/ MoveRelaunch(r) \/ MoveRestore(r) \/ MoveRestoreFails(r)
  PROVE  Sent' /\ Quiet
<1>0. TypeOK /\ Sent /\ op \in [Requests -> Op] /\ op[r].pc # "done" /\ Len(file) \in Nat
  <2>1. TypeOK /\ Sent /\ op \in [Requests -> Op] /\ Len(file) \in Nat
    BY DEF OnceInv, TypeOK
  <2>2. op[r].pc # "done"
    BY DEF CloseReap, MoveRelaunch, MoveRestore, MoveRestoreFails
  <2> QED BY <2>1, <2>2
<1>1. \A q \in Requests : op[q].pc = "done" => op'[q].pc = "done"
  BY <1>0 DEF CloseReap, MoveRelaunch, MoveRestore, MoveRestoreFails, End
<1> DEFINE P == {op[r].pid} \cap Launches
<1>2. P \in SUBSET Launches /\ Kill({op[r].pid}) = Kill(P)
  BY DEF Kill
<1>3. /\ torn' = TornBy(P)
      /\ proc' = Kill(P) \/ (CanSpawn /\ \E rec \in BOOLEAN : proc' = [Kill(P) EXCEPT ![NextPid] = Spawned(rec)])
  BY <1>2 DEF CloseReap, MoveRelaunch, MoveRestore, MoveRestoreFails
<1>4. /\ torn \subseteq torn'
      /\ \A p \in Launches :
           /\ p \in Tailing' => proc'[p] = proc[p]
           /\ proc[p].dirty => proc'[p] = proc[p] \/ proc[p].batch \subseteq torn'
  <2> HIDE DEF P
  <2> QED BY <1>0, <1>2, <1>3, KillQuiet
<1>5. handed' = handed /\ kind' = kind /\ (shared => shared')
  <2>1. handed' = handed /\ kind' = kind
    BY DEF CloseReap, MoveRelaunch, MoveRestore, MoveRestoreFails, world
  <2>2. CASE CloseReap(r)
    BY <2>1, <2>2 DEF CloseReap
  <2>3. CASE MoveRelaunch(r) \/ MoveRestore(r) \/ MoveRestoreFails(r)
    <3>1. shared' = shared
      BY <2>3 DEF MoveRelaunch, MoveRestore, MoveRestoreFails
    <3> QED BY <2>1, <3>1
  <2> QED BY <2>1, <2>2, <2>3
<1>6. file' = file \/ file' = <<>>
  BY DEF CloseReap, MoveRelaunch, MoveRestore, MoveRestoreFails, RemoveEntry
<1>7. file' = <<>> \/ cursor' = cursor \/ cursor' = Len(file')
  BY DEF CloseReap, MoveRelaunch, MoveRestore, MoveRestoreFails, RemoveEntry
<1>8. Sent'
  BY <1>0, <1>1, <1>5, <1>6, SentKeeps
<1>9. Quiet
  BY <1>0, <1>4, <1>5, <1>6, <1>7 DEF Quiet
<1> QED BY <1>8, <1>9

LEMMA EndsQuiet ==
  ASSUME OnceInv, NEW p \in Launches, Exit(p) \/ StreamEnds(p) \/ Crash(p)
  PROVE  Sent' /\ Quiet
<1>0. TypeOK /\ Sent /\ Len(file) \in Nat /\ proc \in [Launches -> Proc]
  BY DEF OnceInv, TypeOK
<1>1. Stopped.st = "dead" /\ ~Stopped.dirty
  BY DEF Stopped, Unused
<1>2. /\ torn \subseteq torn'
      /\ \A q \in Launches :
           /\ q \in Tailing' => proc'[q] = proc[q]
           /\ proc[q].dirty => proc'[q] = proc[q] \/ proc[q].batch \subseteq torn'
  <2>1. CASE Crash(p)
    <3>1. {p} \in SUBSET Launches
      OBVIOUS
    <3> QED BY <1>0, <2>1, <3>1, KillQuiet DEF Crash
  <2>2. CASE Exit(p) \/ StreamEnds(p)
    BY <1>0, <1>1, <2>2 DEF Exit, StreamEnds, Tailing
  <2> QED BY <2>1, <2>2
<1>3. handed' = handed /\ kind' = kind /\ shared' = shared /\ op' = op
  BY DEF Exit, StreamEnds, Crash, world
<1>4. (file' = file /\ cursor' = cursor) \/ file' = <<>>
  BY DEF Exit, StreamEnds, Crash, RemoveEntry, disk
<1>5. Sent'
  BY <1>0, <1>3, <1>4, SentKeeps
<1>6. Quiet
  BY <1>0, <1>2, <1>3, <1>4 DEF Quiet
<1> QED BY <1>5, <1>6

LEMMA ServerQuiet ==
  ASSUME OnceInv, \/ UNCHANGED vars
                  \/ ServerStops \/ HostReboots \/ ServerStarts \/ Reconcile \/ ClaimAges
  PROVE  Sent' /\ Quiet
<1>0. TypeOK /\ Sent /\ Len(file) \in Nat /\ proc \in [Launches -> Proc]
  BY DEF OnceInv, TypeOK
<1>1. /\ torn \subseteq torn'
      /\ \A q \in Launches :
           /\ q \in Tailing' => proc'[q] = proc[q]
           /\ proc[q].dirty => proc'[q] = proc[q] \/ proc[q].batch \subseteq torn'
  <2>1. CASE HostReboots
    BY <1>0, <2>1, KillQuiet DEF HostReboots
  <2>2. CASE CanSpawn /\ proc' = Spawn(TRUE) /\ torn' = torn
    BY <1>0, <2>2, SpawnQuiet
  <2>3. CASE proc' = proc /\ torn' = torn
    BY <2>3
  <2> QED BY <2>1, <2>2, <2>3
          DEF ServerStops, ServerStarts, Reconcile, Recover, Adopt, ClaimAges, vars, history
<1>2. handed' = handed /\ kind' = kind /\ shared' = shared /\ file' = file /\ cursor' = cursor
  BY DEF ServerStops, HostReboots, ServerStarts, Reconcile, ClaimAges, vars, history, disk, world
<1>3. \A q \in Requests : op[q].pc = "done" => op'[q].pc = "done"
  BY DEF ServerStops, HostReboots, ServerStarts, Reconcile, ClaimAges, vars, Dropped, Idle
<1>4. Sent'
  BY <1>0, <1>2, <1>3, SentKeeps
<1>5. Quiet
  BY <1>0, <1>1, <1>2 DEF Quiet
<1> QED BY <1>4, <1>5

\* A harness that begins to tail the file takes up at the cursor.
LEMMA StartsAtCursor ==
  ASSUME TypeOK, NEW p \in Launches, cursor # None, cursor <= Len(file)
  PROVE  StartupOffset(p) = cursor
<1>1. cursor \in Nat /\ Len(file) \in Nat
  BY DEF TypeOK
<1> QED BY <1>1 DEF StartupOffset, InitialOffset

LEMMA PlaceKeeps ==
  ASSUME OnceInv, NEW p \in Launches, ~shared,
         file' = file /\ handed' = handed /\ torn' = torn /\ kind' = kind,
         \A q \in Launches : ~proc[q].dirty,
         Tailing' \subseteq {p},
         cursor' = cursor \/ cursor' = StartupOffset(p),
         HasOffset(p)' => \/ proc'[p].off = StartupOffset(p)
                          \/ HasOffset(p) /\ proc'[p].off = proc[p].off
  PROVE  OneTail' /\ BehindCursor' /\ BehindOffset' /\ TwiceIsTorn'
<1>0. OneTail /\ BehindCursor /\ BehindOffset /\ TwiceIsTorn /\ TypeOK
  BY DEF OnceInv
<1>1. OneTail'
  BY DEF OneTail
<1>2. ASSUME NEW i \in DOMAIN file', Seen(i)'
      PROVE  /\ i \in DOMAIN file /\ Seen(i)
             /\ cursor # None /\ i <= cursor /\ cursor <= Len(file) /\ StartupOffset(p) = cursor
  <2>1. i \in DOMAIN file /\ Seen(i)
    BY <1>2 DEF Seen
  <2>2. ~Unwritten(i)
    BY DEF Unwritten
  <2>3. cursor # None /\ i <= cursor /\ cursor <= Len(file)
    BY <1>0, <2>1, <2>2 DEF BehindCursor
  <2> QED BY <1>0, <2>1, <2>3, StartsAtCursor
<1>3. BehindCursor'
  <2> SUFFICES ASSUME NEW i \in DOMAIN file', Seen(i)'
               PROVE  cursor' # None /\ i <= cursor' /\ cursor' <= Len(file')
    BY DEF BehindCursor
  <2> QED BY <1>2
<1>4. BehindOffset'
  <2> SUFFICES ASSUME NEW q \in Launches, NEW i \in DOMAIN file', HasOffset(q)', Seen(i)'
               PROVE  i <= proc'[q].off /\ proc'[q].off <= Len(file')
    BY DEF BehindOffset
  <2>1. q = p
    BY DEF HasOffset, Tailing
  <2> QED BY <1>0, <1>2, <2>1 DEF BehindOffset
<1>5. TwiceIsTorn'
  BY <1>0 DEF TwiceIsTorn
<1> QED BY <1>1, <1>3, <1>4, <1>5

LEMMA PlacedOffset ==
  ASSUME TypeOK, NEW p \in Launches, Register(p) \/ Start(p)
  PROVE  /\ \A q \in Launches \ {p} : proc'[q] = proc[q]
         /\ proc'[p].st \in {"connecting", "running"} /\ ~proc'[p].dirty
         /\ HasOffset(p)' => \/ proc'[p].off = StartupOffset(p)
                             \/ HasOffset(p) /\ proc'[p].off = proc[p].off
<1>0. proc \in [Launches -> Proc] /\ proc[p] \in Proc /\ ~proc[p].dirty /\ kind' = kind
  BY DEF TypeOK, Register, Start, world
<1>1. \A q \in Launches \ {p} : proc'[q] = proc[q]
  BY <1>0 DEF Register, Start
<1>2. CASE Register(p)
  <2>1. CASE kind = "pi"
    <3>1. proc'[p].st = "connecting" /\ ~proc'[p].dirty
      BY <1>0, <1>2, <2>1 DEF Register, Proc
    <3> QED BY <1>0, <1>1, <2>1, <3>1 DEF HasOffset
  <2>2. CASE kind = "managed"
    <3>1. proc' = [proc EXCEPT ![p] = [[proc[p] EXCEPT !.off = StartupOffset(p)] EXCEPT !.st = "connecting"]]
      BY <1>2, <2>2 DEF Register
    <3> QED BY <1>0, <1>1, <3>1 DEF Proc
  <2>3. CASE kind \notin {"pi", "managed"}
    <3>1. proc' = [proc EXCEPT ![p] = [[proc[p] EXCEPT !.off = StartupOffset(p)] EXCEPT !.st = "running"]]
      BY <1>2, <2>3 DEF Register
    <3> QED BY <1>0, <1>1, <3>1 DEF Proc
  <2> QED BY <2>1, <2>2, <2>3
<1>3. CASE Start(p)
  <2>1. CASE kind = "managed"
    BY <1>0, <1>1, <1>3, <2>1 DEF Start, Proc, HasOffset
  <2>2. CASE kind # "managed"
    BY <1>0, <1>1, <1>3, <2>2 DEF Start, Proc
  <2> QED BY <2>1, <2>2
<1> QED BY <1>2, <1>3

LEMMA RegisterOnce ==
  ASSUME OnceInv, TypeOK', NEW p \in Launches, Register(p) \/ Start(p)
  PROVE  OnceInv'
<1>0. TypeOK /\ Sent /\ proc \in [Launches -> Proc] /\ proc[p] \in Proc
  BY DEF OnceInv, TypeOK
<1>1. file' = file /\ handed' = handed /\ torn' = torn /\ kind' = kind /\ op' = op
  BY DEF Register, Start, world
<1>2. Sent'
  BY <1>0, <1>1, SentKeeps
<1>3. ASSUME ~shared' PROVE OneTail' /\ BehindCursor' /\ BehindOffset' /\ TwiceIsTorn'
  <2>1. ~shared /\ Tailing \subseteq {p} /\ ~proc[p].dirty
    <3>1. CASE Register(p)
      BY <1>0, <1>3, <3>1 DEF Register, TypeOK
    <3>2. CASE Start(p)
      <4>1. shared' = shared /\ p \in Tailing
        BY <3>2 DEF Start, Tailing
      <4> QED BY <1>0, <1>3, <3>2, <4>1 DEF Start, TypeOK, OnceInv, OneTail
    <3> QED BY <3>1, <3>2
  <2>2. \A q \in Launches : ~proc[q].dirty
    BY <2>1 DEF Tailing
  <2>3. \A q \in Launches \ {p} : proc'[q] = proc[q]
    BY <1>0 DEF Register, Start
  <2>4. Tailing' \subseteq {p}
    BY <2>1, <2>3 DEF Tailing
  <2>5. cursor' = cursor \/ cursor' = StartupOffset(p)
    BY DEF Register, Start, PlaceCursor
  <2>6. HasOffset(p)' => \/ proc'[p].off = StartupOffset(p)
                         \/ HasOffset(p) /\ proc'[p].off = proc[p].off
    BY <1>0, PlacedOffset
  <2> QED BY <1>1, <2>1, <2>2, <2>4, <2>5, <2>6, PlaceKeeps
<1> QED BY <1>2, <1>3 DEF OnceInv

\* The one harness that tails the file writes what it dispatched.
LEMMA SaveOnce ==
  ASSUME OnceInv, TypeOK', NEW p \in Launches, SaveCursor(p)
  PROVE  OnceInv'
<1>0. TypeOK /\ Sent /\ proc \in [Launches -> Proc] /\ proc[p] \in Proc /\ proc[p].dirty
  BY DEF OnceInv, TypeOK, SaveCursor
<1>1. /\ file' = file /\ handed' = handed /\ torn' = torn /\ kind' = kind /\ op' = op
      /\ shared' = shared /\ cursor' = proc[p].off
  BY DEF SaveCursor, world
<1>2. Sent'
  BY <1>0, <1>1, SentKeeps
<1>3. \A q \in Launches : /\ proc'[q].off = proc[q].off /\ proc'[q].st = proc[q].st
                          /\ proc'[q].dirty => proc[q].dirty
  BY <1>0 DEF SaveCursor, Proc
<1>4. ASSUME ~shared' PROVE OneTail' /\ BehindCursor' /\ BehindOffset' /\ TwiceIsTorn'
  <2>1. OneTail /\ BehindOffset /\ TwiceIsTorn
    BY <1>1, <1>4 DEF OnceInv
  <2>2. OneTail'
    BY <1>3, <2>1 DEF OneTail, Tailing
  <2>3. \A q \in Launches : HasOffset(q)' => HasOffset(q)
    BY <1>1, <1>3 DEF HasOffset
  <2>4. \A i \in DOMAIN file' : Seen(i)' => i \in DOMAIN file /\ Seen(i)
    BY <1>1 DEF Seen
  <2>5. BehindOffset'
    BY <1>1, <1>3, <2>1, <2>3, <2>4 DEF BehindOffset
  <2>6. proc[p].off # None
    BY <1>0, NoneAssumption DEF Proc
  <2>7. BehindCursor'
    BY <1>0, <1>1, <2>1, <2>4, <2>6 DEF BehindCursor, BehindOffset, HasOffset
  <2> QED BY <1>1, <2>1, <2>2, <2>5, <2>7 DEF TwiceIsTorn
<1> QED BY <1>2, <1>4 DEF OnceInv

\* What a poll obeys are lines of the file that follow its offset.
LEMMA ReadsTheFile ==
  ASSUME TypeOK, NEW p \in Launches, NEW c \in ToSet(Obeyed(NewLines(p)))
  PROVE  \E i \in DOMAIN file : i > ReadFrom(p) /\ file[i] = c
<1>0. file \in Seq(Commands) /\ ReadFrom(p) \in Nat
  BY DEF TypeOK, ReadFrom, Proc
<1> DEFINE s == NewLines(p)
<1>1. \A j \in DOMAIN s : j + ReadFrom(p) \in DOMAIN file /\ j \in Nat \ {0} /\ s[j] = file[j + ReadFrom(p)]
  BY <1>0 DEF NewLines
<1>2. s \in Seq(Commands)
  BY <1>0 DEF NewLines
<1>3. PICK j \in DOMAIN s : s[j] = c
  <2> HIDE DEF s
  <2>1. CASE FirstStop(s) = {}
    BY <2>1 DEF Obeyed, ToSet, s
  <2>2. CASE FirstStop(s) # {}
    <3>1. PICK k \in DOMAIN s : Obeyed(s) = SubSeq(s, 1, k)
      BY <2>2 DEF Obeyed, FirstStop
    <3>2. \A j \in DOMAIN Obeyed(s) : j \in DOMAIN s /\ Obeyed(s)[j] = s[j]
      BY <1>2, <3>1
    <3> QED BY <3>2 DEF ToSet, s
  <2> QED BY <2>1, <2>2
<1> QED BY <1>0, <1>1, <1>3

LEMMA PollOnce ==
  ASSUME OnceInv, TypeOK', NEW p \in Launches, Poll(p)
  PROVE  OnceInv'
<1> DEFINE done == Obeyed(NewLines(p))
           sends == {r \in Requests : r \in ToSet(done)}
           closes == \E c \in Stops : c \in ToSet(done)
           saves == ~closes \/ kind # "managed"
<1>0. /\ TypeOK /\ Sent /\ proc \in [Launches -> Proc] /\ proc[p] \in Proc /\ Len(file) \in Nat
      /\ handed \in [Requests -> 0..2] /\ handed' \in [Requests -> 0..2]
  BY DEF OnceInv, TypeOK
<1>1. /\ proc[p].st = "running" /\ ~proc[p].dirty
      /\ torn' = torn /\ kind' = kind /\ op' = op /\ shared' = shared
  BY DEF Poll, world
<1>2. \A r \in Requests : handed'[r] = handed[r] \/ (r \in sends /\ handed'[r] = handed[r] + 1)
  <2>1. handed' = [r \in Requests |-> IF r \in sends /\ handed[r] < 2 THEN handed[r] + 1 ELSE handed[r]]
    BY DEF Poll
  <2> HIDE DEF sends
  <2> QED BY <2>1
<1>3. proc' = [proc EXCEPT ![p].off = Len(file),
                           ![p].st = IF closes THEN "closing" ELSE "running",
                           ![p].dirty = saves,
                           ![p].batch = IF saves THEN sends ELSE {}]
  BY DEF Poll
<1>4. file' = <<>> \/ (file' = file /\ cursor' = cursor /\ saves)
  BY DEF Poll, RemoveEntry, disk
<1>5. \A r \in sends : \E i \in DOMAIN file : i > ReadFrom(p) /\ file[i] = r
  BY <1>0, ReadsTheFile
<1>6. saves \in BOOLEAN
  OBVIOUS
<1> HIDE DEF done, sends, closes, saves
<1>7. Sent'
  <2>1. \A r \in Requests : handed'[r] > 0 => op'[r].pc = "done"
    <3> SUFFICES ASSUME NEW r \in Requests, handed'[r] > 0 PROVE op[r].pc = "done"
      BY <1>1
    <3>1. CASE r \in sends
      BY <1>0, <1>5, <3>1 DEF Sent
    <3>2. CASE r \notin sends
      BY <1>0, <1>2, <3>2 DEF Sent
    <3> QED BY <3>1, <3>2
  <2>2. \A i \in DOMAIN file' : file'[i] \in Requests => op'[file'[i]].pc = "done"
    BY <1>0, <1>1, <1>4 DEF Sent
  <2> QED BY <2>1, <2>2 DEF Sent
<1>8. ASSUME ~shared' PROVE OneTail' /\ BehindCursor' /\ BehindOffset' /\ TwiceIsTorn'
  <2>1. OneTail /\ BehindCursor /\ BehindOffset /\ TwiceIsTorn
    BY <1>1, <1>8 DEF OnceInv
  <2>2. Tailing = {p} /\ \A q \in Launches : ~proc[q].dirty
    BY <1>1, <2>1 DEF OneTail, Tailing
  <2>3. /\ \A q \in Launches \ {p} : proc'[q] = proc[q]
        /\ proc'[p].off = Len(file) /\ proc'[p].dirty = saves
        /\ saves => proc'[p].batch = sends
    BY <1>0, <1>3 DEF Proc
  <2>4. Tailing' \subseteq {p}
    BY <2>2, <2>3 DEF Tailing
  <2>5. OneTail'
    BY <2>4 DEF OneTail
  <2>6. \A i \in DOMAIN file' : file' = file /\ cursor' = cursor /\ saves /\ i \in DOMAIN file
    BY <1>4
  <2>7. BehindCursor'
    <3> SUFFICES ASSUME NEW i \in DOMAIN file', Seen(i)'
                 PROVE  (cursor' # None /\ i <= cursor' /\ cursor' <= Len(file')) \/ Unwritten(i)'
      BY DEF BehindCursor
    <3>1. file' = file /\ cursor' = cursor /\ saves /\ i \in DOMAIN file
      BY <2>6
    <3>2. CASE file[i] \in sends
      BY <2>3, <3>1, <3>2 DEF Unwritten
    <3>3. CASE file[i] \notin sends
      <4>1. Seen(i)
        BY <1>0, <1>1, <1>2, <3>1, <3>3 DEF Seen
      <4>2. ~Unwritten(i)
        BY <2>2 DEF Unwritten
      <4> QED BY <2>1, <3>1, <4>1, <4>2 DEF BehindCursor
    <3> QED BY <3>2, <3>3
  <2>8. BehindOffset'
    <3> SUFFICES ASSUME NEW q \in Launches, NEW i \in DOMAIN file', HasOffset(q)', Seen(i)'
                 PROVE  i <= proc'[q].off /\ proc'[q].off <= Len(file')
      BY DEF BehindOffset
    <3>1. q = p
      BY <2>4 DEF HasOffset, Tailing
    <3>2. file' = file /\ i \in 1..Len(file)
      BY <1>0, <2>6 DEF TypeOK
    <3> QED BY <1>0, <2>3, <3>1, <3>2
  <2>9. TwiceIsTorn'
    <3> SUFFICES ASSUME NEW r \in Requests, handed'[r] > 1 PROVE r \in torn
      BY <1>1 DEF TwiceIsTorn
    <3>1. CASE handed[r] > 1
      BY <2>1, <3>1 DEF TwiceIsTorn
    <3>2. CASE ~(handed[r] > 1)
      <4>1. r \in sends /\ handed[r] > 0
        BY <1>0, <1>2, <3>2
      <4>2. PICK i \in DOMAIN file : i > ReadFrom(p) /\ file[i] = r
        BY <1>5, <4>1
      <4>3. r \notin torn => i <= proc[p].off /\ proc[p].off <= Len(file)
        BY <1>1, <2>1, <4>1, <4>2 DEF BehindOffset, HasOffset, Seen
      <4>4. proc[p].off \in Nat /\ i \in Nat
        BY <1>0 DEF Proc, TypeOK
      <4> QED BY <1>0, <4>2, <4>3, <4>4 DEF ReadFrom
    <3> QED BY <3>1, <3>2
  <2> QED BY <2>5, <2>7, <2>8, <2>9
<1> QED BY <1>7, <1>8 DEF OnceInv

LEMMA OnceInit == Init => OnceInv
<1> SUFFICES ASSUME Init PROVE OnceInv
  OBVIOUS
<1>1. file = <<>> /\ \A r \in Requests : handed[r] = 0
  BY DEF Init
<1>2. \A p \in Launches : proc[p].st \in {"booting", "unused"} /\ ~proc[p].dirty
  BY DEF Init, Unused
<1>3. Tailing = {}
  BY <1>2 DEF Tailing
<1>4. DOMAIN file = {}
  BY <1>1
<1> QED BY <1>1, <1>3, <1>4, InitType DEF OnceInv, Sent, OneTail, BehindCursor, BehindOffset, TwiceIsTorn

LEMMA OnceNext == OnceInv /\ [Next]_vars => OnceInv'
<1> SUFFICES ASSUME OnceInv, [Next]_vars PROVE OnceInv'
  OBVIOUS
<1>0. TypeOK'
  BY NextType DEF OnceInv
<1>1. CASE UNCHANGED vars \/ ServerStops \/ HostReboots \/ ServerStarts \/ Reconcile \/ ClaimAges
  <2>1. Sent' /\ Quiet
    BY <1>1, ServerQuiet
  <2> QED BY <1>0, <2>1, QuietKeeps
<1>2. ASSUME NEW p \in Launches, HarnessStep(p) \/ StreamEnds(p) \/ Crash(p) PROVE OnceInv'
  <2>1. CASE Exit(p) \/ StreamEnds(p) \/ Crash(p)
    <3>1. Sent' /\ Quiet
      BY <2>1, EndsQuiet
    <3> QED BY <1>0, <3>1, QuietKeeps
  <2> QED BY <1>0, <1>2, <2>1, RegisterOnce, SaveOnce, PollOnce DEF HarnessStep
<1>3. ASSUME NEW r \in Requests,
             RequestStep(r) \/ \E what \in {"send", "resume", "close", "move"} : Arrive(r, what)
      PROVE  OnceInv'
  <2>1. Sent' /\ Quiet
    BY <1>3, AsksQuiet, SpawnsQuiet, ReapsQuiet DEF RequestStep
  <2> QED BY <1>0, <2>1, QuietKeeps
<1> QED BY <1>1, <1>2, <1>3 DEF Next

\* Whatever dies and is started again, a message is dispatched twice only if
\* its harness died between the dispatch and the write of the cursor.
THEOREM AtMostOnceHolds == Spec => []AtMostOnce
<1>1. OnceInv => AtMostOnce
  BY DEF OnceInv, TwiceIsTorn, AtMostOnce
<1> QED BY OnceInit, OnceNext, <1>1, PTL DEF Spec

-----------------------------------------------------------------------------
(* Stops. Until a move is forgotten or given up, or somebody boots under no *)
(* claim, the stop of a move is either still waited for, by a move that     *)
(* knows the one process there may be, or behind the cursor and every       *)
(* offset.                                                                  *)

Written(j) ==
  /\ cursor # None /\ j <= cursor /\ cursor <= Len(file)
  /\ \A p \in Launches : HasOffset(p) => j <= proc[p].off /\ proc[p].off <= Len(file)
Stopping(q) == moving # None /\ op[moving].pc = "stopping" /\ op[moving].pid = q
StopsWritten == \A j \in DOMAIN file, q \in Pids : file[j] = StopOf(q) => Written(j) \/ Stopping(q)

StopsInv == OneInv /\ OnceInv /\ (~loose /\ ~unclaimed => StopsWritten /\ ~misfired)

LEMMA StopsDiffer ==
  /\ \A q : Close # StopOf(q)
  /\ \A p, q : StopOf(p) = StopOf(q) => p = q
  /\ \A r \in Requests, q \in Pids : r # StopOf(q)
<1>1. ASSUME NEW q PROVE Close # StopOf(q)
  <2>1. "close" \in DOMAIN Close /\ "close" \notin DOMAIN StopOf(q)
    BY DEF Close, StopOf
  <2> QED BY <2>1
<1>2. ASSUME NEW p, NEW q, StopOf(p) = StopOf(q) PROVE p = q
  <2>1. StopOf(p).stop = p /\ StopOf(q).stop = q
    BY DEF StopOf
  <2> QED BY <1>2, <2>1
<1>3. ASSUME NEW r \in Requests, NEW q \in Pids PROVE r # StopOf(q)
  BY StopsAssumption DEF Stops
<1> QED BY <1>1, <1>2, <1>3

\* A step that writes no stop of a move, places no cursor and ends no wait
Tame ==
  /\ misfired' = misfired
  /\ loose => loose'
  /\ unclaimed => unclaimed'
  /\ file' = <<>> \/ cursor' = cursor
  /\ file' \in {file, <<>>} \/ \E c \in {Close} \cup Requests : file' = Append(file, c)
  /\ \A q \in Pids : ~loose' /\ Stopping(q) => Stopping(q)'

LEMMA TameKeeps ==
  ASSUME StopsInv, OneInv', OnceInv', Quiet, Tame
  PROVE  StopsInv'
<1> SUFFICES ASSUME ~loose', ~unclaimed' PROVE StopsWritten' /\ ~misfired'
  BY DEF StopsInv, Tame
<1> USE DEF Tame
<1>0. StopsWritten /\ ~misfired /\ file \in Seq(Commands) /\ Len(file) \in Nat /\ proc \in [Launches -> Proc]
  BY DEF StopsInv, OneInv, TypeOK
<1>1. StopsWritten'
  <2> SUFFICES ASSUME NEW j \in DOMAIN file', NEW q \in Pids, file'[j] = StopOf(q)
               PROVE  Written(j)' \/ Stopping(q)'
    BY DEF StopsWritten
  <2>1. j \in DOMAIN file /\ file[j] = StopOf(q) /\ Len(file) <= Len(file') /\ Len(file') \in Nat
    <3>1. CASE file' \in {file, <<>>}
      BY <1>0, <3>1
    <3>2. CASE \E c \in {Close} \cup Requests : file' = Append(file, c)
      <4>1. PICK c \in {Close} \cup Requests : file' = Append(file, c)
        BY <3>2
      <4>2. c \in Commands
        BY DEF Commands, Stops
      <4>3. j \in DOMAIN file \/ file'[j] = c
        BY <1>0, <4>1, <4>2
      <4>4. j \in DOMAIN file
        BY <4>3, StopsDiffer
      <4> QED BY <1>0, <4>1, <4>2, <4>4
    <3> QED BY <3>1, <3>2
  <2>2. CASE Written(j)
    <3>1. \A p \in Launches : HasOffset(p)' => HasOffset(p) /\ proc'[p] = proc[p] /\ proc[p].off \in Nat
      BY <1>0 DEF Quiet, HasOffset, Tailing, Proc
    <3>2. cursor' = cursor
      BY <1>0, <2>1
    <3>3. cursor \in Nat \cup {None}
      BY DEF StopsInv, OneInv, TypeOK
    <3> QED BY <2>1, <2>2, <3>1, <3>2, <3>3 DEF Written
  <2> QED BY <1>0, <2>1, <2>2 DEF StopsWritten
<1> QED BY <1>0, <1>1

\* A request of whom nobody waits for a stop
LEMMA OtherWaits ==
  ASSUME TypeOK, NEW r \in Requests, moving = r => op[r].pc # "stopping",
         \A q \in Requests \ {r} : op'[q] = op[q],
         moving = r \/ moving' = moving,
         NEW q \in Pids, Stopping(q)
  PROVE  Stopping(q)'
BY DEF Stopping, TypeOK

LEMMA AsksTame ==
  ASSUME TypeOK, NEW r \in Requests,
         \/ \E what \in {"send", "resume", "close", "move"} : Arrive(r, what)
         \/ Send(r) \/ Resume(r) \/ Revive(r) \/ ReviveFails(r) \/ ColdStart(r) \/ CloseAsk(r) \/ CloseReap(r)
  PROVE  Tame
<1>0. op \in [Requests -> Op] /\ op[r].pc \notin {"stopping", "ready", "undo", "restore"} /\ moving # r
  BY DEF TypeOK, Arrive, Send, Resume, Revive, ReviveFails, ColdStart, CloseAsk, CloseReap
<1>1. \A q \in Requests \ {r} : op'[q] = op[q]
  BY <1>0 DEF Arrive, Send, Resume, Revive, ReviveFails, ColdStart, CloseAsk, CloseReap, Deliver, To, End
<1>2. moving' = moving /\ misfired' = misfired /\ loose' = loose
  BY DEF Arrive, Send, Resume, Revive, ReviveFails, ColdStart, CloseAsk, CloseReap, server, history
<1>3. unclaimed => unclaimed'
  <2>1. CASE Revive(r)
    <3>1. unclaimed' = unclaimed \/ unclaimed' = (unclaimed \/ moving # None)
      BY <2>1 DEF Revive
    <3> QED BY <3>1
  <2>2. CASE ColdStart(r)
    BY <2>2 DEF ColdStart
  <2>3. CASE ~Revive(r) /\ ~ColdStart(r)
    <3>1. unclaimed' = unclaimed
      BY <2>3 DEF Arrive, Send, Resume, ReviveFails, CloseAsk, CloseReap, history
    <3> QED BY <3>1
  <2> QED BY <2>1, <2>2, <2>3
<1>4. file' = <<>> \/ cursor' = cursor
  BY DEF Arrive, Send, Resume, Revive, ReviveFails, ColdStart, CloseAsk, CloseReap, RemoveEntry, disk
<1>5. file' \in {file, <<>>} \/ \E c \in {Close} \cup Requests : file' = Append(file, c)
  BY DEF Arrive, Send, Resume, Revive, ReviveFails, ColdStart, CloseAsk, CloseReap, RemoveEntry, disk, Deliver, Append1
<1> QED BY <1>0, <1>1, <1>2, <1>3, <1>4, <1>5, OtherWaits DEF Tame

LEMMA MovesTame ==
  ASSUME TypeOK, NEW r \in Requests,
         \/ MoveRefused(r) \/ MoveReady(r) \/ (MoveUndo(r) /\ file' = file)
         \/ MoveRestore(r) \/ MoveRestoreFails(r) \/ MoveFails(r)
  PROVE  Tame
<1>0. op \in [Requests -> Op] /\ moving = r
  BY DEF TypeOK, MoveRefused, MoveReady, MoveUndo, MoveRestore, MoveRestoreFails, MoveFails
<1>1. \A q \in Requests \ {r} : op'[q] = op[q]
  BY <1>0 DEF MoveRefused, MoveReady, MoveUndo, MoveRestore, MoveRestoreFails, MoveFails, To, End
<1>2. CASE MoveRefused(r)
  <2>1. misfired' = misfired /\ loose' = TRUE /\ file' = file /\ cursor' = cursor
        /\ unclaimed' = (unclaimed \/ Booting # {})
    BY <1>2 DEF MoveRefused, LetGo, disk
  <2> QED BY <2>1 DEF Tame
<1>3. CASE MoveFails(r)
  <2>1. misfired' = misfired /\ loose' = loose /\ file' = file /\ cursor' = cursor
        /\ unclaimed' = (unclaimed \/ Booting # {}) /\ op[r].pc # "stopping"
    BY <1>3 DEF MoveFails, LetGo, disk
  <2> QED BY <1>0, <1>1, <2>1, OtherWaits DEF Tame
<1>4. CASE ~MoveRefused(r) /\ ~MoveFails(r)
  <2>1. misfired' = misfired /\ unclaimed' = unclaimed /\ cursor' = cursor /\ file' = file /\ op[r].pc # "stopping"
    BY <1>4 DEF MoveReady, MoveUndo, MoveRestore, MoveRestoreFails, history, disk
  <2>2. loose' = loose \/ loose' = TRUE
    BY <1>4 DEF MoveReady, MoveUndo, MoveRestore, MoveRestoreFails, history
  <2> QED BY <1>0, <1>1, <2>1, <2>2, OtherWaits DEF Tame
<1> QED BY <1>2, <1>3, <1>4

LEMMA OthersTame ==
  ASSUME TypeOK,
         \/ UNCHANGED vars \/ ServerStops \/ HostReboots \/ ServerStarts \/ Reconcile \/ ClaimAges
         \/ \E p \in Launches : Exit(p) \/ StreamEnds(p) \/ Crash(p)
  PROVE  Tame
<1>1. misfired' = misfired
  BY DEF vars, history, ServerStops, HostReboots, ServerStarts, Reconcile, ClaimAges, Exit, StreamEnds, Crash
<1>2. /\ file' = <<>> \/ cursor' = cursor
      /\ file' \in {file, <<>>}
  BY DEF vars, disk, ServerStops, HostReboots, ServerStarts, Reconcile, ClaimAges, Exit, StreamEnds, Crash, RemoveEntry
<1>3. CASE ServerStops \/ HostReboots
  <2>1. loose' = (loose \/ moving # None)
    BY <1>3 DEF ServerStops, HostReboots, ServerGone
  <2>2. unclaimed' = unclaimed \/ unclaimed' = (unclaimed \/ Booting # {})
    BY <1>3 DEF ServerStops, HostReboots, LetGo
  <2>3. unclaimed => unclaimed'
    BY <2>2
  <2> QED BY <1>1, <1>2, <2>1, <2>3 DEF Tame, Stopping
<1>4. CASE ~(ServerStops \/ HostReboots)
  <2>1. loose' = loose /\ moving' = moving /\ op' = op
    BY <1>4 DEF vars, history, server, ServerStarts, Reconcile, ClaimAges, Exit, StreamEnds, Crash
  <2>2. unclaimed' = unclaimed \/ unclaimed' = (unclaimed \/ Booting # {}) \/ unclaimed' = TRUE
    BY <1>4 DEF vars, history, ServerStarts, Reconcile, Recover, Adopt, ClaimAges, LetGo, Exit, StreamEnds, Crash
  <2>3. unclaimed => unclaimed'
    BY <2>2
  <2> QED BY <1>1, <1>2, <2>1, <2>3 DEF Tame, Stopping
<1> QED BY <1>3, <1>4

LEMMA MoveStartStops ==
  ASSUME StopsInv, OneInv', OnceInv', NEW r \in Requests, MoveStart(r)
  PROVE  StopsInv'
<1>0. TypeOK /\ op \in [Requests -> Op] /\ moving # r
  BY DEF StopsInv, OneInv, TypeOK, MoveStart
<1>1. /\ proc' = proc /\ entry' = entry /\ kind' = kind /\ cursor' = cursor /\ misfired' = misfired
      /\ loose' = loose /\ unclaimed' = unclaimed
      /\ \A q \in Requests \ {r} : op'[q] = op[q]
  BY <1>0 DEF MoveStart, End, world
<1> SUFFICES ASSUME ~loose, ~unclaimed PROVE StopsWritten'
  BY <1>1 DEF StopsInv
<1>2. StopsWritten
  BY DEF StopsInv
<1>3. CASE file' = file /\ moving' = moving
  <2>1. \A q \in Pids : Stopping(q) => Stopping(q)'
    BY <1>0, <1>1, <1>3, OtherWaits
  <2>2. \A j \in DOMAIN file : Written(j) => Written(j)'
    BY <1>1, <1>3 DEF Written, HasOffset
  <2> QED BY <1>2, <1>3, <2>1, <2>2 DEF StopsWritten
<1>4. CASE ~(file' = file /\ moving' = moving)
  <2>1. /\ moving = None /\ moving' = r /\ file' = Append(file, StopOf(entry.pid)) /\ entry # None
        /\ op' = [op EXCEPT ![r].pc = "stopping", ![r].pid = entry.pid, ![r].recBoot = entry.recBoot]
    BY <1>4 DEF MoveStart, Append1
  <2>2. r # None /\ op'[r].pc = "stopping" /\ op'[r].pid = entry.pid
    BY <1>0, <2>1, LaunchesAreNumbers DEF Op
  <2>3. Stopping(entry.pid)'
    BY <1>1, <2>1, <2>2 DEF Stopping
  <2>4. file \in Seq(Commands) /\ StopOf(entry.pid) \in Commands /\ Len(file) \in Nat
        /\ cursor \in Nat \cup {None} /\ \A p \in Launches : proc[p].off \in Nat
    BY <1>0, <2>1 DEF TypeOK, Entry, Commands, Stops, Proc
  <2> SUFFICES ASSUME NEW j \in DOMAIN file', NEW q \in Pids, file'[j] = StopOf(q)
               PROVE  Written(j)' \/ Stopping(q)'
    BY DEF StopsWritten
  <2>5. CASE j \in DOMAIN file
    <3>1. file[j] = StopOf(q) /\ Len(file') = Len(file) + 1
      BY <2>1, <2>4, <2>5
    <3>2. Written(j)
      BY <1>2, <2>1, <2>5, <3>1 DEF StopsWritten, Stopping
    <3> QED BY <1>1, <2>4, <3>1, <3>2 DEF Written, HasOffset
  <2>6. CASE j \notin DOMAIN file
    <3>1. file'[j] = StopOf(entry.pid)
      BY <2>1, <2>4, <2>6
    <3> QED BY <1>1, <2>3, <3>1, StopsDiffer
  <2> QED BY <2>5, <2>6
<1> QED BY <1>3, <1>4

\* A replacement is started past the stop, and nobody else reads the file.
LEMMA RelaunchStops ==
  ASSUME StopsInv, OneInv', OnceInv', NEW r \in Requests, MoveRelaunch(r)
  PROVE  StopsInv'
<1>0. TypeOK /\ moving = r /\ r # None /\ Len(file) \in Nat /\ file \in Seq(Commands)
  BY LaunchesAreNumbers DEF StopsInv, OneInv, TypeOK, MoveRelaunch
<1>1. kind' = kind /\ file' = file /\ misfired' = misfired /\ loose' = loose /\ unclaimed' = unclaimed
  BY DEF MoveRelaunch, world
<1> SUFFICES ASSUME ~loose, ~unclaimed PROVE StopsWritten'
  BY <1>1 DEF StopsInv
<1>2. LiveSet \subseteq {op[r].pid}
  BY <1>0 DEF StopsInv, OneInv, Held
<1>3. \A p \in Launches : ~HasOffset(p)'
  <2>1. \A p \in Launches : /\ Kill({op[r].pid})[p].st \notin Live
                            /\ ~Kill({op[r].pid})[p].dirty
    <3>1. Stopped.st \notin Live /\ ~Stopped.dirty
      BY DEF Stopped, Unused, Live
    <3>2. \A p \in Launches : p \in {op[r].pid} \/ (proc[p].st \notin Live /\ ~proc[p].dirty)
      BY <1>0, <1>2 DEF LiveSet, TypeOK, Live
    <3> QED BY <1>0, <3>1, <3>2 DEF Kill, TypeOK, Live
  <2>2. CASE proc' = Kill({op[r].pid})
    BY <2>1, <2>2 DEF HasOffset, Live
  <2>3. CASE CanSpawn /\ proc' = [Kill({op[r].pid}) EXCEPT ![NextPid] = Spawned(TRUE)]
    <3>1. Spawned(TRUE).st = "booting" /\ ~Spawned(TRUE).dirty
      BY DEF Spawned, Unused
    <3>2. Kill({op[r].pid}) \in [Launches -> Proc]
      BY <1>0, KillType
    <3> QED BY <2>1, <2>3, <3>1, <3>2 DEF HasOffset, Live
  <2> QED BY <2>2, <2>3 DEF MoveRelaunch
<1>4. \A j \in DOMAIN file : cursor' = Len(file) /\ j <= Len(file)
  <2>1. file # <<>> => cursor' = Len(file)
    BY DEF MoveRelaunch
  <2> QED BY <1>0, <2>1
<1>5. Len(file) # None
  BY <1>0, NoneAssumption
<1> QED BY <1>0, <1>1, <1>3, <1>4, <1>5 DEF StopsWritten, Written

LEMMA PlaceStops ==
  ASSUME StopsInv, OneInv', OnceInv', NEW p \in Launches, Register(p) \/ Start(p) \/ SaveCursor(p)
  PROVE  StopsInv'
<1>0. TypeOK /\ Len(file) \in Nat /\ proc \in [Launches -> Proc] /\ proc[p] \in Proc
  BY DEF StopsInv, OneInv, TypeOK
<1>1. /\ kind' = kind /\ file' = file /\ misfired' = misfired /\ loose' = loose /\ unclaimed' = unclaimed
      /\ moving' = moving /\ op' = op
  BY DEF Register, Start, SaveCursor, world, server
<1> SUFFICES ASSUME ~loose, ~unclaimed, NEW j \in DOMAIN file, Written(j) PROVE Written(j)'
  BY <1>1 DEF StopsInv, StopsWritten, Stopping
<1>2. CASE Register(p) \/ Start(p)
  <2>1. StartupOffset(p) = cursor
    BY <1>0, StartsAtCursor DEF Written
  <2>2. cursor' = cursor
    BY <1>2, <2>1 DEF Register, Start, PlaceCursor
  <2>3. \A q \in Launches : HasOffset(q)' => (HasOffset(q) /\ proc'[q].off = proc[q].off) \/ proc'[q].off = cursor
    <3>1. \A q \in Launches \ {p} : HasOffset(q)' => HasOffset(q) /\ proc'[q].off = proc[q].off
      BY <1>0, <1>1, <1>2, PlacedOffset DEF HasOffset
    <3> QED BY <1>0, <1>2, <2>1, <3>1, PlacedOffset
  <2> QED BY <1>1, <2>2, <2>3 DEF Written
<1>3. CASE SaveCursor(p)
  <2>1. cursor' = proc[p].off /\ proc[p].off # None /\ HasOffset(p)
    BY <1>0, <1>3, NoneAssumption DEF SaveCursor, HasOffset, Proc
  <2>2. \A q \in Launches : HasOffset(q)' => HasOffset(q) /\ proc'[q].off = proc[q].off
    BY <1>0, <1>1, <1>3 DEF SaveCursor, HasOffset, Proc
  <2> QED BY <1>1, <2>1, <2>2 DEF Written
<1> QED BY <1>2, <1>3

LEMMA PollStops ==
  ASSUME StopsInv, OneInv', OnceInv', NEW p \in Launches, Poll(p)
  PROVE  StopsInv'
<1> DEFINE done == Obeyed(NewLines(p))
<1>0. TypeOK /\ Len(file) \in Nat /\ proc \in [Launches -> Proc] /\ proc[p] \in Proc /\ file \in Seq(Commands)
  BY DEF StopsInv, OneInv, TypeOK
<1>1. /\ kind' = kind /\ loose' = loose /\ unclaimed' = unclaimed
      /\ moving' = moving /\ op' = op /\ proc[p].st = "running"
      /\ misfired' = (misfired \/ \E q \in Pids \ {p} : StopOf(q) \in ToSet(done))
  BY DEF Poll, world, server
<1>2. file' = <<>> \/ (file' = file /\ cursor' = cursor)
  BY DEF Poll, RemoveEntry, disk
<1>3. /\ \A q \in Launches \ {p} : proc'[q] = proc[q]
      /\ proc'[p].off = Len(file)
  BY <1>0 DEF Poll, Proc
<1> SUFFICES ASSUME ~loose, ~unclaimed PROVE StopsWritten' /\ ~misfired'
  BY <1>1 DEF StopsInv
<1>4. StopsWritten /\ ~misfired
  BY DEF StopsInv
<1>5. StopsWritten'
  <2> SUFFICES ASSUME NEW j \in DOMAIN file', NEW q \in Pids, file'[j] = StopOf(q)
               PROVE  Written(j)' \/ Stopping(q)'
    BY DEF StopsWritten
  <2>1. file' = file /\ cursor' = cursor /\ j \in 1..Len(file)
    BY <1>0, <1>2
  <2>2. Stopping(q) => Stopping(q)'
    BY <1>1 DEF Stopping
  <2>3. Written(j) => Written(j)'
    BY <1>0, <1>1, <1>3, <2>1 DEF Written, HasOffset
  <2> QED BY <1>4, <2>1, <2>2, <2>3 DEF StopsWritten
<1>6. ASSUME NEW q \in Pids \ {p}, StopOf(q) \in ToSet(done) PROVE FALSE
  <2>1. PICK i \in DOMAIN file : i > ReadFrom(p) /\ file[i] = StopOf(q)
    BY <1>0, <1>6, ReadsTheFile
  <2>2. HasOffset(p) /\ p \in LiveSet /\ proc[p].off \in Nat /\ i \in Nat
    BY <1>0, <1>1, <2>1 DEF HasOffset, LiveSet, Live, Proc
  <2>3. CASE Written(i)
    <3>1. i <= proc[p].off /\ proc[p].off <= Len(file)
      BY <2>2, <2>3 DEF Written
    <3>2. ReadFrom(p) = proc[p].off
      BY <1>0, <2>2, <3>1 DEF ReadFrom
    <3> QED BY <2>1, <2>2, <3>1, <3>2
  <2>4. CASE Stopping(q)
    <3>1. LiveSet \subseteq {q}
      BY <2>4 DEF StopsInv, OneInv, Held, Stopping
    <3> QED BY <2>2, <3>1
  <2> QED BY <1>4, <2>1, <2>3, <2>4 DEF StopsWritten
<1> HIDE DEF done
<1> QED BY <1>1, <1>4, <1>5, <1>6

LEMMA StopsInit == Init => StopsInv
<1> SUFFICES ASSUME Init PROVE StopsInv
  OBVIOUS
<1>1. DOMAIN file = {} /\ ~misfired
  BY DEF Init
<1> QED BY <1>1, OneInit, OnceInit DEF StopsInv, StopsWritten

LEMMA StopsNext == StopsInv /\ [Next]_vars => StopsInv'
<1> SUFFICES ASSUME StopsInv, [Next]_vars PROVE StopsInv'
  OBVIOUS
<1>0. OnceInv /\ OneInv' /\ OnceInv' /\ TypeOK
  BY OneNext, OnceNext DEF StopsInv, OneInv
<1>1. CASE UNCHANGED vars \/ ServerStops \/ HostReboots \/ ServerStarts \/ Reconcile \/ ClaimAges
  <2>1. Quiet /\ Tame
    BY <1>0, <1>1, ServerQuiet, OthersTame
  <2> QED BY <1>0, <2>1, TameKeeps
<1>2. ASSUME NEW p \in Launches, HarnessStep(p) \/ StreamEnds(p) \/ Crash(p) PROVE StopsInv'
  <2>1. CASE Exit(p) \/ StreamEnds(p) \/ Crash(p)
    <3>1. Quiet /\ Tame
      BY <1>0, <2>1, EndsQuiet, OthersTame
    <3> QED BY <1>0, <3>1, TameKeeps
  <2> QED BY <1>0, <1>2, <2>1, PlaceStops, PollStops DEF HarnessStep
<1>3. ASSUME NEW r \in Requests,
             RequestStep(r) \/ \E what \in {"send", "resume", "close", "move"} : Arrive(r, what)
      PROVE  StopsInv'
  <2>1. CASE MoveStart(r) \/ MoveRelaunch(r)
    BY <1>0, <2>1, MoveStartStops, RelaunchStops
  <2>2. CASE MoveUndo(r) /\ file' # file
    <3>1. loose' = TRUE
      BY <2>2 DEF MoveUndo
    <3> QED BY <1>0, <3>1 DEF StopsInv
  <2>3. CASE ~(MoveStart(r) \/ MoveRelaunch(r)) /\ ~(MoveUndo(r) /\ file' # file)
    <3>1. Quiet
      BY <1>0, <1>3, <2>3, AsksQuiet, SpawnsQuiet, ReapsQuiet DEF RequestStep
    <3>2. Tame
      BY <1>0, <1>3, <2>3, AsksTame, MovesTame DEF RequestStep
    <3> QED BY <1>0, <3>1, <3>2, TameKeeps
  <2> QED BY <2>1, <2>2, <2>3
<1> QED BY <1>1, <1>2, <1>3 DEF Next

\* The stop of a move closes the harness it was meant for and no other, unless
\* the move was forgotten or given up, or a start under no claim reads it.
THEOREM StopsHitTheirHarnessHolds == Spec => []StopsHitTheirHarness
<1>1. StopsInv => StopsHitTheirHarness
  BY DEF StopsInv, StopsHitTheirHarness
<1> QED BY StopsInit, StopsNext, <1>1, PTL DEF Spec

-----------------------------------------------------------------------------
(* Nothing skipped. As long as no two harnesses tail the file, a message    *)
(* that is yet to be read, and was sent while there was a cursor of this    *)
(* file's own, lies ahead of the cursor and of every offset.                *)

Unread(i) == Readable(i) /\ handed[file[i]] = 0 /\ file[i] \notin early \cup behind

\* The file was removed under a harness that has an offset in it.
Outlived(p) == proc[p].off > Len(file) \/ (proc[p].st = "closing" /\ kind # "aisdk")

AheadOfCursor == \A i \in DOMAIN file : Unread(i) => cursor # None /\ cursor < i
AheadOfOffset == \A p \in Launches, i \in DOMAIN file : HasOffset(p) /\ Unread(i) => proc[p].off < i
CursorInFile == cursor # None /\ cursor > Len(file) => stray
OffsetInFile == \A p \in Launches : HasOffset(p) /\ cursor # None /\ ~stray => proc[p].off <= Len(file)
\* Then no move can begin, and one under way finds no file.
OutlivedHeld ==
  \A p \in Launches : HasOffset(p) /\ Outlived(p) =>
    /\ entry = None \/ entry.pid = None
    /\ moving # None /\ op[moving].pc = "stopping" => file = <<>>
\* A managed harness gives the cursor up with the file.
ManagedInFile ==
  kind = "managed" =>
    /\ ~stray
    /\ \A p \in Launches : /\ HasOffset(p) => proc[p].off <= Len(file)
                           /\ proc[p].dirty => proc[p].st = "running"
MoveSettled == moving # None => \A i \in DOMAIN file : ~Unread(i)

Ahead == /\ AheadOfCursor /\ AheadOfOffset /\ CursorInFile /\ OffsetInFile
         /\ OutlivedHeld /\ ManagedInFile /\ MoveSettled
SkipInv == OnceInv /\ (~shared => Ahead)

\* A step that writes no cursor, begins no move, and removes the file only if
\* nobody is left with an offset in it or the harness is of a kind that may.
Removed == file' = <<>> /\ cursor' = None /\ stray' = FALSE /\ entry' = None
Mild ==
  /\ early \subseteq early' /\ behind \subseteq behind'
  /\ \/ Removed /\ (shared' \/ kind = "aisdk" \/ Tailing' = {})
     \/ file' = file /\ cursor' = cursor /\ stray' = stray
     \/ /\ cursor' = cursor /\ stray' = stray
        /\ moving # None => op[moving].pc # "stopping"
        /\ \E c \in Commands : Append1(c) /\ (c \in Requests => moving = None)
  /\ entry' = None \/ entry'.pid = None \/ (entry # None /\ entry'.pid = entry.pid)
  /\ moving' = None \/ (moving' = moving /\ (op'[moving].pc = "stopping" => op[moving].pc = "stopping"))

LEMMA MildUnread ==
  ASSUME TypeOK, Quiet, Mild, NEW i \in DOMAIN file', Unread(i)'
  PROVE  \/ i \in DOMAIN file /\ Unread(i) /\ Len(file) <= Len(file') /\ cursor' = cursor
         \/ /\ i = Len(file) + 1 /\ cursor' = cursor /\ stray' = stray /\ Len(file') = Len(file) + 1
            /\ moving = None /\ cursor # None /\ ~stray
<1>0. file \in Seq(Commands) /\ Len(file) \in Nat
  BY DEF TypeOK
<1>1. Readable(i)' /\ handed[file'[i]] = 0 /\ file'[i] \notin early' \cup behind'
      /\ early \subseteq early' /\ behind \subseteq behind'
  BY DEF Unread, Quiet, Mild
<1>2. CASE Removed
  BY <1>2 DEF Removed
<1>3. CASE file' = file /\ cursor' = cursor /\ stray' = stray
  <2>1. Readable(i)
    BY <1>1, <1>3 DEF Readable
  <2> QED BY <1>0, <1>1, <1>3, <2>1 DEF Unread
<1>4. CASE /\ cursor' = cursor /\ stray' = stray
           /\ \E c \in Commands : Append1(c) /\ (c \in Requests => moving = None)
  <2>1. PICK c \in Commands : Append1(c) /\ (c \in Requests => moving = None)
    BY <1>4
  <2>2. file' = Append(file, c) /\ Len(file') = Len(file) + 1
    BY <1>0, <2>1 DEF Append1
  <2>3. CASE i \in DOMAIN file
    <3>1. file'[i] = file[i] /\ \A j \in 1..i : file'[j] = file[j]
      BY <1>0, <2>2, <2>3
    <3>2. Readable(i)
      BY <1>1, <3>1 DEF Readable
    <3> QED BY <1>0, <1>1, <1>4, <2>2, <2>3, <3>1, <3>2 DEF Unread
  <2>4. CASE i \notin DOMAIN file
    <3>1. i = Len(file) + 1 /\ file'[i] = c
      BY <1>0, <2>2, <2>4
    <3>2. c \in Requests
      BY <1>0, <1>1, <3>1 DEF Readable
    <3>3. cursor # None /\ ~stray
      BY <1>1, <2>1, <3>1, <3>2 DEF Append1
    <3> QED BY <1>4, <2>1, <2>2, <3>1, <3>2, <3>3
  <2> QED BY <2>3, <2>4
<1> QED BY <1>2, <1>3, <1>4 DEF Mild

LEMMA MildKeeps ==
  ASSUME SkipInv, OnceInv', Quiet, Mild
  PROVE  SkipInv'
<1> SUFFICES ASSUME ~shared' PROVE Ahead'
  BY DEF SkipInv
<1>0. /\ TypeOK /\ Ahead /\ ~shared /\ file \in Seq(Commands) /\ Len(file) \in Nat
      /\ \A p \in Launches : proc[p].off \in Nat
      /\ cursor \in Nat \cup {None} /\ kind' = kind
  BY DEF SkipInv, OnceInv, TypeOK, Quiet, Proc
<1>1. \A p \in Launches : HasOffset(p)' => HasOffset(p) /\ proc'[p] = proc[p] /\ p \in Tailing'
  BY <1>0 DEF Quiet, HasOffset, Tailing
<1>2. \/ Removed /\ (kind = "aisdk" \/ Tailing' = {})
      \/ Len(file') \in Nat /\ Len(file) <= Len(file') /\ cursor' = cursor /\ stray' = stray
  <2>1. CASE \E c \in Commands : Append1(c)
    BY <1>0, <2>1 DEF Append1, Mild
  <2> QED BY <1>0, <2>1 DEF Mild
<1>3. AheadOfCursor' /\ AheadOfOffset'
  <2> SUFFICES ASSUME NEW i \in DOMAIN file', Unread(i)'
               PROVE  /\ cursor' # None /\ cursor' < i
                      /\ \A p \in Launches : HasOffset(p)' => proc'[p].off < i
    BY DEF AheadOfCursor, AheadOfOffset
  <2>1. CASE i \in DOMAIN file /\ Unread(i) /\ cursor' = cursor
    BY <1>0, <1>1, <2>1 DEF Ahead, AheadOfCursor, AheadOfOffset
  <2>2. CASE i = Len(file) + 1 /\ cursor' = cursor /\ cursor # None /\ ~stray
    BY <1>0, <1>1, <2>2 DEF Ahead, CursorInFile, OffsetInFile
  <2> QED BY <1>0, <2>1, <2>2, MildUnread
<1>4. CursorInFile' /\ OffsetInFile'
  <2>1. CASE Removed
    BY <2>1 DEF Removed, CursorInFile, OffsetInFile
  <2>2. CASE Len(file') \in Nat /\ Len(file) <= Len(file') /\ cursor' = cursor /\ stray' = stray
    BY <1>0, <1>1, <2>2 DEF Ahead, CursorInFile, OffsetInFile
  <2> QED BY <1>2, <2>1, <2>2
<1>5. OutlivedHeld'
  <2> SUFFICES ASSUME NEW p \in Launches, HasOffset(p)', Outlived(p)'
               PROVE  /\ entry' = None \/ entry'.pid = None
                      /\ moving' # None /\ op'[moving'].pc = "stopping" => file' = <<>>
    BY DEF OutlivedHeld
  <2>1. CASE Removed
    BY <2>1 DEF Removed
  <2>2. CASE ~Removed
    <3>1. HasOffset(p) /\ Outlived(p)
      BY <1>0, <1>1, <1>2, <2>2 DEF Outlived
    <3>2. /\ entry = None \/ entry.pid = None
          /\ moving # None /\ op[moving].pc = "stopping" => file = <<>>
      BY <1>0, <3>1 DEF Ahead, OutlivedHeld
    <3>3. entry' = None \/ entry'.pid = None
      BY <3>2 DEF Mild
    <3>4. ASSUME moving' # None, op'[moving'].pc = "stopping" PROVE file' = <<>>
      <4>1. moving' = moving /\ op[moving].pc = "stopping"
        BY <3>4 DEF Mild
      <4>2. file' = file
        BY <2>2, <3>4, <4>1 DEF Mild
      <4> QED BY <3>2, <3>4, <4>1, <4>2
    <3> QED BY <3>3, <3>4
  <2> QED BY <2>1, <2>2
<1>6. ManagedInFile'
  <2> SUFFICES ASSUME kind = "managed"
               PROVE  /\ ~stray'
                      /\ \A p \in Launches : /\ HasOffset(p)' => proc'[p].off <= Len(file')
                                             /\ proc'[p].dirty => proc'[p].st = "running"
    BY <1>0 DEF ManagedInFile
  <2>1. ManagedInFile
    BY <1>0 DEF Ahead
  <2>2. \A p \in Launches : proc'[p].dirty => proc'[p].st = "running"
    BY <1>1, <2>1 DEF ManagedInFile, HasOffset
  <2>3. CASE Removed
    BY <1>1, <1>2, <2>1, <2>2, <2>3 DEF Removed, ManagedInFile
  <2>4. CASE Len(file') \in Nat /\ Len(file) <= Len(file') /\ stray' = stray
    BY <1>0, <1>1, <2>1, <2>2, <2>4 DEF ManagedInFile
  <2> QED BY <1>2, <2>3, <2>4
<1>7. MoveSettled'
  <2> SUFFICES ASSUME moving' # None, NEW i \in DOMAIN file', Unread(i)' PROVE FALSE
    BY DEF MoveSettled
  <2>1. moving # None
    BY DEF Mild
  <2> QED BY <1>0, <2>1, MildUnread DEF Ahead, MoveSettled
<1> QED BY <1>3, <1>4, <1>5, <1>6, <1>7 DEF Ahead

\* A request that is not the one that moves, while the session stays or ends
LEMMA RequestsMild ==
  ASSUME TypeOK, NEW r \in Requests,
         \/ \E what \in {"send", "resume", "close", "move"} : Arrive(r, what)
         \/ Send(r) \/ Resume(r) \/ Revive(r) \/ ReviveFails(r) \/ ColdStart(r) \/ CloseAsk(r)
  PROVE  Mild
<1>0. op \in [Requests -> Op] /\ moving # r /\ r \in Commands /\ Close \in Commands /\ Close \notin Requests
  BY StopsAssumption DEF TypeOK, Arrive, Send, Resume, Revive, ReviveFails, ColdStart, CloseAsk, Commands, Stops
<1>1. moving' = moving /\ \A q \in Requests \ {r} : op'[q] = op[q]
  BY <1>0 DEF Arrive, Send, Resume, Revive, ReviveFails, ColdStart, CloseAsk, Deliver, To, End, server
<1>2. moving' = None \/ (moving' = moving /\ (op'[moving].pc = "stopping" => op[moving].pc = "stopping"))
  BY <1>0, <1>1 DEF TypeOK
<1>3. cursor' = cursor /\ stray' = stray
  BY DEF Arrive, Send, Resume, Revive, ReviveFails, ColdStart, CloseAsk, disk, history
<1>4. entry' = None \/ entry'.pid = None \/ (entry # None /\ entry'.pid = entry.pid)
  <2>1. CASE entry' = entry
    BY <2>1
  <2>2. CASE entry' # entry
    <3>1. entry # None /\ (Revive(r) \/ ReviveFails(r))
      BY <2>2 DEF Arrive, Send, Resume, Revive, ReviveFails, ColdStart, CloseAsk, disk, Relaunchable
    <3>2. entry \in Entry
      BY <3>1 DEF TypeOK
    <3>3. \E a, b, c : entry' = [entry EXCEPT !.claim = a, !.claimPid = b, !.recBoot = c]
      BY <2>2, <3>1 DEF Revive, ReviveFails
    <3> QED BY <3>1, <3>2, <3>3 DEF Entry
  <2> QED BY <2>1, <2>2
<1>5. \/ file' = file /\ early' = early /\ behind' = behind
      \/ moving = None /\ (Append1(r) \/ Append1(Close))
  BY DEF Arrive, Send, Resume, Revive, ReviveFails, ColdStart, CloseAsk, Deliver, disk, history
<1>6. early \subseteq early' /\ behind \subseteq behind'
  BY <1>5 DEF Append1
<1> QED BY <1>0, <1>2, <1>3, <1>4, <1>5, <1>6 DEF Mild

LEMMA CloseReapMild ==
  ASSUME TypeOK, NEW r \in Requests, CloseReap(r)
  PROVE  Mild
<1>0. op \in [Requests -> Op] /\ moving # r /\ proc \in [Launches -> Proc]
  BY DEF TypeOK, CloseReap
<1>1. moving' = moving /\ \A q \in Requests \ {r} : op'[q] = op[q]
  BY <1>0 DEF CloseReap, End, server
<1>2. moving' = None \/ (moving' = moving /\ (op'[moving].pc = "stopping" => op[moving].pc = "stopping"))
  BY <1>0, <1>1 DEF TypeOK
<1>3. Removed /\ early' = early /\ behind' = behind
  BY DEF CloseReap, RemoveEntry, Removed
<1>4. shared' \/ Tailing' = {}
  <2>1. shared' = (shared \/ (Tailing \cup Booting) \ {op[r].pid} # {})
    BY DEF CloseReap
  <2>2. ASSUME Tailing \subseteq {op[r].pid} PROVE Tailing' = {}
    <3>1. Stopped.st = "dead" /\ ~Stopped.dirty
      BY DEF Stopped, Unused
    <3>2. \A p \in Launches : proc[p].dirty => proc[p].st \in Live
      BY DEF TypeOK, Live
    <3>3. proc' = Kill({op[r].pid})
      BY DEF CloseReap
    <3> QED BY <1>0, <2>2, <3>1, <3>2, <3>3 DEF Kill, Tailing, Live
  <2> QED BY <2>1, <2>2
<1>5. entry' = None
  BY <1>3 DEF Removed
<1> QED BY <1>2, <1>3, <1>4, <1>5 DEF Mild

LEMMA MovesMild ==
  ASSUME TypeOK, NEW r \in Requests,
         \/ MoveRefused(r) \/ MoveReady(r) \/ MoveUndo(r)
         \/ MoveRestore(r) \/ MoveRestoreFails(r) \/ MoveFails(r)
  PROVE  Mild
<1>0. op \in [Requests -> Op] /\ moving = r
  BY DEF TypeOK, MoveRefused, MoveReady, MoveUndo, MoveRestore, MoveRestoreFails, MoveFails
<1>1. cursor' = cursor /\ stray' = stray
  BY DEF MoveRefused, MoveReady, MoveUndo, MoveRestore, MoveRestoreFails, MoveFails, disk, history
<1>2. entry' = entry \/ entry' = EntryWithout(r)
  BY DEF MoveRefused, MoveReady, MoveUndo, MoveRestore, MoveRestoreFails, MoveFails, disk
<1>3. entry' = None \/ entry'.pid = None \/ (entry # None /\ entry'.pid = entry.pid)
  BY <1>2 DEF EntryWithout
<1>4. moving' = None \/ (moving' = moving /\ op'[moving].pc # "stopping")
  BY <1>0 DEF MoveRefused, MoveReady, MoveUndo, MoveRestore, MoveRestoreFails, MoveFails, To, server, Op
<1>5. StopOf(op[r].pid) \in Commands /\ StopOf(op[r].pid) \notin Requests
  BY <1>0, StopsAssumption DEF Op, Commands, Stops
<1>6. \/ file' = file /\ early' = early /\ behind' = behind
      \/ op[r].pc # "stopping" /\ Append1(StopOf(op[r].pid))
  BY DEF MoveRefused, MoveReady, MoveUndo, MoveRestore, MoveRestoreFails, MoveFails, disk, history
<1>7. early \subseteq early' /\ behind \subseteq behind'
  BY <1>6 DEF Append1
<1> QED BY <1>0, <1>1, <1>3, <1>4, <1>5, <1>6, <1>7 DEF Mild

LEMMA OthersMild ==
  ASSUME TypeOK,
         \/ UNCHANGED vars \/ ServerStops \/ HostReboots \/ ServerStarts \/ Reconcile \/ ClaimAges
         \/ \E p \in Launches : Exit(p) \/ StreamEnds(p) \/ Crash(p)
  PROVE  Mild
<1>1. early' = early /\ behind' = behind
  BY DEF vars, history, ServerStops, HostReboots, ServerStarts, Reconcile, ClaimAges, Exit, StreamEnds, Crash
<1>2. (Removed /\ kind = "aisdk") \/ (file' = file /\ cursor' = cursor /\ stray' = stray)
  BY DEF vars, disk, history, ServerStops, HostReboots, ServerStarts, Reconcile, ClaimAges, Exit, StreamEnds, Crash,
         RemoveEntry, Removed
<1>3. entry' = None \/ entry'.pid = None \/ (entry # None /\ entry'.pid = entry.pid)
  <2>1. CASE entry' # entry /\ entry' # None
    <3>1. entry # None /\ (Reconcile \/ ClaimAges)
      BY <2>1 DEF vars, disk, ServerStops, HostReboots, ServerStarts, Reconcile, ClaimAges, Exit, StreamEnds, Crash, RemoveEntry
    <3>2. entry \in Entry
      BY <3>1 DEF TypeOK
    <3>3. (\E b : entry' = [entry EXCEPT !.recBoot = b]) \/ entry' = [entry EXCEPT !.claim = "old"]
      BY <2>1, <3>1 DEF Reconcile, Adopt, Recover, ClaimAges
    <3> QED BY <3>1, <3>2, <3>3 DEF Entry
  <2> QED BY <2>1
<1>4. moving' = None \/ (moving' = moving /\ op' = op)
  BY DEF vars, server, ServerStops, HostReboots, ServerGone, ServerStarts, Reconcile, ClaimAges, Exit, StreamEnds, Crash
<1> QED BY <1>1, <1>2, <1>3, <1>4 DEF Mild

\* A move begins where nothing is left to read.
LEMMA MoveStartSkips ==
  ASSUME SkipInv, OnceInv', NEW r \in Requests, MoveStart(r)
  PROVE  SkipInv'
<1>0. /\ TypeOK /\ op \in [Requests -> Op] /\ moving # r /\ Len(file) \in Nat /\ file \in Seq(Commands)
      /\ cursor \in Nat \cup {None} /\ \A p \in Launches : proc[p].off \in Nat
  BY DEF SkipInv, OnceInv, TypeOK, MoveStart, Proc
<1>1. Quiet
  BY AsksQuiet DEF SkipInv
<1>2. /\ proc' = proc /\ entry' = entry /\ cursor' = cursor /\ stray' = stray /\ kind' = kind /\ shared' = shared
      /\ handed' = handed
  BY DEF MoveStart, world
<1>3. CASE End(r) /\ UNCHANGED <<file, early, behind, moving, owner>>
  <2>1. moving' = None \/ (moving' = moving /\ op'[moving] = op[moving])
    BY <1>0, <1>3 DEF End, TypeOK
  <2>2. Mild
    BY <1>2, <1>3, <2>1 DEF Mild
  <2> QED BY <1>1, <2>2, MildKeeps
<1>4. CASE /\ entry # None /\ ~Dead(entry) /\ ~Pending /\ moving' = r
           /\ Append1(StopOf(entry.pid))
  <2> SUFFICES ASSUME ~shared PROVE Ahead'
    BY <1>2 DEF SkipInv
  <2>1. Ahead /\ entry.pid # None
    BY <1>4, LaunchesAreNumbers DEF SkipInv, Dead, PidAlive
  <2>2. /\ file' = Append(file, StopOf(entry.pid)) /\ Len(file') = Len(file) + 1
        /\ early \subseteq early' /\ behind \subseteq behind'
        /\ StopOf(entry.pid) \in Commands \ Requests
    <3>1. StopOf(entry.pid) \in Commands \ Requests
      BY <1>0, <1>4, StopsAssumption DEF TypeOK, Entry, Commands, Stops
    <3> QED BY <1>0, <1>4, <3>1 DEF Append1
  <2>3. ASSUME NEW i \in DOMAIN file', Unread(i)' PROVE FALSE
    <3>1. Readable(i)' /\ handed[file'[i]] = 0 /\ file'[i] \notin early \cup behind
      BY <1>2, <2>2, <2>3 DEF Unread
    <3>2. i \in DOMAIN file
      <4>1. file'[i] \in Requests
        BY <1>0, <2>2, <3>1 DEF Readable
      <4> QED BY <1>0, <2>2, <4>1
    <3>3. \A j \in 1..i : file'[j] = file[j]
      BY <1>0, <2>2, <3>2
    <3>4. Unread(i)
      BY <1>0, <3>1, <3>2, <3>3 DEF Unread, Readable
    <3>5. cursor # None /\ cursor < i /\ i <= Len(file) /\ i \in Nat
      BY <1>0, <2>1, <3>2, <3>4 DEF Ahead, AheadOfCursor
    <3> QED BY <1>0, <1>4, <3>5 DEF Pending
  <2>4. AheadOfCursor' /\ AheadOfOffset' /\ MoveSettled'
    BY <2>3 DEF AheadOfCursor, AheadOfOffset, MoveSettled
  <2>5. CursorInFile' /\ OffsetInFile' /\ ManagedInFile'
    BY <1>0, <1>2, <2>1, <2>2 DEF Ahead, CursorInFile, OffsetInFile, ManagedInFile, HasOffset
  <2>6. OutlivedHeld'
    <3> SUFFICES ASSUME NEW p \in Launches, HasOffset(p)', Outlived(p)' PROVE FALSE
      BY DEF OutlivedHeld
    <3>1. HasOffset(p) /\ Outlived(p)
      BY <1>0, <1>2, <2>2 DEF HasOffset, Outlived
    <3> QED BY <1>4, <2>1, <3>1 DEF Ahead, OutlivedHeld
  <2> QED BY <2>4, <2>5, <2>6 DEF Ahead
<1> QED BY <1>3, <1>4 DEF MoveStart

LEMMA RelaunchSkips ==
  ASSUME SkipInv, OnceInv', NEW r \in Requests, MoveRelaunch(r)
  PROVE  SkipInv'
<1>0. /\ TypeOK /\ op \in [Requests -> Op] /\ op[r].pc = "stopping" /\ moving = r /\ r # None
      /\ Len(file) \in Nat /\ file \in Seq(Commands)
  BY LaunchesAreNumbers DEF SkipInv, OnceInv, TypeOK, MoveRelaunch
<1>1. /\ kind' = kind /\ shared' = shared /\ handed' = handed /\ early' = early /\ behind' = behind
      /\ file' = file /\ moving' = moving /\ entry'.pid = None
      /\ IF file = <<>> THEN cursor' = cursor /\ stray' = stray ELSE cursor' = Len(file) /\ stray' = FALSE
  BY DEF MoveRelaunch, world, server, EntryWithout
<1>2. op'[r].pc # "stopping"
  BY <1>0 DEF MoveRelaunch, Op
<1> SUFFICES ASSUME ~shared PROVE Ahead'
  BY <1>1 DEF SkipInv
<1>3. Ahead
  BY DEF SkipInv
<1>4. \A p \in Launches : HasOffset(p)' => HasOffset(p) /\ proc'[p] = proc[p]
  <2>1. Quiet
    BY ReapsQuiet DEF SkipInv
  <2> QED BY <1>1, <2>1 DEF Quiet, HasOffset, Tailing
<1>5. \A p \in Launches : HasOffset(p) /\ file # <<>> => proc[p].off \in Nat /\ proc[p].off <= Len(file)
  BY <1>0, <1>3 DEF Ahead, OutlivedHeld, Outlived, TypeOK, Proc
<1>6. \A i \in DOMAIN file' : ~Unread(i)'
  BY <1>0, <1>1, <1>3 DEF Ahead, MoveSettled, Unread, Readable
<1>7. AheadOfCursor' /\ AheadOfOffset' /\ MoveSettled'
  BY <1>6 DEF AheadOfCursor, AheadOfOffset, MoveSettled
<1>8. CursorInFile' /\ OffsetInFile'
  BY <1>0, <1>1, <1>3, <1>4, <1>5 DEF Ahead, CursorInFile, OffsetInFile
<1>9. OutlivedHeld'
  BY <1>0, <1>1, <1>2 DEF OutlivedHeld
<1>10. ManagedInFile'
  <2>1. \A p \in Launches : proc'[p].dirty => HasOffset(p)'
    BY DEF HasOffset
  <2> QED BY <1>1, <1>3, <1>4, <2>1 DEF Ahead, ManagedInFile
<1> QED BY <1>7, <1>8, <1>9, <1>10 DEF Ahead

\* A harness that begins to tail the file places its offset, and mostly the
\* cursor, where the last one stopped.
LEMMA PlaceSkips ==
  ASSUME SkipInv, OnceInv', NEW p \in Launches, Register(p) \/ Start(p)
  PROVE  SkipInv'
<1>0. /\ TypeOK /\ Len(file) \in Nat /\ proc \in [Launches -> Proc] /\ proc[p] \in Proc
      /\ cursor \in Nat \cup {None} /\ StartupOffset(p) \in Nat /\ InitialOffset \in Nat /\ ~proc[p].dirty
      /\ proc[p].st \in {"booting", "connecting"}
  BY OffsetType DEF SkipInv, OnceInv, TypeOK, Register, Start
<1>1. /\ kind' = kind /\ file' = file /\ handed' = handed /\ early' = early /\ behind' = behind
      /\ moving' = moving /\ op' = op
      /\ (cursor' = cursor /\ stray' = stray) \/ (cursor' = StartupOffset(p) /\ stray' = FALSE)
  BY DEF Register, Start, PlaceCursor, world, server
<1> SUFFICES ASSUME ~shared' PROVE Ahead'
  BY DEF SkipInv
<1>2. ~shared /\ Tailing' \subseteq {p}
  <2>1. CASE Register(p)
    <3>1. ~shared /\ Tailing = {}
      BY <2>1 DEF Register
    <3> QED BY <1>0, <3>1, PlacedOffset DEF Tailing
  <2>2. CASE Start(p)
    <3>1. shared' = shared /\ p \in Tailing
      BY <2>2 DEF Start, Tailing
    <3>2. Tailing \subseteq {p} /\ ~shared
      BY <3>1 DEF SkipInv, OnceInv, OneTail
    <3> QED BY <1>0, <3>2, PlacedOffset DEF Tailing
  <2> QED BY <2>1, <2>2
<1>3. Ahead
  BY <1>2 DEF SkipInv
<1>4. StartupOffset(p) <= Len(file) /\ StartupOffset(p) # None
  BY <1>0, <1>3, NoneAssumption DEF StartupOffset, InitialOffset, Ahead, CursorInFile, ManagedInFile
<1>5. ASSUME NEW q \in Launches, HasOffset(q)'
      PROVE  /\ q = p /\ proc'[p].off <= Len(file)
             /\ proc'[p].off = StartupOffset(p) \/ (HasOffset(p) /\ proc'[p].off = proc[p].off)
  <2>1. q = p
    BY <1>2, <1>5 DEF HasOffset, Tailing
  <2>2. proc'[p].off = StartupOffset(p) \/ (HasOffset(p) /\ proc'[p].off = proc[p].off)
    BY <1>0, <1>5, <2>1, PlacedOffset
  <2>3. HasOffset(p) => proc[p].off <= Len(file)
    BY <1>0, <1>3 DEF HasOffset, Ahead, ManagedInFile
  <2> QED BY <1>4, <2>1, <2>2, <2>3
<1>6. ASSUME NEW i \in DOMAIN file', Unread(i)'
      PROVE  i \in DOMAIN file /\ Unread(i) /\ cursor # None /\ cursor < i /\ StartupOffset(p) = cursor
  <2>1. i \in DOMAIN file /\ Unread(i)
    BY <1>1, <1>6 DEF Unread, Readable
  <2>2. cursor # None /\ cursor < i /\ i <= Len(file) /\ i \in Nat
    BY <1>0, <1>3, <2>1 DEF Ahead, AheadOfCursor, TypeOK
  <2>3. cursor <= Len(file)
    BY <1>0, <2>2
  <2> QED BY <1>0, <2>1, <2>2, <2>3, StartsAtCursor
<1>7. AheadOfCursor' /\ AheadOfOffset'
  BY <1>0, <1>1, <1>3, <1>5, <1>6 DEF Ahead, AheadOfCursor, AheadOfOffset
<1>8. CursorInFile' /\ OffsetInFile'
  BY <1>0, <1>1, <1>3, <1>4, <1>5 DEF Ahead, CursorInFile, OffsetInFile
<1>9. OutlivedHeld'
  <2>1. proc'[p].st # "closing"
    BY <1>0, PlacedOffset
  <2>2. proc'[p].off \in Nat
    BY DEF OnceInv, TypeOK, Proc
  <2> SUFFICES ASSUME NEW q \in Launches, HasOffset(q)', Outlived(q)' PROVE FALSE
    BY DEF OutlivedHeld
  <2> QED BY <1>0, <1>1, <1>5, <2>1, <2>2 DEF Outlived
<1>10. ManagedInFile'
  <2>1. \A q \in Launches : ~proc'[q].dirty
    BY <1>0, <1>2, PlacedOffset DEF Tailing
  <2> QED BY <1>1, <1>3, <1>5, <2>1 DEF Ahead, ManagedInFile
<1>11. MoveSettled'
  BY <1>1, <1>3, <1>6 DEF Ahead, MoveSettled
<1> QED BY <1>7, <1>8, <1>9, <1>10, <1>11 DEF Ahead

LEMMA SaveSkips ==
  ASSUME SkipInv, OnceInv', NEW p \in Launches, SaveCursor(p)
  PROVE  SkipInv'
<1>0. /\ TypeOK /\ Len(file) \in Nat /\ proc \in [Launches -> Proc] /\ proc[p] \in Proc /\ proc[p].dirty
      /\ proc[p].off \in Nat
  BY DEF SkipInv, OnceInv, TypeOK, SaveCursor, Proc
<1>1. /\ kind' = kind /\ file' = file /\ handed' = handed /\ early' = early /\ behind' = behind
      /\ moving' = moving /\ op' = op /\ entry' = entry /\ shared' = shared
      /\ cursor' = proc[p].off /\ cursor' # None
      /\ stray' = (\/ proc[p].st = "closing" /\ kind # "aisdk"
                   \/ Len(file) < proc[p].off)
  BY <1>0, NoneAssumption DEF SaveCursor, world, server
<1> SUFFICES ASSUME ~shared PROVE Ahead'
  BY <1>1 DEF SkipInv
<1>2. Ahead /\ Tailing = {p} /\ HasOffset(p)
  BY <1>0 DEF SkipInv, OnceInv, OneTail, Tailing, HasOffset
<1>3. \A q \in Launches : /\ proc'[q].off = proc[q].off /\ proc'[q].st = proc[q].st
                          /\ proc'[q].dirty => proc[q].dirty
                          /\ HasOffset(q)' => HasOffset(q) /\ q = p
  <2>1. \A q \in Launches : /\ proc'[q].off = proc[q].off /\ proc'[q].st = proc[q].st
                            /\ proc'[q].dirty => proc[q].dirty
    BY <1>0 DEF SaveCursor, Proc
  <2> QED BY <1>1, <1>2, <2>1 DEF HasOffset, Tailing
<1>4. \A i \in DOMAIN file' : Unread(i)' => i \in DOMAIN file /\ Unread(i)
  BY <1>1 DEF Unread, Readable
<1>5. AheadOfCursor' /\ AheadOfOffset' /\ MoveSettled'
  BY <1>1, <1>2, <1>3, <1>4 DEF Ahead, AheadOfCursor, AheadOfOffset, MoveSettled
<1>6. CursorInFile' /\ OffsetInFile'
  BY <1>0, <1>1, <1>3 DEF CursorInFile, OffsetInFile
<1>7. OutlivedHeld'
  BY <1>1, <1>2, <1>3 DEF Ahead, OutlivedHeld, Outlived
<1>8. ManagedInFile'
  BY <1>0, <1>1, <1>2, <1>3 DEF Ahead, ManagedInFile
<1> QED BY <1>5, <1>6, <1>7, <1>8 DEF Ahead

\* Lines that follow the offset are obeyed, up to the first stop.
LEMMA ReadableIsObeyed ==
  ASSUME TypeOK, NEW p \in Launches, NEW i \in DOMAIN file, i > ReadFrom(p), Readable(i)
  PROVE  file[i] \in ToSet(Obeyed(NewLines(p)))
<1>0. file \in Seq(Commands) /\ ReadFrom(p) \in Nat /\ i \in 1..Len(file)
  BY DEF TypeOK, ReadFrom, Proc
<1> DEFINE s == NewLines(p)
           j == i - ReadFrom(p)
<1>1. s \in Seq(Commands) /\ \A k \in DOMAIN s : k \in Nat \ {0} /\ s[k] = file[k + ReadFrom(p)]
  BY <1>0 DEF NewLines
<1>2. j \in DOMAIN s /\ s[j] = file[i]
  BY <1>0 DEF NewLines
<1>3. \A k \in DOMAIN s : s[k] \in Stops => k > j
  <2> SUFFICES ASSUME NEW k \in DOMAIN s, s[k] \in Stops, k <= j PROVE FALSE
    BY <1>0, <1>1
  <2>1. k + ReadFrom(p) \in 1..i
    BY <1>0, <1>1
  <2> QED BY <1>1, <2>1, StopsAssumption DEF Readable
<1> HIDE DEF s, j
<1>4. CASE FirstStop(s) = {}
  BY <1>2, <1>4 DEF Obeyed, ToSet, s
<1>5. CASE FirstStop(s) # {}
  <2>1. PICK k \in DOMAIN s : s[k] \in Stops /\ Obeyed(s) = SubSeq(s, 1, k)
    BY <1>5 DEF Obeyed, FirstStop
  <2>2. j \in DOMAIN Obeyed(s) /\ Obeyed(s)[j] = s[j]
    BY <1>1, <1>2, <1>3, <2>1
  <2> QED BY <1>2, <2>2 DEF ToSet, s
<1> QED BY <1>4, <1>5

LEMMA PollSkips ==
  ASSUME SkipInv, OnceInv', NEW p \in Launches, Poll(p)
  PROVE  SkipInv'
<1> DEFINE done == Obeyed(NewLines(p))
           sends == {r \in Requests : r \in ToSet(done)}
           closes == \E c \in Stops : c \in ToSet(done)
           saves == ~closes \/ kind # "managed"
<1>0. /\ TypeOK /\ Len(file) \in Nat /\ file \in Seq(Commands) /\ proc \in [Launches -> Proc] /\ proc[p] \in Proc
      /\ proc[p].st = "running" /\ ~proc[p].dirty /\ handed \in [Requests -> 0..2]
  <2>1. TypeOK /\ proc[p].st = "running" /\ ~proc[p].dirty
    BY DEF SkipInv, OnceInv, Poll
  <2> QED BY <2>1 DEF TypeOK
<1>1. /\ kind' = kind /\ early' = early /\ behind' = behind /\ moving' = moving /\ op' = op /\ shared' = shared
  BY DEF Poll, world, server
<1>2. IF closes /\ kind # "aisdk" THEN Removed
      ELSE file' = file /\ cursor' = cursor /\ stray' = stray /\ entry' = entry
  BY DEF Poll, RemoveEntry, Removed, disk
<1>3. /\ \A q \in Launches \ {p} : proc'[q] = proc[q]
      /\ proc'[p].off = Len(file) /\ proc'[p].dirty = saves
      /\ proc'[p].st = IF closes THEN "closing" ELSE "running"
  BY <1>0 DEF Poll, Proc
<1>4. \A r \in Requests : handed'[r] = 0 => handed[r] = 0 /\ r \notin sends
  <2>1. handed' = [r \in Requests |-> IF r \in sends /\ handed[r] < 2 THEN handed[r] + 1 ELSE handed[r]]
    BY DEF Poll
  <2> HIDE DEF sends
  <2> QED BY <1>0, <2>1
<1>5. \A i \in DOMAIN file : i > ReadFrom(p) /\ Readable(i) => file[i] \in sends
  <2>1. \A i \in DOMAIN file : Readable(i) => file[i] \in Requests
    BY <1>0 DEF Readable
  <2> QED BY <1>0, <2>1, ReadableIsObeyed
<1> HIDE DEF done, sends
<1> SUFFICES ASSUME ~shared PROVE Ahead'
  BY <1>1 DEF SkipInv
<1>6. Ahead /\ Tailing = {p} /\ HasOffset(p)
  BY <1>0 DEF SkipInv, OnceInv, OneTail, Tailing, HasOffset
<1>7. \A q \in Launches : (HasOffset(q)' \/ proc'[q].dirty) => q = p
  BY <1>3, <1>6 DEF HasOffset, Tailing
<1>8. CASE closes /\ kind # "aisdk"
  <2>1. Removed /\ DOMAIN file' = {}
    BY <1>2, <1>8 DEF Removed
  <2>2. ManagedInFile'
    <3>1. kind = "managed" => ~proc'[p].dirty /\ ~HasOffset(p)'
      BY <1>1, <1>3, <1>8 DEF HasOffset
    <3> QED BY <1>1, <1>7, <2>1, <3>1 DEF ManagedInFile, Removed
  <2> QED BY <2>1, <2>2 DEF Removed, Ahead, AheadOfCursor, AheadOfOffset, CursorInFile, OffsetInFile,
                            OutlivedHeld, MoveSettled
<1>9. CASE ~(closes /\ kind # "aisdk")
  <2>1. file' = file /\ cursor' = cursor /\ stray' = stray /\ entry' = entry
    BY <1>2, <1>9
  <2>2. ASSUME NEW i \in DOMAIN file', Unread(i)' PROVE FALSE
    <3>1. i \in DOMAIN file /\ Readable(i) /\ file[i] \in Requests /\ i \in Nat \ {0}
      BY <1>0, <2>1, <2>2 DEF Unread, Readable
    <3>2. handed[file[i]] = 0 /\ file[i] \notin sends
      BY <1>4, <2>1, <2>2, <3>1 DEF Unread
    <3>3. Unread(i)
      BY <1>1, <2>1, <2>2, <3>1, <3>2 DEF Unread
    <3>4. proc[p].off < i
      BY <1>6, <3>1, <3>3 DEF Ahead, AheadOfOffset
    <3>5. i > ReadFrom(p)
      BY <1>0, <3>1, <3>4 DEF ReadFrom
    <3> QED BY <1>5, <3>1, <3>2, <3>5
  <2>3. AheadOfCursor' /\ AheadOfOffset' /\ MoveSettled'
    BY <2>2 DEF AheadOfCursor, AheadOfOffset, MoveSettled
  <2>4. CursorInFile' /\ OffsetInFile'
    BY <1>0, <1>3, <1>6, <1>7, <2>1 DEF Ahead, CursorInFile, OffsetInFile
  <2>5. OutlivedHeld'
    BY <1>0, <1>1, <1>3, <1>7, <1>9, <2>1 DEF OutlivedHeld, Outlived
  <2>6. ManagedInFile'
    BY <1>0, <1>1, <1>3, <1>6, <1>7, <1>9, <2>1 DEF Ahead, ManagedInFile
  <2> QED BY <2>3, <2>4, <2>5, <2>6 DEF Ahead
<1> QED BY <1>8, <1>9

LEMMA SkipInit == Init => SkipInv
<1> SUFFICES ASSUME Init PROVE SkipInv
  OBVIOUS
<1>1. DOMAIN file = {} /\ cursor = None /\ moving = None /\ stray = FALSE
  BY DEF Init
<1>2. \A p \in Launches : ~HasOffset(p) /\ ~proc[p].dirty
  BY DEF Init, Unused, HasOffset
<1> QED BY <1>1, <1>2, OnceInit DEF SkipInv, Ahead, AheadOfCursor, AheadOfOffset, CursorInFile, OffsetInFile,
           OutlivedHeld, ManagedInFile, MoveSettled

LEMMA SkipNext == SkipInv /\ [Next]_vars => SkipInv'
<1> SUFFICES ASSUME SkipInv, [Next]_vars PROVE SkipInv'
  OBVIOUS
<1>0. OnceInv /\ OnceInv' /\ TypeOK
  BY OnceNext DEF SkipInv, OnceInv
<1>1. CASE UNCHANGED vars \/ ServerStops \/ HostReboots \/ ServerStarts \/ Reconcile \/ ClaimAges
  <2>1. Quiet /\ Mild
    BY <1>0, <1>1, ServerQuiet, OthersMild
  <2> QED BY <1>0, <2>1, MildKeeps
<1>2. ASSUME NEW p \in Launches, HarnessStep(p) \/ StreamEnds(p) \/ Crash(p) PROVE SkipInv'
  <2>1. CASE Exit(p) \/ StreamEnds(p) \/ Crash(p)
    <3>1. Quiet /\ Mild
      BY <1>0, <2>1, EndsQuiet, OthersMild
    <3> QED BY <1>0, <3>1, MildKeeps
  <2> QED BY <1>0, <1>2, <2>1, PlaceSkips, SaveSkips, PollSkips DEF HarnessStep
<1>3. ASSUME NEW r \in Requests,
             RequestStep(r) \/ \E what \in {"send", "resume", "close", "move"} : Arrive(r, what)
      PROVE  SkipInv'
  <2>1. CASE MoveStart(r) \/ MoveRelaunch(r)
    BY <1>0, <2>1, MoveStartSkips, RelaunchSkips
  <2>2. CASE ~(MoveStart(r) \/ MoveRelaunch(r))
    <3>1. Quiet
      BY <1>0, <1>3, <2>2, AsksQuiet, SpawnsQuiet, ReapsQuiet DEF RequestStep
    <3>2. Mild
      BY <1>0, <1>3, <2>2, RequestsMild, CloseReapMild, MovesMild DEF RequestStep
    <3> QED BY <1>0, <3>1, <3>2, MildKeeps
  <2> QED BY <2>1, <2>2
<1> QED BY <1>1, <1>2, <1>3 DEF Next

\* However harnesses die, close and are replaced, a message behind the cursor
\* was dispatched, unless it was sent in one of the two known windows.
THEOREM NothingSkippedHolds == Spec => []NothingSkipped
<1>1. SkipInv => NothingSkipped
  <2> SUFFICES ASSUME SkipInv, NEW i \in 1..Len(file), cursor # None, ~shared,
                      i <= cursor, Readable(i), handed[file[i]] = 0, file[i] \notin early \cup behind
               PROVE  FALSE
    BY DEF NothingSkipped, Skipped
  <2>1. i \in DOMAIN file /\ cursor \in Nat
    BY DEF SkipInv, OnceInv, TypeOK
  <2> QED BY <2>1 DEF SkipInv, Ahead, AheadOfCursor, Unread
<1> QED BY SkipInit, SkipNext, <1>1, PTL DEF Spec

=============================================================================
