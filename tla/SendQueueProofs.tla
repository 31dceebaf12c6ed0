--------------------------- MODULE SendQueueProofs ---------------------------
(***************************************************************************)
(* What holds of SendQueue for any number of rows, ticks, polling clients, *)
(* crashes, retries and edits, over tmux and over a command file.          *)
(*                                                                         *)
(* Three inductive invariants carry the safety proofs.  QueueInv relates   *)
(* the list, the table, the worker and the number of deliveries that       *)
(* brought the text to the agent; it is about what a delivery may touch    *)
(* and repeat.  HeldInv relates the held watcher's                         *)
(* tick, the held rows and the crashes; it is about what a release may     *)
(* repeat.  TurnInv adds, over a command file, what the agent has read.    *)
(***************************************************************************)
EXTENDS SendQueue, WellFoundedInduction, TLAPS

-----------------------------------------------------------------------------
\* Lemmas about the helpers

\* The oldest of a nonempty set of rows is one of them.
LEMMA OldestIsMember ==
  ASSUME NEW S \in SUBSET Id, S # {}
  PROVE  Oldest(S) \in S /\ \A other \in S : Oldest(S) <= other
<1> DEFINE Less == {ss \in Nat \X Nat : ss[1] < ss[2]}
<1>1. IsWellFoundedOn(Less, Nat)
  BY NatLessThanWellFounded DEF OpToRel
<1>2. S \subseteq Nat
  BY ConstAssumption DEF Id
<1>3. PICK least \in S : \A other \in S : ~(<<other, least>> \in Less)
  <2> HIDE DEF Less
  <2> QED
    BY <1>1, <1>2, WFMin
<1>4. ASSUME NEW other \in S PROVE least <= other
  <2>1. <<other, least>> \in Nat \X Nat
    BY <1>2
  <2>2. ~(other < least)
    BY <1>3, <2>1
  <2>3. other \in Nat /\ least \in Nat
    BY <1>2
  <2> QED
    BY <2>2, <2>3
<1> QED
  BY <1>4 DEF Oldest

\* Setting a value of the range on part of a function keeps its type.
LEMMA SetAllType ==
  ASSUME NEW f, NEW R, f \in [Id -> R], NEW S, NEW v \in R
  PROVE  SetAll(f, S, v) \in [Id -> R]
BY DEF SetAll

\* The worker's choice of a row, the start of a worker and an appended row keep
\* the types of the variables they write.
LEMMA PickNextType ==
  ASSUME NEW m \in SUBSET Id, NEW st \in [Id -> Status], NEW sto \in [Id -> Status],
         NEW ph \in [Id -> Phase],
         PickNext(m, st, sto, ph)
  PROVE  /\ mem' \subseteq Id /\ status' \in [Id -> Status] /\ store' \in [Id -> Status]
         /\ running' \in BOOLEAN /\ phase' \in [Id -> Phase]
BY DEF PickNext, Rows, Status, Live, Absent, Phase, Typing

\* Installing a list keeps the types, whether kick() starts the worker or
\* not.
LEMMA InstallType ==
  ASSUME TypeOK, NEW kicked, NEW m \in SUBSET Id,
         NEW st \in [Id -> Status], NEW sto \in [Id -> Status],
         Install(kicked, m, st, sto)
  PROVE  /\ mem' \subseteq Id /\ status' \in [Id -> Status] /\ store' \in [Id -> Status]
         /\ running' \in BOOLEAN /\ phase' \in [Id -> Phase]
<1>1. CASE kicked /\ ~running
  BY <1>1, PickNextType DEF Install, TypeOK
<1>2. CASE ~(kicked /\ ~running)
  BY <1>2 DEF Install, TypeOK, workVars
<1> QED
  BY <1>1, <1>2

\* So does appending a row, pruning included.
LEMMA PushType ==
  ASSUME TypeOK, NEW st0 \in Live, NEW txt \in 0..MaxEdits, NEW from \in 0..MaxMsgs,
         Push(st0, txt, from)
  PROVE  /\ nextId' \in 1..(MaxMsgs + 1) /\ text' \in [Id -> 0..MaxEdits]
         /\ origin' \in [Id -> 0..MaxMsgs]
         /\ mem' \subseteq Id /\ status' \in [Id -> Status] /\ store' \in [Id -> Status]
         /\ running' \in BOOLEAN /\ phase' \in [Id -> Phase]
<1> DEFINE m  == mem \cup {nextId}
           st == [status EXCEPT ![nextId] = st0]
           so == [store EXCEPT ![nextId] = st0]
<1>1. nextId \in Id /\ m \in SUBSET Id
  BY DEF Push, TypeOK
<1>2. st \in [Id -> Status] /\ so \in [Id -> Status]
  BY DEF TypeOK, Status
<1>3. PICK D \in PruneChoices(m, st) :
        Install(st0 = "pending", m \ (D \cup {from}), st, SetAll(so, D \cup {from}, Absent))
  BY DEF Push
<1>4. SetAll(so, D \cup {from}, Absent) \in [Id -> Status]
  BY <1>2, SetAllType DEF Status
<1>5. /\ mem' \subseteq Id /\ status' \in [Id -> Status] /\ store' \in [Id -> Status]
      /\ running' \in BOOLEAN /\ phase' \in [Id -> Phase]
  BY <1>1, <1>2, <1>3, <1>4, InstallType
<1>6. nextId' \in 1..(MaxMsgs + 1)
  BY <1>1, ConstAssumption DEF Push, Id
<1> QED
  BY <1>1, <1>5, <1>6 DEF Push, TypeOK

-----------------------------------------------------------------------------
\* Type correctness

\* An idle tick is a tick.
LEMMA IdleTickType == IdleTick \in [pc : TickPc, row : 0..MaxMsgs, text : 0..MaxEdits]
BY ConstAssumption DEF IdleTick, TickPc

\* The initial state of a session's queue is well typed.
LEMMA InitType == Init => TypeOK
<1> SUFFICES ASSUME Init PROVE TypeOK
  OBVIOUS
<1>1. tick \in [Ticks -> [pc : TickPc, row : 0..MaxMsgs, text : 0..MaxEdits]]
  BY IdleTickType DEF Init
<1>2. /\ text \in [Id -> 0..MaxEdits] /\ retries \in [Id -> 0..MaxRetries]
      /\ origin \in [Id -> 0..MaxMsgs] /\ crashes \in 0..MaxCrashes
      /\ nextId \in 1..(MaxMsgs + 1)
      /\ attempts \in [Id -> 0..MaxAttempts] /\ phase \in [Id -> Phase]
  BY ConstAssumption DEF Init, Phase
<1> QED
  BY <1>1, <1>2 DEF Init, TypeOK, Status, Absent

\* The routes
LEMMA RoutesType == TypeOK /\ Routes => TypeOK'
<1> SUFFICES ASSUME TypeOK, Routes PROVE TypeOK'
  OBVIOUS
<1> USE DEF envVars, watchVars, workVars, histVars
<1>0. {"pending", "queued", "held"} \subseteq Live /\ 0 \in 0..MaxMsgs /\ 0 \in 0..MaxEdits
  BY ConstAssumption DEF Live
<1>1. CASE EnqueueMessage
  BY <1>0, <1>1, PushType DEF EnqueueMessage, TypeOK
<1>2. CASE RecordCommandFileMessage
  BY <1>0, <1>2, PushType DEF RecordCommandFileMessage, TypeOK
<1>3. CASE HoldMessage
  BY <1>0, <1>3, PushType DEF HoldMessage, TypeOK
<1>4. ASSUME NEW S, NEW why \in {"dropped", "cleared", "taken"}, Remove(S, why)
      PROVE  TypeOK'
  <2>1. store' \in [Id -> Status]
    BY <1>4, SetAllType DEF Remove, TypeOK, Status
  <2>2. gone' \in [Id -> {"no", "dropped", "cleared", "taken"}]
    BY <1>4, SetAllType DEF Remove, TypeOK
  <2> QED
    BY <1>4, <2>1, <2>2 DEF Remove, TypeOK
<1>5. CASE ClearResolved
  BY <1>4, <1>5 DEF ClearResolved
<1>6. CASE TakeUndeliveredQueue
  BY <1>4, <1>6 DEF TakeUndeliveredQueue
<1>7. ASSUME NEW id \in Id, UpdateHeldMessage(id) PROVE TypeOK'
  BY <1>7, ConstAssumption DEF UpdateHeldMessage, TypeOK
<1>8. ASSUME NEW id \in Id, RemoveHeldMessage(id) PROVE TypeOK'
  BY <1>4, <1>8 DEF RemoveHeldMessage
<1>9. ASSUME NEW id \in Id, RetryMessage(id) PROVE TypeOK'
  <2>1. /\ [status EXCEPT ![id] = "pending"] \in [Id -> Status]
        /\ [store EXCEPT ![id] = "pending"] \in [Id -> Status]
    BY DEF TypeOK, Status, Live
  <2>2. mem \in SUBSET Id
    BY DEF TypeOK
  <2>3. /\ mem' \subseteq Id /\ status' \in [Id -> Status] /\ store' \in [Id -> Status]
        /\ running' \in BOOLEAN /\ phase' \in [Id -> Phase]
    BY <1>9, <2>1, <2>2, InstallType DEF RetryMessage
  <2>4. retries' \in [Id -> 0..MaxRetries]
    BY <1>9, ConstAssumption DEF RetryMessage, TypeOK
  <2>5. attempts' \in [Id -> 0..MaxAttempts]
    BY <1>9, ConstAssumption DEF RetryMessage, TypeOK
  <2> QED
    BY <1>9, <2>3, <2>4, <2>5 DEF RetryMessage, TypeOK
<1> QED
  BY <1>1, <1>2, <1>3, <1>5, <1>6, <1>7, <1>8, <1>9 DEF Routes

\* The delivery worker
LEMMA SettleType ==
  ASSUME TypeOK, NEW id \in Id, NEW outcome \in {"queued", "delivered", "failed"},
         Settle(id, outcome)
  PROVE  TypeOK'
<1>1. /\ [status EXCEPT ![id] = outcome] \in [Id -> Status]
      /\ [store EXCEPT ![id] = outcome] \in [Id -> Status]
      /\ [phase EXCEPT ![id] = "off"] \in [Id -> Phase]
      /\ mem \in SUBSET Id
  BY DEF TypeOK, Status, Live, Phase
<1>2. /\ mem' \subseteq Id /\ status' \in [Id -> Status] /\ store' \in [Id -> Status]
      /\ running' \in BOOLEAN /\ phase' \in [Id -> Phase]
  BY <1>1, PickNextType DEF Settle
<1>3. attempts' \in [Id -> 0..MaxAttempts]
  BY ConstAssumption DEF Settle, TypeOK
<1> QED
  BY <1>2, <1>3 DEF Settle, TypeOK, envVars, watchVars, histVars

\* No step of the delivery worker leaves the types.
LEMMA WorkerType == TypeOK /\ Worker => TypeOK'
<1> SUFFICES ASSUME TypeOK, NEW id \in Id,
                    \/ DeliverEnter(id) \/ DeliverTypeRetry(id) \/ DeliverAgain(id)
                    \/ DeliverAccept(id) \/ DeliverFail(id)
             PROVE  TypeOK'
  BY DEF Worker
<1> USE DEF queueVars, workVars, envVars, watchVars, histVars
<1>0. ASSUME attempts[id] < MaxAttempts
      PROVE  [attempts EXCEPT ![id] = @ + 1] \in [Id -> 0..MaxAttempts]
  BY <1>0, ConstAssumption DEF TypeOK
<1>1. CASE DeliverEnter(id)
  <2>1. attempts' \in [Id -> 0..MaxAttempts]
    BY <1>0, <1>1 DEF DeliverEnter
  <2>2. phase' \in [Id -> Phase] /\ sub' \in [Id -> Nat]
    BY <1>1 DEF DeliverEnter, TypeOK, Phase, Typing, Entered
  <2> QED
    BY <1>1, <2>1, <2>2 DEF DeliverEnter, TypeOK
<1>4. CASE DeliverTypeRetry(id)
  BY <1>0, <1>4 DEF DeliverTypeRetry, TypeOK
<1>5. CASE DeliverAgain(id)
  BY <1>5 DEF DeliverAgain, TypeOK, Phase, Typing, Entered
<1>2. CASE DeliverAccept(id)
  BY <1>2, SettleType DEF DeliverAccept
<1>3. CASE DeliverFail(id)
  BY <1>3, SettleType DEF DeliverFail
<1> QED
  BY <1>1, <1>2, <1>3, <1>4, <1>5

\* A reconcile pass
LEMMA ReconcileType ==
  ASSUME TypeOK, NEW p \in Procs
  PROVE  /\ StartReconcile(p) => snap' \in [Procs -> SUBSET Id]
         /\ Promote(p) \/ GiveUp(p) =>
              /\ nextId' \in 1..(MaxMsgs + 1) /\ mem' \subseteq Id
              /\ text' \in [Id -> 0..MaxEdits]
              /\ status' \in [Id -> Status] /\ store' \in [Id -> Status]
              /\ snap' \in [Procs -> SUBSET Id]
<1>1. ASSUME StartReconcile(p) PROVE snap' \in [Procs -> SUBSET Id]
  BY <1>1 DEF StartReconcile, TypeOK, Rows
<1>2. ASSUME Promote(p)
      PROVE  /\ nextId' \in 1..(MaxMsgs + 1) /\ mem' \subseteq Id
             /\ text' \in [Id -> 0..MaxEdits]
             /\ status' \in [Id -> Status] /\ store' \in [Id -> Status]
             /\ snap' \in [Procs -> SUBSET Id]
  <2>1. "delivered" \in Status /\ status \in [Id -> Status] /\ store \in [Id -> Status]
    BY DEF TypeOK, Status, Live
  <2>2. status' \in [Id -> Status] /\ store' \in [Id -> Status]
    BY <1>2, <2>1, SetAllType DEF Promote
  <2> QED
    BY <1>2, <2>2 DEF Promote, TypeOK
<1>3. ASSUME GiveUp(p)
      PROVE  /\ nextId' \in 1..(MaxMsgs + 1) /\ mem' \subseteq Id
             /\ text' \in [Id -> 0..MaxEdits]
             /\ status' \in [Id -> Status] /\ store' \in [Id -> Status]
             /\ snap' \in [Procs -> SUBSET Id]
  BY <1>3 DEF GiveUp, TypeOK, queueVars
<1> QED
  BY <1>1, <1>2, <1>3

\* No polling client's reconcile pass does.
LEMMA PollsType == TypeOK /\ Polls => TypeOK'
<1> SUFFICES ASSUME TypeOK, NEW p \in Pollers, PollStart(p) \/ PollEnd(p) PROVE TypeOK'
  BY DEF Polls
<1>1. p \in Procs
  BY DEF Procs
<1>2. CASE PollStart(p)
  BY <1>1, <1>2, ReconcileType
  DEF PollStart, TypeOK, queueVars, workVars, watchVars, envVars, histVars
<1>3. CASE PollEnd(p)
  BY <1>1, <1>3, ReconcileType DEF PollEnd, TypeOK, workVars, watchVars, envVars, histVars
<1> QED
  BY <1>2, <1>3

\* The held watcher
LEMMA GotoType ==
  ASSUME TypeOK, NEW t \in Ticks, NEW pc \in TickPc, Goto(t, pc)
  PROVE  tick' \in [Ticks -> [pc : TickPc, row : 0..MaxMsgs, text : 0..MaxEdits]]
BY DEF Goto, TypeOK

\* The end of a tick keeps the ticks' type.
LEMMA EndTickType ==
  ASSUME TypeOK, NEW t \in Ticks, EndTick(t)
  PROVE  /\ tick' \in [Ticks -> [pc : TickPc, row : 0..MaxMsgs, text : 0..MaxEdits]]
         /\ ticking' \in BOOLEAN
BY IdleTickType DEF EndTick, TypeOK

\* So does its bookkeeping of a release.
LEMMA HandedType ==
  ASSUME NEW f \in [Id -> Nat], NEW row
  PROVE  [f EXCEPT ![row] = @ + 1] \in [Id -> Nat]
<1>1. CASE row \in Id
  BY <1>1
<1>2. CASE row \notin Id
  BY <1>2
<1> QED
  BY <1>1, <1>2

\* No step of the held watcher leaves the types.
LEMMA WatcherType == TypeOK /\ Watcher => TypeOK'
<1> SUFFICES ASSUME TypeOK, NEW t \in Ticks,
                    \/ TickStart(t) \/ TickReconciled(t) \/ TickProbe(t) \/ TickFreshProbe(t)
                    \/ TickCall(t) \/ TickRelease(t) \/ TickRefused(t)
             PROVE  TypeOK'
  BY DEF Watcher
<1> USE DEF queueVars, workVars, envVars, histVars
<1>0. t \in Procs /\ {"probe", "reconcile", "fresh", "call"} \subseteq TickPc
  BY DEF Procs, TickPc
<1>1. CASE TickStart(t)
  <2>1. tick' \in [Ticks -> [pc : TickPc, row : 0..MaxMsgs, text : 0..MaxEdits]]
    BY <1>0, <1>1, GotoType DEF TickStart, TypeOK
  <2>2. snap' \in [Procs -> SUBSET Id]
    BY <1>0, <1>1, ReconcileType DEF TickStart, TypeOK
  <2> QED
    BY <1>1, <2>1, <2>2 DEF TickStart, TypeOK
<1>2. CASE TickReconciled(t)
  <2>1. /\ tick' \in [Ticks -> [pc : TickPc, row : 0..MaxMsgs, text : 0..MaxEdits]]
        /\ ticking' \in BOOLEAN
    BY <1>0, <1>2, GotoType, EndTickType DEF TickReconciled, TypeOK
  <2>2. /\ nextId' \in 1..(MaxMsgs + 1) /\ mem' \subseteq Id
        /\ text' \in [Id -> 0..MaxEdits]
        /\ status' \in [Id -> Status] /\ store' \in [Id -> Status]
        /\ snap' \in [Procs -> SUBSET Id]
    <3>1. CASE Promote(t) \/ GiveUp(t)
      BY <1>0, <3>1, ReconcileType
    <3>2. CASE UNCHANGED <<queueVars, snap>>
      BY <3>2 DEF TypeOK
    <3> QED
      BY <1>2, <3>1, <3>2 DEF TickReconciled
  <2> QED
    BY <1>2, <2>1, <2>2 DEF TickReconciled, TypeOK
<1>3. CASE TickProbe(t)
  <2>1. /\ tick' \in [Ticks -> [pc : TickPc, row : 0..MaxMsgs, text : 0..MaxEdits]]
        /\ ticking' \in BOOLEAN
    BY <1>0, <1>3, GotoType, EndTickType DEF TickProbe, TypeOK
  <2> QED
    BY <1>3, <2>1 DEF TickProbe, TypeOK
<1>4. CASE TickFreshProbe(t)
  <2>1. /\ tick' \in [Ticks -> [pc : TickPc, row : 0..MaxMsgs, text : 0..MaxEdits]]
        /\ ticking' \in BOOLEAN
    BY <1>0, <1>4, GotoType, EndTickType DEF TickFreshProbe, TypeOK
  <2> QED
    BY <1>4, <2>1 DEF TickFreshProbe, TypeOK
<1>5. CASE TickCall(t)
  <2>1. CASE Held = {} \/ server # "up"
    BY <1>5, <2>1, EndTickType DEF TickCall, TypeOK
  <2>2. CASE ~(Held = {} \/ server # "up")
    <3>1. Held \in SUBSET Id /\ Held # {}
      BY <2>2 DEF Held, Rows, TypeOK
    <3>2. Oldest(Held) \in Id
      BY <3>1, OldestIsMember
    <3>3. Oldest(Held) \in 0..MaxMsgs /\ text[Oldest(Held)] \in 0..MaxEdits
      BY <3>2, ConstAssumption DEF TypeOK, Id
    <3>4. [pc |-> "handler", row |-> Oldest(Held), text |-> text[Oldest(Held)]]
            \in [pc : TickPc, row : 0..MaxMsgs, text : 0..MaxEdits]
      BY <3>3 DEF TickPc
    <3>5. tick' \in [Ticks -> [pc : TickPc, row : 0..MaxMsgs, text : 0..MaxEdits]]
      BY <1>5, <2>2, <3>4 DEF TickCall, TypeOK
    <3> QED
      BY <1>5, <2>2, <3>5 DEF TickCall, TypeOK
  <2> QED
    BY <2>1, <2>2
<1>6. CASE TickRelease(t)
  <2>1. tick[t].row \in 0..MaxMsgs /\ tick[t].text \in 0..MaxEdits
    BY DEF TypeOK
  <2>2. (IF CommandFile THEN "queued" ELSE "pending") \in Live
    BY DEF Live
  <2>3. Push(IF CommandFile THEN "queued" ELSE "pending", tick[t].text, tick[t].row)
    BY <1>6 DEF TickRelease
  <2>4. /\ nextId' \in 1..(MaxMsgs + 1) /\ text' \in [Id -> 0..MaxEdits]
        /\ origin' \in [Id -> 0..MaxMsgs]
        /\ mem' \subseteq Id /\ status' \in [Id -> Status] /\ store' \in [Id -> Status]
        /\ running' \in BOOLEAN /\ phase' \in [Id -> Phase]
    BY <2>1, <2>2, <2>3, PushType
  <2>5. /\ tick' \in [Ticks -> [pc : TickPc, row : 0..MaxMsgs, text : 0..MaxEdits]]
        /\ ticking' \in BOOLEAN
    BY <1>6, EndTickType DEF TickRelease
  <2>6. handed' \in [Id -> Nat]
    BY <1>6, HandedType DEF TickRelease, TypeOK
  <2>7. sub' \in [Id -> Nat]
    BY <1>6 DEF TickRelease, TypeOK
  <2> QED
    BY <1>6, <2>4, <2>5, <2>6, <2>7 DEF TickRelease, TypeOK
<1>7. CASE TickRefused(t)
  <2>1. /\ tick' \in [Ticks -> [pc : TickPc, row : 0..MaxMsgs, text : 0..MaxEdits]]
        /\ ticking' \in BOOLEAN
    BY <1>7, EndTickType DEF TickRefused
  <2>2. status' \in [Id -> Status] /\ store' \in [Id -> Status]
    BY <1>7 DEF TickRefused, TypeOK, Status, Live
  <2> QED
    BY <1>7, <2>1, <2>2 DEF TickRefused, TypeOK
<1> QED
  BY <1>1, <1>2, <1>3, <1>4, <1>5, <1>6, <1>7

\* The server process
LEMMA LoseMemoryType ==
  ASSUME TypeOK, NEW sto \in [Id -> Status], LoseMemory(sto),
         nextId' \in 1..(MaxMsgs + 1), text' \in [Id -> 0..MaxEdits],
         origin' \in [Id -> 0..MaxMsgs], sub' \in [Id -> Nat], handed' \in [Id -> Nat]
  PROVE  TypeOK'
<1>1. tick' \in [Ticks -> [pc : TickPc, row : 0..MaxMsgs, text : 0..MaxEdits]]
  BY IdleTickType DEF LoseMemory
<1>2. crashes' \in 0..MaxCrashes /\ attempts' \in [Id -> 0..MaxAttempts]
  BY ConstAssumption DEF LoseMemory, TypeOK
<1>3. phase' \in [Id -> Phase]
  BY DEF LoseMemory, Phase
<1> QED
  BY <1>1, <1>2, <1>3 DEF LoseMemory, TypeOK

\* No crash and no boot does.
LEMMA ProcessType == TypeOK /\ Process => TypeOK'
<1> SUFFICES ASSUME TypeOK, Process PROVE TypeOK'
  OBVIOUS
<1>1. CASE Crash
  BY <1>1, LoseMemoryType DEF Crash, TypeOK
<1>2. ASSUME NEW t \in Ticks, CrashMidRelease(t) PROVE TypeOK'
  <2> DEFINE sto == [store EXCEPT ![nextId] = IF CommandFile THEN "queued" ELSE "pending"]
  <2>1. sto \in [Id -> Status]
    BY DEF TypeOK, Status, Live
  <2>2. nextId \in Id /\ tick[t].row \in 0..MaxMsgs /\ tick[t].text \in 0..MaxEdits
    BY <1>2 DEF CrashMidRelease, TypeOK
  <2>3. /\ nextId' \in 1..(MaxMsgs + 1) /\ text' \in [Id -> 0..MaxEdits]
        /\ origin' \in [Id -> 0..MaxMsgs] /\ sub' \in [Id -> Nat]
    <3>1. nextId' \in 1..(MaxMsgs + 1)
      BY <1>2, <2>2, ConstAssumption DEF CrashMidRelease, Id
    <3>2. text' \in [Id -> 0..MaxEdits] /\ origin' \in [Id -> 0..MaxMsgs]
      BY <1>2, <2>2 DEF CrashMidRelease, TypeOK
    <3>3. sub' \in [Id -> Nat]
      BY <1>2, <2>2 DEF CrashMidRelease, TypeOK
    <3> QED
      BY <3>1, <3>2, <3>3
  <2>5. handed' \in [Id -> Nat]
    BY <1>2, HandedType DEF CrashMidRelease, TypeOK
  <2>4. LoseMemory(sto)
    BY <1>2 DEF CrashMidRelease
  <2> QED
    BY <2>1, <2>3, <2>4, <2>5, LoseMemoryType
<1>3. CASE Boot
  BY <1>3 DEF Boot, TypeOK, workVars, watchVars, histVars
<1>4. CASE ResumePersistedQueues
  <2> DEFINE cut == Rows(mem, status, {"sending"})
  <2>1. /\ SetAll(status, cut, "failed") \in [Id -> Status]
        /\ SetAll(store, cut, "failed") \in [Id -> Status]
        /\ mem \in SUBSET Id
    BY SetAllType DEF TypeOK, Status, Live
  <2>2. /\ mem' \subseteq Id /\ status' \in [Id -> Status] /\ store' \in [Id -> Status]
        /\ running' \in BOOLEAN /\ phase' \in [Id -> Phase]
    BY <1>4, <2>1, InstallType DEF ResumePersistedQueues
  <2> QED
    BY <1>4, <2>2 DEF ResumePersistedQueues, TypeOK, histVars
<1> QED
  BY <1>1, <1>2, <1>3, <1>4 DEF Process

\* No step of the harness does.
LEMMA HarnessType == TypeOK /\ Harness => TypeOK'
BY DEF Harness, AgentIdles, AgentReads, TypeOK, queueVars, workVars, watchVars, histVars

\* Every reachable state is well typed.
THEOREM TypeCorrect == Spec => []TypeOK
<1>1. TypeOK /\ [Next]_vars => TypeOK'
  <2>1. TypeOK /\ Next => TypeOK'
    BY RoutesType, WorkerType, PollsType, WatcherType, ProcessType, HarnessType DEF Next
  <2>2. TypeOK /\ UNCHANGED vars => TypeOK'
    BY DEF TypeOK, vars, queueVars, workVars, watchVars, envVars, histVars
  <2> QED
    BY <2>1, <2>2
<1> QED
  BY InitType, <1>1, PTL DEF Spec


-----------------------------------------------------------------------------
\* The inductive invariants

\* The agent does not have the text from the delivery in progress.
Untaken == {"typing", "missed"}

\* One worker, the list and the table agree, and a row that waits in the table,
\* or whose delivery has not brought its text to the agent, has a delivery left:
\* its first one, or one for a retry its user asked for.  A row can wait and be
\* delivered at once (the boot marks a live delivery failed, the user retries
\* it): then it has two.
Consistent(m, st, sto, rn, ph, sb, rt) ==
  /\ \A a, b \in Id : ph[a] # "off" /\ ph[b] # "off" => a = b
  /\ \A id \in Id :
       /\ ph[id] # "off" => rn
       /\ id \in m => sto[id] = st[id]
       /\ sto[id] = "pending" => sb[id] <= rt[id]
       /\ ph[id] \in Untaken => sb[id] <= rt[id]
       /\ sto[id] = "pending" /\ ph[id] \in Untaken => sb[id] < rt[id]
       /\ sb[id] <= 1 + rt[id]

\* A row that has not been created is nowhere.
Uncreated ==
  /\ \A id \in Id : id >= nextId =>
       /\ id \notin mem /\ store[id] = Absent /\ phase[id] = "off"
       /\ sub[id] = 0 /\ handed[id] = 0
  /\ \A p \in Procs : \A id \in snap[p] : id < nextId

\* With the server down nothing is in memory, and what it will load is the table.
DownIsEmpty ==
  server = "down" => mem = {} /\ status = store /\ \A id \in Id : phase[id] = "off"

QueueInv ==
  /\ Consistent(mem, status, store, running, phase, sub, retries)
  /\ NoResurrectedSend
  /\ Uncreated
  /\ DownIsEmpty

\* A tick at work means a server that is up, and its row exists.
TickRow ==
  /\ server = "down" => ~watching /\ \A t \in Ticks : tick[t].pc = "idle"
  /\ \A t \in Ticks : tick[t].pc = "handler" => tick[t].row \in Id /\ tick[t].row < nextId

\* One tick at a time, and a row that is still held, or in the handler's hands,
\* was handed over at most once for each crash.
HeldInv ==
  /\ TickRow
  /\ \A t \in Ticks : tick[t].pc # "idle" =>
       ticking /\ \A u \in Ticks : tick[u].pc # "idle" => u = t
  /\ \A t \in Ticks : tick[t].pc = "handler" => handed[tick[t].row] <= crashes
  /\ \A id \in Id : store[id] = "held" => handed[id] <= crashes
  /\ HandedOncePerBoot

\* Nobody strands a row.
Attended == HeldIsWatched /\ PendingHasWorker

-----------------------------------------------------------------------------
\* What starting a worker does, row by row

\* A row is left as it was given, or it waited and is now being typed.
Untouched(id, st, sto, ph) == status'[id] = st[id] /\ store'[id] = sto[id] /\ phase'[id] = ph[id]
Picked(id, m, st) ==
  /\ id \in m /\ st[id] = "pending"
  /\ status'[id] = "sending" /\ store'[id] = "sending" /\ phase'[id] = "typing"

\* The worker's choice: nothing changes and it ends, or it picks one waiting row.
LEMMA PickNextEffect ==
  ASSUME NEW m \in SUBSET Id, NEW st \in [Id -> Status], NEW sto \in [Id -> Status],
         NEW ph \in [Id -> Phase],
         PickNext(m, st, sto, ph)
  PROVE  /\ mem' = m
         /\ \/ /\ ~running'
               /\ \A id \in m : st[id] # "pending"
               /\ \A id \in Id : Untouched(id, st, sto, ph)
            \/ /\ running'
               /\ \E next \in Id :
                    /\ Picked(next, m, st)
                    /\ \A id \in Id \ {next} : Untouched(id, st, sto, ph)
<1> DEFINE waiting == Rows(m, st, {"pending"})
<1>1. CASE waiting = {}
  <2>1. status' = st /\ store' = sto /\ phase' = ph /\ mem' = m /\ ~running'
    BY <1>1 DEF PickNext
  <2>2. \A id \in m : st[id] # "pending"
    BY <1>1 DEF Rows
  <2> QED
    BY <2>1, <2>2 DEF Untouched
<1>2. CASE waiting # {}
  <2> DEFINE next == Oldest(waiting)
  <2>1. waiting \in SUBSET Id
    BY DEF Rows
  <2>2. next \in waiting
    BY <1>2, <2>1, OldestIsMember
  <2>3. next \in m /\ st[next] = "pending" /\ next \in Id
    BY <2>2 DEF Rows
  <2>4. /\ status' = [st EXCEPT ![next] = "sending"] /\ store' = [sto EXCEPT ![next] = "sending"]
        /\ phase' = [ph EXCEPT ![next] = "typing"] /\ mem' = m /\ running'
    BY <1>2 DEF PickNext
  <2> HIDE DEF next
  <2>5. Picked(next, m, st)
    BY <2>3, <2>4 DEF Picked
  <2>6. \A id \in Id \ {next} : Untouched(id, st, sto, ph)
    BY <2>4 DEF Untouched
  <2> QED
    BY <2>3, <2>4, <2>5, <2>6
<1> QED
  BY <1>1, <1>2

\* If nobody is typing, the worker's choice keeps the rows consistent.
LEMMA PickNextConsistent ==
  ASSUME NEW m \in SUBSET Id, NEW st \in [Id -> Status], NEW sto \in [Id -> Status],
         NEW ph \in [Id -> Phase],
         NEW sb \in [Id -> Nat], NEW rt \in [Id -> Nat], NEW rn,
         Consistent(m, st, sto, rn, ph, sb, rt),
         \A id \in Id : ph[id] = "off",
         PickNext(m, st, sto, ph)
  PROVE  Consistent(mem', status', store', running', phase', sb, rt)
<1>1. mem' = m
  BY PickNextEffect
<1>2. CASE ~running' /\ \A id \in Id : Untouched(id, st, sto, ph)
  BY <1>1, <1>2 DEF Consistent, Untouched
<1>3. ASSUME running', NEW next \in Id, Picked(next, m, st),
             \A id \in Id \ {next} : Untouched(id, st, sto, ph)
      PROVE  Consistent(mem', status', store', running', phase', sb, rt)
  <2>1. sb[next] <= rt[next]
    BY <1>3 DEF Consistent, Picked
  <2> QED
    BY <1>1, <1>3, <2>1 DEF Consistent, Untouched, Picked, Untaken
<1> QED
  BY <1>2, <1>3, PickNextEffect

\* kick(): the same of a list, rows and counts installed with or without a kick.
LEMMA InstallConsistent ==
  ASSUME TypeOK, NEW kicked, NEW m \in SUBSET Id,
         NEW st \in [Id -> Status], NEW sto \in [Id -> Status],
         NEW sb \in [Id -> Nat], NEW rt \in [Id -> Nat],
         Consistent(m, st, sto, running, phase, sb, rt),
         Install(kicked, m, st, sto)
  PROVE  Consistent(mem', status', store', running', phase', sb, rt)
<1>1. CASE kicked /\ ~running
  <2>1. \A id \in Id : phase[id] = "off"
    BY <1>1 DEF Consistent
  <2>2. PickNext(m, st, sto, phase)
    BY <1>1 DEF Install
  <2> QED
    BY <2>1, <2>2, PickNextConsistent DEF TypeOK
<1>2. CASE ~(kicked /\ ~running)
  BY <1>2 DEF Install, workVars
<1> QED
  BY <1>1, <1>2

\* and the rows it touches are rows of the list.
LEMMA InstallEffect ==
  ASSUME TypeOK, NEW kicked, NEW m \in SUBSET Id,
         NEW st \in [Id -> Status], NEW sto \in [Id -> Status],
         Install(kicked, m, st, sto)
  PROVE  /\ mem' = m
         /\ \A id \in Id : Untouched(id, st, sto, phase) \/ Picked(id, m, st)
         /\ kicked => running' \/ \A id \in m : st[id] # "pending"
         /\ running => running'
<1>1. CASE kicked /\ ~running
  <2>1. PickNext(m, st, sto, phase)
    BY <1>1 DEF Install
  <2> QED
    BY <1>1, <2>1, PickNextEffect DEF TypeOK
<1>2. CASE ~(kicked /\ ~running)
  BY <1>2 DEF Install, workVars, Untouched
<1> QED
  BY <1>1, <1>2

-----------------------------------------------------------------------------
\* QueueInv is inductive

\* An empty queue satisfies the invariant of list and table.
LEMMA InitQueueInv == Init => QueueInv
BY ConstAssumption
DEF Init, QueueInv, Consistent, Untaken, NoResurrectedSend, Uncreated, DownIsEmpty, Absent, Id, Procs

\* An appended row: it is new, so it is consistent whatever its status, and the
\* rows that leave the list leave the table.
LEMMA PushQueueInv ==
  ASSUME TypeOK, QueueInv, Listening,
         NEW st0 \in {"pending", "queued", "held"}, NEW txt \in 0..MaxEdits,
         NEW from \in 0..MaxMsgs, NEW count \in {0, 1},
         Push(st0, txt, from),
         st0 = "pending" => count = 0,
         sub' = [sub EXCEPT ![nextId] = count],
         handed' = handed \/ handed' = [handed EXCEPT ![from] = @ + 1],
         from = 0 \/ from < nextId,
         UNCHANGED <<server, snap, retries>>
  PROVE  QueueInv'
<1> DEFINE m  == mem \cup {nextId}
           st == [status EXCEPT ![nextId] = st0]
           so == [store EXCEPT ![nextId] = st0]
<1>1. nextId \in Id /\ nextId' = nextId + 1 /\ m \in SUBSET Id /\ nextId \in Int /\ Id \subseteq Int
  BY DEF Push, TypeOK, Id
<1>2. PICK D \in PruneChoices(m, st) :
        Install(st0 = "pending", m \ (D \cup {from}), st, SetAll(so, D \cup {from}, Absent))
  BY DEF Push
<1> DEFINE m2 == m \ (D \cup {from})
           so2 == SetAll(so, D \cup {from}, Absent)
<1>3. /\ st \in [Id -> Status] /\ so2 \in [Id -> Status] /\ m2 \in SUBSET Id
      /\ sub' \in [Id -> Nat] /\ retries \in [Id -> Nat]
  <2>1. st \in [Id -> Status] /\ so \in [Id -> Status]
    BY DEF TypeOK, Status, Live
  <2>2. so2 \in [Id -> Status]
    BY <2>1, SetAllType DEF Status
  <2>3. sub' \in [Id -> Nat] /\ retries \in [Id -> Nat]
    BY <1>1, ConstAssumption DEF TypeOK
  <2> QED
    BY <1>1, <2>1, <2>2, <2>3
<1>4. \A id \in Id :
        /\ id # nextId => st[id] = status[id] /\ sub'[id] = sub[id]
        /\ st[nextId] = st0 /\ sub'[nextId] = count
        /\ id \in D \cup {from} => so2[id] = Absent
        /\ id \notin D \cup {from} =>
             so2[id] = (IF id = nextId THEN st0 ELSE store[id])
  BY <1>1 DEF TypeOK, SetAll
<1>5. phase[nextId] = "off" /\ sub[nextId] = 0
  BY <1>1 DEF QueueInv, Uncreated
<1>6. Consistent(m2, st, so2, running, phase, sub', retries)
  <2>1. Consistent(mem, status, store, running, phase, sub, retries)
    BY DEF QueueInv
  <2>2. retries[nextId] >= 0
    BY <1>1, <1>3
  <2> HIDE DEF st, so, m, so2
  <2> QED
    BY <1>4, <1>5, <2>1, <2>2, <1>3 DEF Consistent, Untaken, Absent, m2, m, TypeOK
<1> HIDE DEF st, so, m, so2, m2
<1>7. Consistent(mem', status', store', running', phase', sub', retries')
  BY <1>2, <1>3, <1>6, InstallConsistent DEF m2, so2
<1>8. mem' = m2 /\ \A id \in Id : Untouched(id, st, so2, phase) \/ Picked(id, m2, st)
  BY <1>2, <1>3, InstallEffect DEF m2, so2
<1>9. NoResurrectedSend'
  <2> SUFFICES ASSUME NEW id \in Id, id \notin mem'
               PROVE  store'[id] \notin {"pending", "sending", "held"}
    BY DEF NoResurrectedSend
  <2>1. store'[id] = so2[id]
    BY <1>8 DEF Untouched, Picked
  <2>2. CASE id \in D \cup {from}
    BY <1>4, <2>1, <2>2 DEF Absent
  <2>3. CASE id \notin D \cup {from}
    <3>1. id \notin mem /\ id # nextId
      BY <1>8, <2>3 DEF m2, m
    <3> QED
      BY <1>4, <2>1, <2>3, <3>1 DEF QueueInv, NoResurrectedSend
  <2> QED
    BY <2>2, <2>3
<1>10. Uncreated'
  <2>1. ASSUME NEW id \in Id, id >= nextId'
        PROVE  /\ id \notin mem' /\ store'[id] = Absent /\ phase'[id] = "off"
               /\ sub'[id] = 0 /\ handed'[id] = 0
    <3>1. id >= nextId /\ id # nextId /\ (from # 0 => id # from)
      BY <1>1, <2>1
    <3>2. id \notin mem /\ store[id] = Absent /\ phase[id] = "off" /\ sub[id] = 0 /\ handed[id] = 0
      BY <3>1 DEF QueueInv, Uncreated
    <3>3. id # from
      BY <3>1, ConstAssumption DEF Id
    <3>4. id \notin m2 /\ so2[id] = Absent
      BY <1>4, <3>1, <3>2 DEF m2, m
    <3>5. handed'[id] = 0
      BY <3>2, <3>3 DEF TypeOK
    <3> QED
      BY <1>4, <1>8, <3>1, <3>2, <3>4, <3>5 DEF Untouched, Picked
  <2>2. \A p \in Procs : \A id \in snap'[p] : id < nextId'
    BY <1>1 DEF QueueInv, Uncreated, TypeOK
  <2> QED
    BY <2>1, <2>2 DEF Uncreated
<1>11. DownIsEmpty'
  BY DEF DownIsEmpty, Listening
<1> QED
  BY <1>7, <1>9, <1>10, <1>11 DEF QueueInv

\* The routes
LEMMA RoutesQueueInv == TypeOK /\ QueueInv /\ Routes => QueueInv'
<1> SUFFICES ASSUME TypeOK, QueueInv, Routes PROVE QueueInv'
  OBVIOUS
<1> USE DEF envVars
<1>0. /\ 0 \in 0..MaxMsgs /\ 0 \in 0..MaxEdits
      /\ sub[nextId] = 0 \/ nextId \notin Id
  BY ConstAssumption DEF QueueInv, Uncreated, TypeOK, Id
<1>1. CASE EnqueueMessage
  <2>1. nextId \in Id /\ sub' = [sub EXCEPT ![nextId] = 0]
    BY <1>0, <1>1 DEF EnqueueMessage, Push, TypeOK
  <2> QED
    BY <1>0, <1>1, <2>1, PushQueueInv DEF EnqueueMessage
<1>2. CASE RecordCommandFileMessage
  BY <1>0, <1>2, PushQueueInv DEF RecordCommandFileMessage
<1>3. CASE HoldMessage
  <2>1. nextId \in Id /\ sub' = [sub EXCEPT ![nextId] = 0]
    BY <1>0, <1>3 DEF HoldMessage, Push, TypeOK
  <2> QED
    BY <1>0, <1>3, <2>1, PushQueueInv DEF HoldMessage
<1>4. ASSUME NEW S, NEW why, Remove(S, why), Listening
      PROVE  QueueInv'
  <2>1. mem' = mem \ S /\ store' = SetAll(store, S, Absent)
    BY <1>4 DEF Remove
  <2>2. \A id \in Id : store'[id] = (IF id \in S THEN Absent ELSE store[id])
    BY <2>1 DEF SetAll, TypeOK
  <2>3. UNCHANGED <<nextId, status, running, phase, snap, server, sub, retries, handed>>
    BY <1>4 DEF Remove, workVars
  <2> QED
    BY <2>1, <2>2, <2>3, <1>4
    DEF QueueInv, Consistent, NoResurrectedSend, Uncreated, DownIsEmpty, Listening, Absent
<1>5. CASE ClearResolved
  BY <1>4, <1>5 DEF ClearResolved
<1>6. CASE TakeUndeliveredQueue
  BY <1>4, <1>6 DEF TakeUndeliveredQueue
<1>7. ASSUME NEW id \in Id, UpdateHeldMessage(id) PROVE QueueInv'
  BY <1>7
  DEF UpdateHeldMessage, QueueInv, Consistent, NoResurrectedSend, Uncreated, DownIsEmpty,
      Listening, workVars, histVars
<1>8. ASSUME NEW id \in Id, RemoveHeldMessage(id) PROVE QueueInv'
  BY <1>4, <1>8 DEF RemoveHeldMessage
<1>9. ASSUME NEW id \in Id, RetryMessage(id) PROVE QueueInv'
  <2> DEFINE st == [status EXCEPT ![id] = "pending"]
             so == [store EXCEPT ![id] = "pending"]
  <2>1. /\ st \in [Id -> Status] /\ so \in [Id -> Status] /\ mem \in SUBSET Id
        /\ sub \in [Id -> Nat] /\ retries' \in [Id -> Nat]
    BY <1>9, ConstAssumption DEF TypeOK, Status, Live, RetryMessage
  <2>2. id \in mem /\ status[id] = "failed" /\ Install(TRUE, mem, st, so)
    BY <1>9 DEF RetryMessage, Rows
  <2>3. retries'[id] = retries[id] + 1 /\ retries[id] \in Nat /\ sub[id] \in Nat
        /\ \A other \in Id \ {id} : retries'[other] = retries[other]
    BY <1>9, ConstAssumption DEF RetryMessage, TypeOK
  <2>4. sub[id] <= retries[id] + 1 /\ (phase[id] \in Untaken => sub[id] <= retries[id])
    BY <2>3 DEF QueueInv, Consistent
  <2>5. \A other \in Id \ {id} : st[other] = status[other] /\ so[other] = store[other]
    OBVIOUS
  <2>6. st[id] = "pending" /\ so[id] = "pending"
    BY DEF TypeOK
  <2> HIDE DEF st, so
  <2>7. Consistent(mem, st, so, running, phase, sub, retries')
    BY <2>3, <2>4, <2>5, <2>6 DEF QueueInv, Consistent
  <2>8. Consistent(mem', status', store', running', phase', sub, retries')
    BY <2>1, <2>2, <2>7, InstallConsistent
  <2>9. mem' = mem /\ \A other \in Id : Untouched(other, st, so, phase) \/ Picked(other, mem, st)
    BY <2>1, <2>2, InstallEffect
  <2>10. UNCHANGED <<nextId, snap, server, sub, handed>> /\ Listening
    BY <1>9 DEF RetryMessage
  <2>11. NoResurrectedSend'
    BY <2>2, <2>5, <2>9, <2>10 DEF QueueInv, NoResurrectedSend, Untouched, Picked, Listening
  <2>12. Uncreated'
    BY <2>2, <2>5, <2>9, <2>10 DEF QueueInv, Uncreated, Untouched, Picked
  <2>13. DownIsEmpty'
    BY <2>10 DEF DownIsEmpty, Listening
  <2> QED
    BY <2>8, <2>10, <2>11, <2>12, <2>13 DEF QueueInv
<1> QED
  BY <1>1, <1>2, <1>3, <1>5, <1>6, <1>7, <1>8, <1>9 DEF Routes

\* The held watcher.  A step that writes none of QueueInv's variables keeps it.
LEMMA FrameQueueInv ==
  ASSUME QueueInv,
         UNCHANGED <<nextId, mem, status, store, running, phase, snap, server, sub, retries, handed>>
  PROVE  QueueInv'
BY DEF QueueInv, Consistent, NoResurrectedSend, Uncreated, DownIsEmpty, Listening

\* An attempt inside a delivery moves the row's phase and, once, its count.
LEMMA AttemptQueueInv ==
  ASSUME TypeOK, QueueInv, NEW id \in Id, NEW ph,
         phase[id] # "off", ph # "off",
         ph \in Untaken => phase[id] \in Untaken,
         phase' = [phase EXCEPT ![id] = ph],
         \/ sub' = sub
         \/ /\ sub' = [sub EXCEPT ![id] = @ + 1]
            /\ phase[id] \in Untaken /\ ph \notin Untaken,
         UNCHANGED <<nextId, mem, status, store, running, snap, server, retries, handed>>
  PROVE  QueueInv'
<1>1. sub[id] \in Nat /\ retries[id] \in Nat
  BY ConstAssumption DEF TypeOK
<1>2. /\ sub[id] <= retries[id] + 1
      /\ phase[id] \in Untaken => sub[id] <= retries[id]
      /\ store[id] = "pending" => sub[id] <= retries[id]
      /\ phase[id] \in Untaken /\ store[id] = "pending" => sub[id] < retries[id]
  BY <1>1 DEF QueueInv, Consistent
<1>3. /\ phase'[id] = ph
      /\ \/ sub'[id] = sub[id]
         \/ sub'[id] = sub[id] + 1 /\ phase[id] \in Untaken /\ ph \notin Untaken
      /\ \A other \in Id \ {id} : phase'[other] = phase[other] /\ sub'[other] = sub[other]
  BY DEF TypeOK
<1>4. /\ sub'[id] <= 1 + retries[id]
      /\ store[id] = "pending" => sub'[id] <= retries[id]
      /\ ph \in Untaken => sub'[id] <= retries[id]
      /\ store[id] = "pending" /\ ph \in Untaken => sub'[id] < retries[id]
  BY <1>1, <1>2, <1>3
<1>5. Consistent(mem', status', store', running', phase', sub', retries')
  BY <1>3, <1>4 DEF QueueInv, Consistent
<1>6. Uncreated'
  BY <1>3 DEF QueueInv, Uncreated
<1>7. DownIsEmpty'
  BY <1>3 DEF QueueInv, DownIsEmpty
<1> QED
  BY <1>5, <1>6, <1>7 DEF QueueInv, NoResurrectedSend, Listening

\* The delivery worker
LEMMA WorkerQueueInv == TypeOK /\ QueueInv /\ Worker => QueueInv'
<1> SUFFICES ASSUME TypeOK, QueueInv, NEW id \in Id,
                    \/ DeliverEnter(id) \/ DeliverTypeRetry(id) \/ DeliverAgain(id)
                    \/ DeliverAccept(id) \/ DeliverFail(id)
             PROVE  QueueInv'
  BY DEF Worker
<1> USE DEF envVars, watchVars, histVars
<1>1. CASE DeliverEnter(id)
  <2>1. /\ phase[id] \in {"typing", "retyping"}
        /\ UNCHANGED <<nextId, mem, status, store, running, snap, server, retries, handed>>
    BY <1>1 DEF DeliverEnter, Typing, queueVars
  <2>2. PICK ph \in {"taken", "missed"} :
          /\ phase' = [phase EXCEPT ![id] = ph]
          /\ ph = "missed" => phase[id] = "typing" /\ sub' = sub
          /\ \/ sub' = sub
             \/ sub' = [sub EXCEPT ![id] = @ + 1] /\ phase[id] = "typing" /\ ph = "taken"
    BY <1>1 DEF DeliverEnter
  <2>3. /\ phase[id] # "off" /\ ph # "off"
        /\ ph \in Untaken => phase[id] \in Untaken
        /\ \/ sub' = sub
           \/ /\ sub' = [sub EXCEPT ![id] = @ + 1]
              /\ phase[id] \in Untaken /\ ph \notin Untaken
    BY <2>1, <2>2 DEF Untaken
  <2> QED
    BY <2>1, <2>2, <2>3, AttemptQueueInv
<1>5. CASE DeliverTypeRetry(id)
  BY <1>5, FrameQueueInv DEF DeliverTypeRetry, queueVars, workVars
<1>6. CASE DeliverAgain(id)
  <2>1. /\ phase[id] \in {"missed", "taken"} /\ sub' = sub
        /\ UNCHANGED <<nextId, mem, status, store, running, snap, server, retries, handed>>
    BY <1>6 DEF DeliverAgain, Entered, queueVars
  <2>2. PICK ph \in {"typing", "retyping"} :
          phase' = [phase EXCEPT ![id] = ph] /\ (ph = "typing" => phase[id] = "missed")
    BY <1>6, <2>1 DEF DeliverAgain
  <2>3. phase[id] # "off" /\ ph # "off" /\ (ph \in Untaken => phase[id] \in Untaken)
    BY <2>1, <2>2 DEF Untaken
  <2> QED
    BY <2>1, <2>2, <2>3, AttemptQueueInv
<1>2. ASSUME NEW outcome \in {"queued", "delivered", "failed"}, Settle(id, outcome) PROVE QueueInv'
  <2> DEFINE st == [status EXCEPT ![id] = outcome]
             so == [store EXCEPT ![id] = outcome]
             ph == [phase EXCEPT ![id] = "off"]
  <2>1. /\ st \in [Id -> Status] /\ so \in [Id -> Status] /\ mem \in SUBSET Id
        /\ ph \in [Id -> Phase]
        /\ sub \in [Id -> Nat] /\ retries \in [Id -> Nat]
    BY ConstAssumption DEF TypeOK, Status, Live, Phase
  <2>2. phase[id] # "off" /\ PickNext(mem, st, so, ph)
    BY <1>2 DEF Settle
  <2>3. /\ st[id] = outcome /\ so[id] = outcome /\ ph[id] = "off"
        /\ \A other \in Id \ {id} :
             st[other] = status[other] /\ so[other] = store[other] /\ ph[other] = phase[other]
    BY DEF TypeOK
  <2>4. UNCHANGED <<nextId, snap, server, sub, retries, handed>>
    BY <1>2 DEF Settle
  <2> HIDE DEF st, so, ph
  <2>5. \A other \in Id : ph[other] = "off"
    BY <2>2, <2>3 DEF QueueInv, Consistent
  <2>6. Consistent(mem, st, so, running, ph, sub, retries)
    BY <2>3, <2>5 DEF QueueInv, Consistent, Untaken
  <2>7. Consistent(mem', status', store', running', phase', sub, retries)
    BY <2>1, <2>2, <2>5, <2>6, PickNextConsistent
  <2>8. mem' = mem /\ \A other \in Id : Untouched(other, st, so, ph) \/ Picked(other, mem, st)
    BY <2>1, <2>2, PickNextEffect
  <2>9. Listening /\ id < nextId
    <3>1. Id \subseteq Int /\ nextId \in Int
      BY DEF Id, TypeOK
    <3> QED
      BY <2>2, <3>1 DEF Listening, QueueInv, DownIsEmpty, Uncreated
  <2>10. NoResurrectedSend'
    BY <2>3, <2>4, <2>8, <2>9 DEF QueueInv, NoResurrectedSend, Untouched, Picked, Listening
  <2>11. Uncreated'
    <3>1. ASSUME NEW other \in Id, other >= nextId
          PROVE  /\ other \notin mem' /\ store'[other] = Absent /\ phase'[other] = "off"
                 /\ sub'[other] = 0 /\ handed'[other] = 0
      <4>1. other # id /\ other \notin mem
        BY <2>9, <3>1 DEF QueueInv, Uncreated, Id, TypeOK
      <4> QED
        BY <2>3, <2>4, <2>8, <3>1, <4>1 DEF QueueInv, Uncreated, Untouched, Picked
    <3> QED
      BY <2>4, <3>1 DEF QueueInv, Uncreated
  <2>12. DownIsEmpty'
    BY <2>4, <2>9 DEF DownIsEmpty, Listening
  <2> QED
    BY <2>4, <2>7, <2>10, <2>11, <2>12 DEF QueueInv
<1>3. CASE DeliverAccept(id)
  BY <1>2, <1>3 DEF DeliverAccept
<1>4. CASE DeliverFail(id)
  BY <1>2, <1>4 DEF DeliverFail
<1> QED
  BY <1>1, <1>3, <1>4, <1>5, <1>6

\* A reconcile pass: rows it may still hold a reference to become delivered.
LEMMA ReconcileQueueInv ==
  ASSUME TypeOK, QueueInv, NEW p \in Procs,
         UNCHANGED <<server, running, phase, sub, retries, handed>>
  PROVE  /\ StartReconcile(p) /\ UNCHANGED queueVars => QueueInv'
         /\ Promote(p) \/ GiveUp(p) => QueueInv'
<1> USE DEF queueVars
<1>1. ASSUME StartReconcile(p), UNCHANGED queueVars PROVE QueueInv'
  <2>1. snap' = [snap EXCEPT ![p] = Rows(mem, status, {"queued"})]
    BY <1>1 DEF StartReconcile
  <2>2. \A id \in Rows(mem, status, {"queued"}) : id < nextId
    <3>1. ASSUME NEW id \in mem PROVE id < nextId
      BY DEF QueueInv, Uncreated, TypeOK, Id
    <3> QED
      BY <3>1 DEF Rows
  <2>3. Uncreated'
    BY <1>1, <2>1, <2>2 DEF QueueInv, Uncreated, TypeOK
  <2> QED
    BY <1>1, <2>3 DEF QueueInv, Consistent, NoResurrectedSend, DownIsEmpty, Listening
<1>2. ASSUME Promote(p) PROVE QueueInv'
  <2> DEFINE seen == snap[p] \cap transcript
  <2>1. /\ status' = SetAll(status, seen, "delivered") /\ store' = SetAll(store, seen, "delivered")
        /\ snap' = [snap EXCEPT ![p] = {}] /\ UNCHANGED <<nextId, mem, text>>
    BY <1>2 DEF Promote
  <2>2. \A id \in Id : \/ id \in seen /\ status'[id] = "delivered" /\ store'[id] = "delivered"
                       \/ status'[id] = status[id] /\ store'[id] = store[id]
    BY <2>1 DEF SetAll, TypeOK
  <2>3. \A id \in seen : id < nextId /\ id \in Id
    BY DEF QueueInv, Uncreated, TypeOK
  <2>4. Consistent(mem', status', store', running', phase', sub', retries')
    BY <2>1, <2>2 DEF QueueInv, Consistent
  <2>5. NoResurrectedSend'
    BY <2>1, <2>2 DEF QueueInv, NoResurrectedSend, Listening
  <2>6. Uncreated'
    <3>1. \A id \in Id : id >= nextId => id \notin seen
      BY <2>3 DEF TypeOK, Id
    <3>2. \A q \in Procs : snap'[q] \subseteq snap[q]
      BY <2>1 DEF TypeOK
    <3> QED
      BY <2>1, <2>2, <3>1, <3>2 DEF QueueInv, Uncreated
  <2>7. DownIsEmpty'
    <3> SUFFICES ASSUME server = "down" PROVE mem' = {} /\ status' = store' /\ \A id \in Id : phase'[id] = "off"
      BY DEF DownIsEmpty
    <3> QED
      BY <2>1 DEF QueueInv, DownIsEmpty
  <2> QED
    BY <2>4, <2>5, <2>6, <2>7 DEF QueueInv
<1>3. ASSUME GiveUp(p) PROVE QueueInv'
  <2>1. \A q \in Procs : snap'[q] \subseteq snap[q]
    BY <1>3 DEF GiveUp, TypeOK
  <2>2. Uncreated'
    BY <1>3, <2>1 DEF GiveUp, QueueInv, Uncreated
  <2> QED
    BY <1>3, <2>2 DEF GiveUp, QueueInv, Consistent, NoResurrectedSend, DownIsEmpty, Listening
<1> QED
  BY <1>1, <1>2, <1>3

\* A polling client's reconcile pass preserves it, the late writes included.
LEMMA PollsQueueInv == TypeOK /\ QueueInv /\ Polls => QueueInv'
<1> SUFFICES ASSUME TypeOK, QueueInv, NEW p \in Pollers, PollStart(p) \/ PollEnd(p) PROVE QueueInv'
  BY DEF Polls
<1>1. p \in Procs
  BY DEF Procs
<1>2. UNCHANGED <<server, running, phase, sub, retries, handed>>
  BY DEF PollStart, PollEnd, workVars, envVars, histVars
<1> QED
  BY <1>1, <1>2, ReconcileQueueInv DEF PollStart, PollEnd

\* The held watcher's tick preserves it.
LEMMA WatcherQueueInv == TypeOK /\ QueueInv /\ TickRow /\ Watcher => QueueInv'
<1> SUFFICES ASSUME TypeOK, QueueInv, TickRow, NEW t \in Ticks,
                    \/ TickStart(t) \/ TickReconciled(t) \/ TickProbe(t) \/ TickFreshProbe(t)
                    \/ TickCall(t) \/ TickRelease(t) \/ TickRefused(t)
             PROVE  QueueInv'
  BY DEF Watcher
<1> USE DEF workVars, envVars, histVars
<1>0. t \in Procs
  BY DEF Procs
<1>1. CASE TickStart(t)
  <2>1. UNCHANGED <<nextId, mem, status, store, running, phase, server, sub, retries, handed>>
    BY <1>1 DEF TickStart, queueVars
  <2>2. CASE UNCHANGED snap
    BY <2>1, <2>2, FrameQueueInv
  <2>3. CASE StartReconcile(t)
    BY <1>0, <1>1, <2>1, <2>3, ReconcileQueueInv DEF TickStart
  <2> QED
    BY <1>1, <2>2, <2>3 DEF TickStart
<1>2. CASE TickReconciled(t)
  <2>1. UNCHANGED <<running, phase, server, sub, retries, handed>>
    BY <1>2 DEF TickReconciled
  <2>2. CASE Promote(t) \/ GiveUp(t)
    BY <1>0, <2>1, <2>2, ReconcileQueueInv
  <2>3. CASE UNCHANGED <<queueVars, snap>>
    BY <2>1, <2>3, FrameQueueInv DEF queueVars
  <2> QED
    BY <1>2, <2>2, <2>3 DEF TickReconciled
<1>3. CASE TickProbe(t)
  BY <1>3, FrameQueueInv DEF TickProbe, queueVars
<1>4. CASE TickFreshProbe(t)
  BY <1>4, FrameQueueInv DEF TickFreshProbe, queueVars
<1>5. CASE TickCall(t)
  BY <1>5, FrameQueueInv DEF TickCall, queueVars
<1>6. CASE TickRelease(t)
  <2>1. tick[t].row \in 0..MaxMsgs /\ tick[t].text \in 0..MaxEdits
    BY DEF TypeOK
  <2>2. Listening /\ tick[t].row < nextId
    BY <1>6 DEF TickRelease, TickRow, Listening
  <2> DEFINE st0 == IF CommandFile THEN "queued" ELSE "pending"
             count == IF CommandFile THEN 1 ELSE 0
  <2>3. st0 \in {"pending", "queued", "held"} /\ count \in {0, 1} /\ (st0 = "pending" => count = 0)
    OBVIOUS
  <2>4. /\ Push(st0, tick[t].text, tick[t].row)
        /\ sub' = [sub EXCEPT ![nextId] = count]
        /\ handed' = [handed EXCEPT ![tick[t].row] = @ + 1]
        /\ UNCHANGED <<server, snap, retries>>
    BY <1>6 DEF TickRelease
  <2> HIDE DEF st0, count
  <2> QED
    BY <2>1, <2>2, <2>3, <2>4, PushQueueInv
<1>7. CASE TickRefused(t)
  <2> DEFINE row == tick[t].row
  <2>1. /\ status' = [status EXCEPT ![row] = "failed"] /\ store' = [store EXCEPT ![row] = "failed"]
        /\ UNCHANGED <<nextId, mem, running, phase, snap, server, sub, retries, handed>>
    BY <1>7 DEF TickRefused
  <2>2. row \in Id /\ row < nextId /\ Listening
    BY <1>7 DEF TickRefused, TickRow, Listening
  <2>3. /\ status'[row] = "failed" /\ store'[row] = "failed"
        /\ \A id \in Id \ {row} : status'[id] = status[id] /\ store'[id] = store[id]
    BY <2>1, <2>2 DEF TypeOK
  <2>4. Uncreated'
    <3>1. \A id \in Id : id >= nextId => id # row
      BY <2>2 DEF TypeOK, Id
    <3> QED
      BY <2>1, <2>3, <3>1 DEF QueueInv, Uncreated
  <2>5. Consistent(mem', status', store', running', phase', sub', retries')
    BY <2>1, <2>3 DEF QueueInv, Consistent
  <2> QED
    BY <2>1, <2>2, <2>3, <2>4, <2>5 DEF QueueInv, NoResurrectedSend, DownIsEmpty, Listening
<1> QED
  BY <1>1, <1>2, <1>3, <1>4, <1>5, <1>6, <1>7

\* The server process
LEMMA LoseMemoryQueueInv ==
  ASSUME TypeOK, NEW sto \in [Id -> Status], LoseMemory(sto),
         nextId' \in Int, sub' \in [Id -> Nat], handed' \in [Id -> Nat],
         \A id \in Id :
           /\ sub'[id] <= 1 + retries[id]
           /\ sto[id] = "pending" => sub'[id] <= retries[id]
           /\ id >= nextId' => sto[id] = Absent /\ sub'[id] = 0 /\ handed'[id] = 0
  PROVE  QueueInv'
<1>1. Consistent(mem', status', store', running', phase', sub', retries')
  BY DEF LoseMemory, Consistent, Untaken
<1>2. Uncreated'
  BY DEF LoseMemory, Uncreated
<1> QED
  BY <1>1, <1>2 DEF LoseMemory, QueueInv, NoResurrectedSend, DownIsEmpty, Listening

\* A crash, the boot and resumePersistedQueues preserve it.
LEMMA ProcessQueueInv == TypeOK /\ QueueInv /\ TickRow /\ Process => QueueInv'
<1> SUFFICES ASSUME TypeOK, QueueInv, TickRow, Process PROVE QueueInv'
  OBVIOUS
<1>1. CASE Crash
  <2>1. LoseMemory(store) /\ UNCHANGED <<nextId, sub, handed>>
    BY <1>1 DEF Crash
  <2> QED
    BY <2>1, LoseMemoryQueueInv DEF TypeOK, QueueInv, Consistent, Uncreated
<1>2. ASSUME NEW t \in Ticks, CrashMidRelease(t) PROVE QueueInv'
  <2> DEFINE sent == IF CommandFile THEN "queued" ELSE "pending"
             count == IF CommandFile THEN 1 ELSE 0
             row == tick[t].row
             sto == [store EXCEPT ![nextId] = sent]
  <2>1. /\ nextId \in Id /\ nextId' = nextId + 1 /\ row \in Id /\ row < nextId
        /\ LoseMemory(sto)
        /\ sub' = [sub EXCEPT ![nextId] = count] /\ handed' = [handed EXCEPT ![row] = @ + 1]
    BY <1>2 DEF CrashMidRelease, TickRow
  <2>2. sent \in {"pending", "queued"} /\ count \in {0, 1} /\ (sent = "pending" => count = 0)
    OBVIOUS
  <2> HIDE DEF sent, count
  <2>3. sto \in [Id -> Status] /\ sub' \in [Id -> Nat] /\ handed' \in [Id -> Nat] /\ nextId' \in Int
    BY <2>1, <2>2, HandedType DEF TypeOK, Status, Live, Id
  <2>4. /\ sto[nextId] = sent /\ sub'[nextId] = count
        /\ \A id \in Id \ {nextId} : sto[id] = store[id] /\ sub'[id] = sub[id]
        /\ \A id \in Id \ {row} : handed'[id] = handed[id]
    BY <2>1 DEF TypeOK
  <2>5. ASSUME NEW id \in Id
        PROVE  /\ sub'[id] <= 1 + retries[id]
               /\ sto[id] = "pending" => sub'[id] <= retries[id]
               /\ id >= nextId' => sto[id] = Absent /\ sub'[id] = 0 /\ handed'[id] = 0
    <3>1. retries[id] \in Nat
      BY ConstAssumption DEF TypeOK
    <3>2. CASE id = nextId
      BY <2>1, <2>2, <2>4, <3>1, <3>2 DEF Id
    <3>3. CASE id # nextId
      <4>1. id >= nextId' => id >= nextId /\ id # row
        BY <2>1 DEF Id
      <4> QED
        BY <2>4, <3>1, <3>3, <4>1 DEF QueueInv, Consistent, Uncreated
    <3> QED
      BY <3>2, <3>3
  <2> HIDE DEF sto
  <2> QED
    BY <2>1, <2>3, <2>5, LoseMemoryQueueInv
<1>3. CASE Boot
  <2>1. /\ server = "down" /\ server' = "booting"
        /\ mem' = {id \in Id : store[id] # Absent}
        /\ UNCHANGED <<nextId, status, store, running, phase, snap, sub, retries, handed>>
    BY <1>3 DEF Boot, workVars, histVars
  <2> QED
    BY <2>1
    DEF QueueInv, Consistent, NoResurrectedSend, Uncreated, DownIsEmpty, Listening, Absent
<1>4. CASE ResumePersistedQueues
  <2> DEFINE cut == Rows(mem, status, {"sending"})
             st == SetAll(status, cut, "failed")
             so == SetAll(store, cut, "failed")
  <2>1. /\ server = "booting" /\ server' = "up" /\ Install(TRUE, mem, st, so)
        /\ UNCHANGED <<nextId, snap, sub, retries, handed>>
    BY <1>4 DEF ResumePersistedQueues, histVars
  <2>2. st \in [Id -> Status] /\ so \in [Id -> Status] /\ mem \in SUBSET Id
    BY SetAllType DEF TypeOK, Status, Live
  <2>3. \A id \in Id : \/ id \in cut /\ st[id] = "failed" /\ so[id] = "failed"
                       \/ id \notin cut /\ st[id] = status[id] /\ so[id] = store[id]
    BY DEF SetAll, TypeOK
  <2>4. cut \subseteq mem
    BY DEF Rows
  <2> HIDE DEF st, so, cut
  <2>5. Consistent(mem, st, so, running, phase, sub, retries)
    BY <2>3 DEF QueueInv, Consistent
  <2>6. Consistent(mem', status', store', running', phase', sub', retries')
    <3>1. sub \in [Id -> Nat] /\ retries \in [Id -> Nat]
      BY ConstAssumption DEF TypeOK
    <3>2. Consistent(mem', status', store', running', phase', sub, retries)
      BY <2>1, <2>2, <2>5, <3>1, InstallConsistent
    <3> QED
      BY <2>1, <3>2
  <2>7. mem' = mem /\ \A id \in Id : Untouched(id, st, so, phase) \/ Picked(id, mem, st)
    BY <2>1, <2>2, InstallEffect
  <2>8. NoResurrectedSend'
    BY <2>1, <2>3, <2>4, <2>7 DEF QueueInv, NoResurrectedSend, Untouched, Picked, Listening
  <2>9. Uncreated'
    BY <2>1, <2>3, <2>4, <2>7 DEF QueueInv, Uncreated, Untouched, Picked
  <2> QED
    BY <2>1, <2>6, <2>8, <2>9 DEF QueueInv, DownIsEmpty
<1> QED
  BY <1>1, <1>2, <1>3, <1>4 DEF Process

\* The harness does not touch the queue.
LEMMA HarnessQueueInv == QueueInv /\ Harness => QueueInv'
BY FrameQueueInv DEF Harness, AgentReads, AgentIdles, queueVars, workVars, histVars

\* Every step preserves the invariant of list and table.
LEMMA NextQueueInv == TypeOK /\ QueueInv /\ TickRow /\ [Next]_vars => QueueInv'
<1>1. QueueInv /\ UNCHANGED vars => QueueInv'
  BY FrameQueueInv DEF vars, queueVars, workVars, envVars, histVars
<1> QED
  BY <1>1, RoutesQueueInv, WorkerQueueInv, PollsQueueInv, WatcherQueueInv, ProcessQueueInv,
     HarnessQueueInv DEF Next

-----------------------------------------------------------------------------
\* HeldInv is inductive, given QueueInv

\* At first nothing was handed over.
LEMMA InitHeldInv == Init => HeldInv
BY ConstAssumption DEF Init, HeldInv, TickRow, HandedOncePerBoot, IdleTick, Absent, Id

\* A step that leaves the ticks and the hand-overs alone may append a row and
\* settle others, but holds only a new one.
OnlyNewIsHeld == \A id \in Id : store'[id] = "held" => store[id] = "held" \/ id = nextId

\* A step that neither runs a tick nor hands a row over, and brings no row
\* back to `held', preserves HeldInv.
LEMMA FrameHeldInv ==
  ASSUME TypeOK, QueueInv, HeldInv,
         UNCHANGED <<tick, ticking, handed, crashes>>,
         server' = "down" => server = "down" /\ watching' = watching,
         nextId' \in {nextId, nextId + 1},
         OnlyNewIsHeld
  PROVE  HeldInv'
<1>1. TickRow'
  BY DEF HeldInv, TickRow, TypeOK, Id
<1>2. ASSUME NEW id \in Id, store'[id] = "held" PROVE handed[id] <= crashes
  <2>1. CASE store[id] = "held"
    BY <2>1 DEF HeldInv
  <2>2. CASE id = nextId
    BY <2>2, ConstAssumption DEF QueueInv, Uncreated, TypeOK, Id
  <2> QED
    BY <1>2, <2>1, <2>2 DEF OnlyNewIsHeld
<1> QED
  BY <1>1, <1>2 DEF HeldInv, HandedOncePerBoot

\* An appended row is the only one that can become held.
LEMMA PushHeld ==
  ASSUME TypeOK, NEW st0 \in {"pending", "queued", "held"}, NEW txt, NEW from,
         Push(st0, txt, from)
  PROVE  /\ OnlyNewIsHeld
         /\ from \in Id => store'[from] # "held"
<1> DEFINE m  == mem \cup {nextId}
           st == [status EXCEPT ![nextId] = st0]
           so == [store EXCEPT ![nextId] = st0]
<1>1. nextId \in Id
  BY DEF Push
<1>2. PICK D \in PruneChoices(m, st) :
        Install(st0 = "pending", m \ (D \cup {from}), st, SetAll(so, D \cup {from}, Absent))
  BY DEF Push
<1> DEFINE m2 == m \ (D \cup {from})
           so2 == SetAll(so, D \cup {from}, Absent)
<1>3. st \in [Id -> Status] /\ so2 \in [Id -> Status] /\ m2 \in SUBSET Id
  <2>1. st \in [Id -> Status] /\ so \in [Id -> Status]
    BY DEF TypeOK, Status, Live
  <2>2. so2 \in [Id -> Status]
    BY <2>1, SetAllType DEF Status
  <2> QED
    BY <1>1, <2>1, <2>2 DEF TypeOK
<1>4. \A id \in Id : /\ id \in D \cup {from} => so2[id] = Absent
                     /\ id # nextId => so2[id] \in {Absent, store[id]}
  BY DEF TypeOK, SetAll
<1> HIDE DEF m2, so2, st
<1>5. \A id \in Id : Untouched(id, st, so2, phase) \/ Picked(id, m2, st)
  BY <1>2, <1>3, InstallEffect DEF m2, so2, st
<1> QED
  BY <1>4, <1>5 DEF OnlyNewIsHeld, Untouched, Picked, Absent

\* No request of a client makes a row go out twice.
LEMMA RoutesHeldInv == TypeOK /\ QueueInv /\ HeldInv /\ Routes => HeldInv'
<1> SUFFICES ASSUME TypeOK, QueueInv, HeldInv, Routes PROVE HeldInv'
  OBVIOUS
<1> USE DEF watchVars, envVars, histVars
<1>1. CASE EnqueueMessage
  BY <1>1, PushHeld, FrameHeldInv DEF EnqueueMessage, Push
<1>2. CASE RecordCommandFileMessage
  BY <1>2, PushHeld, FrameHeldInv DEF RecordCommandFileMessage, Push
<1>3. CASE HoldMessage
  BY <1>3, PushHeld, FrameHeldInv DEF HoldMessage, Push, Listening
<1>4. ASSUME NEW S, NEW why, Remove(S, why) PROVE HeldInv'
  <2>1. OnlyNewIsHeld
    BY <1>4 DEF Remove, OnlyNewIsHeld, SetAll, TypeOK, Absent
  <2> QED
    BY <1>4, <2>1, FrameHeldInv DEF Remove
<1>5. CASE ClearResolved
  BY <1>4, <1>5 DEF ClearResolved
<1>6. CASE TakeUndeliveredQueue
  BY <1>4, <1>6 DEF TakeUndeliveredQueue
<1>7. ASSUME NEW id \in Id, UpdateHeldMessage(id) PROVE HeldInv'
  BY <1>7, FrameHeldInv DEF UpdateHeldMessage, OnlyNewIsHeld
<1>8. ASSUME NEW id \in Id, RemoveHeldMessage(id) PROVE HeldInv'
  BY <1>4, <1>8 DEF RemoveHeldMessage
<1>9. ASSUME NEW id \in Id, RetryMessage(id) PROVE HeldInv'
  <2> DEFINE st == [status EXCEPT ![id] = "pending"]
             so == [store EXCEPT ![id] = "pending"]
  <2>1. Install(TRUE, mem, st, so)
    BY <1>9 DEF RetryMessage
  <2>2. /\ st \in [Id -> Status] /\ so \in [Id -> Status] /\ mem \in SUBSET Id
        /\ \A other \in Id : so[other] \in {"pending", store[other]}
    BY DEF TypeOK, Status, Live
  <2> HIDE DEF st, so
  <2>3. \A other \in Id : Untouched(other, st, so, phase) \/ Picked(other, mem, st)
    BY <2>1, <2>2, InstallEffect
  <2>4. OnlyNewIsHeld
    BY <2>2, <2>3 DEF OnlyNewIsHeld, Untouched, Picked
  <2> QED
    BY <1>9, <2>4, FrameHeldInv DEF RetryMessage
<1> QED
  BY <1>1, <1>2, <1>3, <1>5, <1>6, <1>7, <1>8, <1>9 DEF Routes

\* The delivery worker leaves held rows alone.
LEMMA WorkerHeldInv == TypeOK /\ QueueInv /\ HeldInv /\ Worker => HeldInv'
<1> SUFFICES ASSUME TypeOK, QueueInv, HeldInv, NEW id \in Id,
                    \/ DeliverEnter(id) \/ DeliverTypeRetry(id) \/ DeliverAgain(id)
                    \/ DeliverAccept(id) \/ DeliverFail(id)
             PROVE  HeldInv'
  BY DEF Worker
<1> USE DEF watchVars, envVars, histVars, queueVars
<1>1. CASE DeliverEnter(id) \/ DeliverTypeRetry(id) \/ DeliverAgain(id)
  BY <1>1, FrameHeldInv DEF DeliverEnter, DeliverTypeRetry, DeliverAgain, OnlyNewIsHeld
<1>2. ASSUME NEW outcome \in {"queued", "delivered", "failed"}, Settle(id, outcome) PROVE HeldInv'
  <2> DEFINE st == [status EXCEPT ![id] = outcome]
             so == [store EXCEPT ![id] = outcome]
             ph == [phase EXCEPT ![id] = "off"]
  <2>1. PickNext(mem, st, so, ph)
    BY <1>2 DEF Settle
  <2>2. /\ st \in [Id -> Status] /\ so \in [Id -> Status] /\ mem \in SUBSET Id
        /\ ph \in [Id -> Phase]
        /\ \A other \in Id : so[other] \in {outcome, store[other]}
    BY DEF TypeOK, Status, Live, Phase
  <2> HIDE DEF st, so, ph
  <2>3. \A other \in Id : Untouched(other, st, so, ph) \/ Picked(other, mem, st)
    BY <2>1, <2>2, PickNextEffect
  <2>4. OnlyNewIsHeld
    BY <2>2, <2>3 DEF OnlyNewIsHeld, Untouched, Picked
  <2> QED
    BY <1>2, <2>4, FrameHeldInv DEF Settle
<1>3. CASE DeliverAccept(id)
  BY <1>2, <1>3 DEF DeliverAccept
<1>4. CASE DeliverFail(id)
  BY <1>2, <1>4 DEF DeliverFail
<1> QED
  BY <1>1, <1>3, <1>4

\* A reconcile pass never makes a row `held'.
LEMMA ReconcileHeld ==
  ASSUME TypeOK, NEW p \in Procs, Promote(p) \/ GiveUp(p)
  PROVE  OnlyNewIsHeld /\ nextId' = nextId
BY DEF Promote, GiveUp, OnlyNewIsHeld, SetAll, TypeOK, queueVars

\* A polling client's reconcile pass preserves HeldInv.
LEMMA PollsHeldInv == TypeOK /\ QueueInv /\ HeldInv /\ Polls => HeldInv'
<1> SUFFICES ASSUME TypeOK, QueueInv, HeldInv, NEW p \in Pollers, PollStart(p) \/ PollEnd(p)
             PROVE  HeldInv'
  BY DEF Polls
<1> USE DEF watchVars, envVars, histVars, queueVars
<1>1. CASE PollStart(p)
  BY <1>1, FrameHeldInv DEF PollStart, OnlyNewIsHeld
<1>2. CASE PollEnd(p)
  <2>1. p \in Procs
    BY DEF Procs
  <2> QED
    BY <1>2, <2>1, ReconcileHeld, FrameHeldInv DEF PollEnd
<1> QED
  BY <1>1, <1>2

\* A step of the only tick at work: it ends, or moves on short of the handler.
LEMMA TickMoves ==
  ASSUME TypeOK, QueueInv, HeldInv, NEW t \in Ticks,
         UNCHANGED <<handed, crashes, server, nextId>>,
         OnlyNewIsHeld,
         Listening,
         \A u \in Ticks \ {t} : tick[u].pc = "idle",
         \/ EndTick(t)
         \/ ticking' /\ \E pc \in TickPc \ {"handler"} : Goto(t, pc)
  PROVE  HeldInv'
<1>1. \A u \in Ticks \ {t} : tick'[u] = tick[u] /\ tick'[u].pc = "idle"
  BY DEF EndTick, Goto, TypeOK
<1>2. tick'[t].pc # "handler" /\ (tick'[t].pc # "idle" => ticking')
  BY DEF EndTick, Goto, TypeOK, IdleTick
<1>3. \A u \in Ticks : tick'[u].pc # "handler" /\ (tick'[u].pc # "idle" => u = t /\ ticking')
  BY <1>1, <1>2
<1>4. TickRow'
  BY <1>3 DEF TickRow, Listening
<1>5. ASSUME NEW id \in Id, store'[id] = "held" PROVE handed[id] <= crashes
  <2>1. CASE store[id] = "held"
    BY <2>1 DEF HeldInv
  <2>2. CASE id = nextId
    BY <2>2, ConstAssumption DEF QueueInv, Uncreated, TypeOK, Id
  <2> QED
    BY <1>5, <2>1, <2>2 DEF OnlyNewIsHeld
<1> QED
  BY <1>3, <1>4, <1>5 DEF HeldInv, HandedOncePerBoot

\* The held watcher hands a row over once and removes it in the same step.
LEMMA WatcherHeldInv == TypeOK /\ QueueInv /\ HeldInv /\ Watcher => HeldInv'
<1> SUFFICES ASSUME TypeOK, QueueInv, HeldInv, NEW t \in Ticks,
                    \/ TickStart(t) \/ TickReconciled(t) \/ TickProbe(t) \/ TickFreshProbe(t)
                    \/ TickCall(t) \/ TickRelease(t) \/ TickRefused(t)
             PROVE  HeldInv'
  BY DEF Watcher
<1> USE DEF envVars, histVars
<1>1. CASE TickStart(t)
  <2>1. UNCHANGED <<nextId, store, handed, crashes, server>> /\ OnlyNewIsHeld /\ Listening
    BY <1>1 DEF TickStart, queueVars, OnlyNewIsHeld, HeldInv, TickRow, Listening
  <2>2. \A u \in Ticks : tick[u].pc = "idle"
    BY <1>1 DEF TickStart, HeldInv
  <2>3. CASE Held = {}
    BY <1>1, <2>1, <2>3, FrameHeldInv DEF TickStart, Listening
  <2>4. CASE Held # {}
    BY <1>1, <2>1, <2>2, <2>4, TickMoves DEF TickStart, TickPc
  <2> QED
    BY <2>3, <2>4
<1>a. ASSUME tick[t].pc # "idle"
      PROVE  ticking /\ Listening /\ \A u \in Ticks \ {t} : tick[u].pc = "idle"
  BY <1>a DEF HeldInv, TickRow, Listening
<1>2. CASE TickReconciled(t)
  <2>1. ticking /\ Listening /\ \A u \in Ticks \ {t} : tick[u].pc = "idle"
    BY <1>2, <1>a DEF TickReconciled
  <2>2. OnlyNewIsHeld /\ nextId' = nextId
    <3>1. t \in Procs
      BY DEF Procs
    <3>2. CASE UNCHANGED <<queueVars, snap>>
      BY <3>2 DEF OnlyNewIsHeld, queueVars
    <3> QED
      BY <1>2, <3>1, <3>2, ReconcileHeld DEF TickReconciled
  <2>3. EndTick(t) \/ (ticking' /\ \E pc \in TickPc \ {"handler"} : Goto(t, pc))
    BY <1>2, <2>1 DEF TickReconciled, TickPc
  <2> QED
    BY <1>2, <2>1, <2>2, <2>3, TickMoves DEF TickReconciled
<1>3. CASE TickProbe(t)
  <2>1. ticking /\ Listening /\ \A u \in Ticks \ {t} : tick[u].pc = "idle"
    BY <1>3, <1>a DEF TickProbe
  <2>2. OnlyNewIsHeld
    BY <1>3 DEF TickProbe, queueVars, OnlyNewIsHeld
  <2>3. EndTick(t) \/ (ticking' /\ \E pc \in TickPc \ {"handler"} : Goto(t, pc))
    BY <1>3, <2>1 DEF TickProbe, TickPc
  <2> QED
    BY <1>3, <2>1, <2>2, <2>3, TickMoves DEF TickProbe, queueVars
<1>4. CASE TickFreshProbe(t)
  <2>1. ticking /\ Listening /\ \A u \in Ticks \ {t} : tick[u].pc = "idle"
    BY <1>4, <1>a DEF TickFreshProbe
  <2>2. OnlyNewIsHeld
    BY <1>4 DEF TickFreshProbe, queueVars, OnlyNewIsHeld
  <2>3. EndTick(t) \/ (ticking' /\ \E pc \in TickPc \ {"handler"} : Goto(t, pc))
    BY <1>4, <2>1 DEF TickFreshProbe, TickPc
  <2> QED
    BY <1>4, <2>1, <2>2, <2>3, TickMoves DEF TickFreshProbe, queueVars
<1>5. CASE TickCall(t)
  <2>1. ticking /\ Listening /\ \A u \in Ticks \ {t} : tick[u].pc = "idle"
    BY <1>5, <1>a DEF TickCall
  <2>2. OnlyNewIsHeld /\ UNCHANGED <<nextId, store, handed, crashes, server, watching>>
    BY <1>5 DEF TickCall, queueVars, OnlyNewIsHeld
  <2>3. CASE Held = {} \/ server # "up"
    BY <1>5, <2>1, <2>2, <2>3, TickMoves DEF TickCall
  <2>4. CASE ~(Held = {} \/ server # "up")
    <3> DEFINE row == Oldest(Held)
    <3>1. Held \in SUBSET Id /\ Held # {}
      BY <2>4 DEF Held, Rows, TypeOK
    <3>2. row \in Held
      BY <3>1, OldestIsMember
    <3>3. /\ tick' = [tick EXCEPT ![t] = [pc |-> "handler", row |-> row, text |-> text[row]]]
          /\ UNCHANGED ticking
      BY <1>5, <2>4 DEF TickCall
    <3> HIDE DEF row
    <3>4. row \in Id /\ row \in mem /\ status[row] = "held"
      BY <3>1, <3>2 DEF Held, Rows
    <3>5. row < nextId /\ store[row] = "held"
      BY <3>4 DEF QueueInv, Consistent, Uncreated, TypeOK, Id
    <3>6. handed[row] <= crashes
      BY <3>4, <3>5 DEF HeldInv
    <3>7. /\ tick'[t].pc = "handler" /\ tick'[t].row = row
          /\ \A u \in Ticks \ {t} : tick'[u] = tick[u]
      BY <3>3 DEF TypeOK
    <3>8. TickRow'
      BY <2>1, <2>2, <3>4, <3>5, <3>7 DEF HeldInv, TickRow, Listening
    <3> QED
      BY <2>1, <2>2, <3>3, <3>6, <3>7, <3>8 DEF HeldInv, HandedOncePerBoot
  <2> QED
    BY <2>3, <2>4
<1>b. ASSUME EndTick(t), \A u \in Ticks \ {t} : tick[u].pc = "idle"
      PROVE  \A u \in Ticks : tick'[u].pc = "idle"
  BY <1>b DEF EndTick, TypeOK, IdleTick
<1>6. CASE TickRelease(t)
  <2> DEFINE row == tick[t].row
  <2>1. \A u \in Ticks : tick'[u].pc = "idle"
    BY <1>6, <1>a, <1>b DEF TickRelease
  <2>2. row \in Id /\ row < nextId /\ handed[row] <= crashes /\ Listening
    BY <1>6, <1>a DEF TickRelease, HeldInv, TickRow
  <2>3. OnlyNewIsHeld /\ store'[row] # "held"
    <3> DEFINE st0 == IF CommandFile THEN "queued" ELSE "pending"
    <3>1. st0 \in {"pending", "queued", "held"} /\ Push(st0, tick[t].text, row)
      BY <1>6 DEF TickRelease
    <3> HIDE DEF st0, row
    <3> QED
      BY <2>2, <3>1, PushHeld
  <2>4. handed' = [handed EXCEPT ![row] = @ + 1] /\ UNCHANGED <<crashes, server>>
    BY <1>6 DEF TickRelease
  <2> HIDE DEF row
  <2>5. handed'[row] = handed[row] + 1 /\ \A id \in Id \ {row} : handed'[id] = handed[id]
    BY <2>2, <2>4 DEF TypeOK
  <2>6. HandedOncePerBoot'
    BY <2>2, <2>4, <2>5, ConstAssumption DEF HeldInv, HandedOncePerBoot, TypeOK
  <2>7. ASSUME NEW id \in Id, store'[id] = "held" PROVE handed'[id] <= crashes'
    <3>1. id # row /\ (store[id] = "held" \/ id = nextId)
      BY <2>3, <2>7 DEF OnlyNewIsHeld
    <3>2. id = nextId => handed[id] = 0
      BY DEF QueueInv, Uncreated, TypeOK, Id
    <3> QED
      BY <2>4, <2>5, <3>1, <3>2, ConstAssumption DEF HeldInv, TypeOK
  <2>8. TickRow'
    BY <2>1, <2>2, <2>4 DEF TickRow, Listening
  <2> QED
    BY <2>1, <2>6, <2>7, <2>8 DEF HeldInv
<1>7. CASE TickRefused(t)
  <2>1. ticking /\ Listening /\ \A u \in Ticks \ {t} : tick[u].pc = "idle"
    BY <1>7, <1>a DEF TickRefused
  <2>2. OnlyNewIsHeld
    BY <1>7 DEF TickRefused, OnlyNewIsHeld, TypeOK
  <2> QED
    BY <1>7, <2>1, <2>2, TickMoves DEF TickRefused
<1> QED
  BY <1>1, <1>2, <1>3, <1>4, <1>5, <1>6, <1>7

\* Only a crash gives a held row another chance to be handed over.
LEMMA ProcessHeldInv == TypeOK /\ QueueInv /\ HeldInv /\ Process => HeldInv'
<1> SUFFICES ASSUME TypeOK, QueueInv, HeldInv, Process PROVE HeldInv'
  OBVIOUS
<1>a. ASSUME NEW sto, LoseMemory(sto)
      PROVE  /\ \A u \in Ticks : tick'[u].pc = "idle"
             /\ ~watching' /\ crashes' = crashes + 1 /\ crashes \in Nat /\ store' = sto
  BY <1>a, ConstAssumption DEF LoseMemory, IdleTick, TypeOK
<1>1. CASE Crash
  <2>1. LoseMemory(store) /\ handed' = handed
    BY <1>1 DEF Crash
  <2> QED
    BY <1>a, <2>1, ConstAssumption DEF HeldInv, TickRow, HandedOncePerBoot, TypeOK
<1>2. ASSUME NEW t \in Ticks, CrashMidRelease(t) PROVE HeldInv'
  <2> DEFINE row == tick[t].row
             sto == [store EXCEPT ![nextId] = IF CommandFile THEN "queued" ELSE "pending"]
  <2>1. /\ LoseMemory(sto) /\ row \in Id /\ handed[row] <= crashes
        /\ handed' = [handed EXCEPT ![row] = @ + 1]
    BY <1>2 DEF CrashMidRelease, HeldInv, TickRow
  <2>2. \A id \in Id : sto[id] = "held" => store[id] = "held"
    BY DEF TypeOK
  <2> HIDE DEF row, sto
  <2>3. \A id \in Id : handed'[id] \in {handed[id], handed[id] + 1} /\ (id # row => handed'[id] = handed[id])
    BY <2>1 DEF TypeOK
  <2>4. \A id \in Id : handed[id] \in Nat
    BY DEF TypeOK
  <2>5. \A id \in Id : handed'[id] <= 1 + crashes'
    BY <1>a, <2>1, <2>3, <2>4 DEF HeldInv, HandedOncePerBoot
  <2>6. \A id \in Id : store'[id] = "held" => handed'[id] <= crashes'
    BY <1>a, <2>1, <2>2, <2>3, <2>4 DEF HeldInv
  <2> QED
    BY <1>a, <2>1, <2>5, <2>6 DEF HeldInv, TickRow, HandedOncePerBoot
<1>3. CASE Boot
  BY <1>3, FrameHeldInv DEF Boot, OnlyNewIsHeld, watchVars, histVars
<1>4. CASE ResumePersistedQueues
  <2> DEFINE cut == Rows(mem, status, {"sending"})
             st == SetAll(status, cut, "failed")
             so == SetAll(store, cut, "failed")
  <2>1. Install(TRUE, mem, st, so)
    BY <1>4 DEF ResumePersistedQueues
  <2>2. st \in [Id -> Status] /\ so \in [Id -> Status] /\ mem \in SUBSET Id
    BY SetAllType DEF TypeOK, Status, Live
  <2>3. \A id \in Id : so[id] \in {"failed", store[id]}
    BY DEF SetAll, TypeOK
  <2> HIDE DEF st, so
  <2>4. \A id \in Id : Untouched(id, st, so, phase) \/ Picked(id, mem, st)
    BY <2>1, <2>2, InstallEffect
  <2>5. OnlyNewIsHeld
    BY <2>3, <2>4 DEF OnlyNewIsHeld, Untouched, Picked
  <2> QED
    BY <1>4, <2>5, FrameHeldInv DEF ResumePersistedQueues, histVars
<1> QED
  BY <1>1, <1>2, <1>3, <1>4 DEF Process

\* Every step preserves HeldInv.
LEMMA NextHeldInv == TypeOK /\ QueueInv /\ HeldInv /\ [Next]_vars => HeldInv'
<1> SUFFICES ASSUME TypeOK, QueueInv, HeldInv, [Next]_vars PROVE HeldInv'
  OBVIOUS
<1>1. CASE Harness
  BY <1>1, FrameHeldInv
  DEF Harness, AgentReads, AgentIdles, OnlyNewIsHeld, queueVars, watchVars, histVars
<1>2. CASE UNCHANGED vars
  BY <1>2, FrameHeldInv DEF OnlyNewIsHeld, vars, queueVars, watchVars, envVars, histVars
<1> QED
  BY <1>1, <1>2, RoutesHeldInv, WorkerHeldInv, PollsHeldInv, WatcherHeldInv, ProcessHeldInv DEF Next

-----------------------------------------------------------------------------
\* What follows

\* Both inductive invariants hold in every reachable state.
THEOREM Invariants == Spec => [](TypeOK /\ QueueInv /\ HeldInv)
<1>1. Init => TypeOK /\ QueueInv /\ HeldInv
  BY InitType, InitQueueInv, InitHeldInv
<1>2. TypeOK /\ QueueInv /\ HeldInv /\ [Next]_vars => (QueueInv /\ HeldInv)'
  BY NextQueueInv, NextHeldInv DEF HeldInv
<1> QED
  BY <1>1, <1>2, TypeCorrect, PTL DEF Spec

\* One delivery at a time per session, whatever kicks the worker.
THEOREM OneDeliveryHolds == Spec => []OneDelivery
<1>1. QueueInv => OneDelivery
  BY DEF QueueInv, Consistent, OneDelivery
<1> QED
  BY <1>1, Invariants, PTL

\* The list a client sees is what a restart would reload.
THEOREM StoreMirrorsMemoryHolds == Spec => []StoreMirrorsMemory
<1>1. TypeOK /\ QueueInv => StoreMirrorsMemory
  BY DEF QueueInv, Consistent, StoreMirrorsMemory, TypeOK
<1> QED
  BY <1>1, Invariants, PTL

\* A row that left the list is never again something a restart would send.
THEOREM NoResurrectedSendHolds == Spec => []NoResurrectedSend
<1>1. QueueInv => NoResurrectedSend
  BY DEF QueueInv
<1> QED
  BY <1>1, Invariants, PTL

\* The agent gets a text from at most one delivery for each time a person asked.
THEOREM NoRedeliveryHolds == Spec => []NoRedelivery
<1>1. QueueInv => NoRedelivery
  BY DEF QueueInv, Consistent, NoRedelivery
<1> QED
  BY <1>1, Invariants, PTL

\* Only a crash in the middle of its release hands a held row over again.
THEOREM HandedOncePerBootHolds == Spec => []HandedOncePerBoot
<1>1. HeldInv => HandedOncePerBoot
  BY DEF HeldInv
<1> QED
  BY <1>1, Invariants, PTL

-----------------------------------------------------------------------------
\* No row is stranded

\* A step keeps everybody attended if each held or pending row of the new list
\* was one before or has its watcher or worker, and these stop only without rows.
LEMMA FrameAttended ==
  ASSUME TypeOK, Attended,
         server' = "up" => server = "up",
         \A id \in mem' :
           /\ status'[id] = "held" => watching' \/ (id \in mem /\ status[id] = "held")
           /\ status'[id] = "pending" => running' \/ (id \in mem /\ status[id] = "pending"),
         watching => watching' \/ Held = {},
         running => running' \/ \A id \in mem' : status'[id] # "pending"
  PROVE  Attended'
<1>1. HeldIsWatched'
  <2> SUFFICES ASSUME server' = "up", NEW id \in mem', status'[id] = "held" PROVE watching'
    BY DEF HeldIsWatched, Held, Rows
  <2>1. id \in mem /\ status[id] = "held" => Held # {}
    BY DEF Held, Rows
  <2> QED
    BY <2>1 DEF Attended, HeldIsWatched
<1>2. PendingHasWorker'
  <2> SUFFICES ASSUME server' = "up", NEW id \in mem', status'[id] = "pending" PROVE running'
    BY DEF PendingHasWorker, Rows
  <2>1. id \in mem /\ status[id] = "pending" => Rows(mem, status, {"pending"}) # {}
    BY DEF Rows
  <2> QED
    BY <2>1 DEF Attended, PendingHasWorker
<1> QED
  BY <1>1, <1>2 DEF Attended

\* An appended row brings its worker if it is pending.
LEMMA PushAttended ==
  ASSUME TypeOK, NEW st0 \in {"pending", "queued", "held"}, NEW txt, NEW from,
         Push(st0, txt, from)
  PROVE  /\ \A id \in mem' :
              /\ status'[id] = "held" => (id \in mem /\ status[id] = "held") \/ st0 = "held"
              /\ status'[id] = "pending" => running' \/ (id \in mem /\ status[id] = "pending")
         /\ running => running'
<1> DEFINE m  == mem \cup {nextId}
           st == [status EXCEPT ![nextId] = st0]
           so == [store EXCEPT ![nextId] = st0]
<1>1. nextId \in Id
  BY DEF Push
<1>2. PICK D \in PruneChoices(m, st) :
        Install(st0 = "pending", m \ (D \cup {from}), st, SetAll(so, D \cup {from}, Absent))
  BY DEF Push
<1> DEFINE m2 == m \ (D \cup {from})
           so2 == SetAll(so, D \cup {from}, Absent)
<1>3. st \in [Id -> Status] /\ so2 \in [Id -> Status] /\ m2 \in SUBSET Id
  <2>1. st \in [Id -> Status] /\ so \in [Id -> Status]
    BY DEF TypeOK, Status, Live
  <2>2. so2 \in [Id -> Status]
    BY <2>1, SetAllType DEF Status
  <2> QED
    BY <1>1, <2>1, <2>2 DEF TypeOK
<1>4. st[nextId] = st0 /\ \A id \in Id \ {nextId} : st[id] = status[id]
  BY <1>1 DEF TypeOK
<1>5. m2 \subseteq mem \cup {nextId}
  OBVIOUS
<1> HIDE DEF m2, so2, st
<1>6. /\ mem' = m2
      /\ \A id \in Id : Untouched(id, st, so2, phase) \/ Picked(id, m2, st)
      /\ st0 = "pending" => running' \/ \A id \in m2 : st[id] # "pending"
      /\ running => running'
  BY <1>2, <1>3, InstallEffect DEF m2, so2, st
<1>7. ASSUME NEW id \in mem'
      PROVE  /\ status'[id] = "held" => (id \in mem /\ status[id] = "held") \/ st0 = "held"
             /\ status'[id] = "pending" => running' \/ (id \in mem /\ status[id] = "pending")
  <2>1. id \in Id /\ id \in m2 /\ (id \in mem \/ id = nextId)
    BY <1>3, <1>5, <1>6, <1>7
  <2>2. status'[id] \in {"held", "pending"} => status'[id] = st[id]
    BY <1>6, <2>1 DEF Untouched, Picked
  <2> QED
    BY <1>4, <1>6, <2>1, <2>2
<1> QED
  BY <1>6, <1>7

\* A request that leaves a held or a pending row leaves its watcher or worker
\* too.
LEMMA RoutesAttended == TypeOK /\ Attended /\ Routes => Attended'
<1> SUFFICES ASSUME TypeOK, Attended, Routes PROVE Attended'
  OBVIOUS
<1> USE DEF watchVars, workVars, envVars, histVars
<1>1. CASE EnqueueMessage
  BY <1>1, PushAttended, FrameAttended DEF EnqueueMessage
<1>2. CASE RecordCommandFileMessage
  BY <1>2, PushAttended, FrameAttended DEF RecordCommandFileMessage
<1>3. CASE HoldMessage
  BY <1>3, PushAttended, FrameAttended DEF HoldMessage
<1>4. ASSUME NEW S, NEW why, Remove(S, why) PROVE Attended'
  BY <1>4, FrameAttended DEF Remove
<1>5. CASE ClearResolved
  BY <1>4, <1>5 DEF ClearResolved
<1>6. CASE TakeUndeliveredQueue
  BY <1>4, <1>6 DEF TakeUndeliveredQueue
<1>7. ASSUME NEW id \in Id, UpdateHeldMessage(id) PROVE Attended'
  BY <1>7, FrameAttended DEF UpdateHeldMessage
<1>8. ASSUME NEW id \in Id, RemoveHeldMessage(id) PROVE Attended'
  BY <1>4, <1>8 DEF RemoveHeldMessage
<1>9. ASSUME NEW id \in Id, RetryMessage(id) PROVE Attended'
  <2> DEFINE st == [status EXCEPT ![id] = "pending"]
             so == [store EXCEPT ![id] = "pending"]
  <2>1. Install(TRUE, mem, st, so)
    BY <1>9 DEF RetryMessage
  <2>2. /\ st \in [Id -> Status] /\ so \in [Id -> Status] /\ mem \in SUBSET Id
        /\ \A other \in Id : st[other] \in {"pending", status[other]}
    BY DEF TypeOK, Status, Live
  <2> HIDE DEF st, so
  <2>3. /\ mem' = mem
        /\ \A other \in Id : Untouched(other, st, so, phase) \/ Picked(other, mem, st)
        /\ running' \/ \A other \in mem : st[other] # "pending"
        /\ running => running'
    BY <2>1, <2>2, InstallEffect
  <2>4. \A other \in mem' :
          /\ status'[other] = "held" => watching' \/ (other \in mem /\ status[other] = "held")
          /\ status'[other] = "pending" => running'
    BY <2>2, <2>3 DEF Untouched, Picked
  <2> QED
    BY <1>9, <2>3, <2>4, FrameAttended DEF RetryMessage
<1> QED
  BY <1>1, <1>2, <1>3, <1>5, <1>6, <1>7, <1>8, <1>9 DEF Routes

\* The worker's loop ends only when no row is pending.
LEMMA WorkerAttended == TypeOK /\ Attended /\ Worker => Attended'
<1> SUFFICES ASSUME TypeOK, Attended, NEW id \in Id,
                    \/ DeliverEnter(id) \/ DeliverTypeRetry(id) \/ DeliverAgain(id)
                    \/ DeliverAccept(id) \/ DeliverFail(id)
             PROVE  Attended'
  BY DEF Worker
<1> USE DEF watchVars, envVars
<1>1. CASE DeliverEnter(id) \/ DeliverTypeRetry(id) \/ DeliverAgain(id)
  BY <1>1, FrameAttended DEF DeliverEnter, DeliverTypeRetry, DeliverAgain, queueVars, workVars
<1>2. ASSUME NEW outcome \in {"queued", "delivered", "failed"}, Settle(id, outcome) PROVE Attended'
  <2> DEFINE st == [status EXCEPT ![id] = outcome]
             so == [store EXCEPT ![id] = outcome]
             ph == [phase EXCEPT ![id] = "off"]
  <2>1. PickNext(mem, st, so, ph)
    BY <1>2 DEF Settle
  <2>2. /\ st \in [Id -> Status] /\ so \in [Id -> Status] /\ mem \in SUBSET Id
        /\ ph \in [Id -> Phase]
        /\ \A other \in Id : st[other] \in {outcome, status[other]}
    BY DEF TypeOK, Status, Live, Phase
  <2> HIDE DEF st, so, ph
  <2>3. /\ mem' = mem
        /\ \A other \in Id : Untouched(other, st, so, ph) \/ Picked(other, mem, st)
        /\ running' \/ \A other \in mem : st[other] # "pending" /\ status'[other] = st[other]
    BY <2>1, <2>2, PickNextEffect DEF Untouched
  <2>4. \A other \in mem' :
          /\ status'[other] = "held" => other \in mem /\ status[other] = "held"
          /\ status'[other] = "pending" => running'
    BY <2>2, <2>3 DEF Untouched, Picked
  <2> QED
    BY <1>2, <2>3, <2>4, FrameAttended DEF Settle
<1>3. CASE DeliverAccept(id)
  BY <1>2, <1>3 DEF DeliverAccept
<1>4. CASE DeliverFail(id)
  BY <1>2, <1>4 DEF DeliverFail
<1> QED
  BY <1>1, <1>3, <1>4

\* A pass only makes rows delivered.
LEMMA ReconcileAttended ==
  ASSUME TypeOK, NEW p \in Procs, Promote(p) \/ GiveUp(p)
  PROVE  mem' = mem /\ \A id \in mem' : status'[id] \in {"delivered", status[id]}
BY DEF Promote, GiveUp, SetAll, TypeOK, queueVars

\* A reconcile pass creates neither held nor pending rows.
LEMMA PollsAttended == TypeOK /\ Attended /\ Polls => Attended'
<1> SUFFICES ASSUME TypeOK, Attended, NEW p \in Pollers, PollStart(p) \/ PollEnd(p) PROVE Attended'
  BY DEF Polls
<1> USE DEF watchVars, workVars, envVars
<1>1. CASE PollStart(p)
  BY <1>1, FrameAttended DEF PollStart, queueVars
<1>2. CASE PollEnd(p)
  <2>1. p \in Procs
    BY DEF Procs
  <2> QED
    BY <1>2, <2>1, ReconcileAttended, FrameAttended DEF PollEnd
<1> QED
  BY <1>1, <1>2

\* The watcher stops only when no row is held; a release on a tmux session
\* kicks the worker.
LEMMA WatcherAttended == TypeOK /\ Attended /\ Watcher => Attended'
<1> SUFFICES ASSUME TypeOK, Attended, NEW t \in Ticks,
                    \/ TickStart(t) \/ TickReconciled(t) \/ TickProbe(t) \/ TickFreshProbe(t)
                    \/ TickCall(t) \/ TickRelease(t) \/ TickRefused(t)
             PROVE  Attended'
  BY DEF Watcher
<1> USE DEF workVars, envVars
<1>1. CASE TickStart(t)
  BY <1>1, FrameAttended DEF TickStart, queueVars
<1>2. CASE TickReconciled(t)
  <2>1. t \in Procs
    BY DEF Procs
  <2>2. mem' = mem /\ \A id \in mem' : status'[id] \in {"delivered", status[id]}
    BY <1>2, <2>1, ReconcileAttended DEF TickReconciled, queueVars
  <2> QED
    BY <1>2, <2>2, FrameAttended DEF TickReconciled
<1>3. CASE TickProbe(t) \/ TickFreshProbe(t) \/ TickCall(t)
  BY <1>3, FrameAttended DEF TickProbe, TickFreshProbe, TickCall, queueVars
<1>4. CASE TickRelease(t)
  <2> DEFINE st0 == IF CommandFile THEN "queued" ELSE "pending"
  <2>1. st0 \in {"pending", "queued", "held"} /\ st0 # "held" /\ Push(st0, tick[t].text, tick[t].row)
    BY <1>4 DEF TickRelease
  <2> HIDE DEF st0
  <2> QED
    BY <1>4, <2>1, PushAttended, FrameAttended DEF TickRelease
<1>5. CASE TickRefused(t)
  <2>1. \A id \in mem : status'[id] \in {"failed", status[id]}
    BY <1>5 DEF TickRefused, TypeOK
  <2> QED
    BY <1>5, <2>1, FrameAttended DEF TickRefused
<1> QED
  BY <1>1, <1>2, <1>3, <1>4, <1>5

\* The boot restores the watcher and the worker before the server is up.
LEMMA ProcessAttended == TypeOK /\ Attended /\ Process => Attended'
<1> SUFFICES ASSUME TypeOK, Attended, Process PROVE Attended'
  OBVIOUS
<1>1. CASE server' # "up"
  BY <1>1 DEF Attended, HeldIsWatched, PendingHasWorker
<1>2. CASE ResumePersistedQueues
  <2> DEFINE cut == Rows(mem, status, {"sending"})
             st == SetAll(status, cut, "failed")
             so == SetAll(store, cut, "failed")
  <2>1. Install(TRUE, mem, st, so) /\ watching' = (watching \/ Held # {})
    BY <1>2 DEF ResumePersistedQueues
  <2>2. st \in [Id -> Status] /\ so \in [Id -> Status] /\ mem \in SUBSET Id
    BY SetAllType DEF TypeOK, Status, Live
  <2>3. \A id \in Id : st[id] \in {"failed", status[id]}
    BY DEF SetAll, TypeOK
  <2> HIDE DEF st, so
  <2>4. /\ mem' = mem
        /\ \A id \in Id : Untouched(id, st, so, phase) \/ Picked(id, mem, st)
        /\ running' \/ \A id \in mem : st[id] # "pending"
    BY <2>1, <2>2, InstallEffect
  <2>5. \A id \in mem' : status'[id] = "held" => watching'
    BY <2>1, <2>2, <2>3, <2>4 DEF Untouched, Picked, Held, Rows
  <2>6. \A id \in mem' : status'[id] = "pending" => running'
    BY <2>2, <2>4 DEF Untouched, Picked
  <2> QED
    BY <2>5, <2>6 DEF Attended, HeldIsWatched, PendingHasWorker, Held, Rows
<1> QED
  BY <1>1, <1>2 DEF Process, Crash, CrashMidRelease, LoseMemory, Boot

\* A held row has a watcher and a pending row a worker, whenever the server is up.
THEOREM AttendedHolds == Spec => [](HeldIsWatched /\ PendingHasWorker)
<1>1. Init => Attended
  BY DEF Init, Attended, HeldIsWatched, PendingHasWorker, Held, Rows
<1>2. TypeOK /\ Attended /\ [Next]_vars => Attended'
  <2>1. TypeOK /\ Attended /\ Harness => Attended'
    BY FrameAttended DEF Harness, AgentReads, AgentIdles, queueVars, workVars, watchVars
  <2>2. TypeOK /\ Attended /\ UNCHANGED vars => Attended'
    BY FrameAttended DEF vars, queueVars, workVars, watchVars, envVars
  <2> QED
    BY <2>1, <2>2, RoutesAttended, WorkerAttended, PollsAttended, WatcherAttended,
       ProcessAttended DEF Next
<1> QED
  BY <1>1, <1>2, TypeCorrect, PTL DEF Spec, Attended

-----------------------------------------------------------------------------
(***************************************************************************)
(* The held rows of a command-file session: one release at a time, and     *)
(* none on the turn of the one before.                                     *)
(*                                                                         *)
(* The argument follows the two gates of watchHeld.  The in-flight gate    *)
(* says that no released row is `queued' from the gate to the end of the   *)
(* tick, and a released row stays `queued' until the agent reads it; so    *)
(* past the gate every earlier release has been read.  The fresh probe     *)
(* says that the agent has been idle since, so their turns have ended.     *)
(***************************************************************************)

\* The worker only runs for rows their user retried: the harness owns delivery.
WorkIsRetried(sto, ph, rt) ==
  \A id \in Id :
    /\ ph[id] # "off" => ph[id] = "typing" /\ rt[id] > 0 /\ sto[id] # "queued"
    /\ sto[id] \in {"pending", "sending"} => rt[id] > 0

\* Once the server listens, a queued row of the table is in the list.
QueuedIsListed == Listening => \A id \in Id \ mem : store[id] # "queued"

\* A released row the agent has yet to read.
QueuedRelease(id) == store[id] = "queued" /\ origin[id] # 0

PastGate == {"probe", "fresh", "call", "handler"}
PastProbe == {"call", "handler"}

TurnInv ==
  /\ WorkIsRetried(store, phase, retries)
  /\ QueuedIsListed
  /\ \A a, b \in Id : QueuedRelease(a) /\ QueuedRelease(b) => a = b
  /\ \A t \in Ticks : tick[t].pc \in PastGate => \A id \in Id : ~QueuedRelease(id)
  /\ \A id \in Id :
       /\ origin[id] # 0 /\ id \notin transcript /\ gone[id] = "no" => store[id] = "queued"
       /\ store[id] = "held" => origin[id] = 0
       /\ id >= nextId => origin[id] = 0
  /\ \A t \in Ticks : tick[t].pc = "handler" => origin[tick[t].row] = 0
  /\ ~busy => ended = transcript
  /\ \A t \in Ticks : tick[t].pc \in PastProbe =>
       \A id \in transcript : origin[id] # 0 /\ gone[id] = "no" => id \in ended

-----------------------------------------------------------------------------
\* Steps that leave the ticks, the origins and the agent's turns alone

\* Queued rows come and go only as they may: a new release is not among them, a
\* row leaves `queued' only when it was read or its user let it go.
QueuedStep ==
  \A id \in Id :
    /\ store'[id] = "queued" => store[id] = "queued" \/ origin[id] = 0
    /\ store[id] = "queued" /\ id \notin transcript /\ gone'[id] = "no" => store'[id] = "queued"
    /\ store'[id] = "held" => store[id] = "held" \/ id = nextId
    /\ gone'[id] = "no" => gone[id] = "no"

\* A step that leaves ticks, origins and turns alone preserves TurnInv if it
\* treats queued rows as QueuedStep says.
LEMMA FrameTurnInv ==
  ASSUME TypeOK, TurnInv, QueuedStep,
         UNCHANGED <<tick, origin, transcript, busy, ended>>,
         nextId' \in {nextId, nextId + 1},
         WorkIsRetried(store', phase', retries'),
         QueuedIsListed'
  PROVE  TurnInv'
<1>1. \A id \in Id : QueuedRelease(id)' => QueuedRelease(id)
  BY DEF QueuedRelease, QueuedStep
<1>2. \A a, b \in Id : QueuedRelease(a)' /\ QueuedRelease(b)' => a = b
  BY <1>1 DEF TurnInv
<1>3. \A t \in Ticks : tick'[t].pc \in PastGate => \A id \in Id : ~QueuedRelease(id)'
  BY <1>1 DEF TurnInv
<1>4. \A id \in Id :
        /\ origin'[id] # 0 /\ id \notin transcript' /\ gone'[id] = "no" => store'[id] = "queued"
        /\ store'[id] = "held" => origin'[id] = 0
        /\ id >= nextId' => origin'[id] = 0
  <2> SUFFICES ASSUME NEW id \in Id
               PROVE  /\ origin'[id] # 0 /\ id \notin transcript' /\ gone'[id] = "no" => store'[id] = "queued"
                      /\ store'[id] = "held" => origin'[id] = 0
                      /\ id >= nextId' => origin'[id] = 0
    OBVIOUS
  <2>1. origin[id] # 0 /\ id \notin transcript /\ gone'[id] = "no" => store'[id] = "queued"
    BY DEF TurnInv, QueuedStep
  <2>2. store'[id] = "held" => origin[id] = 0
    <3>1. id >= nextId => origin[id] = 0
      BY DEF TurnInv
    <3>2. id = nextId => id >= nextId
      BY DEF TypeOK, Id
    <3> QED
      BY <3>1, <3>2 DEF TurnInv, QueuedStep
  <2>3. id >= nextId' => id >= nextId
    BY DEF TypeOK, Id
  <2> QED
    BY <2>1, <2>2, <2>3 DEF TurnInv
<1>5. \A t \in Ticks : tick'[t].pc \in PastProbe =>
        \A id \in transcript' : origin'[id] # 0 /\ gone'[id] = "no" => id \in ended'
  <2>1. \A id \in transcript : id \in Id
    BY DEF TypeOK
  <2> QED
    BY <2>1 DEF TurnInv, QueuedStep
<1> QED
  BY <1>2, <1>3, <1>4, <1>5 DEF TurnInv

\* Starting a worker: the rows it is given decide.
Mirrored(m, st, sto) == \A id \in m : sto[id] = st[id]
KeptOrSent(sto) ==
  \A id \in Id : store'[id] = sto[id] \/ (store'[id] = "sending" /\ sto[id] = "pending")

\* kick() only starts the worker on rows a user retried.
LEMMA InstallWork ==
  ASSUME TypeOK, NEW kicked, NEW m \in SUBSET Id,
         NEW st \in [Id -> Status], NEW sto \in [Id -> Status], NEW rt \in [Id -> Nat],
         Install(kicked, m, st, sto),
         WorkIsRetried(sto, phase, rt),
         Mirrored(m, st, sto)
  PROVE  WorkIsRetried(store', phase', rt) /\ mem' = m /\ KeptOrSent(sto)
<1>1. mem' = m /\ \A id \in Id : Untouched(id, st, sto, phase) \/ Picked(id, m, st)
  BY InstallEffect
<1> QED
  BY <1>1 DEF WorkIsRetried, Untouched, Picked, Mirrored, KeptOrSent

\* An appended row of a command-file session is queued or held: it starts nothing.
LEMMA PushTurn ==
  ASSUME TypeOK, QueueInv, TurnInv,
         NEW st0 \in {"queued", "held"}, NEW txt, NEW from,
         Push(st0, txt, from)
  PROVE  /\ nextId \in Id /\ nextId' = nextId + 1
         /\ UNCHANGED workVars
         /\ \E D \in SUBSET Id :
              /\ mem' = (mem \cup {nextId}) \ (D \cup {from})
              /\ \A id \in Id :
                   /\ id \in D \cup {from} => store'[id] = Absent
                   /\ id \notin D \cup {from} =>
                        store'[id] = (IF id = nextId THEN st0 ELSE store[id])
                   /\ id \in D => id # nextId /\ store[id] = "delivered"
<1> DEFINE m  == mem \cup {nextId}
           st == [status EXCEPT ![nextId] = st0]
           so == [store EXCEPT ![nextId] = st0]
<1>1. nextId \in Id /\ nextId' = nextId + 1
  BY DEF Push
<1>2. PICK D \in PruneChoices(m, st) :
        Install(st0 = "pending", m \ (D \cup {from}), st, SetAll(so, D \cup {from}, Absent))
  BY DEF Push
<1>3. /\ D \subseteq Rows(m, st, {"delivered"})
      /\ UNCHANGED workVars
      /\ mem' = m \ (D \cup {from}) /\ store' = SetAll(so, D \cup {from}, Absent)
  BY <1>2 DEF PruneChoices, Install
<1>4. D \subseteq Id
  BY <1>1, <1>3 DEF Rows, TypeOK
<1>5. ASSUME NEW id \in D PROVE id # nextId /\ store[id] = "delivered"
  <2>1. st[id] = "delivered" /\ id \in m
    BY <1>3, <1>5 DEF Rows
  <2>2. id # nextId
    BY <1>1, <2>1 DEF TypeOK
  <2>3. id \in mem /\ status[id] = "delivered" /\ id \in Id
    BY <1>4, <1>5, <2>1, <2>2 DEF TypeOK
  <2> QED
    BY <2>2, <2>3 DEF QueueInv, Consistent
<1>6. \A id \in Id :
        /\ id \in D \cup {from} => store'[id] = Absent
        /\ id \notin D \cup {from} => store'[id] = (IF id = nextId THEN st0 ELSE store[id])
  BY <1>1, <1>3 DEF SetAll, TypeOK
<1> QED
  BY <1>1, <1>3, <1>4, <1>5, <1>6

\* The routes preserve TurnInv on a command-file session.
LEMMA RoutesTurnInv == CommandFile /\ TypeOK /\ QueueInv /\ TurnInv /\ Routes => TurnInv'
<1> SUFFICES ASSUME CommandFile, TypeOK, QueueInv, TurnInv, Routes PROVE TurnInv'
  OBVIOUS
<1> USE DEF watchVars, envVars, histVars
<1>1. ASSUME NEW st0 \in {"queued", "held"}, Push(st0, 0, 0), Listening,
             UNCHANGED <<tick, transcript, busy, ended, gone, retries, server>>
      PROVE  TurnInv'
  <2>1. PICK D \in SUBSET Id :
          /\ mem' = (mem \cup {nextId}) \ (D \cup {0})
          /\ \A id \in Id :
               /\ id \in D \cup {0} => store'[id] = Absent
               /\ id \notin D \cup {0} =>
                    store'[id] = (IF id = nextId THEN st0 ELSE store[id])
               /\ id \in D => id # nextId /\ store[id] = "delivered"
    BY <1>1, PushTurn
  <2>2. nextId \in Id /\ nextId' = nextId + 1 /\ UNCHANGED workVars
    BY <1>1, PushTurn
  <2>3. 0 \notin Id
    BY DEF Id
  <2>4. origin[nextId] = 0 /\ origin' = origin
    <3>1. nextId >= nextId
      BY DEF TypeOK
    <3>2. origin[nextId] = 0
      BY <2>2, <3>1 DEF TurnInv
    <3> QED
      BY <1>1, <2>2, <3>2 DEF Push, TypeOK
  <2>5. phase[nextId] = "off"
    BY <2>2 DEF QueueInv, Uncreated, TypeOK
  <2>6. WorkIsRetried(store', phase', retries')
    <3> SUFFICES ASSUME NEW id \in Id
                 PROVE  /\ phase[id] # "off" => phase[id] = "typing" /\ retries[id] > 0 /\ store'[id] # "queued"
                        /\ store'[id] \in {"pending", "sending"} => retries[id] > 0
      BY <1>1, <2>2 DEF WorkIsRetried, workVars
    <3>1. store'[id] \in {Absent, st0} \/ (id # nextId /\ store'[id] = store[id])
      BY <2>1
    <3>2. store'[id] = st0 => id = nextId \/ store[id] = st0
      BY <2>1 DEF Absent
    <3> QED
      BY <2>5, <3>1, <3>2 DEF TurnInv, WorkIsRetried, Absent
  <2>7. QueuedIsListed'
    BY <2>1, <2>3, <1>1 DEF TurnInv, QueuedIsListed, Listening, Absent
  <2>8. QueuedStep
    <3> SUFFICES ASSUME NEW id \in Id
                 PROVE  /\ store'[id] = "queued" => store[id] = "queued" \/ origin[id] = 0
                        /\ store[id] = "queued" /\ id \notin transcript => store'[id] = "queued"
                        /\ store'[id] = "held" => store[id] = "held" \/ id = nextId
      BY <1>1 DEF QueuedStep
    <3>1. CASE id \in D
      BY <2>1, <3>1 DEF Absent
    <3>2. CASE id = nextId /\ id \notin D
      <4>1. store[id] = Absent
        BY <3>2 DEF QueueInv, Uncreated, TypeOK
      <4> QED
        BY <2>4, <3>2, <4>1 DEF Absent
    <3>3. CASE id # nextId /\ id \notin D
      BY <2>1, <2>3, <3>3
    <3> QED
      BY <3>1, <3>2, <3>3
  <2> QED
    BY <1>1, <2>2, <2>4, <2>6, <2>7, <2>8, FrameTurnInv
<1>2. CASE RecordCommandFileMessage
  BY <1>1, <1>2 DEF RecordCommandFileMessage
<1>3. CASE HoldMessage
  BY <1>1, <1>3 DEF HoldMessage
<1>4. ASSUME NEW S, NEW why \in {"dropped", "cleared", "taken"}, Remove(S, why), Listening
      PROVE  TurnInv'
  <2>1. \A id \in Id : /\ store'[id] = (IF id \in S THEN Absent ELSE store[id])
                       /\ gone'[id] = (IF id \in S THEN why ELSE gone[id])
    BY <1>4 DEF Remove, SetAll, TypeOK
  <2>2. /\ mem' = mem \ S
        /\ UNCHANGED <<tick, origin, transcript, busy, ended, nextId, phase, retries, server>>
    BY <1>4 DEF Remove, workVars
  <2>3. QueuedStep
    BY <2>1 DEF QueuedStep, Absent
  <2>4. WorkIsRetried(store', phase', retries')
    BY <2>1, <2>2 DEF TurnInv, WorkIsRetried, Absent
  <2>5. QueuedIsListed'
    BY <2>1, <2>2 DEF TurnInv, QueuedIsListed, Listening, Absent
  <2> QED
    BY <2>2, <2>3, <2>4, <2>5, FrameTurnInv
<1>5. CASE ClearResolved
  BY <1>4, <1>5 DEF ClearResolved
<1>6. CASE TakeUndeliveredQueue
  BY <1>4, <1>6 DEF TakeUndeliveredQueue
<1>7. ASSUME NEW id \in Id, UpdateHeldMessage(id) PROVE TurnInv'
  BY <1>7, FrameTurnInv
  DEF UpdateHeldMessage, QueuedStep, TurnInv, WorkIsRetried, QueuedIsListed, Listening, workVars
<1>8. ASSUME NEW id \in Id, RemoveHeldMessage(id) PROVE TurnInv'
  BY <1>4, <1>8 DEF RemoveHeldMessage
<1>9. ASSUME NEW id \in Id, RetryMessage(id) PROVE TurnInv'
  <2> DEFINE st == [status EXCEPT ![id] = "pending"]
             so == [store EXCEPT ![id] = "pending"]
  <2>1. /\ st \in [Id -> Status] /\ so \in [Id -> Status] /\ mem \in SUBSET Id
        /\ retries' \in [Id -> Nat] /\ retries'[id] > 0
        /\ \A other \in Id \ {id} : retries'[other] = retries[other]
    BY <1>9, ConstAssumption DEF TypeOK, Status, Live, RetryMessage
  <2>2. id \in mem /\ status[id] = "failed" /\ Install(TRUE, mem, st, so)
    BY <1>9 DEF RetryMessage, Rows
  <2>3. store[id] = "failed"
    BY <2>2 DEF QueueInv, Consistent
  <2>4. /\ st[id] = "pending" /\ so[id] = "pending"
        /\ \A other \in Id \ {id} : st[other] = status[other] /\ so[other] = store[other]
    BY DEF TypeOK
  <2> HIDE DEF st, so
  <2>5. WorkIsRetried(so, phase, retries')
    BY <2>1, <2>4 DEF TurnInv, WorkIsRetried
  <2>6. Mirrored(mem, st, so)
    <3>1. \A other \in mem : other \in Id /\ store[other] = status[other]
      BY DEF QueueInv, Consistent, TypeOK
    <3> QED
      BY <2>4, <3>1 DEF Mirrored
  <2>7. /\ WorkIsRetried(store', phase', retries') /\ mem' = mem
        /\ \A other \in Id : store'[other] = so[other] \/ (store'[other] = "sending" /\ so[other] = "pending")
    <3>1. mem \in SUBSET Id /\ st \in [Id -> Status] /\ so \in [Id -> Status]
      BY <2>1
    <3>2. retries' \in [Id -> Nat]
      BY <2>1
    <3>3. Install(TRUE, mem, st, so)
      BY <2>2
    <3>4. WorkIsRetried(store', phase', retries') /\ mem' = mem /\ KeptOrSent(so)
      BY <2>5, <2>6, <3>1, <3>2, <3>3, InstallWork
    <3> QED
      BY <3>4 DEF KeptOrSent
  <2>8. UNCHANGED <<tick, origin, transcript, busy, ended, nextId, gone, server>>
    BY <1>9 DEF RetryMessage
  <2>9. QueuedStep
    BY <2>3, <2>4, <2>7, <2>8 DEF QueuedStep
  <2>10. QueuedIsListed'
    BY <2>4, <2>7, <2>8 DEF TurnInv, QueuedIsListed, Listening
  <2> QED
    BY <2>7, <2>8, <2>9, <2>10, FrameTurnInv
<1>10. ~EnqueueMessage
  BY DEF EnqueueMessage
<1> QED
  BY <1>2, <1>3, <1>5, <1>6, <1>7, <1>8, <1>9, <1>10 DEF Routes

\* The worker has no pane to type into: it can only refuse.
LEMMA WorkerTurnInv == CommandFile /\ TypeOK /\ QueueInv /\ TurnInv /\ Worker => TurnInv'
<1> SUFFICES ASSUME CommandFile, TypeOK, QueueInv, TurnInv, NEW id \in Id, Settle(id, "failed")
             PROVE  TurnInv'
  BY DEF Worker, DeliverEnter, DeliverTypeRetry, DeliverAgain, DeliverAccept, DeliverFail,
         TurnInv, WorkIsRetried, Typing, Entered
<1> DEFINE st == [status EXCEPT ![id] = "failed"]
           so == [store EXCEPT ![id] = "failed"]
           ph == [phase EXCEPT ![id] = "off"]
<1>1. PickNext(mem, st, so, ph) /\ phase[id] # "off"
  BY DEF Settle
<1>2. /\ st \in [Id -> Status] /\ so \in [Id -> Status] /\ mem \in SUBSET Id
      /\ ph \in [Id -> Phase]
  BY DEF TypeOK, Status, Live, Phase
<1>3. /\ st[id] = "failed" /\ so[id] = "failed" /\ ph[id] = "off"
      /\ \A other \in Id \ {id} :
           st[other] = status[other] /\ so[other] = store[other] /\ ph[other] = phase[other]
  BY DEF TypeOK
<1> HIDE DEF st, so, ph
<1>4. mem' = mem /\ \A other \in Id : Untouched(other, st, so, ph) \/ Picked(other, mem, st)
  BY <1>1, <1>2, PickNextEffect
<1>5. UNCHANGED <<tick, origin, transcript, busy, ended, nextId, gone, server, retries>>
  BY DEF Settle, envVars, watchVars, histVars
<1>6. store[id] # "queued"
  BY <1>1 DEF TurnInv, WorkIsRetried
<1>7. \A other \in mem : store[other] = status[other]
  BY DEF QueueInv, Consistent, TypeOK
<1>8. WorkIsRetried(store', phase', retries')
  <2> SUFFICES ASSUME NEW other \in Id
               PROVE  /\ phase'[other] # "off" => phase'[other] = "typing" /\ retries[other] > 0
                                                   /\ store'[other] # "queued"
                      /\ store'[other] \in {"pending", "sending"} => retries[other] > 0
    BY <1>5 DEF WorkIsRetried
  <2>1. CASE Untouched(other, st, so, ph)
    BY <1>3, <2>1 DEF Untouched, TurnInv, WorkIsRetried
  <2>2. CASE Picked(other, mem, st)
    <3>1. store[other] = "pending"
      BY <1>3, <1>7, <2>2 DEF Picked
    <3> QED
      BY <2>2, <3>1 DEF Picked, TurnInv, WorkIsRetried
  <2> QED
    BY <1>4, <2>1, <2>2
<1>9. QueuedStep
  <2> SUFFICES ASSUME NEW other \in Id
               PROVE  /\ store'[other] \in {"queued", "held"} => store'[other] = store[other]
                      /\ store[other] = "queued" => store'[other] = "queued"
    BY <1>5 DEF QueuedStep
  <2>1. CASE Untouched(other, st, so, ph)
    BY <1>3, <1>6, <2>1 DEF Untouched
  <2>2. CASE Picked(other, mem, st)
    BY <1>3, <1>7, <2>2 DEF Picked
  <2> QED
    BY <1>4, <2>1, <2>2
<1>10. QueuedIsListed'
  BY <1>3, <1>4, <1>5 DEF TurnInv, QueuedIsListed, Listening, Untouched, Picked
<1> QED
  BY <1>5, <1>8, <1>9, <1>10, FrameTurnInv

\* A reconcile pass takes a row out of `queued' only when the agent has read it.
LEMMA ReconcileTurn ==
  ASSUME TypeOK, QueueInv, TurnInv, NEW p \in Procs, Promote(p) \/ GiveUp(p),
         UNCHANGED <<phase, retries, server, gone>>
  PROVE  /\ QueuedStep /\ WorkIsRetried(store', phase', retries') /\ QueuedIsListed'
         /\ UNCHANGED <<nextId, mem>>
         /\ \A id \in mem : store'[id] = status'[id]
<1>1. UNCHANGED <<nextId, mem>>
  BY DEF Promote, GiveUp, queueVars
<1>2. \A id \in Id :
        \/ store'[id] = store[id] /\ status'[id] = status[id]
        \/ store'[id] = "delivered" /\ status'[id] = "delivered" /\ id \in transcript
  BY DEF Promote, GiveUp, queueVars, SetAll, TypeOK
<1>3. \A id \in mem : id \in Id /\ store[id] = status[id]
  BY DEF QueueInv, Consistent, TypeOK
<1>4. QueuedStep
  BY <1>2 DEF QueuedStep
<1>5. WorkIsRetried(store', phase', retries')
  BY <1>2 DEF TurnInv, WorkIsRetried
<1>6. QueuedIsListed'
  BY <1>1, <1>2 DEF TurnInv, QueuedIsListed, Listening
<1> QED
  BY <1>1, <1>2, <1>3, <1>4, <1>5, <1>6

\* A polling client only promotes rows the agent has read.
LEMMA PollsTurnInv == TypeOK /\ QueueInv /\ TurnInv /\ Polls => TurnInv'
<1> SUFFICES ASSUME TypeOK, QueueInv, TurnInv, NEW p \in Pollers, PollStart(p) \/ PollEnd(p)
             PROVE  TurnInv'
  BY DEF Polls
<1> USE DEF workVars, watchVars, envVars, histVars
<1>1. CASE PollStart(p)
  BY <1>1, FrameTurnInv
  DEF PollStart, queueVars, QueuedStep, TurnInv, QueuedIsListed, Listening
<1>2. CASE PollEnd(p)
  <2>1. p \in Procs
    BY DEF Procs
  <2>2. Promote(p) \/ GiveUp(p)
    BY <1>2 DEF PollEnd
  <2>3. UNCHANGED <<phase, retries, server, gone, tick, origin, transcript, busy, ended>>
    BY <1>2 DEF PollEnd
  <2> QED
    BY <2>1, <2>2, <2>3, ReconcileTurn, FrameTurnInv
<1> QED
  BY <1>1, <1>2

-----------------------------------------------------------------------------
\* The held watcher

\* A step of tick t, the only one at work, that keeps the origins: what it must
\* know to move on is the gate and the probe it has passed.
LEMMA TickTurn ==
  ASSUME TypeOK, TurnInv, QueuedStep, NEW t \in Ticks,
         UNCHANGED <<origin, transcript, busy, ended, nextId>>,
         WorkIsRetried(store', phase', retries'),
         QueuedIsListed',
         \A u \in Ticks \ {t} : tick'[u].pc = "idle",
         tick'[t].pc \in PastGate => \A id \in Id : ~QueuedRelease(id)',
         tick'[t].pc = "handler" => origin[tick'[t].row] = 0,
         tick'[t].pc \in PastProbe =>
           \A id \in transcript : origin[id] # 0 /\ gone'[id] = "no" => id \in ended
  PROVE  TurnInv'
<1>1. \A id \in Id : QueuedRelease(id)' => QueuedRelease(id)
  BY DEF QueuedRelease, QueuedStep
<1>2. \A a, b \in Id : QueuedRelease(a)' /\ QueuedRelease(b)' => a = b
  BY <1>1 DEF TurnInv
<1>3. \A u \in Ticks : tick'[u].pc \in PastGate => \A id \in Id : ~QueuedRelease(id)'
  BY DEF PastGate
<1>4. ASSUME NEW id \in Id
      PROVE  /\ origin'[id] # 0 /\ id \notin transcript' /\ gone'[id] = "no" => store'[id] = "queued"
             /\ store'[id] = "held" => origin'[id] = 0
             /\ id >= nextId' => origin'[id] = 0
  <2>1. id = nextId => id >= nextId
    BY DEF TypeOK, Id
  <2> QED
    BY <2>1 DEF TurnInv, QueuedStep
<1>5. \A u \in Ticks : tick'[u].pc = "handler" => origin'[tick'[u].row] = 0
  <2>1. \A u \in Ticks : tick'[u].pc = "handler" => u = t
    OBVIOUS
  <2> QED
    BY <2>1
<1>6. \A u \in Ticks : tick'[u].pc \in PastProbe =>
        \A id \in transcript' : origin'[id] # 0 /\ gone'[id] = "no" => id \in ended'
  <2>1. \A u \in Ticks : tick'[u].pc \in PastProbe => u = t
    BY DEF PastProbe
  <2> QED
    BY <2>1
<1> QED
  BY <1>2, <1>3, <1>4, <1>5, <1>6 DEF TurnInv

\* The in-flight gate: with no row in flight in the list, no release is queued.
LEMMA GateOpens ==
  ASSUME NEW m, NEW st, NEW sto, NEW org,
         Rows(m, st, InFlight) = {},
         \A id \in m : sto[id] = st[id],
         \A id \in Id \ m : sto[id] # "queued"
  PROVE  \A id \in Id : ~(sto[id] = "queued" /\ org[id] # 0)
BY DEF Rows, InFlight

\* The tick releases a row only past both gates.
LEMMA WatcherTurnInv ==
  CommandFile /\ TypeOK /\ QueueInv /\ HeldInv /\ TurnInv /\ Watcher => TurnInv'
<1> SUFFICES ASSUME CommandFile, TypeOK, QueueInv, HeldInv, TurnInv, NEW t \in Ticks,
                    \/ TickStart(t) \/ TickReconciled(t) \/ TickProbe(t) \/ TickFreshProbe(t)
                    \/ TickCall(t) \/ TickRelease(t) \/ TickRefused(t)
             PROVE  TurnInv'
  BY DEF Watcher
<1> USE DEF workVars, envVars, histVars
<1>a. Listening /\ \A u \in Ticks \ {t} : tick[u].pc = "idle"
  <2>1. CASE TickStart(t)
    BY <2>1 DEF TickStart, HeldInv, TickRow, Listening
  <2>2. CASE tick[t].pc # "idle"
    BY <2>2 DEF HeldInv, TickRow, Listening
  <2> QED
    BY <2>1, <2>2
    DEF TickReconciled, TickProbe, TickFreshProbe, TickCall, TickRelease, TickRefused
<1>b. \A pc : Goto(t, pc) => tick'[t].pc = pc /\ \A u \in Ticks \ {t} : tick'[u].pc = "idle"
  BY <1>a DEF Goto, TypeOK
<1>c. EndTick(t) => tick'[t].pc = "idle" /\ \A u \in Ticks \ {t} : tick'[u].pc = "idle"
  BY <1>a DEF EndTick, IdleTick, TypeOK
<1>d. \A id \in mem : id \in Id /\ store[id] = status[id]
  BY DEF QueueInv, Consistent, TypeOK
<1>e. ASSUME UNCHANGED <<store, phase, retries, mem, server, gone>>
      PROVE  QueuedStep /\ WorkIsRetried(store', phase', retries') /\ QueuedIsListed'
  BY <1>e DEF QueuedStep, TurnInv, QueuedIsListed, Listening
<1>1. CASE TickStart(t)
  <2>1. /\ UNCHANGED <<store, phase, retries, mem, server, gone, status>>
        /\ UNCHANGED <<origin, transcript, busy, ended, nextId>>
    BY <1>1 DEF TickStart, queueVars
  <2>2. CASE Held = {}
    BY <1>1, <1>e, <2>1, <2>2, FrameTurnInv DEF TickStart
  <2>3. CASE Held # {} /\ ~HasInFlight
    <3>1. Rows(mem, status, InFlight) = {}
      BY <2>3 DEF HasInFlight
    <3>2. \A id \in Id : ~QueuedRelease(id)
      BY <1>a, <1>d, <3>1, GateOpens DEF TurnInv, QueuedIsListed, QueuedRelease
    <3>3. tick'[t].pc = "probe" /\ \A u \in Ticks \ {t} : tick'[u].pc = "idle"
      BY <1>1, <1>b, <2>3 DEF TickStart
    <3> QED
      BY <1>e, <2>1, <3>2, <3>3, TickTurn DEF QueuedRelease, PastGate, PastProbe
  <2>4. CASE Held # {} /\ HasInFlight
    <3>1. tick'[t].pc = "reconcile" /\ \A u \in Ticks \ {t} : tick'[u].pc = "idle"
      BY <1>1, <1>b, <2>4 DEF TickStart
    <3> QED
      BY <1>e, <2>1, <3>1, TickTurn DEF PastGate, PastProbe
  <2> QED
    BY <2>2, <2>3, <2>4
<1>2. CASE TickReconciled(t)
  <2>1. UNCHANGED <<phase, retries, server, gone, origin, transcript, busy, ended>>
    BY <1>2 DEF TickReconciled
  <2>2. /\ QueuedStep /\ WorkIsRetried(store', phase', retries') /\ QueuedIsListed'
        /\ UNCHANGED <<nextId, mem>>
        /\ \A id \in mem : store'[id] = status'[id]
    <3>1. t \in Procs
      BY DEF Procs
    <3>2. CASE Promote(t) \/ GiveUp(t)
      BY <2>1, <3>1, <3>2, ReconcileTurn
    <3>3. CASE UNCHANGED <<queueVars, snap>>
      BY <1>d, <1>e, <2>1, <3>3 DEF queueVars
    <3> QED
      BY <1>2, <3>2, <3>3 DEF TickReconciled
  <2>3. CASE Rows(mem, status', InFlight) # {}
    <3>1. tick'[t].pc = "idle" /\ \A u \in Ticks \ {t} : tick'[u].pc = "idle"
      BY <1>2, <1>c, <2>3 DEF TickReconciled
    <3> QED
      BY <2>1, <2>2, <3>1, TickTurn DEF PastGate, PastProbe
  <2>4. CASE Rows(mem, status', InFlight) = {}
    <3>1. tick'[t].pc = "probe" /\ \A u \in Ticks \ {t} : tick'[u].pc = "idle"
      BY <1>2, <1>b, <2>4 DEF TickReconciled
    <3>2. \A id \in Id \ mem : store'[id] # "queued"
      BY <1>a, <2>1, <2>2 DEF QueuedIsListed, Listening
    <3>3. \A id \in Id : ~QueuedRelease(id)'
      BY <2>2, <2>4, <3>2, GateOpens DEF QueuedRelease
    <3> QED
      BY <2>1, <2>2, <3>1, <3>3, TickTurn DEF PastProbe
  <2> QED
    BY <2>3, <2>4
<1>f. tick[t].pc \in PastGate => \A id \in Id : ~QueuedRelease(id)
  BY DEF TurnInv
<1>3. CASE TickProbe(t)
  <2>1. /\ UNCHANGED <<store, phase, retries, mem, server, gone, origin, transcript, busy, ended, nextId>>
        /\ tick[t].pc \in PastGate
    BY <1>3 DEF TickProbe, queueVars, PastGate
  <2>2. tick'[t].pc \in {"fresh", "idle"} /\ \A u \in Ticks \ {t} : tick'[u].pc = "idle"
    BY <1>3, <1>b, <1>c DEF TickProbe
  <2> QED
    BY <1>e, <1>f, <2>1, <2>2, TickTurn DEF PastProbe, QueuedRelease
<1>4. CASE TickFreshProbe(t)
  <2>1. /\ UNCHANGED <<store, phase, retries, mem, server, gone, origin, transcript, busy, ended, nextId>>
        /\ tick[t].pc \in PastGate
    BY <1>4 DEF TickFreshProbe, queueVars, PastGate
  <2>2. /\ \A u \in Ticks \ {t} : tick'[u].pc = "idle"
        /\ tick'[t].pc = "idle" \/ (tick'[t].pc = "call" /\ ~busy)
    BY <1>4, <1>b, <1>c DEF TickFreshProbe
  <2>3. tick'[t].pc \in PastProbe => ended = transcript
    BY <2>2 DEF TurnInv, PastProbe
  <2> QED
    BY <1>e, <1>f, <2>1, <2>2, <2>3, TickTurn DEF QueuedRelease
<1>g. tick[t].pc \in PastProbe =>
        \A id \in transcript : origin[id] # 0 /\ gone[id] = "no" => id \in ended
  BY DEF TurnInv
<1>5. CASE TickCall(t)
  <2>1. /\ UNCHANGED <<store, phase, retries, mem, server, gone, origin, transcript, busy, ended, nextId>>
        /\ tick[t].pc \in PastGate /\ tick[t].pc \in PastProbe
    BY <1>5 DEF TickCall, queueVars, PastGate, PastProbe
  <2>2. CASE Held = {} \/ server # "up"
    <3>1. tick'[t].pc = "idle" /\ \A u \in Ticks \ {t} : tick'[u].pc = "idle"
      BY <1>5, <1>c, <2>2 DEF TickCall
    <3> QED
      BY <1>e, <2>1, <3>1, TickTurn DEF PastGate, PastProbe
  <2>3. CASE ~(Held = {} \/ server # "up")
    <3> DEFINE row == Oldest(Held)
    <3>1. Held \in SUBSET Id /\ Held # {}
      BY <2>3 DEF Held, Rows, TypeOK
    <3>2. row \in Held
      BY <3>1, OldestIsMember
    <3>3. tick' = [tick EXCEPT ![t] = [pc |-> "handler", row |-> row, text |-> text[row]]]
      BY <1>5, <2>3 DEF TickCall
    <3> HIDE DEF row
    <3>4. row \in Id /\ origin[row] = 0
      BY <1>d, <3>1, <3>2 DEF Held, Rows, TurnInv
    <3>5. /\ tick'[t].pc = "handler" /\ tick'[t].row = row
          /\ \A u \in Ticks \ {t} : tick'[u].pc = "idle"
      BY <1>a, <3>3 DEF TypeOK
    <3> QED
      BY <1>e, <1>f, <1>g, <2>1, <3>4, <3>5, TickTurn DEF QueuedRelease
  <2> QED
    BY <2>2, <2>3
<1>6. CASE TickRelease(t)
  <2> DEFINE row == tick[t].row
  <2>1. /\ row \in Id /\ row < nextId /\ origin[row] = 0
        /\ \A id \in Id : ~QueuedRelease(id)
        /\ Push("queued", tick[t].text, row)
    BY <1>6, <1>f DEF TickRelease, HeldInv, TickRow, TurnInv, PastGate
  <2> HIDE DEF row
  <2>2. PICK D \in SUBSET Id :
          /\ mem' = (mem \cup {nextId}) \ (D \cup {row})
          /\ \A id \in Id :
               /\ id \in D \cup {row} => store'[id] = Absent
               /\ id \notin D \cup {row} =>
                    store'[id] = (IF id = nextId THEN "queued" ELSE store[id])
               /\ id \in D => id # nextId /\ store[id] = "delivered"
    BY <2>1, PushTurn
  <2>3. nextId \in Id /\ nextId' = nextId + 1 /\ UNCHANGED <<running, phase>>
    BY <2>1, PushTurn
  <2>4. origin' = [origin EXCEPT ![nextId] = row]
    BY <2>1 DEF Push
  <2>5. UNCHANGED <<server, busy, transcript, ended, gone, retries>> /\ \A u \in Ticks : tick'[u].pc = "idle"
    BY <1>6, <1>c DEF TickRelease
  <2>6. origin'[nextId] = row /\ \A id \in Id \ {nextId} : origin'[id] = origin[id]
    BY <2>3, <2>4 DEF TypeOK
  <2>7. row # nextId /\ nextId \notin D /\ store'[nextId] = "queued"
    BY <2>1, <2>2, <2>3 DEF TypeOK, Id
  <2>8. \A id \in Id : QueuedRelease(id)' => id = nextId
    BY <2>1, <2>2, <2>6 DEF QueuedRelease, Absent
  <2>9. ASSUME NEW id \in Id
        PROVE  /\ origin'[id] # 0 /\ id \notin transcript' /\ gone'[id] = "no" => store'[id] = "queued"
               /\ store'[id] = "held" => origin'[id] = 0
               /\ id >= nextId' => origin'[id] = 0
    <3>1. CASE id = nextId
      BY <2>3, <2>7, <3>1 DEF TypeOK, Id
    <3>2. CASE id # nextId
      <4>1. origin'[id] = origin[id]
        BY <2>6, <3>2
      <4>2. id >= nextId' => id >= nextId
        BY <2>3 DEF Id
      <4>3. id \in D \cup {row} => store'[id] = Absent /\ (id = row \/ store[id] = "delivered")
        BY <2>2
      <4>4. id \notin D \cup {row} => store'[id] = store[id]
        BY <2>2, <3>2
      <4> QED
        BY <2>1, <2>5, <4>1, <4>2, <4>3, <4>4 DEF TurnInv, Absent
    <3> QED
      BY <3>1, <3>2
  <2>10. WorkIsRetried(store', phase', retries')
    <3> SUFFICES ASSUME NEW id \in Id
                 PROVE  /\ phase[id] # "off" => phase[id] = "typing" /\ retries[id] > 0 /\ store'[id] # "queued"
                        /\ store'[id] \in {"pending", "sending"} => retries[id] > 0
      BY <2>3, <2>5 DEF WorkIsRetried
    <3>1. phase[nextId] = "off"
      BY <2>3 DEF QueueInv, Uncreated, TypeOK
    <3>2. store'[id] = Absent \/ id = nextId \/ store'[id] = store[id]
      BY <2>2
    <3> QED
      BY <2>7, <3>1, <3>2 DEF TurnInv, WorkIsRetried, Absent
  <2>11. QueuedIsListed'
    BY <1>a, <2>2, <2>5 DEF TurnInv, QueuedIsListed, Listening, Absent
  <2> QED
    BY <2>5, <2>8, <2>9, <2>10, <2>11 DEF TurnInv, PastGate, PastProbe
<1>7. CASE TickRefused(t)
  <2> DEFINE row == tick[t].row
  <2>1. /\ row \in Id /\ origin[row] = 0
        /\ status' = [status EXCEPT ![row] = "failed"] /\ store' = [store EXCEPT ![row] = "failed"]
        /\ UNCHANGED <<phase, retries, mem, server, gone, origin, transcript, busy, ended, nextId>>
    BY <1>7 DEF TickRefused, HeldInv, TickRow, TurnInv
  <2>2. tick'[t].pc = "idle" /\ \A u \in Ticks \ {t} : tick'[u].pc = "idle"
    BY <1>7, <1>c DEF TickRefused
  <2>3. store'[row] = "failed" /\ \A id \in Id \ {row} : store'[id] = store[id]
    BY <2>1 DEF TypeOK
  <2> HIDE DEF row
  <2>4. \A id \in Id : id \in transcript \/ origin[id] = 0 \/ gone[id] # "no" \/ store'[id] = store[id]
    BY <2>1, <2>3
  <2>5. WorkIsRetried(store', phase', retries')
    BY <2>1, <2>3 DEF TurnInv, WorkIsRetried
  <2>6. QueuedIsListed'
    BY <2>1, <2>3 DEF TurnInv, QueuedIsListed, Listening
  <2>7. \A id \in Id : QueuedRelease(id)' => QueuedRelease(id)
    BY <2>1, <2>3 DEF QueuedRelease
  <2>8. ASSUME NEW id \in Id
        PROVE  /\ origin'[id] # 0 /\ id \notin transcript' /\ gone'[id] = "no" => store'[id] = "queued"
               /\ store'[id] = "held" => origin'[id] = 0
               /\ id >= nextId' => origin'[id] = 0
    BY <2>1, <2>3 DEF TurnInv
  <2>9. \A a, b \in Id : QueuedRelease(a)' /\ QueuedRelease(b)' => a = b
    BY <2>7 DEF TurnInv
  <2>10. \A u \in Ticks : tick'[u].pc = "idle"
    BY <2>2
  <2> QED
    BY <2>1, <2>5, <2>6, <2>8, <2>9, <2>10 DEF TurnInv, PastGate, PastProbe
<1> QED
  BY <1>1, <1>2, <1>3, <1>4, <1>5, <1>6, <1>7

-----------------------------------------------------------------------------
\* The server process and the harness

\* A crash ends every tick; the boot lists every queued row of the table.
LEMMA ProcessTurnInv ==
  CommandFile /\ TypeOK /\ QueueInv /\ HeldInv /\ TurnInv /\ Process => TurnInv'
<1> SUFFICES ASSUME CommandFile, TypeOK, QueueInv, HeldInv, TurnInv, Process PROVE TurnInv'
  OBVIOUS
<1>a. ASSUME NEW sto, LoseMemory(sto)
      PROVE  /\ \A u \in Ticks : tick'[u].pc = "idle"
             /\ store' = sto /\ server' = "down" /\ \A id \in Id : phase'[id] = "off"
             /\ UNCHANGED <<busy, transcript, retries, gone, ended>>
  BY <1>a DEF LoseMemory, IdleTick
<1>1. CASE Crash
  <2>1. LoseMemory(store) /\ UNCHANGED <<nextId, origin>>
    BY <1>1 DEF Crash
  <2> QED
    BY <1>a, <2>1
    DEF TurnInv, WorkIsRetried, QueuedIsListed, Listening, QueuedRelease, PastGate, PastProbe
<1>2. ASSUME NEW t \in Ticks, CrashMidRelease(t) PROVE TurnInv'
  <2> DEFINE row == tick[t].row
             sto == [store EXCEPT ![nextId] = "queued"]
  <2>1. /\ LoseMemory(sto) /\ row \in Id /\ row < nextId
        /\ nextId \in Id /\ nextId' = nextId + 1
        /\ origin' = [origin EXCEPT ![nextId] = row]
        /\ \A id \in Id : ~QueuedRelease(id)
    BY <1>2 DEF CrashMidRelease, HeldInv, TickRow, TurnInv, PastGate
  <2>2. /\ sto[nextId] = "queued" /\ origin'[nextId] = row
        /\ \A id \in Id \ {nextId} : sto[id] = store[id] /\ origin'[id] = origin[id]
    BY <2>1 DEF TypeOK
  <2> HIDE DEF row, sto
  <2>3. \A id \in Id : QueuedRelease(id)' => id = nextId
    BY <1>a, <2>1, <2>2 DEF QueuedRelease
  <2>4. ASSUME NEW id \in Id
        PROVE  /\ origin'[id] # 0 /\ id \notin transcript' /\ gone'[id] = "no" => store'[id] = "queued"
               /\ store'[id] = "held" => origin'[id] = 0
               /\ id >= nextId' => origin'[id] = 0
    <3>1. CASE id = nextId
      BY <1>a, <2>1, <2>2, <3>1 DEF Id
    <3>2. CASE id # nextId
      <4>1. id >= nextId' => id >= nextId
        BY <2>1 DEF Id
      <4> QED
        BY <1>a, <2>1, <2>2, <3>2, <4>1 DEF TurnInv
    <3> QED
      BY <3>1, <3>2
  <2>5. WorkIsRetried(store', phase', retries')
    <3>1. \A id \in Id : store'[id] = "queued" \/ store'[id] = store[id]
      BY <1>a, <2>1, <2>2
    <3> QED
      BY <1>a, <2>1, <3>1 DEF TurnInv, WorkIsRetried
  <2>6. QueuedIsListed'
    BY <1>a, <2>1 DEF QueuedIsListed, Listening
  <2> QED
    BY <1>a, <2>1, <2>3, <2>4, <2>5, <2>6 DEF TurnInv, PastGate, PastProbe
<1>3. CASE Boot
  <2>1. /\ mem' = {id \in Id : store[id] # Absent}
        /\ UNCHANGED <<nextId, store, phase, retries, gone, tick, origin, transcript, busy, ended>>
    BY <1>3 DEF Boot, workVars, watchVars, histVars
  <2>2. QueuedIsListed'
    BY <2>1 DEF QueuedIsListed, Absent
  <2>3. QueuedStep /\ WorkIsRetried(store', phase', retries')
    BY <2>1 DEF QueuedStep, TurnInv
  <2> QED
    BY <2>1, <2>2, <2>3, FrameTurnInv
<1>4. CASE ResumePersistedQueues
  <2> DEFINE cut == Rows(mem, status, {"sending"})
             st == SetAll(status, cut, "failed")
             so == SetAll(store, cut, "failed")
  <2>1. /\ Install(TRUE, mem, st, so) /\ server = "booting" /\ server' = "up"
        /\ UNCHANGED <<nextId, retries, gone, tick, origin, transcript, busy, ended>>
    BY <1>4 DEF ResumePersistedQueues, histVars
  <2>2. st \in [Id -> Status] /\ so \in [Id -> Status] /\ mem \in SUBSET Id
    BY SetAllType DEF TypeOK, Status, Live
  <2>3. \A id \in mem : id \in Id /\ store[id] = status[id]
    BY DEF QueueInv, Consistent, TypeOK
  <2>4. \A id \in Id : \/ id \in cut /\ st[id] = "failed" /\ so[id] = "failed" /\ store[id] = "sending"
                       \/ st[id] = status[id] /\ so[id] = store[id]
    BY <2>3 DEF SetAll, TypeOK, Rows
  <2> HIDE DEF st, so, cut
  <2>5. WorkIsRetried(so, phase, retries)
    BY <2>4 DEF TurnInv, WorkIsRetried
  <2>6. Mirrored(mem, st, so)
    BY <2>3, <2>4 DEF Mirrored
  <2>7. retries \in [Id -> Nat]
    BY ConstAssumption DEF TypeOK
  <2>8. WorkIsRetried(store', phase', retries) /\ mem' = mem /\ KeptOrSent(so)
    BY <2>1, <2>2, <2>5, <2>6, <2>7, InstallWork
  <2>9. QueuedStep
    BY <2>1, <2>4, <2>8 DEF QueuedStep, KeptOrSent
  <2>10. QueuedIsListed'
    BY <2>1, <2>4, <2>8 DEF TurnInv, QueuedIsListed, Listening, KeptOrSent
  <2> QED
    BY <2>1, <2>8, <2>9, <2>10, FrameTurnInv
<1> QED
  BY <1>1, <1>2, <1>3, <1>4 DEF Process

\* What the agent reads past the gate is no release, and a turn that ends ends
\* for everything read so far.
LEMMA HarnessTurnInv == TypeOK /\ TurnInv /\ Harness => TurnInv'
<1> SUFFICES ASSUME TypeOK, TurnInv, Harness PROVE TurnInv'
  OBVIOUS
<1> USE DEF queueVars, workVars, watchVars, histVars
<1>1. CASE AgentIdles
  BY <1>1 DEF AgentIdles, TurnInv, QueuedIsListed, Listening, QueuedRelease
<1>2. ASSUME NEW id \in Id, AgentReads(id) PROVE TurnInv'
  <2>1. /\ transcript' = transcript \cup {id} /\ id \notin transcript /\ busy'
        /\ UNCHANGED <<nextId, mem, store, phase, retries, tick, server, origin, gone, ended>>
    BY <1>2 DEF AgentReads
  <2>2. ASSUME NEW t \in Ticks, tick[t].pc \in PastProbe
        PROVE  \A other \in transcript' : origin[other] # 0 /\ gone[other] = "no" => other \in ended
    <3>1. ~QueuedRelease(id)
      BY <2>2 DEF TurnInv, PastProbe, PastGate
    <3>2. origin[id] = 0 \/ gone[id] # "no"
      BY <2>1, <3>1 DEF TurnInv, QueuedRelease
    <3> QED
      BY <2>1, <2>2, <3>2 DEF TurnInv
  <2> QED
    BY <2>1, <2>2 DEF TurnInv, QueuedIsListed, Listening, QueuedRelease
<1> QED
  BY <1>1, <1>2 DEF Harness

-----------------------------------------------------------------------------
\* What follows

\* At first nothing was released.
LEMMA InitTurnInv == Init => TurnInv
BY DEF Init, TurnInv, WorkIsRetried, QueuedIsListed, QueuedRelease, IdleTick, Absent, PastGate, PastProbe

\* A command-file session keeps the invariant.
THEOREM TurnInvariant == CommandFile /\ Spec => []TurnInv
<1>1. CommandFile /\ TypeOK /\ QueueInv /\ HeldInv /\ TurnInv /\ [Next]_vars => TurnInv'
  <2>1. TypeOK /\ TurnInv /\ UNCHANGED vars => TurnInv'
    BY DEF TurnInv, QueuedIsListed, Listening, QueuedRelease,
           vars, queueVars, workVars, watchVars, envVars, histVars
  <2> QED
    BY <2>1, RoutesTurnInv, WorkerTurnInv, PollsTurnInv, WatcherTurnInv, ProcessTurnInv,
       HarnessTurnInv DEF Next
<1>2. CASE CommandFile
  <2>1. TypeOK /\ QueueInv /\ HeldInv /\ TurnInv /\ [Next]_vars => TurnInv'
    BY <1>1, <1>2
  <2>2. Spec => []TurnInv
    BY <2>1, InitTurnInv, Invariants, PTL DEF Spec
  <2> QED
    BY <2>2
<1> QED
  BY <1>2

\* At most one released row of a command-file session is on its way to the agent.
THEOREM OneReleaseAtATimeHolds == CommandFile /\ Spec => []OneReleaseAtATime
<1>1. TypeOK /\ QueueInv /\ TurnInv => OneReleaseAtATime
  <2> SUFFICES ASSUME TypeOK, QueueInv, TurnInv, NEW a \in mem, NEW b \in mem,
                      status[a] \in InFlight, origin[a] # 0, retries[a] = 0,
                      status[b] \in InFlight, origin[b] # 0, retries[b] = 0
               PROVE  a = b
    BY DEF OneReleaseAtATime, Rows
  <2>1. a \in Id /\ b \in Id /\ store[a] = status[a] /\ store[b] = status[b]
    BY DEF QueueInv, Consistent, TypeOK
  <2>2. QueuedRelease(a) /\ QueuedRelease(b)
    BY <2>1 DEF QueuedRelease, TurnInv, WorkIsRetried, InFlight
  <2> QED
    BY <2>1, <2>2 DEF TurnInv
<1> QED
  BY <1>1, TurnInvariant, Invariants, PTL

\* A release of a command-file session never rides on the turn of an earlier one.
THEOREM NotOnTheSameTurnHolds == CommandFile /\ Spec => NotOnTheSameTurn
<1> DEFINE Apart ==
      \A id \in Id : Releases(id) =>
        \A prev \in transcript : (origin[prev] # 0 /\ gone[prev] = "no") => prev \in ended
<1>1. CommandFile /\ TypeOK /\ TurnInv /\ [Next]_vars => [Apart]_vars
  <2> SUFFICES ASSUME CommandFile, TypeOK, TurnInv, Next, NEW id \in Id, Releases(id)
               PROVE  \A prev \in transcript : (origin[prev] # 0 /\ gone[prev] = "no") => prev \in ended
    OBVIOUS
  <2>1. origin' # origin
    BY DEF Releases
  <2>2. ASSUME NEW st0, NEW txt, Push(st0, txt, 0) PROVE FALSE
    <3>1. origin' = [origin EXCEPT ![nextId] = 0] /\ nextId \in Id
      BY <2>2 DEF Push
    <3>2. origin'[id] \in {0, origin[id]}
      BY <3>1 DEF TypeOK
    <3> QED
      BY <3>2 DEF Releases
  <2>3. ~Routes
    BY <2>1, <2>2
    DEF Routes, EnqueueMessage, RecordCommandFileMessage, HoldMessage, ClearResolved,
        TakeUndeliveredQueue, UpdateHeldMessage, RemoveHeldMessage, RetryMessage, Remove, histVars
  <2>4. ~Worker /\ ~Polls /\ ~Harness
    BY <2>1 DEF Worker, DeliverEnter, DeliverTypeRetry, DeliverAgain, DeliverAccept,
                     DeliverFail, Settle, Polls, PollStart, PollEnd,
                Harness, AgentReads, AgentIdles, histVars
  <2>5. \E t \in Ticks : tick[t].pc = "handler"
    BY <2>1, <2>3, <2>4
    DEF Next, Watcher, TickStart, TickReconciled, TickProbe, TickFreshProbe, TickCall, TickRelease,
        TickRefused, Process, Crash, CrashMidRelease, Boot, ResumePersistedQueues, histVars
  <2> QED
    BY <2>5 DEF TurnInv, PastProbe
<1>2. CASE CommandFile
  <2>1. TypeOK /\ TurnInv /\ [Next]_vars => [Apart]_vars
    BY <1>1, <1>2
  <2>2. Spec => [][Apart]_vars
    BY <1>2, <2>1, TurnInvariant, TypeCorrect, PTL DEF Spec
  <2> QED
    BY <2>2 DEF NotOnTheSameTurn
<1> QED
  BY <1>2

=============================================================================
