--------------------------- MODULE BotRotationProofs ---------------------------
(***************************************************************************)
(* Type correctness of BotRotation, EditsAreOffered, FailureKeepsPrimary   *)
(* and AutomaticRotationDrains, for any number of requests.                *)
(*                                                                         *)
(* Data and Place say where the session ids of the requests come from and  *)
(* who is in the line of the critical section; every later invariant       *)
(* builds on them.  Claims says what a captured record may still claim:    *)
(* as long as edits are saved one after the other, a revision names one    *)
(* configuration.  Spared says what a rotation has not closed yet, and     *)
(* Settled which rows of the queue can exist while it runs.                *)
(***************************************************************************)
EXTENDS BotRotation, TLAPS

-----------------------------------------------------------------------------
\* Types

\* The data, with the ids that captured values hold.
Data ==
  /\ bot \in Bot /\ bot.sid <= minted
  /\ minted \in Sessions
  /\ running \subseteq 1..minted /\ listed \subseteq running
  /\ pc \in [Requests -> PC]
  /\ req \in [Requests -> Request]
  /\ msg \in [Requests -> Message]
  /\ given \subseteq Nat /\ closed \subseteq Sessions
  /\ crashes \in 0..MaxCrashes
  /\ \A p \in Requests :
       /\ req[p].seen.sid <= minted /\ req[p].primary <= minted /\ req[p].fresh <= minted
       /\ pc[p] \in {"stage", "retire", "carry", "stop"} => req[p].fresh # None
       /\ pc[p] \in {"retire", "send"} => req[p].primary # None

\* The line, and the requests that are outside it.
Place ==
  /\ line \in Seq(Requests)
  /\ \A i, j \in DOMAIN line : line[i] = line[j] => i = j
  /\ \A p \in Requests :
       /\ pc[p] \in Rotating => Holds(p)
       /\ InLine(p) => pc[p] \in {"line"} \cup Rotating \cup Delivering
       /\ pc[p] = "line" => InLine(p)
       /\ pc[p] \in Delivering /\ req[p].kind # "report" => Holds(p)
       /\ InLine(p) \/ pc[p] = "asked" => req[p].kind # "report"

LEMMA InitData == ASSUME BotRotationAssumption PROVE Init => Data
  BY DEF BotRotationAssumption, Init, Data, Bot, FirstBot, Idle, Request, Message, Sessions,
     None, Reason, AllKinds, Pending, Delivers, Edits, PC, Rotating, Delivering

LEMMA InitPlace == Init => Place
  BY DEF Init, Place, InLine, Holds, Rotating, Delivering, Idle

\* What a request captures as it arrives: the record as it is, and no runtime.
Captured(r, k) ==
  r \in Request /\ r.seen = bot /\ r.primary = None /\ r.fresh = None /\ r.kind = k

LEMMA Captures ==
  ASSUME Data, NEW k \in AllKinds
  PROVE  /\ Captured(As(k), k)
         /\ Captured([As(k) EXCEPT !.job = "deliver"], k)
         /\ \A reason \in Reason, e \in Nat : Captured(ToRotate(k, reason, e), k)
         /\ Captured(Queued(k), k)
  <1>1. Captured(As(k), k) /\ Captured([As(k) EXCEPT !.job = "deliver"], k)
    BY DEF Data, As, Idle, Request, FirstBot, Bot, Reason, None, Sessions, Captured
  <1>2. ASSUME NEW reason \in Reason, NEW e \in Nat
        PROVE  Captured(ToRotate(k, reason, e), k)
    BY <1>2 DEF Data, As, ToRotate, Idle, Request, FirstBot, Bot, Reason, None, Sessions, Captured
  <1>3. /\ bot.reason \in Reason
        /\ (CASE bot.reason = "config" -> bot.config
              [] bot.reason = "restart" -> bot.expected
              [] OTHER -> None) \in Nat
    BY DEF Data, Bot, None
  <1>4. Captured(Queued(k), k)
    BY <1>2, <1>3 DEF Queued
  <1> QED
    BY <1>1, <1>2, <1>4

Takes(p) == \/ req' = req
            \/ \E k \in AllKinds, r \in Request :
                 Captured(r, k) /\ req' = [req EXCEPT ![p] = r]

LEMMA ArriveRequest ==
  ASSUME BotRotationAssumption, Data, NEW p \in Requests, Arrive(p)
  PROVE  Takes(p)
  <1>1. PICK k \in Kinds : \/ Deliver(p, k) \/ AskRestart(p, k) \/ AskApply(p, k) \/ Sweep(p, k)
                           \/ Report(p, k) \/ SendDirectly(p, k) \/ StartEdit(p, k)
    BY DEF Arrive
  <1>2. k \in AllKinds
    BY <1>1 DEF BotRotationAssumption
  <1>3. bot.reason \in Reason /\ None \in Nat /\ minted \in Nat /\ bot.config \in Nat
        /\ "restart" \in Reason /\ "config" \in Reason /\ "compaction" \in Reason
    BY DEF Data, Bot, None, Sessions, Reason
  <1>4. /\ Captured(As(k), k) /\ Captured([As(k) EXCEPT !.job = "deliver"], k)
        /\ \A reason \in Reason, e \in Nat : Captured(ToRotate(k, reason, e), k)
        /\ Captured(Queued(k), k)
    BY <1>2, Captures
  <1>5. ASSUME NEW r, Captured(r, k), req' = [req EXCEPT ![p] = r]
        PROVE  Takes(p)
    BY <1>2, <1>5 DEF Captured, Takes
  <1>6. CASE Deliver(p, k)
    BY <1>4, <1>5, <1>6 DEF Deliver, Asks
  <1>7. CASE AskRestart(p, k)
    <2>1. PICK s \in 1..minted : req' = [req EXCEPT ![p] = ToRotate(k, "restart", s)]
      BY <1>7 DEF AskRestart, Asks
    <2>2. s \in Nat
      BY <1>3, <2>1
    <2> QED
      BY <1>3, <1>4, <1>5, <2>1, <2>2
  <1>8. CASE AskApply(p, k)
    <2>1. \/ req' = [req EXCEPT ![p] = ToRotate(k, "compaction", None)]
          \/ \E n \in 0..bot.config : req' = [req EXCEPT ![p] = ToRotate(k, "config", n)]
      BY <1>8 DEF AskApply, Asks
    <2>2. \A n \in 0..bot.config : n \in Nat
      BY <1>3
    <2> QED
      BY <1>3, <1>4, <1>5, <2>1, <2>2
  <1>9. CASE Sweep(p, k)
    BY <1>3, <1>4, <1>5, <1>9 DEF Sweep, Asks
  <1>10. CASE Report(p, k)
    BY <1>4, <1>5, <1>10 DEF Report
  <1>11. CASE SendDirectly(p, k)
    BY <1>11 DEF SendDirectly, Takes
  <1>12. CASE StartEdit(p, k)
    BY <1>4, <1>5, <1>12 DEF StartEdit
  <1> QED
    BY <1>1, <1>6, <1>7, <1>8, <1>9, <1>10, <1>11, <1>12

\* Leaving changes where a request is and what it came for, and nothing it captured.
LEMMA Leaving ==
  ASSUME Data, NEW p \in Requests, Leave(p) \/ Finish(p)
  PROVE  /\ pc' \in [Requests -> PC] /\ req' \in [Requests -> Request]
         /\ \A q \in Requests :
              /\ req'[q].seen = req[q].seen /\ req'[q].primary = req[q].primary
              /\ req'[q].fresh = req[q].fresh /\ req'[q].kind = req[q].kind
              /\ req'[q].had = req[q].had
              /\ pc'[q] = pc[q] \/ (q = p /\ pc'[q] \in {"asked", "done"})
  <1>1. CASE req' = req /\ pc' = [pc EXCEPT ![p] = "done"]
    BY <1>1 DEF Data, PC
  <1>2. CASE /\ req' = [req EXCEPT ![p].job = "deliver"]
             /\ pc' = [pc EXCEPT ![p] = "asked"]
    <2>1. req[p] \in Request
      BY DEF Data
    <2>2. [req[p] EXCEPT !.job = "deliver"] \in Request
      BY <2>1 DEF Request
    <2>3. req' = [req EXCEPT ![p] = [req[p] EXCEPT !.job = "deliver"]]
      BY <1>2
    <2>4. req' \in [Requests -> Request] /\ req'[p] = [req[p] EXCEPT !.job = "deliver"]
      BY <2>2, <2>3 DEF Data
    <2>5. /\ req'[p].seen = req[p].seen /\ req'[p].primary = req[p].primary
          /\ req'[p].fresh = req[p].fresh /\ req'[p].kind = req[p].kind
          /\ req'[p].had = req[p].had
      BY <2>1, <2>4 DEF Request
    <2>6. \A q \in Requests : q # p => req'[q] = req[q]
      BY <2>3 DEF Data
    <2>7. pc' \in [Requests -> PC] /\ pc'[p] = "asked"
          /\ \A q \in Requests : q # p => pc'[q] = pc[q]
      BY <1>2 DEF Data, PC
    <2> QED
      BY <2>4, <2>5, <2>6, <2>7
  <1> QED
    BY <1>1, <1>2 DEF Leave, Finish, Goto

\* A step that leaves keeps the data, if what else it writes is sound.
LEMMA LeavingData ==
  ASSUME Data, NEW p \in Requests, Leave(p) \/ Finish(p),
         bot' \in Bot, bot'.sid <= minted, minted' = minted,
         running' \subseteq 1..minted, listed' \subseteq running',
         msg' \in [Requests -> Message], given' \subseteq Nat, closed' \subseteq Sessions,
         crashes' = crashes
  PROVE  Data'
  <1>1. /\ pc' \in [Requests -> PC] /\ req' \in [Requests -> Request]
        /\ \A q \in Requests :
              /\ req'[q].seen = req[q].seen /\ req'[q].primary = req[q].primary
              /\ req'[q].fresh = req[q].fresh
              /\ pc'[q] = pc[q] \/ (q = p /\ pc'[q] \in {"asked", "done"})
    BY Leaving
  <1> QED
    BY <1>1 DEF Data

\* Closing a runtime only takes messages off.
LEMMA Closing ==
  ASSUME Data, NEW s \in Sessions, Closes(s)
  PROVE  /\ running' \subseteq running /\ listed' \subseteq running'
         /\ msg' \in [Requests -> Message] /\ closed' \subseteq Sessions
  <1>1. \A q \in Requests : [msg[q] EXCEPT !.st = "dropped"] \in Message /\ msg[q] \in Message
    BY DEF Data, Message
  <1> QED
    BY <1>1 DEF Data, Closes

\* The scan answers with a session that was used, or with none.
LEMMA MainIsOurs ==
  ASSUME Data, NEW p \in Requests, NEW m \in Main(req[p].seen)
  PROVE  m \in Sessions \cup {None} /\ m <= minted
  BY DEF Data, Main, None, Sessions, Bot, Request

LEMMA PreviousIsOurs ==
  ASSUME Data, NEW p \in Requests
  PROVE  Previous(p) \in Sessions /\ Previous(p) <= minted
  BY DEF Data, Previous, None, Sessions, Bot, Request

LEMMA ArriveData ==
  ASSUME BotRotationAssumption, Data, NEW p \in Requests, Arrive(p)
  PROVE  Data'
  <1>1. UNCHANGED <<bot, running, listed, minted, given, closed, crashes>> /\ pc[p] = "new"
    BY DEF Arrive, runtimes
  <1>2. \E where \in {"asked", "scan", "done", "saving"} : pc' = [pc EXCEPT ![p] = where]
    BY DEF Arrive, Deliver, AskRestart, AskApply, Sweep, Report, SendDirectly, StartEdit, Asks, Goto
  <1>3. msg' \in [Requests -> Message]
    <2>1. \/ msg' = msg
          \/ \E s \in listed : msg' = [msg EXCEPT ![p] = [st |-> "queued", at |-> s]]
      BY DEF Arrive, Deliver, AskRestart, AskApply, Sweep, Report, SendDirectly, StartEdit, Sends
    <2> QED
      BY <2>1 DEF Data, Message, Sessions
  <1>4. /\ req' \in [Requests -> Request]
        /\ \A q \in Requests : req'[q] = req[q] \/ (q = p /\ req'[q].seen = bot
                                  /\ req'[q].primary = None /\ req'[q].fresh = None)
    BY ArriveRequest DEF Takes, Captured, Data
  <1>5. None <= minted
    BY DEF Data, None, Sessions
  <1> QED
    BY <1>1, <1>2, <1>3, <1>4, <1>5 DEF Data, PC, Rotating, Delivering

LEMMA RotateData ==
  ASSUME Data, NEW p \in Requests, Rotate(p)
  PROVE  Data'
  <1> USE DEF runtimes
  <1>1. CASE Begin(p)
    <2>1. CASE Proceeds(p)
      <3>1. [req[p] EXCEPT !.seen = bot, !.had = {q \in Requests : msg[q].st = "queued"}] \in Request
        BY DEF Data, Request
      <3>2. req' = [req EXCEPT ![p] = [req[p] EXCEPT !.seen = bot,
                                         !.had = {q \in Requests : msg[q].st = "queued"}]]
        BY <1>1, <2>1 DEF Begin
      <3> QED
        BY <1>1, <2>1, <3>1, <3>2 DEF Begin, Data, Goto, PC, Rotating, Request
    <2>2. CASE ~Proceeds(p)
      <3>1. bot' \in Bot /\ bot'.sid = bot.sid
        <4>1. \/ bot' = bot
              \/ bot' = [bot EXCEPT !.rot = "idle", !.reason = "none", !.expected = None]
          BY <1>1, <2>2 DEF Begin
        <4>2. "none" \in Reason /\ None \in Nat
          BY DEF Reason, None
        <4> QED
          BY <4>1, <4>2 DEF Data, Bot
      <3> QED
        BY <1>1, <2>2, <3>1, LeavingData DEF Begin, Data
    <2> QED
      BY <2>1, <2>2
  <1>2. CASE Admit(p)
    <2>0. /\ req[p].reason \in Reason /\ req[p].expected \in Nat
          /\ ExpectedOf(p) \in Nat
      BY DEF Data, Request, ExpectedOf, None
    <2>1. ASSUME NEW m \in Main(req[p].seen), req' = [req EXCEPT ![p].primary = m],
                 IF req[p].reason = "restart"
                 THEN Becomes(p, "rotating") /\ Goto(p, "prepare")
                 ELSE bot' = bot /\ Goto(p, "drain")
          PROVE  Data'
      <3>1. m \in Sessions \cup {None} /\ m <= minted
        BY MainIsOurs
      <3>2. [req[p] EXCEPT !.primary = m] \in Request
        BY <3>1 DEF Data, Request
      <3>3. bot' \in Bot /\ bot'.sid = bot.sid
        BY <2>0, <2>1 DEF Becomes, Data, Bot
      <3>4. req' = [req EXCEPT ![p] = [req[p] EXCEPT !.primary = m]]
        BY <2>1
      <3>5. pc' = [pc EXCEPT ![p] = "prepare"] \/ pc' = [pc EXCEPT ![p] = "drain"]
        BY <2>1 DEF Goto
      <3> QED
        BY <1>2, <3>1, <3>2, <3>3, <3>4, <3>5 DEF Admit, Data, PC, Rotating, Request
    <2>2. CASE Becomes(p, "queued") /\ Leave(p)
      <3>1. bot' \in Bot /\ bot'.sid = bot.sid
        BY <2>0, <2>2 DEF Becomes, Data, Bot
      <3> QED
        BY <1>2, <2>2, <3>1, LeavingData DEF Admit, Data
    <2> QED
      BY <1>2, <2>1, <2>2 DEF Admit
  <1>3. CASE Drain(p)
    <2>0. /\ req[p].reason \in Reason /\ ExpectedOf(p) \in Nat
      BY DEF Data, Request, ExpectedOf, None
    <2>1. CASE Becomes(p, "queued") /\ Leave(p)
      <3>1. bot' \in Bot /\ bot'.sid = bot.sid
        BY <2>0, <2>1 DEF Becomes, Data, Bot
      <3> QED
        BY <1>3, <2>1, <3>1, LeavingData DEF Drain, Data
    <2>2. CASE Becomes(p, "rotating") /\ Goto(p, "prepare") /\ UNCHANGED <<line, req>>
      BY <1>3, <2>0, <2>2 DEF Drain, Becomes, Data, Bot, Goto, PC, Rotating
    <2> QED
      BY <1>3, <2>1, <2>2 DEF Drain
  <1>4. CASE Prepare(p)
    <2>1. CASE Fails(p) /\ UNCHANGED runtimes
      <3>1. bot' \in Bot /\ bot'.sid = bot.sid
        BY <2>1 DEF Fails, Data, Bot, Request
      <3> QED
        BY <1>4, <2>1, <3>1, LeavingData DEF Prepare, Fails, Data
    <2>2. CASE /\ minted' = minted + 1 /\ Launches(minted + 1, req[p].seen)
               /\ listed' = listed \cup {minted + 1}
               /\ req' = [req EXCEPT ![p].fresh = minted + 1]
               /\ Goto(p, "stage") /\ UNCHANGED <<bot, line>>
      <3>1. minted \in Nat /\ minted + 1 \in Sessions /\ minted <= minted + 1
        BY DEF Data, Sessions
      <3>2. [req[p] EXCEPT !.fresh = minted + 1] \in Request
        BY <3>1 DEF Data, Request
      <3>3. req' = [req EXCEPT ![p] = [req[p] EXCEPT !.fresh = minted + 1]]
        BY <2>2
      <3>4. req[p].seen.content \in Nat
        BY DEF Data, Request, Bot
      <3>5. running' \subseteq 1..minted' /\ listed' \subseteq running'
        BY <2>2, <3>1 DEF Data, Launches, Sessions
      <3>6. given' \subseteq Nat /\ closed' \subseteq Sessions
        BY <2>2, <3>4 DEF Data, Launches
      <3>7. /\ req' \in [Requests -> Request]
            /\ req'[p].seen = req[p].seen /\ req'[p].primary = req[p].primary
            /\ req'[p].fresh = minted + 1
            /\ \A q \in Requests : q # p => req'[q] = req[q]
        BY <3>2, <3>3 DEF Data, Request
      <3>8. \A n \in Nat : n <= minted => n <= minted'
        BY <2>2, <3>1
      <3>9. \A q \in Requests : /\ req[q].seen.sid \in Nat /\ req[q].primary \in Nat
                                /\ req[q].fresh \in Nat
        BY DEF Data, Request, Bot, Sessions, None
      <3>10. pc' = [pc EXCEPT ![p] = "stage"] /\ bot' = bot /\ msg' = msg /\ crashes' = crashes
        BY <1>4, <2>2 DEF Goto, Prepare
      <3>11. bot'.sid <= minted' /\ minted' \in Sessions
        BY <2>2, <3>1, <3>8, <3>10 DEF Data, Bot, Sessions
      <3>12. \A q \in Requests : req'[q].seen.sid <= minted' /\ req'[q].primary <= minted'
                                 /\ req'[q].fresh <= minted'
        BY <2>2, <3>1, <3>7, <3>8, <3>9 DEF Data
      <3> QED
        BY <3>1, <3>5, <3>6, <3>7, <3>10, <3>11, <3>12 DEF Data, PC, Rotating, None, Sessions
    <2> QED
      BY <1>4, <2>1, <2>2 DEF Prepare
  <1>5. CASE Stage(p)
    BY <1>5 DEF Stage, Stands, Data, Bot, Request, Goto, PC, Rotating, None
  <1>6. CASE Retire(p)
    <2>1. req[p].primary \in Sessions
      BY <1>6 DEF Retire, Stands, Data, Request
    <2>2. CASE Closes(req[p].primary) /\ Goto(p, "carry") /\ UNCHANGED bot
      BY <1>6, <2>1, <2>2, Closing DEF Retire, Stands, Data, Goto, PC, Rotating
    <2>3. CASE /\ bot' = [bot EXCEPT !.sid = Previous(p), !.applied = req[p].seen.applied,
                                     !.rot = "failed", !.reason = req[p].reason]
               /\ Goto(p, "stop")
               /\ UNCHANGED <<running, listed, closed, msg>>
      <3>1. bot' \in Bot /\ bot'.sid = Previous(p)
        BY <2>3, PreviousIsOurs DEF Data, Bot, Request
      <3>2. pc' \in [Requests -> PC] /\ pc'[p] = "stop"
            /\ \A q \in Requests : q # p => pc'[q] = pc[q]
        BY <2>3 DEF Data, Goto, PC, Rotating
      <3>3. req[p].fresh # None
        BY <1>6 DEF Retire, Stands, Data
      <3> QED
        BY <1>6, <2>3, <3>1, <3>2, <3>3, PreviousIsOurs DEF Retire, Data
    <2> QED
      BY <1>6, <2>2, <2>3 DEF Retire
  <1>7. CASE Stop(p)
    <2>1. req[p].fresh \in Sessions
      BY <1>7 DEF Stop, Stands, Data, Request
    <2>2. /\ running' \subseteq running /\ listed' \subseteq running'
          /\ msg' \in [Requests -> Message] /\ closed' \subseteq Sessions
      BY <1>7, <2>1, Closing DEF Stop, Data
    <2>3. bot' \in Bot /\ bot'.sid = bot.sid
      BY <1>7 DEF Stop, Fails, Data, Bot, Request
    <2>4. Leave(p) /\ UNCHANGED <<minted, given, crashes>>
      BY <1>7 DEF Stop, Fails
    <2> QED
      BY <2>2, <2>3, <2>4, LeavingData DEF Data
  <1>8. CASE Carry(p)
    <2>1. bot' \in Bot /\ bot'.sid = bot.sid
      <3>1. bot' = [bot EXCEPT !.rot = "idle", !.reason = "none", !.expected = None,
                               !.archived = bot.archived \cup {Previous(p)}]
        BY <1>8 DEF Carry, Data, Bot
      <3>2. Previous(p) \in Sessions /\ bot \in Bot /\ "none" \in Reason /\ None \in Nat
        BY PreviousIsOurs DEF Data, Reason, None
      <3>3. bot.archived \cup {Previous(p)} \in SUBSET Sessions
        BY <3>2 DEF Bot
      <3> QED
        BY <3>1, <3>2, <3>3 DEF Bot
    <2>2. \A q \in Requests : /\ [msg[q] EXCEPT !.at = req[p].fresh] \in Message
                              /\ [msg[q] EXCEPT !.st = "dropped"] \in Message
                              /\ msg[q] \in Message
      BY DEF Data, Message, Request
    <2>3. msg' \in [Requests -> Message]
      <3>1. PICK sent \in SUBSET QueuedAt(Previous(p)) :
              msg' = [q \in Requests |->
                        CASE q \in sent -> [msg[q] EXCEPT !.at = req[p].fresh]
                          [] q \in QueuedAt(Previous(p)) \ sent -> [msg[q] EXCEPT !.st = "dropped"]
                          [] OTHER -> msg[q]]
        BY <1>8 DEF Carry
      <3>2. ASSUME NEW q \in Requests  PROVE msg'[q] \in Message
        <4>1. CASE q \in sent
          BY <2>2, <3>1, <4>1
        <4>2. CASE q \notin sent /\ q \in QueuedAt(Previous(p))
          BY <2>2, <3>1, <4>2
        <4>3. CASE q \notin sent /\ q \notin QueuedAt(Previous(p))
          BY <2>2, <3>1, <4>3
        <4> QED
          BY <4>1, <4>2, <4>3
      <3> QED
        BY <3>1, <3>2
    <2> QED
      BY <1>8, <2>1, <2>3, LeavingData DEF Carry, Data
  <1> QED
    BY <1>1, <1>2, <1>3, <1>4, <1>5, <1>6, <1>7, <1>8 DEF Rotate

LEMMA DeliverData ==
  ASSUME Data, NEW p \in Requests,
         SaveEdit(p) \/ Enlist(p) \/ Open(p) \/ Find(p) \/ Send(p) \/ ColdStart(p)
  PROVE  Data'
  <1> USE DEF runtimes
  <1>1. CASE SaveEdit(p)
    <2>1. /\ req[p].seen.config + 1 \in Nat /\ bot.content + 1 \in Nat
          /\ "none" \in Reason /\ "config" \in Reason /\ None \in Nat
      BY DEF Data, Request, Bot, Reason, None
    <2>2. bot' \in Bot /\ bot'.sid = bot.sid
      <3>1. \/ bot' = [bot EXCEPT !.config = req[p].seen.config + 1, !.content = bot.content + 1,
                                  !.rot = "idle", !.reason = "none", !.expected = None]
            \/ bot' = [bot EXCEPT !.config = req[p].seen.config + 1, !.content = bot.content + 1,
                                  !.rot = "queued", !.reason = "config"]
        BY <1>1 DEF SaveEdit, Data, Bot
      <3>2. bot \in Bot
        BY DEF Data
      <3> QED
        BY <2>1, <3>1, <3>2 DEF Bot
    <2>3. pc' \in [Requests -> PC] /\ \A q \in Requests : pc'[q] = pc[q] \/ pc'[q] = "done"
      BY <1>1 DEF SaveEdit, Data, Goto, PC
    <2> QED
      BY <1>1, <2>2, <2>3 DEF SaveEdit, Data
  <1>2. CASE Enlist(p)
    BY <1>2 DEF Enlist, Data, Goto, PC
  <1>3. CASE Open(p)
    <2>1. CASE Leave(p)
      BY <1>3, <2>1, LeavingData DEF Open, Data
    <2>2. CASE /\ req' = IF req[p].kind = "mention" THEN req ELSE [req EXCEPT ![p].seen = bot]
               /\ Goto(p, "scan")
      <3>1. [req[p] EXCEPT !.seen = bot] \in Request
        BY DEF Data, Request
      <3>2. req' = req \/ req' = [req EXCEPT ![p] = [req[p] EXCEPT !.seen = bot]]
        BY <2>2
      <3>3. pc' = [pc EXCEPT ![p] = "scan"]
        BY <2>2 DEF Goto
      <3>4. req' \in [Requests -> Request]
            /\ \A q \in Requests : /\ req'[q].seen.sid <= minted
                                   /\ req'[q].primary = req[q].primary
                                   /\ req'[q].fresh = req[q].fresh
        <4>1. CASE req' = req
          BY <4>1 DEF Data
        <4>2. CASE req' = [req EXCEPT ![p] = [req[p] EXCEPT !.seen = bot]]
          <5>1. /\ req' \in [Requests -> Request] /\ req'[p] = [req[p] EXCEPT !.seen = bot]
                /\ \A q \in Requests : q # p => req'[q] = req[q]
            BY <3>1, <4>2 DEF Data
          <5>2. req'[p].seen = bot /\ req'[p].primary = req[p].primary
                /\ req'[p].fresh = req[p].fresh
            BY <5>1 DEF Data, Request
          <5> QED
            BY <5>1, <5>2 DEF Data
        <4> QED
          BY <3>2, <4>1, <4>2
      <3> QED
        BY <1>3, <3>3, <3>4 DEF Open, Data, PC, Delivering
    <2> QED
      BY <1>3, <2>1, <2>2 DEF Open
  <1>4. CASE Find(p)
    <2>1. PICK m \in Main(req[p].seen) :
            /\ req' = [req EXCEPT ![p].primary = m]
            /\ bot' = IF m \notin {None, req[p].seen.sid} THEN [bot EXCEPT !.sid = m] ELSE bot
            /\ Goto(p, IF m = None THEN "launch" ELSE "send")
      BY <1>4 DEF Find
    <2>2. m \in Sessions \cup {None} /\ m <= minted
      BY MainIsOurs
    <2>3. bot' \in Bot /\ bot'.sid <= minted
      BY <2>1, <2>2 DEF Data, Bot
    <2>4. [req[p] EXCEPT !.primary = m] \in Request
      BY <2>2 DEF Data, Request
    <2>5. req' = [req EXCEPT ![p] = [req[p] EXCEPT !.primary = m]]
      BY <2>1
    <2>6. /\ req' \in [Requests -> Request] /\ req'[p].primary = m
          /\ \A q \in Requests : /\ req'[q].seen = req[q].seen /\ req'[q].fresh = req[q].fresh
                                 /\ q # p => req'[q] = req[q]
      BY <2>4, <2>5 DEF Data, Request
    <2>7. pc' = [pc EXCEPT ![p] = IF m = None THEN "launch" ELSE "send"]
      BY <2>1 DEF Goto
    <2> QED
      BY <1>4, <2>2, <2>3, <2>6, <2>7 DEF Find, Data, PC, Delivering
  <1>5. CASE Send(p)
    <2>1. req[p].primary \in Sessions /\ req[p].primary <= minted
      BY <1>5 DEF Send, Delivery, Data, Request
    <2>2. bot' \in Bot /\ bot'.sid <= minted
      BY <1>5, <2>1 DEF Send, Data, Bot
    <2>3. msg' \in [Requests -> Message]
      BY <1>5, <2>1 DEF Send, Sends, Data, Message
    <2> QED
      BY <1>5, <2>2, <2>3, LeavingData DEF Send, Data
  <1>6. CASE ColdStart(p)
    <2>1. CASE listed' \in {listed, {}} /\ UNCHANGED <<bot, running, minted, given, closed, msg>>
      BY <1>6, <2>1, LeavingData DEF ColdStart, Data
    <2>2. CASE /\ Launches(req[p].seen.sid, req[p].seen)
               /\ listed' = {req[p].seen.sid}
               /\ minted' = minted
               /\ bot' = [bot EXCEPT !.sid = req[p].seen.sid, !.applied = req[p].seen.config]
               /\ Sends(p, IF req[p].kind = "peer" THEN "queued" ELSE "read", req[p].seen.sid)
      <3>1. /\ req[p].seen.sid \in Sessions /\ req[p].seen.sid <= minted
            /\ req[p].seen.config \in Nat /\ req[p].seen.content \in Nat
        BY DEF Data, Request, Bot
      <3>2. bot' \in Bot /\ bot'.sid <= minted
        BY <2>2, <3>1 DEF Data, Bot
      <3>3. msg' \in [Requests -> Message]
        BY <2>2, <3>1 DEF Sends, Data, Message
      <3>4. running' \subseteq 1..minted /\ listed' \subseteq running'
        BY <2>2, <3>1 DEF Launches, Data, Sessions
      <3>5. given' \subseteq Nat /\ closed' \subseteq Sessions
        BY <2>2, <3>1 DEF Launches, Data
      <3> QED
        BY <1>6, <2>2, <3>2, <3>3, <3>4, <3>5, LeavingData DEF ColdStart
    <2> QED
      BY <1>6, <2>1, <2>2 DEF ColdStart
  <1> QED
    BY <1>1, <1>2, <1>3, <1>4, <1>5, <1>6

LEMMA OtherData ==
  ASSUME BotRotationAssumption, Data,
         \/ \E q \in Requests : AgentReads(q)
         \/ \E s \in running : Die(s)
         \/ Crash
         \/ UNCHANGED vars
  PROVE  Data'
  <1>1. ASSUME NEW q \in Requests, AgentReads(q)  PROVE Data'
    <2>1. [msg[q] EXCEPT !.st = "read"] \in Message
      BY DEF Data, Message
    <2>2. msg' = [msg EXCEPT ![q] = [msg[q] EXCEPT !.st = "read"]]
      BY <1>1 DEF AgentReads
    <2> QED
      BY <1>1, <2>1, <2>2 DEF AgentReads, Data, runtimes
  <1>2. ASSUME NEW s \in running, Die(s)  PROVE Data'
    BY <1>2 DEF Die, Data
  <1>3. CASE Crash
    BY <1>3 DEF Crash, Data, runtimes, PC, BotRotationAssumption
  <1>4. CASE UNCHANGED vars
    BY <1>4 DEF vars, Data
  <1> QED
    BY <1>1, <1>2, <1>3, <1>4

LEMMA DataStep == BotRotationAssumption /\ Data /\ [Next]_vars => Data'
  BY ArriveData, RotateData, DeliverData, OtherData DEF Next, Step

-----------------------------------------------------------------------------
\* The line

\* The head goes on to another await of its section.
LEMMA StayPlace ==
  ASSUME Data, Place, NEW p \in Requests, Holds(p), line' = line,
         pc' \in [Requests -> PC], pc'[p] \in Rotating \cup Delivering,
         \A q \in Requests : q # p => pc'[q] = pc[q],
         \A q \in Requests : req'[q].kind = req[q].kind
  PROVE  Place'
  <1>1. InLine(p)
    BY DEF Holds, InLine, Place
  <1>2. \A q \in Requests : InLine(q)' <=> InLine(q)
    BY DEF InLine
  <1>3. \A q \in Requests : Holds(q)' <=> Holds(q)
    BY DEF Holds
  <1>4. pc'[p] # "line" /\ pc'[p] # "asked"
    BY DEF Rotating, Delivering
  <1> QED
    BY <1>1, <1>2, <1>3, <1>4 DEF Place

\* Who leaves was first; the others keep their order.
LEMMA LeavePlace ==
  ASSUME Data, Place, NEW p \in Requests, Holds(p), Leave(p)
  PROVE  Place'
  <1>1. line \in Seq(Requests) /\ line # <<>> /\ line[1] = p /\ line' = Tail(line)
    BY DEF Place, Holds, Leave
  <1>2. /\ line' \in Seq(Requests) /\ Len(line') = Len(line) - 1 /\ Len(line) \in Nat \ {0}
        /\ \A i \in DOMAIN line' : i + 1 \in DOMAIN line /\ i + 1 # 1 /\ line'[i] = line[i + 1]
    BY <1>1
  <1>3. \A i, j \in DOMAIN line' : line'[i] = line'[j] => i = j
    BY <1>2 DEF Place
  <1>4. \A q \in Requests : InLine(q)' => InLine(q) /\ q # p
    BY <1>1, <1>2 DEF InLine, Place
  <1>5. \A q \in Requests : InLine(q) /\ q # p => InLine(q)'
    <2>1. ASSUME NEW q \in Requests, NEW i \in DOMAIN line, line[i] = q, q # p
          PROVE  InLine(q)'
      <3>1. i # 1 /\ i \in 1..Len(line)
        BY <1>1, <2>1
      <3>2. i - 1 \in DOMAIN line' /\ line'[i - 1] = q
        BY <1>1, <1>2, <2>1, <3>1
      <3> QED
        BY <3>2 DEF InLine
    <2> QED
      BY <2>1 DEF InLine
  <1>6. /\ pc' \in [Requests -> PC] /\ pc'[p] \in {"asked", "done"}
        /\ \A q \in Requests : q # p => pc'[q] = pc[q]
        /\ \A q \in Requests : req'[q].kind = req[q].kind
    <2>1. pc' = [pc EXCEPT ![p] = "asked"] \/ pc' = [pc EXCEPT ![p] = "done"]
      BY DEF Leave, Goto
    <2> QED
      BY <2>1, Leaving DEF Data, PC
  <1>7. InLine(p) /\ req[p].kind # "report"
    BY <1>1 DEF InLine, Place
  <1>8. \A q \in Requests : q # p => ~Holds(q)
    BY <1>1 DEF Holds
  <1>9. pc'[p] \notin {"line"} \cup Rotating \cup Delivering
    BY <1>6 DEF Rotating, Delivering
  <1>10. ASSUME NEW q \in Requests
         PROVE  /\ pc'[q] \in Rotating => Holds(q)'
                /\ InLine(q)' => pc'[q] \in {"line"} \cup Rotating \cup Delivering
                /\ pc'[q] = "line" => InLine(q)'
                /\ pc'[q] \in Delivering /\ req'[q].kind # "report" => Holds(q)'
                /\ InLine(q)' \/ pc'[q] = "asked" => req'[q].kind # "report"
    <2>1. CASE q = p
      BY <1>4, <1>6, <1>7, <1>9, <2>1
    <2>2. CASE q # p
      BY <1>4, <1>5, <1>6, <1>8, <2>2 DEF Place
    <2> QED
      BY <2>1, <2>2
  <1> QED
    BY <1>2, <1>3, <1>10 DEF Place

\* A request outside the line goes somewhere that needs no place in it.
LEMMA OutsidePlace ==
  ASSUME Data, Place, NEW p \in Requests, ~InLine(p), line' = line,
         pc' \in [Requests -> PC], pc'[p] \notin Rotating, pc'[p] # "line",
         pc'[p] \in Delivering => req'[p].kind = "report",
         pc'[p] = "asked" => req'[p].kind # "report",
         \A q \in Requests : q # p => pc'[q] = pc[q] /\ req'[q].kind = req[q].kind
  PROVE  Place'
  <1>1. \A q \in Requests : InLine(q)' <=> InLine(q)
    BY DEF InLine
  <1>2. \A q \in Requests : Holds(q)' <=> Holds(q)
    BY DEF Holds
  <1>3. ASSUME NEW q \in Requests
        PROVE  /\ pc'[q] \in Rotating => Holds(q)'
               /\ InLine(q)' => pc'[q] \in {"line"} \cup Rotating \cup Delivering
               /\ pc'[q] = "line" => InLine(q)'
               /\ pc'[q] \in Delivering /\ req'[q].kind # "report" => Holds(q)'
               /\ InLine(q)' \/ pc'[q] = "asked" => req'[q].kind # "report"
    <2>1. CASE q = p
      BY <1>1, <2>1
    <2>2. CASE q # p
      BY <1>1, <1>2, <2>2 DEF Place
    <2> QED
      BY <2>1, <2>2
  <1>4. line' \in Seq(Requests) /\ \A i, j \in DOMAIN line' : line'[i] = line'[j] => i = j
    BY DEF Place
  <1> QED
    BY <1>3, <1>4 DEF Place

LEMMA EnlistPlace ==
  ASSUME Data, Place, NEW p \in Requests, Enlist(p)
  PROVE  Place'
  <1>1. ~InLine(p) /\ req' = req /\ req[p].kind # "report"
    BY DEF Enlist, Place, Rotating, Delivering
  <1>2. CASE Goto(p, "done") /\ line' = line
    <2>1. pc' \in [Requests -> PC] /\ pc'[p] = "done"
          /\ \A q \in Requests : q # p => pc'[q] = pc[q]
      BY <1>2 DEF Goto, Data, PC
    <2>2. \A q \in Requests : req'[q].kind = req[q].kind
      BY <1>1
    <2> QED
      BY <1>1, <1>2, <2>1, <2>2, OutsidePlace DEF Rotating, Delivering
  <1>3. CASE Goto(p, "line") /\ line' = Append(line, p)
    <2>1. /\ line \in Seq(Requests) /\ line' \in Seq(Requests) /\ Len(line) \in Nat
          /\ DOMAIN line' = 1..Len(line) + 1 /\ DOMAIN line = 1..Len(line)
          /\ line'[Len(line) + 1] = p
          /\ \A i \in DOMAIN line : line'[i] = line[i]
      BY <1>3 DEF Place
    <2>2. \A i \in DOMAIN line : line[i] # p
      BY <1>1 DEF InLine
    <2>3. \A i, j \in DOMAIN line' : line'[i] = line'[j] => i = j
      BY <2>1, <2>2 DEF Place
    <2>4. \A q \in Requests : InLine(q)' <=> (InLine(q) \/ q = p)
      BY <2>1 DEF InLine
    <2>5. \A q \in Requests : Holds(q) => Holds(q)'
      BY <2>1 DEF Holds
    <2>6. pc' \in [Requests -> PC] /\ pc'[p] = "line" /\ "line" \notin Rotating \cup Delivering
          /\ \A q \in Requests : q # p => pc'[q] = pc[q]
      BY <1>3 DEF Goto, Data, PC, Rotating, Delivering
    <2>7. ASSUME NEW q \in Requests
          PROVE  /\ pc'[q] \in Rotating => Holds(q)'
                 /\ InLine(q)' => pc'[q] \in {"line"} \cup Rotating \cup Delivering
                 /\ pc'[q] = "line" => InLine(q)'
                 /\ pc'[q] \in Delivering /\ req'[q].kind # "report" => Holds(q)'
                 /\ InLine(q)' \/ pc'[q] = "asked" => req'[q].kind # "report"
      <3>1. CASE q = p
        BY <1>1, <2>4, <2>6, <3>1
      <3>2. CASE q # p
        BY <1>1, <2>4, <2>5, <2>6, <3>2 DEF Place
      <3> QED
        BY <3>1, <3>2
    <2>8. line' \in Seq(Requests)
      BY <2>1
    <2> QED
      BY <2>3, <2>7, <2>8 DEF Place
  <1> QED
    BY <1>2, <1>3 DEF Enlist

LEMMA ArrivePlace ==
  ASSUME BotRotationAssumption, Data, Place, NEW p \in Requests, Arrive(p)
  PROVE  Place'
  <1>1. pc[p] = "new" /\ line' = line
    BY DEF Arrive
  <1>2. ~InLine(p)
    BY <1>1 DEF Place, Rotating, Delivering
  <1>3. PICK k \in Kinds : \/ Deliver(p, k) \/ AskRestart(p, k) \/ AskApply(p, k) \/ Sweep(p, k)
                           \/ Report(p, k) \/ SendDirectly(p, k) \/ StartEdit(p, k)
    BY DEF Arrive
  <1>4. k \in AllKinds
    BY <1>3 DEF BotRotationAssumption
  <1>5. /\ Captured(As(k), k) /\ Captured([As(k) EXCEPT !.job = "deliver"], k)
        /\ \A reason \in Reason, e \in Nat : Captured(ToRotate(k, reason, e), k)
        /\ Captured(Queued(k), k)
    BY <1>4, Captures
  <1>6. /\ pc' \in [Requests -> PC] /\ req' \in [Requests -> Request]
        /\ \A q \in Requests : q # p => pc'[q] = pc[q] /\ req'[q].kind = req[q].kind
    <2>1. pc' \in [Requests -> PC] /\ req' \in [Requests -> Request]
      BY ArriveData DEF Data
    <2>2. \A q \in Requests : q # p => req'[q] = req[q]
      BY ArriveRequest DEF Takes, Data
    <2>3. \A q \in Requests : q # p => pc'[q] = pc[q]
      BY <1>3 DEF Deliver, AskRestart, AskApply, Sweep, Report, SendDirectly, StartEdit, Asks,
                  Goto, Data
    <2> QED
      BY <2>1, <2>2, <2>3
  <1>7. CASE Report(p, k)
    <2>1. pc'[p] = "scan" /\ req'[p] = As(k) /\ k = "report"
      BY <1>7 DEF Report, Goto, Data
    <2> QED
      BY <1>1, <1>2, <1>5, <1>6, <2>1, OutsidePlace DEF Captured, Rotating
  <1>8. CASE SendDirectly(p, k) \/ StartEdit(p, k)
    <2>1. pc'[p] \in {"done", "saving"}
      BY <1>8 DEF SendDirectly, StartEdit, Goto, Data
    <2> QED
      BY <1>1, <1>2, <1>6, <2>1, OutsidePlace DEF Rotating, Delivering
  <1>9. CASE Deliver(p, k) \/ AskRestart(p, k) \/ AskApply(p, k) \/ Sweep(p, k)
    <2>1. \E r : Asks(p, r) /\ Captured(r, k)
      <3>1. CASE Deliver(p, k)
        BY <1>5, <3>1 DEF Deliver
      <3>2. CASE AskRestart(p, k)
        <4>1. PICK n \in 1..minted : Asks(p, ToRotate(k, "restart", n))
          BY <3>2 DEF AskRestart
        <4>2. n \in Nat /\ "restart" \in Reason
          BY <4>1 DEF Data, Sessions, Reason
        <4> QED
          BY <1>5, <4>1, <4>2
      <3>3. CASE AskApply(p, k)
        <4>1. \/ Asks(p, ToRotate(k, "compaction", None))
              \/ \E n \in 0..bot.config : Asks(p, ToRotate(k, "config", n))
          BY <3>3 DEF AskApply
        <4>2. (\A n \in 0..bot.config : n \in Nat) /\ None \in Nat
              /\ "config" \in Reason /\ "compaction" \in Reason
          BY DEF Data, Bot, Reason, None
        <4> QED
          BY <1>5, <4>1, <4>2
      <3>4. CASE Sweep(p, k)
        <4>1. Asks(p, Queued(k)) \/ Asks(p, ToRotate(k, "compaction", None))
          BY <3>4 DEF Sweep
        <4>2. None \in Nat /\ "compaction" \in Reason
          BY DEF Reason, None
        <4> QED
          BY <1>5, <4>1, <4>2
      <3> QED
        BY <1>9, <3>1, <3>2, <3>3, <3>4
    <2>2. pc'[p] = "asked" /\ req'[p].kind = k
      BY <2>1 DEF Asks, Goto, Captured, Data
    <2>3. k # "report"
      BY <1>9 DEF Deliver, AskRestart, AskApply, Sweep, Delivers
    <2> QED
      BY <1>1, <1>2, <1>6, <2>2, <2>3, OutsidePlace DEF Rotating, Delivering
  <1> QED
    BY <1>3, <1>7, <1>8, <1>9

\* Every step of a rotation is the head's; it stays in the section or leaves it.
LEMMA RotatePlace ==
  ASSUME Data, Place, NEW p \in Requests, Rotate(p)
  PROVE  Place'
  <1>1. Holds(p)
    BY DEF Rotate, Begin, Admit, Drain, Prepare, Stage, Retire, Stop, Carry, Stands
  <1>2. \/ Leave(p)
        \/ /\ line' = line
           /\ \E w \in Rotating : pc' = [pc EXCEPT ![p] = w]
           /\ \/ req' = req
              \/ req' = [req EXCEPT ![p].seen = bot,
                                    ![p].had = {q \in Requests : msg[q].st = "queued"}]
              \/ \E m \in Main(req[p].seen) : req' = [req EXCEPT ![p].primary = m]
              \/ req' = [req EXCEPT ![p].fresh = minted + 1]
    <2>1. CASE Begin(p)
      BY <2>1 DEF Begin, Goto, Rotating
    <2>2. CASE Admit(p)
      BY <2>2 DEF Admit, Goto, Rotating
    <2>3. CASE Drain(p)
      BY <2>3 DEF Drain, Goto, Rotating
    <2>4. CASE Prepare(p)
      BY <2>4 DEF Prepare, Fails, Goto, Rotating
    <2>5. CASE Stage(p)
      BY <2>5 DEF Stage, Goto, Rotating
    <2>6. CASE Retire(p)
      BY <2>6 DEF Retire, Goto, Rotating
    <2>7. CASE Stop(p)
      BY <2>7 DEF Stop, Fails
    <2>8. CASE Carry(p)
      BY <2>8 DEF Carry
    <2> QED
      BY <2>1, <2>2, <2>3, <2>4, <2>5, <2>6, <2>7, <2>8 DEF Rotate
  <1>3. CASE Leave(p)
    BY <1>1, <1>3, LeavePlace
  <1>4. CASE ~Leave(p)
    <2>1. \A q \in Requests : req'[q].kind = req[q].kind
      BY <1>2, <1>4 DEF Data, Request
    <2>2. pc' \in [Requests -> PC] /\ pc'[p] \in Rotating /\ line' = line
          /\ \A q \in Requests : q # p => pc'[q] = pc[q]
      BY <1>2, <1>4 DEF Data, PC
    <2> QED
      BY <1>1, <2>1, <2>2, StayPlace
  <1> QED
    BY <1>3, <1>4

\* So is every step of a delivery, unless it is a report's.
LEMMA DeliverPlace ==
  ASSUME Data, Place, NEW p \in Requests, Open(p) \/ Find(p) \/ Send(p) \/ ColdStart(p)
  PROVE  Place'
  <1>1. CASE Open(p)
    <2>1. Holds(p)
      BY <1>1 DEF Open, Stands
    <2>2. CASE Leave(p)
      BY <2>1, <2>2, LeavePlace
    <2>3. CASE ~Leave(p)
      <3>1. /\ line' = line /\ pc' = [pc EXCEPT ![p] = "scan"]
            /\ req' = req \/ req' = [req EXCEPT ![p].seen = bot]
        BY <1>1, <2>3 DEF Open, Goto
      <3>2. \A q \in Requests : req'[q].kind = req[q].kind
        BY <3>1 DEF Data, Request
      <3>3. pc' \in [Requests -> PC] /\ pc'[p] \in Delivering
            /\ \A q \in Requests : q # p => pc'[q] = pc[q]
        BY <3>1 DEF Data, PC, Delivering
      <3> QED
        BY <2>1, <3>1, <3>2, <3>3, StayPlace
    <2> QED
      BY <2>2, <2>3
  <1>2. CASE Find(p)
    <2>1. /\ line' = line
          /\ \E w \in Delivering : pc' = [pc EXCEPT ![p] = w]
          /\ \E m \in Main(req[p].seen) : req' = [req EXCEPT ![p].primary = m]
      BY <1>2 DEF Find, Goto, Delivering
    <2>2. \A q \in Requests : req'[q].kind = req[q].kind
      BY <2>1 DEF Data, Request
    <2>3. pc' \in [Requests -> PC] /\ pc'[p] \in Delivering
          /\ \A q \in Requests : q # p => pc'[q] = pc[q]
      BY <2>1 DEF Data, PC
    <2>4. CASE Holds(p)
      BY <2>1, <2>2, <2>3, <2>4, StayPlace
    <2>5. CASE req[p].kind = "report"
      <3>1. ~InLine(p)
        BY <2>5 DEF Place
      <3>2. pc'[p] \notin Rotating /\ pc'[p] # "line" /\ pc'[p] # "asked"
        BY <2>3 DEF Rotating, Delivering
      <3> QED
        BY <2>1, <2>2, <2>3, <2>5, <3>1, <3>2, OutsidePlace
    <2> QED
      BY <1>2, <2>4, <2>5 DEF Find, Delivery
  <1>3. CASE Send(p) \/ ColdStart(p)
    <2>1. Finish(p) /\ (Holds(p) \/ req[p].kind = "report")
      BY <1>3 DEF Send, ColdStart, Delivery
    <2>2. CASE req[p].kind = "report"
      <3>1. ~InLine(p)
        BY <2>2 DEF Place
      <3>2. line' = line /\ req' = req /\ pc' = [pc EXCEPT ![p] = "done"]
        BY <2>1, <2>2 DEF Finish, Goto
      <3>3. pc' \in [Requests -> PC] /\ pc'[p] = "done"
            /\ \A q \in Requests : q # p => pc'[q] = pc[q]
        BY <3>2 DEF Data, PC
      <3> QED
        BY <3>1, <3>2, <3>3, OutsidePlace DEF Rotating, Delivering
    <2>3. CASE req[p].kind # "report"
      BY <2>1, <2>3, LeavePlace DEF Finish
    <2> QED
      BY <2>2, <2>3
  <1> QED
    BY <1>1, <1>2, <1>3

LEMMA OtherPlace ==
  ASSUME Data, Place,
         \/ \E q \in Requests : SaveEdit(q) \/ AgentReads(q)
         \/ \E s \in running : Die(s)
         \/ Crash
         \/ UNCHANGED vars
  PROVE  Place'
  <1>1. ASSUME NEW p \in Requests, SaveEdit(p)  PROVE Place'
    <2>1. ~InLine(p)
      BY <1>1 DEF SaveEdit, Place, Rotating, Delivering
    <2>2. line' = line /\ req' = req /\ pc' = [pc EXCEPT ![p] = "done"]
      BY <1>1 DEF SaveEdit, Goto
    <2>3. pc' \in [Requests -> PC] /\ pc'[p] = "done"
          /\ \A q \in Requests : q # p => pc'[q] = pc[q]
      BY <2>2 DEF Data, PC
    <2> QED
      BY <2>1, <2>2, <2>3, OutsidePlace DEF Rotating, Delivering
  <1>2. CASE UNCHANGED <<line, pc, req>>
    BY <1>2 DEF Place, Holds, InLine
  <1>3. CASE Crash
    <2>1. /\ line' = <<>> /\ req' = req
          /\ \A q \in Requests : pc'[q] \in {"new", "done"}
      BY <1>3 DEF Crash
    <2>2. line' \in Seq(Requests) /\ \A q \in Requests : ~InLine(q)'
      BY <2>1 DEF InLine
    <2>3. {"new", "done"} \cap ({"line", "asked"} \cup Rotating \cup Delivering) = {}
      BY DEF Rotating, Delivering
    <2>4. \A i, j \in DOMAIN line' : line'[i] = line'[j] => i = j
      BY <2>1
    <2>5. \A q \in Requests : pc'[q] \notin {"line", "asked"} \cup Rotating \cup Delivering
      BY <2>1, <2>3
    <2> QED
      BY <2>2, <2>4, <2>5 DEF Place
  <1> QED
    BY <1>1, <1>2, <1>3 DEF AgentReads, Die, vars

LEMMA PlaceStep == BotRotationAssumption /\ Data /\ Place /\ [Next]_vars => Place'
  BY ArrivePlace, EnlistPlace, RotatePlace, DeliverPlace, OtherPlace DEF Next, Step

\* Every value has its type, and the mutex is a mutex: whatever requests come, in
\* whatever order, at most one of them is past waiting, and it is the line's head.
THEOREM TypeCorrect == Spec => []TypeOK
  <1>1. Init => Data /\ Place
    BY InitData, InitPlace, BotRotationAssumption
  <1>2. Data /\ Place /\ [Next]_vars => (Data /\ Place)'
    BY DataStep, PlaceStep, BotRotationAssumption
  <1>3. Data /\ Place => TypeOK
    BY DEF Data, Place, TypeOK
  <1> QED
    BY <1>1, <1>2, <1>3, PTL DEF Spec

-----------------------------------------------------------------------------
\* What a captured record may still claim

\* A revision names one configuration, as long as it is the current one.
Names(b) == b.config <= bot.config /\ (b.config = bot.config => b.content = bot.content)

\* What a record calls applied has run; it never claims a revision it has not seen.
Honest(b) == b.applied <= b.config /\ (HasPendingConfig(b) \/ b.content \in given)

Claims ==
  /\ Honest(bot)
  /\ \A p \in Requests : Names(req[p].seen) /\ Honest(req[p].seen)
  /\ \A p \in Requests : pc[p] = "stage" => req[p].seen.content \in given
  /\ \A p \in Requests : pc[p] = "saving" => req[p].seen.config = bot.config
  /\ \A p, q \in Requests : pc[p] = "saving" /\ pc[q] = "saving" => p = q

LEMMA InitClaims == Init => Claims
  BY DEF Init, Claims, Names, Honest, HasPendingConfig, Idle, FirstBot

\* A step that saves no edit: the configuration stays, a record is captured only as
\* it is, and nobody begins to save.
LEMMA KeepClaims ==
  ASSUME Data, Data', Claims, Honest(bot)',
         bot'.config = bot.config, bot'.content = bot.content, given \subseteq given',
         \A q \in Requests : req'[q].seen = req[q].seen \/ req'[q].seen = bot,
         \A q \in Requests : pc'[q] = "saving" => pc[q] = "saving" /\ req'[q].seen = req[q].seen,
         \A q \in Requests :
           pc'[q] = "stage" => \/ pc[q] = "stage" /\ req'[q].seen = req[q].seen
                              \/ req'[q].seen.content \in given'
  PROVE  Claims'
  <1>1. ASSUME NEW q \in Requests  PROVE Names(req[q].seen)' /\ Honest(req[q].seen)'
    <2>1. Names(bot) /\ Honest(bot) /\ Names(req[q].seen) /\ Honest(req[q].seen)
      BY DEF Claims, Names, Data, Bot
    <2>2. Names(req'[q].seen) /\ Honest(req'[q].seen)
      BY <2>1
    <2> QED
      BY <2>2 DEF Names, Honest, HasPendingConfig
  <1>2. \A q \in Requests : pc'[q] = "stage" => req'[q].seen.content \in given'
    BY DEF Claims
  <1>3. \A q \in Requests : pc'[q] = "saving" => req'[q].seen.config = bot'.config
    BY DEF Claims
  <1> QED
    BY <1>1, <1>2, <1>3 DEF Claims

\* The record is not touched where its claims are, and the request leaves.
LEMMA LeaveClaims ==
  ASSUME Data, Data', Claims, NEW p \in Requests, Leave(p) \/ Finish(p), Honest(bot)',
         bot'.config = bot.config, bot'.content = bot.content, given \subseteq given'
  PROVE  Claims'
  <1>1. \A q \in Requests : /\ req'[q].seen = req[q].seen
                            /\ pc'[q] = pc[q] \/ pc'[q] \in {"asked", "done"}
    BY Leaving
  <1> QED
    BY <1>1, KeepClaims

LEMMA ArriveClaims ==
  ASSUME BotRotationAssumption, ConcurrentEdits = FALSE, Data, Data', Claims,
         NEW p \in Requests, Arrive(p)
  PROVE  Claims'
  <1>1. UNCHANGED <<bot, given>> /\ pc[p] = "new"
    BY DEF Arrive, runtimes
  <1>2. Honest(bot)'
    BY <1>1 DEF Claims, Honest, HasPendingConfig
  <1>3. \A q \in Requests : /\ req'[q].seen = req[q].seen \/ req'[q].seen = bot
                            /\ q # p => req'[q] = req[q]
    BY ArriveRequest DEF Takes, Captured, Data
  <1>4. CASE \E k \in Kinds : StartEdit(p, k)
    <2>1. /\ \A q \in Requests : pc[q] # "saving"
          /\ pc' = [pc EXCEPT ![p] = "saving"]
          /\ \E k \in Kinds : req' = [req EXCEPT ![p] = As(k)]
      BY <1>4 DEF StartEdit, Goto
    <2>2. req'[p].seen = bot /\ \A q \in Requests : q # p => pc'[q] = pc[q]
      BY <2>1 DEF As, Idle, Data
    <2>3. ASSUME NEW q \in Requests  PROVE Names(req[q].seen)' /\ Honest(req[q].seen)'
      BY <1>1, <1>2, <1>3 DEF Claims, Names, Honest, HasPendingConfig, Data, Bot
    <2>4. \A q \in Requests : pc'[q] = "saving" => q = p
      BY <2>1, <2>2
    <2>5. \A q \in Requests : pc'[q] = "stage" => pc[q] = "stage" /\ req'[q] = req[q]
      BY <1>3, <2>1, <2>2 DEF Data
    <2>6. \A q \in Requests : pc'[q] = "stage" => req'[q].seen.content \in given'
      BY <1>1, <2>5 DEF Claims
    <2>7. \A q \in Requests : pc'[q] = "saving" => req'[q].seen.config = bot'.config
      BY <1>1, <2>2, <2>4
    <2> QED
      BY <1>2, <2>3, <2>4, <2>6, <2>7 DEF Claims
  <1>5. CASE ~\E k \in Kinds : StartEdit(p, k)
    <2>1. \E w \in {"asked", "scan", "done"} : pc' = [pc EXCEPT ![p] = w]
      BY <1>5 DEF Arrive, Deliver, AskRestart, AskApply, Sweep, Report, SendDirectly, Asks, Goto
    <2>2. pc'[p] \in {"asked", "scan", "done"} /\ \A q \in Requests : q # p => pc'[q] = pc[q]
      BY <2>1 DEF Data
    <2> QED
      BY <1>1, <1>2, <1>3, <2>2, KeepClaims
  <1> QED
    BY <1>4, <1>5

\* One save at a time: it continues from the revision the record still has.
LEMMA SaveClaims ==
  ASSUME Data, Data', Claims, NEW p \in Requests, SaveEdit(p)
  PROVE  Claims'
  <1>1. /\ bot'.config = bot.config + 1 /\ bot'.applied = bot.applied
        /\ UNCHANGED <<given, req>>
        /\ bot.config \in Nat /\ bot.applied \in Nat /\ bot.applied <= bot.config
    BY DEF SaveEdit, Claims, Honest, Data, Bot, runtimes
  <1>2. Honest(bot)'
    BY <1>1 DEF Honest, HasPendingConfig
  <1>3. \A q \in Requests : pc'[q] = pc[q] \/ pc'[q] = "done"
    BY DEF SaveEdit, Goto, Data
  <1>4. \A q \in Requests : pc'[q] # "saving"
    <2>1. pc'[p] = "done" /\ \A q \in Requests : pc[q] = "saving" => q = p
      BY DEF SaveEdit, Goto, Data, Claims
    <2> QED
      BY <1>3, <2>1
  <1>5. ASSUME NEW q \in Requests  PROVE Names(req[q].seen)' /\ Honest(req[q].seen)'
    <2>1. req'[q].seen = req[q].seen /\ req[q].seen.config \in Nat
      BY <1>1 DEF Data, Request, Bot
    <2>2. Names(req[q].seen) /\ Honest(req[q].seen)
      BY DEF Claims
    <2>3. req[q].seen.config < bot'.config
      BY <1>1, <2>1, <2>2 DEF Names
    <2> QED
      BY <1>1, <2>1, <2>2, <2>3 DEF Names, Honest, HasPendingConfig
  <1>6. \A q \in Requests : pc'[q] = "stage" => req'[q].seen.content \in given'
    BY <1>1, <1>3 DEF Claims
  <1> QED
    BY <1>2, <1>4, <1>5, <1>6 DEF Claims

\* A captured record may be put back, or called applied once it was launched.
LEMMA Restoring ==
  ASSUME Data, Data', Claims, NEW p \in Requests, given \subseteq given',
         bot'.config = bot.config, bot'.content = bot.content,
         \/ bot'.applied = bot.applied
         \/ bot'.applied = req[p].seen.applied
         \/ bot'.applied = req[p].seen.config /\ req[p].seen.content \in given'
  PROVE  Honest(bot)'
  <1>1. /\ bot.config \in Nat /\ req[p].seen.config \in Nat /\ req[p].seen.applied \in Nat
        /\ bot.applied \in Nat
    BY DEF Data, Request, Bot
  <1>2. Names(req[p].seen) /\ Honest(req[p].seen) /\ Honest(bot)
    BY DEF Claims
  <1> QED
    BY <1>1, <1>2 DEF Names, Honest, HasPendingConfig

LEMMA RotateClaims ==
  ASSUME Data, Data', Claims, NEW p \in Requests, Rotate(p)
  PROVE  Claims'
  <1> USE DEF runtimes
  <1>1. given \subseteq given' /\ bot'.config = bot.config /\ bot'.content = bot.content
    <2>1. given \subseteq given'
      BY DEF Rotate, Begin, Admit, Drain, Prepare, Stage, Retire, Stop, Carry, Launches
    <2>2. CASE Begin(p) \/ Admit(p) \/ Drain(p)
      BY <2>2 DEF Begin, Admit, Drain, Becomes, Data, Bot
    <2>3. CASE Prepare(p)
      BY <2>1, <2>3 DEF Prepare, Fails, Data, Bot
    <2>4. CASE Stage(p)
      BY <2>1, <2>4 DEF Stage, Data, Bot
    <2>5. CASE Retire(p)
      BY <2>1, <2>5 DEF Retire, Data, Bot
    <2>6. CASE Stop(p) \/ Carry(p)
      BY <2>1, <2>6 DEF Stop, Carry, Fails, Data, Bot
    <2> QED
      BY <2>1, <2>2, <2>3, <2>4, <2>5, <2>6 DEF Rotate
  <1>2. \/ bot'.applied = bot.applied
        \/ bot'.applied = req[p].seen.applied
        \/ bot'.applied = req[p].seen.config /\ req[p].seen.content \in given'
    <2>1. CASE Begin(p) \/ Admit(p) \/ Drain(p)
      BY <2>1 DEF Begin, Admit, Drain, Becomes, Data, Bot
    <2>2. CASE Prepare(p) \/ Stop(p) \/ Carry(p)
      BY <2>2 DEF Prepare, Stop, Carry, Fails, Data, Bot
    <2>3. CASE Stage(p)
      BY <1>1, <2>3 DEF Stage, Stands, Claims, Data, Bot
    <2>4. CASE Retire(p)
      BY <2>4 DEF Retire, Data, Bot
    <2> QED
      BY <2>1, <2>2, <2>3, <2>4 DEF Rotate
  <1>3. Honest(bot)'
    BY <1>1, <1>2, Restoring
  <1>4. CASE Leave(p)
    BY <1>1, <1>3, <1>4, LeaveClaims
  <1>5. CASE ~Leave(p)
    <2>1. /\ \E w \in Rotating : pc' = [pc EXCEPT ![p] = w] /\ (w = "stage" => Prepare(p))
          /\ \/ req' = req
             \/ req' = [req EXCEPT ![p].seen = bot,
                                   ![p].had = {q \in Requests : msg[q].st = "queued"}]
             \/ \E m \in Main(req[p].seen) : req' = [req EXCEPT ![p].primary = m]
             \/ req' = [req EXCEPT ![p].fresh = minted + 1]
      <3>1. CASE Begin(p)
        BY <1>5, <3>1 DEF Begin, Goto, Rotating
      <3>2. CASE Admit(p)
        BY <1>5, <3>2 DEF Admit, Goto, Rotating
      <3>3. CASE Drain(p)
        BY <1>5, <3>3 DEF Drain, Goto, Rotating
      <3>4. CASE Prepare(p)
        BY <1>5, <3>4 DEF Prepare, Fails, Goto, Rotating
      <3>5. CASE Stage(p)
        BY <3>5 DEF Stage, Goto, Rotating
      <3>6. CASE Retire(p)
        BY <3>6 DEF Retire, Goto, Rotating
      <3>7. CASE Stop(p) \/ Carry(p)
        BY <1>5, <3>7 DEF Stop, Fails, Carry
      <3> QED
        BY <3>1, <3>2, <3>3, <3>4, <3>5, <3>6, <3>7 DEF Rotate
    <2>2. \A q \in Requests : req'[q].seen = req[q].seen \/ req'[q].seen = bot
      BY <2>1 DEF Data, Request
    <2>3. \A q \in Requests : q # p => pc'[q] = pc[q] /\ req'[q].seen = req[q].seen
      BY <2>1 DEF Data
    <2>4. pc'[p] \in Rotating /\ pc'[p] # "saving" /\ (pc'[p] = "stage" => Prepare(p))
      BY <2>1 DEF Data, Rotating
    <2>5. pc'[p] = "stage" => req'[p].seen.content \in given'
      <3>1. ASSUME Prepare(p), pc'[p] = "stage"  PROVE req'[p].seen.content \in given'
        <4>1. Launches(minted + 1, req[p].seen) /\ req' = [req EXCEPT ![p].fresh = minted + 1]
          BY <1>5, <3>1 DEF Prepare, Fails
        <4>2. req'[p].seen = req[p].seen
          BY <4>1 DEF Data, Request
        <4> QED
          BY <4>1, <4>2 DEF Launches
      <3> QED
        BY <2>4, <3>1
    <2> QED
      BY <1>1, <1>3, <2>2, <2>3, <2>4, <2>5, KeepClaims
  <1> QED
    BY <1>4, <1>5

LEMMA DeliverClaims ==
  ASSUME Data, Data', Claims, NEW p \in Requests,
         Enlist(p) \/ Open(p) \/ Find(p) \/ Send(p) \/ ColdStart(p)
  PROVE  Claims'
  <1> USE DEF runtimes
  <1>1. given \subseteq given' /\ bot'.config = bot.config /\ bot'.content = bot.content
    BY DEF Enlist, Open, Find, Send, ColdStart, Launches, Data, Bot
  <1>2. \/ bot'.applied = bot.applied
        \/ bot'.applied = req[p].seen.config /\ req[p].seen.content \in given'
    <2>1. CASE Enlist(p) \/ Open(p) \/ Find(p) \/ Send(p)
      BY <2>1 DEF Enlist, Open, Find, Send, Data, Bot
    <2>2. CASE ColdStart(p)
      BY <2>2 DEF ColdStart, Launches, Data, Bot
    <2> QED
      BY <2>1, <2>2
  <1>3. Honest(bot)'
    BY <1>1, <1>2, Restoring
  <1>4. CASE Leave(p) \/ Finish(p)
    BY <1>1, <1>3, <1>4, LeaveClaims
  <1>5. CASE ~(Leave(p) \/ Finish(p))
    <2>1. /\ \E w \in {"done", "line"} \cup Delivering : pc' = [pc EXCEPT ![p] = w]
          /\ \/ req' = req
             \/ req' = [req EXCEPT ![p].seen = bot]
             \/ \E m \in Main(req[p].seen) : req' = [req EXCEPT ![p].primary = m]
      BY <1>5 DEF Enlist, Open, Find, Send, ColdStart, Goto, Delivering
    <2>2. \A q \in Requests : req'[q].seen = req[q].seen \/ req'[q].seen = bot
      BY <2>1 DEF Data, Request
    <2>3. \A q \in Requests : q # p => pc'[q] = pc[q] /\ req'[q].seen = req[q].seen
      BY <2>1 DEF Data
    <2>4. pc'[p] \notin {"saving", "stage"}
      BY <2>1 DEF Data, Delivering
    <2> QED
      BY <1>1, <1>3, <2>2, <2>3, <2>4, KeepClaims
  <1> QED
    BY <1>4, <1>5

LEMMA ClaimsStep ==
  ASSUME BotRotationAssumption, ConcurrentEdits = FALSE, Data, Data', Claims, [Next]_vars
  PROVE  Claims'
  <1>1. ASSUME UNCHANGED <<bot, req, given>>, \A q \in Requests : pc'[q] = pc[q] \/ pc'[q] = "done"
        PROVE  Claims'
    BY <1>1 DEF Claims, Names, Honest, HasPendingConfig
  <1>2. ASSUME NEW q \in Requests, AgentReads(q)  PROVE Claims'
    BY <1>1, <1>2 DEF AgentReads, runtimes
  <1>3. ASSUME NEW s \in running, Die(s)  PROVE Claims'
    BY <1>1, <1>3 DEF Die
  <1>4. CASE Crash
    BY <1>1, <1>4 DEF Crash, runtimes
  <1>5. CASE UNCHANGED vars
    BY <1>1, <1>5 DEF vars
  <1> QED
    BY <1>2, <1>3, <1>4, <1>5, ArriveClaims, SaveClaims, RotateClaims, DeliverClaims DEF Next, Step

\* While edits are saved one after the other, the record never calls applied a
\* configuration that no runtime of the bot was given, whatever rotations, deliveries,
\* cold starts, failures and crashes they race.
THEOREM EditsOffered ==
  ASSUME ConcurrentEdits = FALSE
  PROVE  Spec => []EditsAreOffered
  <1>1. Init => Data /\ Claims
    BY InitData, InitClaims, BotRotationAssumption
  <1>2. Data /\ Claims /\ [Next]_vars => (Data /\ Claims)'
    BY DataStep, ClaimsStep, BotRotationAssumption
  <1>3. Data /\ Claims => EditsAreOffered
    BY DEF Claims, Honest, EditsAreOffered
  <1> QED
    BY <1>1, <1>2, <1>3, PTL DEF Spec

-----------------------------------------------------------------------------
\* A failed rotation and the old primary

\* A step of one request is no other's.
LEMMA Others ==
  ASSUME BotRotationAssumption, Data, NEW p \in Requests, Arrive(p) \/ Step(p)
  PROVE  \A q \in Requests : q # p => pc'[q] = pc[q] /\ req'[q] = req[q]
  <1>1. CASE Arrive(p)
    <2>1. \A q \in Requests : q # p => req'[q] = req[q]
      BY <1>1, ArriveRequest DEF Takes, Data
    <2>2. \A q \in Requests : q # p => pc'[q] = pc[q]
      BY <1>1 DEF Arrive, Deliver, AskRestart, AskApply, Sweep, Report, SendDirectly, StartEdit,
                  Asks, Goto, Data
    <2> QED
      BY <2>1, <2>2
  <1>2. CASE Leave(p) \/ Finish(p)
    BY <1>2 DEF Leave, Finish, Goto, Data
  <1>3. CASE SaveEdit(p) \/ Enlist(p)
    BY <1>3 DEF SaveEdit, Enlist, Goto, Data
  <1>4. CASE Rotate(p) /\ ~Leave(p)
    <2>1. CASE Begin(p)
      BY <1>4, <2>1 DEF Begin, Goto, Data
    <2>2. CASE Admit(p) \/ Drain(p)
      BY <1>4, <2>2 DEF Admit, Drain, Goto, Data
    <2>3. CASE Prepare(p) \/ Stage(p) \/ Retire(p)
      BY <1>4, <2>3 DEF Prepare, Stage, Retire, Fails, Goto, Data
    <2>4. CASE Stop(p) \/ Carry(p)
      BY <1>4, <2>4 DEF Stop, Carry, Fails
    <2> QED
      BY <1>4, <2>1, <2>2, <2>3, <2>4 DEF Rotate
  <1>5. CASE (Open(p) \/ Find(p) \/ Send(p) \/ ColdStart(p)) /\ ~(Leave(p) \/ Finish(p))
    BY <1>5 DEF Open, Find, Send, ColdStart, Goto, Data
  <1> QED
    BY <1>1, <1>2, <1>3, <1>4, <1>5 DEF Step

\* Nobody else is past waiting while a request has the section.
LEMMA Alone ==
  ASSUME Place, NEW p \in Requests, Holds(p)
  PROVE  \A q \in Requests : q # p => pc[q] \notin Rotating
  BY DEF Place, Holds

\* What runs was not closed since it was launched; until a rotation retires its
\* primary, that one was not closed either, and it is not the replacement.
Spared ==
  /\ running \cap closed = {}
  /\ \A p \in Requests :
       /\ pc[p] \in {"drain", "prepare", "stage", "retire", "stop"} => req[p].primary \notin closed
       /\ pc[p] \in {"stage", "retire", "stop"} => req[p].primary < req[p].fresh

LEMMA InitSpared == Init => Spared
  BY DEF Init, Spared

\* A step that closes nothing, or whose request has the section, disturbs only its own.
LEMMA KeepSpared ==
  ASSUME BotRotationAssumption, Data, Place, Spared,
         NEW p \in Requests, Arrive(p) \/ Step(p),
         closed' \subseteq closed \/ Holds(p),
         running' \cap closed' = {},
         pc'[p] \in {"drain", "prepare", "stage", "retire", "stop"} => req'[p].primary \notin closed',
         pc'[p] \in {"stage", "retire", "stop"} => req'[p].primary < req'[p].fresh
  PROVE  Spared'
  <1>1. ASSUME NEW q \in Requests, q # p
        PROVE  /\ pc'[q] \in {"drain", "prepare", "stage", "retire", "stop"}
                    => req'[q].primary \notin closed'
               /\ pc'[q] \in {"stage", "retire", "stop"} => req'[q].primary < req'[q].fresh
    <2>1. pc'[q] = pc[q] /\ req'[q] = req[q]
      BY <1>1, Others
    <2>2. CASE Holds(p)
      BY <1>1, <2>1, <2>2, Alone DEF Rotating
    <2>3. CASE closed' \subseteq closed
      BY <2>1, <2>3 DEF Spared
    <2> QED
      BY <2>2, <2>3
  <1> QED
    BY <1>1 DEF Spared

\* Where a request that is not in a rotation, or ends one, may be.
Away == {"new", "asked", "line", "saving", "done", "admit", "carry"} \cup Delivering

LEMMA AwaySpared ==
  ASSUME BotRotationAssumption, Data, Place, Spared,
         NEW p \in Requests, Arrive(p) \/ Step(p),
         closed' \subseteq closed \/ Holds(p),
         running' \cap closed' = {}, pc'[p] \in Away
  PROVE  Spared'
  BY KeepSpared DEF Away, Delivering

LEMMA LeavesAway ==
  ASSUME Data, NEW p \in Requests, Leave(p) \/ Finish(p)
  PROVE  pc'[p] \in Away
  BY DEF Leave, Finish, Goto, Data, Away

LEMMA RotateSpared ==
  ASSUME BotRotationAssumption, Data, Place, Spared, NEW p \in Requests, Rotate(p)
  PROVE  Spared'
  <1> USE DEF runtimes
  <1>0. Step(p) /\ Holds(p)
    BY DEF Step, Rotate, Begin, Admit, Drain, Prepare, Stage, Retire, Stop, Carry, Stands
  <1>1. running' \cap closed' = {}
    BY DEF Rotate, Begin, Admit, Drain, Prepare, Stage, Retire, Stop, Carry, Launches, Closes,
           Fails, Spared
  <1>2. CASE Leave(p)
    BY <1>0, <1>1, <1>2, AwaySpared, LeavesAway
  <1>3. CASE Begin(p) /\ ~Leave(p)
    <2>1. pc'[p] \in Away
      BY <1>3 DEF Begin, Goto, Data, Away
    <2> QED
      BY <1>0, <1>1, <2>1, AwaySpared
  <1>4. CASE Admit(p) /\ ~Leave(p)
    <2>1. PICK m \in Main(req[p].seen) :
            req' = [req EXCEPT ![p].primary = m] /\ pc'[p] \in {"prepare", "drain"}
      BY <1>4 DEF Admit, Goto, Data
    <2>2. m \in listed \cup {None} /\ req'[p].primary = m
      BY <2>1 DEF Main, Data, Request
    <2>3. m \notin closed /\ closed' = closed
      BY <1>4, <2>2 DEF Admit, Data, Spared, Sessions, None
    <2> QED
      BY <1>0, <1>1, <2>1, <2>2, <2>3, KeepSpared
  <1>5. CASE Drain(p) /\ ~Leave(p)
    <2>1. pc[p] = "drain" /\ pc'[p] = "prepare" /\ req' = req /\ closed' = closed
      BY <1>5 DEF Drain, Stands, Goto, Data
    <2> QED
      BY <1>0, <1>1, <2>1, KeepSpared DEF Spared
  <1>6. CASE Prepare(p) /\ ~Leave(p)
    <2>1. /\ pc[p] = "prepare" /\ pc'[p] = "stage" /\ closed' \subseteq closed
          /\ req' = [req EXCEPT ![p].fresh = minted + 1]
      BY <1>6 DEF Prepare, Fails, Launches, Stands, Goto, Data
    <2>2. req'[p].primary = req[p].primary /\ req'[p].fresh = minted + 1
      BY <2>1 DEF Data, Request
    <2>3. req[p].primary <= minted /\ minted \in Nat /\ req[p].primary \in Nat
      BY DEF Data, Request, Sessions, None
    <2>4. req[p].primary \notin closed
      BY <2>1 DEF Spared
    <2> QED
      BY <1>0, <1>1, <2>1, <2>2, <2>3, <2>4, KeepSpared
  <1>7. CASE Stage(p)
    <2>1. pc[p] = "stage" /\ req' = req /\ closed' = closed
      BY <1>7 DEF Stage, Stands
    <2> QED
      BY <1>0, <1>1, <2>1, KeepSpared DEF Spared
  <1>8. CASE Retire(p)
    <2>1. CASE pc'[p] = "carry"
      BY <1>0, <1>1, <2>1, AwaySpared DEF Away
    <2>2. CASE pc'[p] # "carry"
      <3>1. pc[p] = "retire" /\ req' = req /\ closed' = closed
        BY <1>8, <2>2 DEF Retire, Stands, Goto, Data
      <3> QED
        BY <1>0, <1>1, <3>1, KeepSpared DEF Spared
    <2> QED
      BY <2>1, <2>2
  <1>9. CASE (Stop(p) \/ Carry(p)) /\ ~Leave(p)
    BY <1>9 DEF Stop, Carry, Fails
  <1> QED
    BY <1>2, <1>3, <1>4, <1>5, <1>6, <1>7, <1>8, <1>9 DEF Rotate

LEMMA SparedStep ==
  ASSUME BotRotationAssumption, Data, Place, Spared, [Next]_vars
  PROVE  Spared'
  <1> USE DEF runtimes
  <1>1. ASSUME NEW p \in Requests, Arrive(p) \/ SaveEdit(p) \/ Enlist(p)  PROVE Spared'
    <2>1. pc'[p] \in Away
      BY <1>1 DEF Arrive, Deliver, AskRestart, AskApply, Sweep, Report, SendDirectly, StartEdit,
                  Asks, SaveEdit, Enlist, Goto, Data, Away, Delivering
    <2>2. running' = running /\ closed' = closed
      BY <1>1 DEF Arrive, SaveEdit, Enlist
    <2> QED
      BY <1>1, <2>1, <2>2, AwaySpared DEF Spared, Step
  <1>2. ASSUME NEW p \in Requests, Open(p) \/ Find(p) \/ Send(p) \/ ColdStart(p)
        PROVE  Spared'
    <2>1. pc'[p] \in Away
      <3>1. CASE Leave(p) \/ Finish(p)
        BY <3>1, LeavesAway
      <3>2. CASE ~(Leave(p) \/ Finish(p))
        BY <1>2, <3>2 DEF Open, Find, Send, ColdStart, Goto, Data, Away, Delivering
      <3> QED
        BY <3>1, <3>2
    <2>2. closed' \subseteq closed /\ running' \cap closed' = {}
      BY <1>2 DEF Open, Find, Send, ColdStart, Launches, Spared
    <2> QED
      BY <1>2, <2>1, <2>2, AwaySpared DEF Step
  <1>3. CASE \/ \E q \in Requests : AgentReads(q)
             \/ \E s \in running : Die(s)
             \/ UNCHANGED vars
    <2>1. running' \subseteq running /\ UNCHANGED <<closed, pc, req>>
      BY <1>3 DEF AgentReads, Die, vars
    <2> QED
      BY <2>1 DEF Spared
  <1>4. CASE Crash
    <2>1. UNCHANGED <<running, closed>> /\ \A q \in Requests : pc'[q] \in {"new", "done"}
      BY <1>4 DEF Crash
    <2> QED
      BY <2>1 DEF Spared
  <1> QED
    BY <1>1, <1>2, <1>3, <1>4, RotateSpared DEF Next, Step

\* Who reports the failure has the section, and closes no more than its replacement.
LEMMA FailureSpares ==
  ASSUME BotRotationAssumption, Data, Place, Spared, [Next]_vars,
         bot.rot # "failed", bot'.rot = "failed", NEW q \in Requests, Holds(q)
  PROVE  req[q].primary \notin closed'
  <1> USE DEF runtimes
  <1>1. PICK p \in Requests :
          \/ Prepare(p) /\ Fails(p) /\ UNCHANGED closed
          \/ Retire(p) /\ UNCHANGED closed
          \/ Stop(p)
    <2>1. ASSUME NEW p \in Requests, Step(p)
          PROVE  \/ Prepare(p) /\ Fails(p) /\ UNCHANGED closed
                 \/ Retire(p) /\ UNCHANGED closed
                 \/ Stop(p)
      <3>1. CASE SaveEdit(p)
        BY <3>1 DEF SaveEdit, Data, Bot
      <3>2. CASE Begin(p) \/ Admit(p) \/ Drain(p)
        BY <3>2 DEF Begin, Admit, Drain, Becomes, Data, Bot
      <3>3. CASE Prepare(p)
        BY <3>3 DEF Prepare
      <3>4. CASE Stage(p) \/ Carry(p)
        BY <3>4 DEF Stage, Carry, Data, Bot
      <3>5. CASE Retire(p)
        BY <3>5 DEF Retire, Data, Bot
      <3>6. CASE Enlist(p) \/ Open(p) \/ Find(p) \/ Send(p) \/ ColdStart(p)
        BY <3>6 DEF Enlist, Open, Find, Send, ColdStart, Data, Bot
      <3> QED
        BY <2>1, <3>1, <3>2, <3>3, <3>4, <3>5, <3>6 DEF Step, Rotate
    <2>2. ASSUME NEW p \in Requests, Arrive(p) \/ AgentReads(p)  PROVE FALSE
      BY <2>2 DEF Arrive, AgentReads
    <2>3. ASSUME Crash \/ UNCHANGED vars \/ \E s \in running : Die(s)  PROVE FALSE
      BY <2>3 DEF Crash, vars, Die
    <2> QED
      BY <2>1, <2>2, <2>3 DEF Next
  <1>2. q = p /\ pc[p] \in {"prepare", "retire", "stop"}
    BY <1>1 DEF Prepare, Retire, Stop, Stands, Holds
  <1>3. req[p].primary \notin closed
    BY <1>2 DEF Spared
  <1>4. CASE Stop(p)
    <2>1. req[p].primary < req[p].fresh
      BY <1>4 DEF Stop, Stands, Spared
    <2>2. req[p].primary # req[p].fresh
      BY <2>1 DEF Data, Request, Sessions, None
    <2>3. closed' \subseteq closed \cup {req[p].fresh}
      BY <1>4 DEF Stop, Closes
    <2> QED
      BY <1>2, <1>3, <2>2, <2>3
  <1> QED
    BY <1>1, <1>2, <1>3, <1>4

\* However many requests race, fail and crash, a rotation that ends in failure has
\* not closed the primary it was to replace: the bot keeps the session it had.
THEOREM FailureKeepsPrimaryHolds == Spec => FailureKeepsPrimary
  <1>1. Init => Data /\ Place /\ Spared
    BY InitData, InitPlace, InitSpared, BotRotationAssumption
  <1>2. Data /\ Place /\ Spared /\ [Next]_vars => (Data /\ Place /\ Spared)'
    BY DataStep, PlaceStep, SparedStep, BotRotationAssumption
  <1>3. Data /\ Place /\ Spared /\ [Next]_vars =>
          [bot.rot # "failed" /\ bot'.rot = "failed" =>
             \A p \in Requests : Holds(p) => req[p].primary \notin closed']_vars
    BY FailureSpares, BotRotationAssumption
  <1> QED
    BY <1>1, <1>2, <1>3, PTL DEF Spec, FailureKeepsPrimary

-----------------------------------------------------------------------------
\* An automatic rotation and the queue

\* A message has a row only once its request is through; what a rotation found queued
\* when it began has one; and after the look at the queue, none of that is at the
\* session it is going to close, unless a person asked for the restart.
Settled ==
  /\ \A q \in Requests : msg[q].st # "none" => pc[q] = "done"
  /\ \A p \in Requests :
       /\ pc[p] \in Delivering /\ req[p].kind # "report" => req[p].job = "deliver"
       /\ pc[p] \in Rotating => \A q \in req[p].had : msg[q].st # "none"
       /\ pc[p] \in {"prepare", "stage", "retire"} /\ req[p].reason # "restart"
            => req[p].had \cap QueuedAt(Previous(p)) = {}

LEMMA InitSettled == Init => Settled
  BY DEF Init, Settled, Delivering, Rotating

\* A step that moves nobody's row, or whose request has the section, disturbs only its
\* own.
LEMMA KeepSettled ==
  ASSUME BotRotationAssumption, Data, Place, Settled,
         NEW p \in Requests, Arrive(p) \/ Step(p),
         Holds(p) \/ \A q \in Requests : msg[q].st # "none" => msg'[q] = msg[q],
         \A q \in Requests : msg[q].st # "none" => msg'[q].st # "none",
         \A q \in Requests : msg[q].st = "none" /\ q # p => msg'[q].st = "none",
         msg'[p].st # "none" => pc'[p] = "done",
         pc'[p] \in Delivering /\ req'[p].kind # "report" => req'[p].job = "deliver",
         pc'[p] \in Rotating => \A q \in req'[p].had : msg'[q].st # "none",
         pc'[p] \in {"prepare", "stage", "retire"} /\ req'[p].reason # "restart"
           => req'[p].had \cap QueuedAt(Previous(p))' = {}
  PROVE  Settled'
  <1>1. ASSUME NEW q \in Requests, q # p
        PROVE  /\ msg'[q].st # "none" => pc'[q] = "done"
               /\ pc'[q] \in Delivering /\ req'[q].kind # "report" => req'[q].job = "deliver"
               /\ pc'[q] \in Rotating => \A r \in req'[q].had : msg'[r].st # "none"
               /\ pc'[q] \in {"prepare", "stage", "retire"} /\ req'[q].reason # "restart"
                    => req'[q].had \cap QueuedAt(Previous(q))' = {}
    <2>1. pc'[q] = pc[q] /\ req'[q] = req[q] /\ req[q].had \subseteq Requests
      BY <1>1, Others DEF Data, Request
    <2>2. /\ msg'[q].st # "none" => pc'[q] = "done"
          /\ pc'[q] \in Delivering /\ req'[q].kind # "report" => req'[q].job = "deliver"
      BY <1>1, <2>1 DEF Settled
    <2>3. CASE Holds(p)
      <3>1. pc'[q] \notin Rotating
        BY <1>1, <2>1, <2>3, Alone
      <3> QED
        BY <2>2, <3>1 DEF Rotating
    <2>4. CASE \A r \in Requests : msg[r].st # "none" => msg'[r] = msg[r]
      <3>1. pc'[q] \in Rotating => \A r \in req'[q].had : msg[r].st # "none" /\ msg'[r] = msg[r]
        BY <2>1, <2>4 DEF Settled
      <3>2. Previous(q)' = Previous(q)
        BY <2>1 DEF Previous
      <3>3. pc'[q] \in {"prepare", "stage", "retire"} => pc'[q] \in Rotating
        BY DEF Rotating
      <3>4. pc'[q] \in {"prepare", "stage", "retire"} /\ req'[q].reason # "restart"
              => req'[q].had \cap QueuedAt(Previous(q))' = {}
        BY <2>1, <3>1, <3>2, <3>3 DEF Settled, QueuedAt
      <3> QED
        BY <2>2, <3>1, <3>4
    <2> QED
      BY <2>3, <2>4
  <1> QED
    BY <1>1 DEF Settled

\* A rotation drops rows or carries them on; it makes none.
LEMMA RotateRows ==
  ASSUME Data, NEW p \in Requests, Rotate(p)
  PROVE  \A q \in Requests : msg'[q].st = "none" <=> msg[q].st = "none"
  <1>1. CASE msg' = msg
    BY <1>1
  <1>2. CASE \E s \in Sessions \cup {None} : Closes(s)
    BY <1>2 DEF Closes, QueuedAt, Data, Message
  <1>3. CASE Carry(p)
    <2>1. PICK sent \in SUBSET QueuedAt(Previous(p)) :
            msg' = [q \in Requests |->
                      CASE q \in sent -> [msg[q] EXCEPT !.at = req[p].fresh]
                        [] q \in QueuedAt(Previous(p)) \ sent -> [msg[q] EXCEPT !.st = "dropped"]
                        [] OTHER -> msg[q]]
      BY <1>3 DEF Carry
    <2> QED
      BY <2>1 DEF QueuedAt, Data, Message
  <1>4. CASE Stop(p) \/ Retire(p)
    <2>1. req[p].primary \in Sessions \cup {None} /\ req[p].fresh \in Sessions \cup {None}
      BY DEF Data, Request
    <2> QED
      BY <1>1, <1>2, <1>4, <2>1 DEF Stop, Retire
  <1>5. CASE Begin(p) \/ Admit(p) \/ Drain(p) \/ Prepare(p) \/ Stage(p)
    BY <1>1, <1>5 DEF Begin, Admit, Drain, Prepare, Stage
  <1> QED
    BY <1>3, <1>4, <1>5 DEF Rotate

LEMMA RotateSettled ==
  ASSUME BotRotationAssumption, Data, Place, Settled, NEW p \in Requests, Rotate(p)
  PROVE  Settled'
  <1>1. Step(p) /\ Holds(p) /\ pc[p] # "done"
    BY DEF Step, Rotate, Begin, Admit, Drain, Prepare, Stage, Retire, Stop, Carry, Stands
  <1>2. /\ \A q \in Requests : msg'[q].st = "none" <=> msg[q].st = "none"
        /\ msg'[p].st = "none"
    BY <1>1, RotateRows DEF Settled
  <1>3. req[p].had \subseteq Requests
    BY DEF Data, Request
  <1>4. ASSUME pc'[p] \notin Delivering,
               pc'[p] \in Rotating => \A q \in req'[p].had : msg[q].st # "none",
               req'[p].had \subseteq Requests,
               pc'[p] \in {"prepare", "stage", "retire"} /\ req'[p].reason # "restart"
                 => req'[p].had \cap QueuedAt(Previous(p))' = {}
        PROVE  Settled'
    BY <1>1, <1>2, <1>4, KeepSettled
  <1>5. CASE Leave(p)
    <2>1. pc'[p] \in {"asked", "done"} /\ req'[p].had = req[p].had
      BY <1>5, Leaving DEF Leave, Goto, Data
    <2> QED
      BY <1>3, <1>4, <2>1 DEF Rotating, Delivering
  <1>6. CASE Begin(p) /\ ~Leave(p)
    <2>1. /\ pc'[p] = "admit"
          /\ req' = [req EXCEPT ![p].seen = bot,
                                ![p].had = {q \in Requests : msg[q].st = "queued"}]
      BY <1>6 DEF Begin, Goto, Data
    <2>2. req'[p].had = {q \in Requests : msg[q].st = "queued"}
      BY <2>1 DEF Data, Request
    <2> QED
      BY <1>4, <2>1, <2>2 DEF Delivering
  <1>7. CASE Admit(p) /\ ~Leave(p)
    <2>1. /\ pc[p] = "admit" /\ pc'[p] \in {"prepare", "drain"}
          /\ pc'[p] = "prepare" => req[p].reason = "restart"
          /\ \E m \in Main(req[p].seen) : req' = [req EXCEPT ![p].primary = m]
      BY <1>7 DEF Admit, Stands, Goto, Data
    <2>2. req'[p].had = req[p].had /\ req'[p].reason = req[p].reason
      BY <2>1 DEF Data, Request
    <2>3. \A q \in req[p].had : msg[q].st # "none"
      BY <2>1 DEF Settled, Rotating
    <2> QED
      BY <1>3, <1>4, <2>1, <2>2, <2>3 DEF Delivering
  <1>8. CASE Drain(p) /\ ~Leave(p)
    <2>1. /\ pc[p] = "drain" /\ pc'[p] = "prepare" /\ req' = req /\ msg' = msg
          /\ QueuedAt(Previous(p)) = {}
      BY <1>8 DEF Drain, Stands, Goto, Data
    <2>2. QueuedAt(Previous(p))' = {}
      BY <2>1 DEF QueuedAt, Previous
    <2>3. \A q \in req[p].had : msg[q].st # "none"
      BY <2>1 DEF Settled, Rotating
    <2> QED
      BY <1>3, <1>4, <2>1, <2>2, <2>3 DEF Delivering
  <1>9. CASE Prepare(p) /\ ~Leave(p)
    <2>1. /\ pc[p] = "prepare" /\ pc'[p] = "stage" /\ msg' = msg
          /\ req' = [req EXCEPT ![p].fresh = minted + 1]
      BY <1>9 DEF Prepare, Fails, Stands, Goto, Data
    <2>2. /\ req'[p].had = req[p].had /\ req'[p].reason = req[p].reason
          /\ req'[p].primary = req[p].primary /\ req'[p].seen = req[p].seen
      BY <2>1 DEF Data, Request
    <2>3. QueuedAt(Previous(p))' = QueuedAt(Previous(p))
      BY <2>1, <2>2 DEF QueuedAt, Previous
    <2>4. /\ \A q \in req[p].had : msg[q].st # "none"
          /\ req[p].reason # "restart" => req[p].had \cap QueuedAt(Previous(p)) = {}
      BY <2>1 DEF Settled, Rotating
    <2> QED
      BY <1>3, <1>4, <2>1, <2>2, <2>3, <2>4 DEF Delivering
  <1>10. CASE Stage(p)
    <2>1. /\ pc[p] = "stage" /\ pc'[p] \in {"stop", "retire", "carry"} /\ msg' = msg /\ req' = req
      BY <1>10 DEF Stage, Stands, Goto, Data
    <2>2. QueuedAt(Previous(p))' = QueuedAt(Previous(p))
      BY <2>1 DEF QueuedAt, Previous
    <2>3. /\ \A q \in req[p].had : msg[q].st # "none"
          /\ req[p].reason # "restart" => req[p].had \cap QueuedAt(Previous(p)) = {}
      BY <2>1 DEF Settled, Rotating
    <2> QED
      BY <1>3, <1>4, <2>1, <2>2, <2>3 DEF Delivering
  <1>11. CASE Retire(p)
    <2>1. pc[p] = "retire" /\ pc'[p] \in {"stop", "carry"} /\ req' = req
      BY <1>11 DEF Retire, Stands, Goto, Data
    <2>2. \A q \in req[p].had : msg[q].st # "none"
      BY <2>1 DEF Settled, Rotating
    <2> QED
      BY <1>3, <1>4, <2>1, <2>2 DEF Delivering
  <1>12. CASE (Stop(p) \/ Carry(p)) /\ ~Leave(p)
    BY <1>12 DEF Stop, Carry, Fails
  <1> QED
    BY <1>5, <1>6, <1>7, <1>8, <1>9, <1>10, <1>11, <1>12 DEF Rotate

\* Every other request writes at most its own row, and is through when it has one.
LEMMA OwnRow ==
  ASSUME Data, Settled, NEW p \in Requests,
         \/ Arrive(p) \/ SaveEdit(p) \/ Enlist(p)
         \/ Open(p) \/ Find(p) \/ Send(p) \/ ColdStart(p)
  PROVE  /\ msg[p].st = "none"
         /\ \A q \in Requests : q # p => msg'[q] = msg[q]
         /\ msg'[p].st \in {"none", "queued", "read"}
         /\ msg'[p].st # "none" => pc'[p] = "done"
  <1>1. pc[p] # "done"
    BY DEF Arrive, SaveEdit, Enlist, Open, Find, Send, ColdStart, Delivery, Stands
  <1>2. msg[p].st = "none"
    BY <1>1 DEF Settled
  <1>3. CASE msg' = msg
    BY <1>2, <1>3
  <1>4. ASSUME NEW st \in {"queued", "read"}, NEW s, Sends(p, st, s), pc'[p] = "done"
        PROVE  /\ \A q \in Requests : q # p => msg'[q] = msg[q]
               /\ msg'[p].st \in {"none", "queued", "read"}
               /\ msg'[p].st # "none" => pc'[p] = "done"
    BY <1>4 DEF Sends, Data
  <1>5. CASE SaveEdit(p) \/ Enlist(p) \/ Open(p) \/ Find(p)
    BY <1>2, <1>3, <1>5 DEF SaveEdit, Enlist, Open, Find
  <1>6. CASE Arrive(p)
    <2>1. \/ msg' = msg
          \/ pc' = [pc EXCEPT ![p] = "done"] /\ \E s \in listed : Sends(p, "queued", s)
      BY <1>6 DEF Arrive, Deliver, AskRestart, AskApply, Sweep, Report, SendDirectly, StartEdit, Goto
    <2>2. pc' = [pc EXCEPT ![p] = "done"] => pc'[p] = "done"
      BY DEF Data
    <2> QED
      BY <1>2, <1>3, <1>4, <2>1, <2>2
  <1>7. CASE Send(p) \/ ColdStart(p)
    <2>1. pc[p] \in Delivering /\ Finish(p)
      BY <1>7 DEF Send, ColdStart, Delivery, Delivering
    <2>2. pc'[p] = "done"
      <3>1. req[p].kind # "report" => req[p].job = "deliver"
        BY <2>1 DEF Settled
      <3> QED
        BY <2>1, <3>1 DEF Finish, Leave, Goto, Data
    <2>3. \/ msg' = msg \/ \E s : Sends(p, "queued", s) \/ Sends(p, "read", s)
      BY <1>7 DEF Send, ColdStart
    <2> QED
      BY <1>2, <1>3, <1>4, <2>2, <2>3
  <1> QED
    BY <1>2, <1>5, <1>6, <1>7

\* Outside a rotation, a request with work of the section left is there to deliver.
LEMMA OtherSettled ==
  ASSUME BotRotationAssumption, Data, Place, Settled, NEW p \in Requests,
         \/ Arrive(p) \/ SaveEdit(p) \/ Enlist(p)
         \/ Open(p) \/ Find(p) \/ Send(p) \/ ColdStart(p)
  PROVE  Settled'
  <1>1. /\ msg[p].st = "none"
        /\ \A q \in Requests : q # p => msg'[q] = msg[q]
        /\ msg'[p].st # "none" => pc'[p] = "done"
    BY OwnRow
  <1>2. pc'[p] \notin Rotating
    <2>1. CASE Leave(p) \/ Finish(p)
      BY <2>1 DEF Leave, Finish, Goto, Data, Rotating
    <2>2. CASE ~(Leave(p) \/ Finish(p))
      BY <2>2 DEF Arrive, Deliver, AskRestart, AskApply, Sweep, Report, SendDirectly, StartEdit,
                  Asks, SaveEdit, Enlist, Open, Find, Send, ColdStart, Goto, Data, Rotating
    <2> QED
      BY <2>1, <2>2
  <1>3. pc'[p] \in Delivering /\ req'[p].kind # "report" => req'[p].job = "deliver"
    <2>1. CASE Leave(p) \/ Finish(p)
      BY <2>1 DEF Leave, Finish, Goto, Data, Delivering
    <2>2. CASE SaveEdit(p) \/ Enlist(p)
      BY <2>2 DEF SaveEdit, Enlist, Goto, Data, Delivering
    <2>3. CASE Open(p) /\ ~Leave(p)
      <3>1. req[p].job = "deliver" /\ (req' = req \/ req' = [req EXCEPT ![p].seen = bot])
        BY <2>3 DEF Open
      <3> QED
        BY <3>1 DEF Data, Request
    <2>4. CASE Find(p)
      <3>1. pc[p] \in Delivering /\ \E m \in Main(req[p].seen) : req' = [req EXCEPT ![p].primary = m]
        BY <2>4 DEF Find, Delivery, Delivering
      <3>2. req'[p].job = req[p].job /\ req'[p].kind = req[p].kind
        BY <3>1 DEF Data, Request
      <3> QED
        BY <3>1, <3>2 DEF Settled
    <2>5. CASE Arrive(p)
      <3>1. PICK k \in Kinds : \/ Deliver(p, k) \/ AskRestart(p, k) \/ AskApply(p, k) \/ Sweep(p, k)
                               \/ Report(p, k) \/ SendDirectly(p, k) \/ StartEdit(p, k)
        BY <2>5 DEF Arrive
      <3>2. CASE Report(p, k)
        BY <3>2 DEF Report, As, Idle, Data
      <3>3. CASE ~Report(p, k)
        BY <3>1, <3>3 DEF Deliver, AskRestart, AskApply, Sweep, SendDirectly, StartEdit, Asks,
                          Goto, Data, Delivering
      <3> QED
        BY <3>2, <3>3
    <2>6. CASE Send(p) \/ ColdStart(p)
      BY <2>1, <2>6 DEF Send, ColdStart
    <2> QED
      BY <2>1, <2>2, <2>3, <2>4, <2>5, <2>6
  <1>4. pc'[p] \notin {"prepare", "stage", "retire"}
    BY <1>2 DEF Rotating
  <1>5. Arrive(p) \/ Step(p)
    BY DEF Step
  <1> QED
    BY <1>1, <1>2, <1>3, <1>4, <1>5, KeepSettled

LEMMA SettledStep ==
  ASSUME BotRotationAssumption, Data, Place, Settled, [Next]_vars
  PROVE  Settled'
  <1>1. CASE \/ \E q \in Requests : AgentReads(q)
             \/ \E s \in running : Die(s)
             \/ UNCHANGED vars
    <2>1. /\ UNCHANGED <<pc, req>>
          /\ \A r \in Requests : \/ msg'[r] = msg[r]
                                 \/ msg[r].st = "queued" /\ msg'[r].st = "read"
      BY <1>1 DEF AgentReads, Die, vars, Data, Message
    <2>2. \A p \in Requests : Previous(p)' = Previous(p) /\ req[p].had \subseteq Requests
      BY <2>1 DEF Previous, Data, Request
    <2>3. \A p \in Requests : QueuedAt(Previous(p))' \subseteq QueuedAt(Previous(p))
      BY <2>1, <2>2 DEF QueuedAt
    <2>4. \A r \in Requests : msg'[r].st = "none" <=> msg[r].st = "none"
      BY <2>1
    <2> QED
      BY <2>1, <2>2, <2>3, <2>4 DEF Settled
  <1>2. CASE Crash
    <2>1. msg' = msg /\ \A q \in Requests : pc'[q] = IF pc[q] = "new" THEN "new" ELSE "done"
      BY <1>2 DEF Crash
    <2> QED
      BY <2>1 DEF Settled, Delivering, Rotating
  <1> QED
    BY <1>1, <1>2, RotateSettled, OtherSettled DEF Next, Step

\* The step that closes the old session finds nothing there that was queued when the
\* rotation began.
LEMMA RetireDrains ==
  ASSUME BotRotationAssumption, Data, Place, Settled, [Next]_vars,
         NEW p \in Requests, pc[p] = "retire", req[p].reason # "restart",
         NEW q \in req[p].had, msg[q].st = "queued"
  PROVE  msg'[q].st # "dropped"
  <1>0. q \in Requests
    BY DEF Data, Request
  <1>1. Holds(p)
    BY DEF Place, Rotating
  <1>2. ASSUME NEW r \in Requests, Rotate(r)  PROVE msg'[q].st # "dropped"
    <2>1. r = p
      BY <1>1, <1>2 DEF Rotate, Begin, Admit, Drain, Prepare, Stage, Retire, Stop, Carry, Stands,
                        Holds
    <2>2. Retire(p)
      BY <1>2, <2>1 DEF Rotate, Begin, Admit, Drain, Prepare, Stage, Stop, Carry, Stands
    <2>3. Previous(p) = req[p].primary
      BY DEF Data, Previous
    <2>4. q \notin QueuedAt(req[p].primary)
      BY <2>3 DEF Settled
    <2> QED
      BY <1>0, <2>2, <2>4 DEF Retire, Closes
  <1>3. ASSUME NEW r \in Requests,
               \/ Arrive(r) \/ SaveEdit(r) \/ Enlist(r)
               \/ Open(r) \/ Find(r) \/ Send(r) \/ ColdStart(r)
        PROVE  msg'[q].st # "dropped"
    BY <1>0, <1>3, OwnRow
  <1>4. CASE \/ \E r \in Requests : AgentReads(r)
             \/ \E s \in running : Die(s)
             \/ Crash \/ UNCHANGED vars
    BY <1>0, <1>4 DEF AgentReads, Die, Crash, vars, Data, Message
  <1> QED
    BY <1>2, <1>3, <1>4 DEF Next, Step

\* A rotation the server decided on drops no message that was queued when it began,
\* whoever sends, reads or crashes meanwhile: what it closes it has looked at.
THEOREM AutomaticRotationDrainsHolds == Spec => AutomaticRotationDrains
  <1>1. Init => Data /\ Place /\ Settled
    BY InitData, InitPlace, InitSettled, BotRotationAssumption
  <1>2. Data /\ Place /\ Settled /\ [Next]_vars => (Data /\ Place /\ Settled)'
    BY DataStep, PlaceStep, SettledStep, BotRotationAssumption
  <1>3. Data /\ Place /\ Settled /\ [Next]_vars =>
          [\A p \in Requests : pc[p] = "retire" /\ req[p].reason # "restart" =>
             \A q \in req[p].had : msg[q].st = "queued" => msg'[q].st # "dropped"]_vars
    BY RetireDrains, BotRotationAssumption
  <1> QED
    BY <1>1, <1>2, <1>3, PTL DEF Spec, AutomaticRotationDrains

=============================================================================
