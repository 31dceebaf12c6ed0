------------------------------- MODULE LiveFeed -------------------------------
(***************************************************************************)
(* One session's transcript on the live sockets: the server's channel with *)
(* its replay ring and its tail (src/src/live-ws.ts), the sockets, and the *)
(* clients' connection (OmgLiveConnection, src/packages/client/src).       *)
(*                                                                         *)
(* A row is its place in the transcript.  A row exists once it is in the   *)
(* index.  Of a harness, the agent's own process commits rows there, the   *)
(* tail polls for them, and a subscription runs through without giving     *)
(* another event of the server a turn; without it, the server ingests the  *)
(* agent's file, publishes a row as it indexes it, and a subscription      *)
(* waits for the file system twice.                                        *)
(*                                                                         *)
(* Simplified: one session; a message of a client reaches the server at    *)
(* once or not at all; frames without a sequence number (typing, the       *)
(* queue and the state sent to one socket) are left out; a snapshot holds  *)
(* every row, where the code sends the newest page.                        *)
(***************************************************************************)
EXTENDS Integers, Sequences, FiniteSets

CONSTANTS
  Clients,      \* browser tabs with the session open
  Modes,        \* what a behaviour may contain, see Mode
  RingCap,      \* RING_CAP
  MaxTurns,                         \* bound: turns of the agent
  MaxSockets, MaxJobs, MaxBatches   \* bounds: connections, subscriptions and batches under way

\* harness: the agent indexes its own rows; artifacts: media cards are
\* published beside the transcript; visits: how often a client may open the
\* session's page again; restarts: how often the server may start again;
\* rows and chatter bound the rows and the deltas that carry none.
Mode == [harness : BOOLEAN, artifacts : BOOLEAN, visits : Nat, restarts : Nat,
         rows : Nat, chatter : Nat]

ASSUME FeedAssumption ==
  /\ Modes \subseteq Mode
  /\ RingCap \in Nat \ {0}
  /\ MaxTurns \in Nat
  /\ MaxSockets \in Nat /\ MaxJobs \in Nat /\ MaxBatches \in Nat

VARIABLES
  mode,     \* the mode of this behaviour
  wrote,    \* rows of the index: 1..wrote
  busy,     \* the agent is in a turn
  chan,     \* channelStates: the sequence number and the replay ring
  tail,     \* sidTails: is there one, the rows it published, its sockets, its last state
  batch,    \* publishCurrentBatch calls under way, of this tail and of tails that are gone
  open,     \* openSockets
  subd,     \* the sockets whose `subscribed' holds the channel
  job,      \* subscribeTranscript calls under way
  net,      \* frames on their way to a client, oldest first
  client,   \* OmgLiveConnection and what its listener shows
  skip,     \* history: rows indexed between a subscription's snapshot and its tail
  blind,    \* history: the clients that took a gap and not yet the snapshot after it
  used,     \* history: sockets ever opened
  turns, chatter, visits, boots  \* counters of the bounds

counters == <<used, turns, chatter, visits, boots>>
server == <<chan, tail, batch, open, subd, job>>
vars == <<mode, wrote, busy, server, net, client, skip, blind, counters>>

Sockets == 1..MaxSockets
Jobs == 1..MaxJobs
Rows == Nat \ {0}
Rowless == 0   \* a delta that carries no row: busy, prompt, queue, a draft's part
Looks == {"unknown", "busy", "idle"}

NoTail == [on |-> FALSE, cursor |-> 0, socks |-> {}, look |-> "unknown"]
NoJob == [pc |-> "none", sock |-> 0, resume |-> 0, upto |-> 0]
Frame(t, seq, row) == [t |-> t, seq |-> seq, row |-> row]

Init ==
  /\ mode \in Modes
  /\ wrote = 0 /\ busy = FALSE
  /\ chan = [seq |-> 0, ring |-> <<>>]
  /\ tail = NoTail
  /\ batch = [live |-> 0, gone |-> 0]
  /\ open = {} /\ subd = {}
  /\ job = [j \in Jobs |-> NoJob]
  /\ net = [s \in Sockets |-> <<>>]
  /\ client = [c \in Clients |-> [sock |-> 0, wants |-> TRUE, cursor |-> 0, shown |-> {}]]
  /\ skip = [c \in Clients |-> [sock |-> 0, rows |-> {}]] /\ blind = {}
  /\ used = 0 /\ turns = 0 /\ chatter = 0 /\ visits = 0 /\ boots = 0

-----------------------------------------------------------------------------
(* The channel *)

TrimNever(ring) == ring   \* mutant: the ring is not capped
Trim(ring) == SubSeq(ring, IF Len(ring) > RingCap THEN Len(ring) - RingCap + 1 ELSE 1, Len(ring))

Deltas(ch, rows) == [i \in 1..Len(rows) |-> Frame("delta", ch.seq + i, rows[i])]
Remember(ch, rows) ==
  [seq |-> ch.seq + Len(rows), ring |-> Trim(ch.ring \o Deltas(ch, rows))]

\* safeSend: a frame for a closed socket is dropped, one for a connection
\* that broke is lost.
ClientOf(s) == {c \in Clients : client[c].sock = s}
ToSockets(nt, socks, frames) ==
  [s \in Sockets |-> IF s \in socks \cap open /\ ClientOf(s) # {} THEN nt[s] \o frames ELSE nt[s]]

\* publishChannelDelta, once per row: a stamped delta in the ring and to
\* every open socket that is subscribed.
Publish(rows) ==
  /\ chan' = Remember(chan, rows)
  /\ net' = ToSockets(net, subd, Deltas(chan, rows))

\* What runs up to its next wait on the file system lets nothing of the
\* server in between: a read snapshot is sent, and with a harness a
\* subscription and a batch run through.
Calm ==
  /\ \A j \in Jobs : job[j].pc # "read"
  /\ mode.harness => batch.live = 0 /\ \A j \in Jobs : job[j].pc = "none"

-----------------------------------------------------------------------------
(* The agent *)

AgentStartsTurn ==
  /\ ~busy /\ turns < MaxTurns
  /\ busy' = TRUE /\ turns' = turns + 1
  /\ UNCHANGED <<mode, wrote, server, net, client, skip, blind, used, chatter, visits, boots>>

AgentEndsTurn ==
  /\ busy /\ busy' = FALSE
  /\ UNCHANGED <<mode, wrote, server, net, client, skip, blind, counters>>

\* A row of the agent.  The ingest of a file publishes it on the spot; a
\* harness commits it and leaves the rest to the poll.
AgentWrites ==
  /\ busy /\ wrote < mode.rows
  /\ wrote' = wrote + 1
  /\ \/ /\ mode.harness \/ (Calm /\ ~tail.on)
        /\ UNCHANGED <<chan, tail, net>>
     \/ /\ ~mode.harness /\ Calm /\ tail.on
        /\ tail' = [tail EXCEPT !.cursor = wrote + 1]
        /\ Publish(<<wrote + 1>>)
  /\ UNCHANGED <<mode, busy, batch, open, subd, job, client, skip, blind, counters>>

\* Mutant: published before its row commits.
ShowArtifactEarly ==
  /\ mode.artifacts /\ Calm /\ wrote < mode.rows
  /\ Publish(<<wrote + 1>>)
  /\ UNCHANGED <<mode, wrote, busy, tail, batch, open, subd, job, client, skip, blind, counters>>

\* The server publishes an artifact the moment its row commits, whether or
\* not the session has a tail.
ShowArtifact ==
  /\ mode.artifacts /\ Calm /\ wrote < mode.rows
  /\ wrote' = wrote + 1
  /\ Publish(<<wrote + 1>>)
  /\ tail' = IF tail.on /\ ~mode.harness THEN [tail EXCEPT !.cursor = wrote + 1] ELSE tail
  /\ UNCHANGED <<mode, busy, batch, open, subd, job, client, skip, blind, counters>>

-----------------------------------------------------------------------------
(* The tail *)

\* pollIndexedTranscript, on a write or on the tick: every row past the cursor.
PollTranscript ==
  /\ Calm /\ tail.on /\ tail.cursor < wrote
  /\ Publish([i \in 1..(wrote - tail.cursor) |-> tail.cursor + i])
  /\ tail' = [tail EXCEPT !.cursor = wrote]
  /\ UNCHANGED <<mode, wrote, busy, batch, open, subd, job, client, skip, blind, counters>>

\* What pollOne may see: what the agent does; the first looks at a pane find
\* that its target is not known yet.
Seen(t) ==
  LET now == IF busy THEN "busy" ELSE "idle"
  IN IF mode.harness THEN {now} ELSE {now, t.look}

\* Mutant: a turn's end brings no batch.
PollStateOnly ==
  /\ Calm /\ tail.on
  /\ \E look \in Seen(tail) \ {tail.look} : tail' = [tail EXCEPT !.look = look]
  /\ Publish(<<Rowless>>)
  /\ UNCHANGED <<mode, wrote, busy, batch, open, subd, job, client, skip, blind, counters>>

\* pollOne: a state that changed is published, and an idle one is followed by
\* a batch.
PollState ==
  /\ Calm /\ tail.on /\ batch.live < MaxBatches
  /\ \E look \in Seen(tail) \ {tail.look} :
       /\ tail' = [tail EXCEPT !.look = look]
       /\ batch' = IF look = "idle" THEN [batch EXCEPT !.live = @ + 1] ELSE batch
  /\ Publish(<<Rowless>>)
  /\ UNCHANGED <<mode, wrote, busy, open, subd, job, client, skip, blind, counters>>

\* A prompt, the queue, or a part of a draft.
Chatter ==
  /\ Calm /\ tail.on /\ chatter < mode.chatter
  /\ chatter' = chatter + 1
  /\ Publish(<<Rowless>>)
  /\ UNCHANGED <<mode, wrote, busy, tail, batch, open, subd, job, client, skip, blind, used, turns, visits, boots>>

\* The end of publishCurrentBatch: the snapshot is read, stamped and sent to
\* the sockets of the tail that asked for it.
SendBatch ==
  /\ \A j \in Jobs : job[j].pc # "read"
  /\ \/ /\ batch.live > 0
        /\ batch' = [batch EXCEPT !.live = @ - 1]
        /\ net' = ToSockets(net, tail.socks \cap subd,
                            <<Frame("snapshot", chan.seq + 1, wrote)>>)
     \/ /\ batch.gone > 0
        /\ batch' = [batch EXCEPT !.gone = @ - 1]
        /\ UNCHANGED net
  /\ chan' = [chan EXCEPT !.seq = @ + 1]
  /\ UNCHANGED <<mode, wrote, busy, tail, open, subd, job, client, skip, blind, counters>>

-----------------------------------------------------------------------------
(* Subscriptions *)

\* ensureSidTail, tail.sockets.add and the pollOne of subscribeTranscript, for
\* socket s, after its answer has left the channel as ch and the frames as nt.
\* Nothing asks whether s is still subscribed, or open.
Join(s, ch, nt) ==
  LET t == IF tail.on THEN tail ELSE [NoTail EXCEPT !.on = TRUE, !.cursor = wrote]
  IN \E look \in Seen(t) :
       /\ tail' = [t EXCEPT !.socks = @ \cup {s}, !.look = look]
       /\ IF look = t.look
            THEN chan' = ch /\ net' = nt /\ UNCHANGED batch
            ELSE /\ chan' = Remember(ch, <<Rowless>>)
                 /\ net' = ToSockets(nt, subd, Deltas(ch, <<Rowless>>))
                 /\ batch' = IF look = "idle" THEN [batch EXCEPT !.live = @ + 1] ELSE batch

Resumable(resume) ==
  /\ resume > 0 /\ chan.ring # <<>>
  /\ chan.ring[1].seq - 1 <= resume /\ resume <= chan.seq

\* The frames of the ring past the cursor; the ring is in order.
Missed(resume) ==
  SubSeq(chan.ring, 1 + Cardinality({i \in 1..Len(chan.ring) : chan.ring[i].seq <= resume}), Len(chan.ring))

\* replayOrSnapshot, the first half: replay what the ring holds and say so ...
Resume(j) ==
  /\ job[j].pc = "resolving" /\ Resumable(job[j].resume)
  /\ batch.live < MaxBatches
  /\ \A k \in Jobs : job[k].pc # "read"
  /\ LET s == job[j].sock
         resumed == Frame("resumed", chan.seq + 1, job[j].resume)
     IN Join(s, [chan EXCEPT !.seq = @ + 1],
             ToSockets(net, {s}, Append(Missed(job[j].resume), resumed)))
  /\ job' = [job EXCEPT ![j] = NoJob]
  /\ UNCHANGED <<mode, wrote, busy, open, subd, client, skip, blind, counters>>

\* ... or say that there is a gap, and fetch a snapshot,
Gap(j) ==
  /\ job[j].pc = "resolving" /\ ~Resumable(job[j].resume)
  /\ \A k \in Jobs : job[k].pc # "read"
  /\ IF job[j].resume > 0
       THEN /\ chan' = [chan EXCEPT !.seq = @ + 1]
            /\ net' = ToSockets(net, {job[j].sock}, <<Frame("gap", chan.seq + 1, 0)>>)
       ELSE UNCHANGED <<chan, net>>
  /\ job' = [job EXCEPT ![j].pc = "reading"]
  /\ UNCHANGED <<mode, wrote, busy, tail, batch, open, subd, client, skip, blind, counters>>

\* ... which readBacklog reads
ReadSnapshot(j) ==
  /\ job[j].pc = "reading"
  /\ \A k \in Jobs : job[k].pc # "read"
  /\ job' = [job EXCEPT ![j] = [@ EXCEPT !.pc = "read", !.upto = wrote]]
  /\ UNCHANGED <<mode, wrote, busy, chan, tail, batch, open, subd, net, client, skip, blind, counters>>

\* ... and which is sent, before the socket joins the tail.
SendSnapshot(j) ==
  /\ job[j].pc = "read" /\ batch.live < MaxBatches
  /\ LET s == job[j].sock
     IN /\ Join(s, [chan EXCEPT !.seq = @ + 1],
                ToSockets(net, {s}, <<Frame("snapshot", chan.seq + 1, job[j].upto)>>))
        /\ skip' = [c \in Clients |-> IF c \in ClientOf(s)
                                    THEN [sock |-> s, rows |-> (job[j].upto + 1)..tail'.cursor]
                                    ELSE skip[c]]
  /\ job' = [job EXCEPT ![j] = NoJob]
  /\ UNCHANGED <<mode, wrote, busy, open, subd, client, blind, counters>>

\* A subscribe frame: the socket is subscribed at once, the rest follows.
Subscribe(s, resume) ==
  /\ subd' = subd \cup {s}
  /\ \E j \in Jobs :
       /\ job[j].pc = "none" /\ \A k \in 1..(j - 1) : job[k].pc # "none"
       /\ job' = [job EXCEPT ![j] = [pc |-> "resolving", sock |-> s, resume |-> resume, upto |-> 0]]

\* Mutants: the tail goes with any of its sockets; the ring outlives the tail.
UnsubscribeAll(s) ==
  /\ subd' = subd \ {s}
  /\ tail' = NoTail
  /\ chan' = [chan EXCEPT !.ring = <<>>]
  /\ batch' = [live |-> 0, gone |-> batch.gone + batch.live]
UnsubscribeWithRing(s) ==
  LET left == tail.socks \ {s}
  IN /\ subd' = subd \ {s}
     /\ IF s \in subd /\ tail.on /\ left = {}
          THEN tail' = NoTail /\ batch' = [live |-> 0, gone |-> batch.gone + batch.live]
          ELSE tail' = (IF s \in subd THEN [tail EXCEPT !.socks = left] ELSE tail) /\ UNCHANGED batch
     /\ UNCHANGED chan

\* unsubscribeTranscript and cleanupSidTail.
Unsubscribe(s) ==
  LET left == tail.socks \ {s}
  IN /\ subd' = subd \ {s}
     /\ IF s \in subd /\ tail.on /\ left = {}
          THEN /\ tail' = NoTail
               /\ chan' = [chan EXCEPT !.ring = <<>>]
               /\ batch' = [live |-> 0, gone |-> batch.gone + batch.live]
          ELSE /\ tail' = IF s \in subd THEN [tail EXCEPT !.socks = left] ELSE tail
               /\ UNCHANGED <<chan, batch>>

\* closeSocket: a socket that is gone, noticed by its close event or by the
\* heartbeat.
Close(s) ==
  /\ Calm /\ s \in open /\ ClientOf(s) = {}
  /\ open' = open \ {s}
  /\ Unsubscribe(s)
  /\ UNCHANGED <<mode, wrote, busy, job, net, client, skip, blind, counters>>

\* The server starts again: rows stay, the channel and the tail do not.
Restart ==
  /\ boots < mode.restarts /\ boots' = boots + 1
  /\ chan' = [seq |-> 0, ring |-> <<>>]
  /\ tail' = NoTail /\ batch' = [live |-> 0, gone |-> 0]
  /\ open' = {} /\ subd' = {} /\ job' = [j \in Jobs |-> NoJob]
  /\ net' = [s \in Sockets |-> <<>>]
  /\ client' = [c \in Clients |-> [client[c] EXCEPT !.sock = 0]]
  /\ UNCHANGED <<mode, wrote, busy, skip, blind, used, turns, chatter, visits>>

-----------------------------------------------------------------------------
(* The client *)

\* RealtimeConnection opens a socket and onOpen subscribes what has a
\* listener, from the cursor if there is one.
Connect(c) ==
  /\ Calm /\ client[c].sock = 0 /\ used < MaxSockets
  /\ used' = used + 1
  /\ open' = open \cup {used + 1}
  /\ client' = [client EXCEPT ![c].sock = used + 1]
  /\ IF client[c].wants THEN Subscribe(used + 1, client[c].cursor) ELSE UNCHANGED <<subd, job>>
  /\ UNCHANGED <<mode, wrote, busy, chan, tail, batch, net, skip, blind, turns, chatter, visits, boots>>

\* The connection breaks; the server does not know yet.
Lose(c) ==
  /\ client[c].sock # 0
  /\ client' = [client EXCEPT ![c].sock = 0]
  /\ net' = [net EXCEPT ![client[c].sock] = <<>>]
  /\ UNCHANGED <<mode, wrote, busy, server, skip, blind, counters>>

\* The session's page is closed: no listener, no cursor, an unsubscribe.
Leave(c) ==
  /\ Calm /\ client[c].wants /\ visits < mode.visits
  /\ visits' = visits + 1
  /\ client' = [client EXCEPT ![c].wants = FALSE, ![c].cursor = 0]
  /\ IF client[c].sock # 0 THEN Unsubscribe(client[c].sock) ELSE UNCHANGED <<chan, tail, batch, subd>>
  /\ UNCHANGED <<mode, wrote, busy, open, job, net, skip, blind, used, turns, chatter, boots>>

\* It is opened again.
Come(c) ==
  /\ Calm /\ ~client[c].wants
  /\ client' = [client EXCEPT ![c].wants = TRUE]
  /\ IF client[c].sock # 0 THEN Subscribe(client[c].sock, client[c].cursor) ELSE UNCHANGED <<subd, job>>
  /\ UNCHANGED <<mode, wrote, busy, chan, tail, batch, open, net, skip, blind, counters>>

\* reconcileSnapshotMessages: the snapshot's rows and the newer ones shown.
Merge(shown, upto) == 1..upto \cup shown

Shows(shown, f) ==
  CASE f.t = "snapshot" -> Merge(shown, f.row)
    [] f.t = "delta" /\ f.row # Rowless -> shown \cup {f.row}
    [] OTHER -> shown

\* handleMessage: a delta at or behind the cursor is a repetition; any other
\* frame moves the cursor, whether or not there is a listener to show it.
Deliver(c) ==
  LET s == client[c].sock
      f == Head(net[s])
  IN /\ s # 0 /\ net[s] # <<>>
     /\ net' = [net EXCEPT ![s] = Tail(@)]
     /\ IF f.t = "delta" /\ f.seq <= client[c].cursor
          THEN UNCHANGED client
          ELSE client' = [client EXCEPT ![c].cursor = f.seq,
                                        ![c].shown = IF client[c].wants THEN Shows(@, f) ELSE @]
     /\ blind' = CASE f.t = "gap" -> blind \cup {c} [] f.t = "snapshot" -> blind \ {c} [] OTHER -> blind
     /\ UNCHANGED <<mode, wrote, busy, server, skip, counters>>

-----------------------------------------------------------------------------
Next ==
  \/ AgentStartsTurn \/ AgentEndsTurn \/ AgentWrites \/ ShowArtifact
  \/ PollTranscript \/ PollState \/ Chatter \/ SendBatch \/ Restart
  \/ \E j \in Jobs : Resume(j) \/ Gap(j) \/ ReadSnapshot(j) \/ SendSnapshot(j)
  \/ \E s \in Sockets : Close(s)
  \/ \E c \in Clients : Connect(c) \/ Lose(c) \/ Leave(c) \/ Come(c) \/ Deliver(c)

Spec == Init /\ [][Next]_vars

\* The server's timers and continuations run, frames of a living connection
\* arrive, and the agent ends its turns.  Nobody has to connect, to come back
\* or to write.
FairSpec ==
  /\ Spec
  /\ WF_vars(AgentEndsTurn) /\ WF_vars(PollTranscript) /\ WF_vars(PollState) /\ WF_vars(SendBatch)
  /\ \A j \in Jobs : WF_vars(Resume(j) \/ Gap(j) \/ ReadSnapshot(j) \/ SendSnapshot(j))
  /\ \A c \in Clients : WF_vars(Deliver(c))
  /\ \A s \in Sockets : WF_vars(Close(s))
-----------------------------------------------------------------------------
(* Properties *)

\* The type invariant.
TypeOK ==
  /\ mode \in Mode
  /\ wrote \in Nat /\ busy \in BOOLEAN
  /\ chan \in [seq : Nat, ring : Seq([t : {"delta"}, seq : Nat, row : Nat])]
  /\ Len(chan.ring) <= RingCap
  /\ tail \in [on : BOOLEAN, cursor : Nat, socks : SUBSET Sockets, look : Looks]
  /\ batch \in [live : Nat, gone : Nat]
  /\ open \subseteq Sockets /\ subd \subseteq Sockets
  /\ job \in [Jobs -> [pc : {"none", "resolving", "reading", "read"}, sock : 0..MaxSockets,
                       resume : Nat, upto : Nat]]
  /\ net \in [Sockets -> Seq([t : {"delta", "snapshot", "gap", "resumed"}, seq : Nat, row : Nat])]
  /\ client \in [Clients -> [sock : 0..MaxSockets, wants : BOOLEAN, cursor : Nat, shown : SUBSET Rows]]
  /\ skip \in [Clients -> [sock : 0..MaxSockets, rows : SUBSET Rows]] /\ blind \subseteq Clients
  /\ used \in 0..MaxSockets /\ turns \in 0..MaxTurns /\ chatter \in Nat /\ visits \in Nat /\ boots \in Nat

\* The client follows the session and the server has answered it.
Attached(c) ==
  /\ client[c].sock # 0 /\ client[c].wants
  /\ \A j \in Jobs : job[j].pc = "none" \/ job[j].sock # client[c].sock

\* A client whose subscription was answered is one of its tail's sockets, so
\* nothing can take the tail away from under it.
SubscriberIsFollowed ==
  \A c \in Clients : Attached(c) =>
    tail.on /\ client[c].sock \in tail.socks \cap open \cap subd

\* isSessionWatched: a harness session's tail has sockets that are connected
\* and subscribed and no others, so a session nobody looks at is never
\* reported as watched.
WatchedIsSubscribed == mode.harness => tail.socks \subseteq open \cap subd

\* The tail has the sockets of every client that was answered, and of nobody
\* who left.
TailHasItsSockets == SubscriberIsFollowed /\ WatchedIsSubscribed

\* The modes in which a resume tells the truth: no artifact reaches the ring
\* past the tail, no cursor outlives its page or the server's numbers, and no
\* frame overtakes a replay.
Plain == mode.harness /\ ~mode.artifacts /\ visits = 0 /\ boots = 0

Missing(c) == (1..tail.cursor) \ client[c].shown

\* A client with no frame under way shows every row the tail has published,
\* whatever connections it lost and however it was answered, unless it took a
\* gap for an answer; the rows indexed between its snapshot and its tail are
\* the only ones it may lack.
HolesAreSkips ==
  \A c \in Clients : (Plain /\ Attached(c) /\ net[client[c].sock] = <<>> /\ c \notin blind) =>
    Missing(c) \subseteq skip[c].rows

\* Once the agent is done, a client that stays connected ends up with every
\* row: the ones it skipped come with the batch at the end of the turn, and
\* only a skip of an earlier connection of its own may stay.
ConnectedCatchesUp ==
  <>[](\A c \in Clients : (Plain /\ client[c].sock # 0 /\ c \notin blind) =>
         \A r \in 1..wrote : \/ r \in client[c].shown
                             \/ r \in skip[c].rows /\ skip[c].sock # client[c].sock)

\* What cleanupSidTail's comment asks for: a client that was answered, told
\* of no gap, and has no frame under way misses nothing.
NothingMissed ==
  \A c \in Clients : (Attached(c) /\ net[client[c].sock] = <<>>) => Missing(c) \subseteq skip[c].rows

\* isSessionWatched's comment, for every session.
NeverStaleYes == tail.on => \E s \in tail.socks : s \in open \cap subd

\* What the clients show refines the promise of a feed: rows of the
\* transcript only, and none that was shown disappears.
Feed == INSTANCE TranscriptFeed WITH view <- [c \in Clients |-> client[c].shown]
FeedSpec == Feed!Spec
=============================================================================
