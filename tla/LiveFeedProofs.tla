---------------------------- MODULE LiveFeedProofs ----------------------------
(***************************************************************************)
(* Proofs about LiveFeed, for every number of clients, sockets, rows and   *)
(* restarts.                                                               *)
(*                                                                         *)
(* LiveInv says who owns what, and holds in every mode; types, the tail's  *)
(* sockets and the refinement of TranscriptFeed follow from it.  HoleInv   *)
(* says where each row is that a client lacks, in the plain modes, and     *)
(* HolesAreSkips follows: frames and queues first, then one lemma a step.  *)
(***************************************************************************)
EXTENDS LiveFeed, FiniteSetTheorems, TLAPS

DeltaSet == [t : {"delta"}, seq : Nat, row : Nat]
AnyFrame == [t : {"delta", "snapshot", "gap", "resumed"}, seq : Nat, row : Nat]
ChanSet == [seq : Nat, ring : Seq(DeltaSet)]
TailSet == [on : BOOLEAN, cursor : Nat, socks : SUBSET Sockets, look : Looks]

-----------------------------------------------------------------------------
(* Lemmas about the channel *)

LEMMA ElementType ==
  ASSUME NEW S, NEW q \in Seq(S), NEW i \in 1..Len(q)
  PROVE  q[i] \in S
OBVIOUS

\* The stamped deltas are frames, one per row.
LEMMA DeltasType ==
  ASSUME NEW ch \in ChanSet, NEW rows \in Seq(Nat)
  PROVE  /\ Deltas(ch, rows) \in Seq(DeltaSet)
         /\ Len(Deltas(ch, rows)) = Len(rows)
         /\ \A i \in 1..Len(rows) : Deltas(ch, rows)[i].row = rows[i]
BY DEF Deltas, Frame, DeltaSet, ChanSet

\* A trimmed ring is a ring, holds frames of the ring, and no more than its cap.
LEMMA TrimType ==
  ASSUME NEW S, NEW ring \in Seq(S)
  PROVE  /\ Trim(ring) \in Seq(S)
         /\ Len(Trim(ring)) <= RingCap
         /\ \A i \in 1..Len(Trim(ring)) : \E k \in 1..Len(ring) : Trim(ring)[i] = ring[k]
BY FeedAssumption DEF Trim

\* Publishing keeps the channel a channel, and adds the published rows only.
LEMMA RememberType ==
  ASSUME NEW ch \in ChanSet, NEW rows \in Seq(Nat)
  PROVE  /\ Remember(ch, rows) \in ChanSet
         /\ Len(Remember(ch, rows).ring) <= RingCap
         /\ \A i \in 1..Len(Remember(ch, rows).ring) :
              \/ \E k \in 1..Len(ch.ring) : Remember(ch, rows).ring[i] = ch.ring[k]
              \/ \E k \in 1..Len(rows) : Remember(ch, rows).ring[i].row = rows[k]
<1>1. Deltas(ch, rows) \in Seq(DeltaSet) /\ ch.ring \in Seq(DeltaSet)
  BY DeltasType DEF ChanSet
<1> DEFINE all == ch.ring \o Deltas(ch, rows)
<1>2. all \in Seq(DeltaSet)
  BY <1>1
<1>3. \A k \in 1..Len(all) : \/ \E m \in 1..Len(ch.ring) : all[k] = ch.ring[m]
                             \/ \E m \in 1..Len(rows) : all[k].row = rows[m]
  <2> SUFFICES ASSUME NEW k \in 1..Len(all)
               PROVE  \/ \E m \in 1..Len(ch.ring) : all[k] = ch.ring[m]
                      \/ \E m \in 1..Len(rows) : all[k].row = rows[m]
    OBVIOUS
  <2>1. CASE k <= Len(ch.ring)
    <3>1. k \in 1..Len(ch.ring) /\ all[k] = ch.ring[k]
      BY <1>1, <2>1
    <3> QED BY <3>1
  <2>2. CASE k > Len(ch.ring)
    <3>1. k - Len(ch.ring) \in 1..Len(rows)
      BY <1>1, <2>2, DeltasType
    <3>2. all[k] = Deltas(ch, rows)[k - Len(ch.ring)]
      BY <1>1, <2>2
    <3> QED BY <3>1, <3>2, DeltasType
  <2>3. k \in Int /\ Len(ch.ring) \in Int
    BY <1>1
  <2> HIDE DEF all
  <2> QED BY <2>1, <2>2, <2>3
<1>4. /\ Trim(all) \in Seq(DeltaSet) /\ Len(Trim(all)) <= RingCap
      /\ \A i \in 1..Len(Trim(all)) : \E k \in 1..Len(all) : Trim(all)[i] = all[k]
  BY <1>2, TrimType
<1>5. Remember(ch, rows) = [seq |-> ch.seq + Len(rows), ring |-> Trim(all)]
  BY DEF Remember
<1>6. ch.seq + Len(rows) \in Nat
  BY DEF ChanSet
<1> HIDE DEF all
<1>7. Remember(ch, rows).ring = Trim(all)
  BY <1>5
<1>8. Remember(ch, rows) \in ChanSet
  BY <1>4, <1>5, <1>6 DEF ChanSet
<1>9. \A i \in 1..Len(Trim(all)) :
        \/ \E k \in 1..Len(ch.ring) : Trim(all)[i] = ch.ring[k]
        \/ \E k \in 1..Len(rows) : Trim(all)[i].row = rows[k]
  <2> TAKE i \in 1..Len(Trim(all))
  <2>1. PICK k \in 1..Len(all) : Trim(all)[i] = all[k]
    BY <1>4
  <2>2. CASE \E j \in 1..Len(ch.ring) : all[k] = ch.ring[j]
    BY <2>1, <2>2
  <2>3. CASE \E j \in 1..Len(rows) : all[k].row = rows[j]
    BY <2>1, <2>3
  <2> QED BY <1>3, <2>2, <2>3
<1> QED BY <1>4, <1>7, <1>8, <1>9

\* Frames sent to sockets extend their queues, and only theirs.
LEMMA ToSocketsType ==
  ASSUME NEW nt \in [Sockets -> Seq(AnyFrame)], NEW socks, NEW frames \in Seq(AnyFrame)
  PROVE  /\ ToSockets(nt, socks, frames) \in [Sockets -> Seq(AnyFrame)]
         /\ \A s \in Sockets : \A i \in 1..Len(ToSockets(nt, socks, frames)[s]) :
              \/ \E k \in 1..Len(nt[s]) : ToSockets(nt, socks, frames)[s][i] = nt[s][k]
              \/ \E k \in 1..Len(frames) : ToSockets(nt, socks, frames)[s][i] = frames[k]
<1> DEFINE new == ToSockets(nt, socks, frames)
<1>1. \A s \in Sockets : new[s] = nt[s] \/ new[s] = nt[s] \o frames
  BY DEF ToSockets
<1>2. new \in [Sockets -> Seq(AnyFrame)]
  BY DEF ToSockets
<1>3. ASSUME NEW s \in Sockets, NEW i \in 1..Len(new[s])
      PROVE  \/ \E k \in 1..Len(nt[s]) : new[s][i] = nt[s][k]
             \/ \E k \in 1..Len(frames) : new[s][i] = frames[k]
  <2>1. CASE new[s] = nt[s]
    BY <1>3, <2>1
  <2>2. CASE new[s] = nt[s] \o frames
    <3>1. CASE i <= Len(nt[s])
      BY <1>3, <2>2, <3>1
    <3>2. CASE i > Len(nt[s])
      <4>1. i - Len(nt[s]) \in 1..Len(frames) /\ new[s][i] = frames[i - Len(nt[s])]
        BY <1>3, <2>2, <3>2
      <4> QED BY <4>1
    <3> QED BY <1>3, <3>1, <3>2
  <2> QED BY <1>1, <2>1, <2>2
<1> QED BY <1>2, <1>3

\* What a resume replays are frames of the ring.
LEMMA MissedType ==
  ASSUME chan \in ChanSet, NEW resume \in Nat
  PROVE  /\ Missed(resume) \in Seq(DeltaSet)
         /\ \A i \in 1..Len(Missed(resume)) : \E k \in 1..Len(chan.ring) : Missed(resume)[i] = chan.ring[k]
<1> DEFINE n == Cardinality({i \in 1..Len(chan.ring) : chan.ring[i].seq <= resume})
<1>1. n \in Nat
  <2>1. IsFiniteSet(1..Len(chan.ring))
    BY FS_Interval DEF ChanSet
  <2>2. IsFiniteSet({i \in 1..Len(chan.ring) : chan.ring[i].seq <= resume})
    BY <2>1, FS_Subset
  <2> QED BY <2>2, FS_CardinalityType
<1>2. Missed(resume) = SubSeq(chan.ring, 1 + n, Len(chan.ring))
  BY DEF Missed
<1> HIDE DEF n
<1>3. chan.ring \in Seq(DeltaSet)
  BY DEF ChanSet
<1>4. \A i \in 1..Len(Missed(resume)) : i + n \in 1..Len(chan.ring) /\ Missed(resume)[i] = chan.ring[i + n]
  BY <1>1, <1>2, <1>3
<1>5. Missed(resume) \in Seq(DeltaSet)
  BY <1>1, <1>2, <1>3
<1> QED BY <1>4, <1>5

-----------------------------------------------------------------------------
(* The invariant *)

ChanOK(ch, w) ==
  /\ ch \in ChanSet /\ Len(ch.ring) <= RingCap
  /\ \A i \in 1..Len(ch.ring) : ch.ring[i].row <= w

NetOK(nt, w) ==
  /\ nt \in [Sockets -> Seq(AnyFrame)]
  /\ \A s \in Sockets : \A i \in 1..Len(nt[s]) :
       nt[s][i].t \in {"delta", "snapshot"} => nt[s][i].row <= w

JobSet == [pc : {"none", "resolving", "reading", "read"}, sock : 0..MaxSockets, resume : Nat, upto : Nat]
ClientSet == [sock : 0..MaxSockets, wants : BOOLEAN, cursor : Nat, shown : SUBSET Rows]
SkipSet == [sock : 0..MaxSockets, rows : SUBSET Rows]
BatchSet == [live : Nat, gone : Nat]

\* What the server and the network hold are rows of the transcript, and so is
\* what a client shows.
RowsWritten ==
  /\ ChanOK(chan, wrote) /\ NetOK(net, wrote)
  /\ tail.cursor <= wrote
  /\ \A j \in Jobs : job[j].upto <= wrote
  /\ \A c \in Clients : \A r \in client[c].shown : r <= wrote

\* The types of what RowsWritten leaves open.
TypesOK ==
  /\ mode \in Mode /\ wrote \in Nat /\ busy \in BOOLEAN
  /\ tail \in TailSet /\ batch \in BatchSet
  /\ open \subseteq Sockets /\ subd \subseteq open
  /\ job \in [Jobs -> JobSet] /\ client \in [Clients -> ClientSet]
  /\ skip \in [Clients -> SkipSet] /\ blind \subseteq Clients
  /\ used \in 0..MaxSockets /\ turns \in 0..MaxTurns /\ chatter \in Nat /\ visits \in Nat /\ boots \in Nat

\* Sockets belong to one client, in the order they were opened; a client that
\* wants the session is subscribed.
Owners ==
  /\ \A s \in open : s <= used
  /\ \A c \in Clients : client[c].sock # 0 =>
       /\ client[c].sock \in open
       /\ client[c].wants => client[c].sock \in subd
  /\ \A c, d \in Clients : client[c].sock # 0 /\ client[c].sock = client[d].sock => c = d
  /\ \A j \in Jobs : job[j].pc # "none" => job[j].sock \in Sockets

\* A subscribed socket is followed, or its subscription is under way.
Followed ==
  \A s \in subd : \/ tail.on /\ s \in tail.socks
                  \/ \E j \in Jobs : job[j].pc # "none" /\ job[j].sock = s

\* A harness session's subscription runs through, so that its socket is still
\* there when it joins the tail.
RunsThrough ==
  mode.harness => /\ tail.socks \subseteq subd
                  /\ \A j \in Jobs : job[j].pc # "none" => job[j].sock \in subd

LiveInv == TypesOK /\ RowsWritten /\ Owners /\ Followed /\ RunsThrough

LEMMA InvImpliesTypeOK == LiveInv => TypeOK
<1> SUFFICES ASSUME LiveInv PROVE TypeOK
  OBVIOUS
<1>1. chan \in [seq : Nat, ring : Seq([t : {"delta"}, seq : Nat, row : Nat])] /\ Len(chan.ring) <= RingCap
  BY DEF LiveInv, RowsWritten, ChanOK, ChanSet, DeltaSet
<1>2. net \in [Sockets -> Seq([t : {"delta", "snapshot", "gap", "resumed"}, seq : Nat, row : Nat])]
  BY DEF LiveInv, RowsWritten, NetOK, AnyFrame
<1>3. subd \subseteq Sockets
  BY DEF LiveInv, TypesOK
<1> QED BY <1>1, <1>2, <1>3 DEF TypeOK, LiveInv, TypesOK, TailSet, JobSet, ClientSet, SkipSet, BatchSet

LEMMA InvImpliesSafety == LiveInv => SubscriberIsFollowed /\ WatchedIsSubscribed
<1> SUFFICES ASSUME LiveInv PROVE SubscriberIsFollowed /\ WatchedIsSubscribed
  OBVIOUS
<1>1. SubscriberIsFollowed
  BY DEF SubscriberIsFollowed, Attached, LiveInv, Owners, Followed, TypesOK, ClientSet
<1>2. WatchedIsSubscribed
  BY DEF WatchedIsSubscribed, LiveInv, RunsThrough, TypesOK
<1> QED BY <1>1, <1>2

LEMMA InitInv == Init => LiveInv
<1> SUFFICES ASSUME Init PROVE LiveInv
  OBVIOUS
<1>1. TypesOK
  <2>1. mode \in Mode /\ wrote \in Nat /\ busy \in BOOLEAN
    BY FeedAssumption DEF Init
  <2>2. tail \in TailSet /\ batch \in BatchSet
    BY DEF Init, TailSet, NoTail, BatchSet, Looks
  <2>3. job \in [Jobs -> JobSet]
    BY FeedAssumption DEF Init, JobSet, NoJob
  <2>4. client \in [Clients -> ClientSet]
    BY FeedAssumption DEF Init, ClientSet
  <2>5. skip \in [Clients -> SkipSet]
    BY FeedAssumption DEF Init, SkipSet
  <2>6. used \in 0..MaxSockets /\ turns \in 0..MaxTurns /\ chatter \in Nat /\ visits \in Nat /\ boots \in Nat
    BY FeedAssumption DEF Init
  <2> QED BY <2>1, <2>2, <2>3, <2>4, <2>5, <2>6 DEF Init, TypesOK
<1>2. RowsWritten
  BY FeedAssumption DEF Init, RowsWritten, ChanOK, ChanSet, NetOK, NoTail, NoJob
<1>3. Owners /\ Followed /\ RunsThrough
  BY DEF Init, Owners, Followed, RunsThrough, NoTail, NoJob
<1> QED BY <1>1, <1>2, <1>3 DEF LiveInv

-----------------------------------------------------------------------------
(* Lemmas about the steps of the server *)

\* A frame whose rows are written keeps the network sound.
LEMMA SendOK ==
  ASSUME NEW w \in Nat, NEW nt, NetOK(nt, w), NEW socks, NEW frames \in Seq(AnyFrame),
         \A i \in 1..Len(frames) : frames[i].t \in {"delta", "snapshot"} => frames[i].row <= w
  PROVE  NetOK(ToSockets(nt, socks, frames), w)
<1> DEFINE new == ToSockets(nt, socks, frames)
<1>1. nt \in [Sockets -> Seq(AnyFrame)]
  BY DEF NetOK
<1>2. /\ new \in [Sockets -> Seq(AnyFrame)]
      /\ \A s \in Sockets : \A i \in 1..Len(new[s]) :
           \/ \E k \in 1..Len(nt[s]) : new[s][i] = nt[s][k]
           \/ \E k \in 1..Len(frames) : new[s][i] = frames[k]
  BY <1>1, ToSocketsType
<1> HIDE DEF new
<1>3. \A s \in Sockets : \A i \in 1..Len(new[s]) : new[s][i].t \in {"delta", "snapshot"} => new[s][i].row <= w
  BY <1>2 DEF NetOK
<1> QED BY <1>2, <1>3 DEF NetOK, new

\* A published row that is written keeps the ring and the network sound.
LEMMA PublishOK ==
  ASSUME NEW w \in Nat, NEW v \in Nat, w <= v,
         NEW ch, ChanOK(ch, w), NEW nt, NetOK(nt, w),
         NEW socks, NEW rows \in Seq(Nat), \A i \in 1..Len(rows) : rows[i] <= v
  PROVE  ChanOK(Remember(ch, rows), v) /\ NetOK(ToSockets(nt, socks, Deltas(ch, rows)), v)
<1>1. ch \in ChanSet /\ nt \in [Sockets -> Seq(AnyFrame)]
  BY DEF ChanOK, NetOK
<1>2. Remember(ch, rows) \in ChanSet /\ Len(Remember(ch, rows).ring) <= RingCap
  BY <1>1, RememberType
<1>3. \A k \in 1..Len(ch.ring) : ch.ring[k].row <= v
  <2> SUFFICES ASSUME NEW k \in 1..Len(ch.ring) PROVE ch.ring[k].row <= v
    OBVIOUS
  <2>1. ch.ring \in Seq(DeltaSet)
    BY <1>1 DEF ChanSet
  <2>2. ch.ring[k] \in DeltaSet
    BY <2>1, ElementType
  <2>3. ch.ring[k].row \in Nat /\ ch.ring[k].row <= w
    BY <2>2 DEF DeltaSet, ChanOK
  <2> QED BY <2>3
<1>4. \A i \in 1..Len(Remember(ch, rows).ring) : Remember(ch, rows).ring[i].row <= v
  BY <1>1, <1>3, RememberType
<1>5. Deltas(ch, rows) \in Seq(AnyFrame) /\ \A i \in 1..Len(Deltas(ch, rows)) : Deltas(ch, rows)[i].row <= v
  <2>1. DeltaSet \subseteq AnyFrame
    BY DEF DeltaSet, AnyFrame
  <2>2. Deltas(ch, rows) \in Seq(DeltaSet)
    BY <1>1, DeltasType
  <2>3. \A i \in 1..Len(Deltas(ch, rows)) : Deltas(ch, rows)[i] \in AnyFrame
    BY <2>1, <2>2, ElementType
  <2>4. Deltas(ch, rows) \in Seq(AnyFrame)
    BY <2>2, <2>3
  <2> QED BY <1>1, <2>4, DeltasType
<1>6. NetOK(nt, v)
  <2> SUFFICES ASSUME NEW s \in Sockets, NEW k \in 1..Len(nt[s]), nt[s][k].t \in {"delta", "snapshot"}
               PROVE  nt[s][k].row <= v
    BY <1>1 DEF NetOK
  <2>1. nt[s][k] \in AnyFrame
    BY <1>1, ElementType
  <2>2. nt[s][k].row \in Nat /\ nt[s][k].row <= w
    BY <2>1 DEF AnyFrame, NetOK
  <2> QED BY <2>2
<1>7. NetOK(ToSockets(nt, socks, Deltas(ch, rows)), v)
  BY <1>5, <1>6, SendOK
<1> QED BY <1>2, <1>4, <1>7 DEF ChanOK

\* A socket joins the tail, which stands from then on.
LEMMA JoinOK ==
  ASSUME LiveInv, NEW s \in Sockets, NEW ch, ChanOK(ch, wrote), NEW nt, NetOK(nt, wrote),
         Join(s, ch, nt)
  PROVE  /\ ChanOK(chan', wrote) /\ NetOK(net', wrote)
         /\ tail' \in TailSet /\ batch' \in BatchSet
         /\ tail'.on /\ tail'.cursor <= wrote
         /\ s \in tail'.socks
         /\ tail.on => tail.socks \subseteq tail'.socks
         /\ tail'.socks \subseteq tail.socks \cup {s}
<1>1. wrote \in Nat /\ tail \in TailSet /\ batch \in BatchSet /\ tail.cursor <= wrote
  BY DEF LiveInv, TypesOK, RowsWritten
<1> DEFINE t == IF tail.on THEN tail ELSE [NoTail EXCEPT !.on = TRUE, !.cursor = wrote]
<1>2. t \in TailSet /\ t.on /\ t.cursor <= wrote /\ (tail.on => t = tail) /\ t.socks \subseteq tail.socks
  <2>1. CASE tail.on
    BY <1>1, <2>1
  <2>2. CASE ~tail.on
    <3>1. t = [on |-> TRUE, cursor |-> wrote, socks |-> {}, look |-> "unknown"]
      BY <2>2 DEF NoTail
    <3> HIDE DEF t
    <3>2. t \in TailSet
      BY <1>1, <3>1 DEF TailSet, Looks
    <3> QED BY <1>1, <2>2, <3>1, <3>2
  <2> QED BY <2>1, <2>2
<1>3. PICK look \in Seen(t) :
        /\ tail' = [t EXCEPT !.socks = @ \cup {s}, !.look = look]
        /\ IF look = t.look
             THEN chan' = ch /\ net' = nt /\ UNCHANGED batch
             ELSE /\ chan' = Remember(ch, <<Rowless>>)
                  /\ net' = ToSockets(nt, subd, Deltas(ch, <<Rowless>>))
                  /\ batch' = IF look = "idle" THEN [batch EXCEPT !.live = @ + 1] ELSE batch
  BY DEF Join
<1>4. look \in Looks
  BY <1>2, <1>3 DEF Seen, Looks, TailSet
<1>5. /\ tail' \in TailSet /\ tail'.on /\ tail'.cursor = t.cursor
      /\ tail'.socks = t.socks \cup {s}
  <2> HIDE DEF t
  <2> QED BY <1>2, <1>3, <1>4 DEF TailSet
<1>6. batch' \in BatchSet
  BY <1>1, <1>3 DEF BatchSet
<1>7. <<Rowless>> \in Seq(Nat) /\ \A i \in 1..Len(<<Rowless>>) : <<Rowless>>[i] <= wrote
  BY <1>1 DEF Rowless
<1>8. ChanOK(Remember(ch, <<Rowless>>), wrote) /\ NetOK(ToSockets(nt, subd, Deltas(ch, <<Rowless>>)), wrote)
  <2>1. wrote <= wrote
    BY <1>1
  <2> QED BY <1>1, <1>7, <2>1, PublishOK
<1>9. ChanOK(chan', wrote) /\ NetOK(net', wrote)
  BY <1>3, <1>8
<1> HIDE DEF t
<1> QED BY <1>2, <1>5, <1>6, <1>9

-----------------------------------------------------------------------------
(* Every step keeps the invariant *)

\* What a step that leaves the sockets, the subscriptions and the clients'
\* connections alone has to show.
LEMMA QuietStep ==
  ASSUME LiveInv, mode' = mode, open' = open, subd' = subd, job' = job, client' = client,
         skip' = skip, blind' = blind, used' = used, visits' = visits, boots' = boots,
         tail'.on = tail.on, tail'.socks = tail.socks,
         wrote' \in Nat, wrote <= wrote', busy' \in BOOLEAN,
         tail' \in TailSet, tail'.cursor <= wrote', batch' \in BatchSet,
         turns' \in 0..MaxTurns, chatter' \in Nat,
         ChanOK(chan', wrote'), NetOK(net', wrote')
  PROVE  LiveInv'
<1>1. TypesOK'
  BY DEF LiveInv, TypesOK
<1>2. \A j \in Jobs : job[j].upto \in Nat /\ job[j].upto <= wrote
  BY DEF LiveInv, TypesOK, RowsWritten, JobSet
<1>3. \A c \in Clients : \A r \in client[c].shown : r \in Nat /\ r <= wrote
  BY DEF LiveInv, TypesOK, RowsWritten, ClientSet, Rows
<1>4. RowsWritten'
  BY <1>2, <1>3 DEF LiveInv, TypesOK, RowsWritten, ChanOK, NetOK
<1>5. Owners' /\ Followed' /\ RunsThrough'
  BY DEF LiveInv, Owners, Followed, RunsThrough
<1> QED BY <1>1, <1>4, <1>5 DEF LiveInv

LEMMA AgentSteps == LiveInv /\ (AgentStartsTurn \/ AgentEndsTurn) => LiveInv'
<1> SUFFICES ASSUME LiveInv, AgentStartsTurn \/ AgentEndsTurn PROVE LiveInv'
  OBVIOUS
<1>1. /\ tail \in TailSet /\ batch \in BatchSet /\ wrote \in Nat /\ tail.cursor <= wrote /\ wrote <= wrote
      /\ ChanOK(chan, wrote) /\ NetOK(net, wrote) /\ turns \in 0..MaxTurns /\ chatter \in Nat
  BY DEF LiveInv, TypesOK, RowsWritten
<1>2. busy' \in BOOLEAN /\ turns' \in 0..MaxTurns
  <2>1. busy' = TRUE \/ busy' = FALSE
    BY DEF AgentStartsTurn, AgentEndsTurn
  <2>2. turns' \in 0..MaxTurns
    BY <1>1, FeedAssumption DEF AgentStartsTurn, AgentEndsTurn, counters
  <2> QED BY <2>1, <2>2
<1>3. /\ UNCHANGED <<mode, wrote, server, net, client, skip, blind, used, chatter, visits, boots>>
  BY DEF AgentStartsTurn, AgentEndsTurn, counters
<1> QED BY <1>1, <1>2, <1>3, QuietStep DEF server

\* A step that publishes rows and moves the tail's cursor or look at most.
LEMMA PublishStep ==
  ASSUME LiveInv, NEW rows \in Seq(Nat), Publish(rows), \A i \in 1..Len(rows) : rows[i] <= wrote',
         mode' = mode, open' = open, subd' = subd, job' = job, client' = client, busy' = busy,
         skip' = skip, blind' = blind, used' = used, turns' = turns, visits' = visits, boots' = boots,
         tail'.on = tail.on, tail'.socks = tail.socks,
         wrote' \in Nat, wrote <= wrote', chatter' \in Nat,
         tail' \in TailSet, tail'.cursor <= wrote', batch' \in BatchSet
  PROVE  LiveInv'
<1>1. ChanOK(chan, wrote) /\ NetOK(net, wrote) /\ wrote \in Nat /\ busy \in BOOLEAN /\ turns \in 0..MaxTurns
  BY DEF LiveInv, RowsWritten, TypesOK
<1>2. ChanOK(chan', wrote') /\ NetOK(net', wrote')
  BY <1>1, PublishOK DEF Publish
<1> QED BY <1>1, <1>2, QuietStep

LEMMA RowSteps == LiveInv /\ (AgentWrites \/ ShowArtifact \/ PollTranscript \/ PollState \/ Chatter) => LiveInv'
<1> SUFFICES ASSUME LiveInv, AgentWrites \/ ShowArtifact \/ PollTranscript \/ PollState \/ Chatter
             PROVE  LiveInv'
  OBVIOUS
<1>1. /\ tail \in TailSet /\ batch \in BatchSet /\ wrote \in Nat /\ tail.cursor <= wrote /\ tail.cursor \in Nat
      /\ ChanOK(chan, wrote) /\ NetOK(net, wrote) /\ busy \in BOOLEAN /\ turns \in 0..MaxTurns
      /\ chatter \in Nat
  BY DEF LiveInv, TypesOK, RowsWritten, TailSet
<1>2. ASSUME NEW n \in Nat PROVE /\ <<n>> \in Seq(Nat)
                                 /\ \A i \in 1..Len(<<n>>) : <<n>>[i] = n
  OBVIOUS
<1>3. CASE AgentWrites /\ UNCHANGED <<chan, tail, net>>
  <2>1. wrote' = wrote + 1 /\ wrote' \in Nat /\ wrote <= wrote'
    BY <1>1, <1>3 DEF AgentWrites
  <2>2. ChanOK(chan, wrote') /\ NetOK(net, wrote')
    <3>1. <<>> \in Seq(Nat)
      OBVIOUS
    <3>2. ASSUME NEW k \in 1..Len(chan.ring) PROVE chan.ring[k].row <= wrote'
      <4>1. chan.ring[k] \in DeltaSet
        BY <1>1, ElementType DEF ChanOK, ChanSet
      <4> QED BY <1>1, <2>1, <4>1 DEF ChanOK, DeltaSet
    <3>3. ASSUME NEW s \in Sockets, NEW k \in 1..Len(net[s]), net[s][k].t \in {"delta", "snapshot"}
          PROVE  net[s][k].row <= wrote'
      <4>1. net[s][k] \in AnyFrame
        BY <1>1, ElementType DEF NetOK
      <4> QED BY <1>1, <2>1, <3>3, <4>1 DEF NetOK, AnyFrame
    <3> QED BY <1>1, <3>2, <3>3 DEF ChanOK, NetOK
  <2>3. tail.cursor <= wrote'
    BY <1>1, <2>1
  <2>4. UNCHANGED <<mode, busy, chan, tail, net, batch, open, subd, job, client, skip, blind, counters>>
    BY <1>3 DEF AgentWrites
  <2> QED BY <1>1, <2>1, <2>2, <2>3, <2>4, QuietStep DEF counters
<1>4. CASE AgentWrites /\ ~UNCHANGED <<chan, tail, net>>
  <2>1. wrote' = wrote + 1 /\ wrote' \in Nat /\ wrote <= wrote' /\ wrote + 1 \in Nat
    BY <1>1, <1>4 DEF AgentWrites
  <2>2. Publish(<<wrote + 1>>) /\ tail' = [tail EXCEPT !.cursor = wrote + 1]
    BY <1>4 DEF AgentWrites
  <2>3. tail' \in TailSet /\ tail'.cursor = wrote + 1 /\ tail'.on = tail.on /\ tail'.socks = tail.socks
    BY <1>1, <2>1, <2>2 DEF TailSet
  <2>4. \A i \in 1..Len(<<wrote + 1>>) : <<wrote + 1>>[i] <= wrote'
    BY <2>1
  <2>5. UNCHANGED <<mode, busy, batch, open, subd, job, client, skip, blind, counters>>
    BY <1>4 DEF AgentWrites
  <2>6. tail'.cursor <= wrote'
    BY <2>1, <2>3
  <2> QED BY <1>1, <1>2, <2>1, <2>2, <2>3, <2>4, <2>5, <2>6, PublishStep DEF counters
<1>5. CASE ShowArtifact
  <2>1. wrote' = wrote + 1 /\ wrote' \in Nat /\ wrote <= wrote' /\ wrote + 1 \in Nat
    BY <1>1, <1>5 DEF ShowArtifact
  <2>2. Publish(<<wrote + 1>>)
    BY <1>5 DEF ShowArtifact
  <2>3. tail' \in TailSet /\ tail'.cursor <= wrote' /\ tail'.on = tail.on /\ tail'.socks = tail.socks
    BY <1>1, <1>5, <2>1 DEF TailSet, ShowArtifact
  <2>4. \A i \in 1..Len(<<wrote + 1>>) : <<wrote + 1>>[i] <= wrote'
    BY <2>1
  <2>5. UNCHANGED <<mode, busy, batch, open, subd, job, client, skip, blind, counters>>
    BY <1>5 DEF ShowArtifact
  <2> QED BY <1>1, <1>2, <2>1, <2>2, <2>3, <2>4, <2>5, PublishStep DEF counters
<1>6. CASE PollTranscript
  <2> DEFINE rows == [i \in 1..(wrote - tail.cursor) |-> tail.cursor + i]
  <2>1. wrote' = wrote /\ wrote <= wrote' /\ wrote' \in Nat /\ wrote - tail.cursor \in Nat
    BY <1>1, <1>6 DEF PollTranscript
  <2>2. rows \in Seq(Nat) /\ \A i \in 1..Len(rows) : rows[i] <= wrote'
    BY <1>1, <2>1
  <2>3. Publish(rows)
    BY <1>6 DEF PollTranscript
  <2>4. tail' \in TailSet /\ tail'.cursor <= wrote' /\ tail'.on = tail.on /\ tail'.socks = tail.socks
    BY <1>1, <1>6, <2>1 DEF TailSet, PollTranscript
  <2>5. UNCHANGED <<mode, busy, batch, open, subd, job, client, skip, blind, counters>>
    BY <1>6 DEF PollTranscript
  <2> HIDE DEF rows
  <2> QED BY <1>1, <2>1, <2>2, <2>3, <2>4, <2>5, PublishStep DEF counters
<1>7. CASE PollState
  <2>1. wrote' = wrote /\ wrote <= wrote' /\ wrote' \in Nat
    BY <1>1, <1>7 DEF PollState
  <2>2. PICK look \in Seen(tail) \ {tail.look} :
          /\ tail' = [tail EXCEPT !.look = look]
          /\ batch' = IF look = "idle" THEN [batch EXCEPT !.live = @ + 1] ELSE batch
    BY <1>7 DEF PollState
  <2>3. look \in Looks
    BY <1>1, <2>2 DEF Seen, Looks, TailSet
  <2>4. tail' \in TailSet /\ tail'.cursor <= wrote' /\ tail'.on = tail.on /\ tail'.socks = tail.socks
    BY <1>1, <2>1, <2>2, <2>3 DEF TailSet
  <2>5. batch' \in BatchSet
    BY <1>1, <2>2 DEF BatchSet
  <2>6. Publish(<<Rowless>>) /\ Rowless \in Nat /\ Rowless <= wrote'
    BY <1>1, <1>7, <2>1 DEF PollState, Rowless
  <2>7. UNCHANGED <<mode, busy, open, subd, job, client, skip, blind, counters>>
    BY <1>7 DEF PollState
  <2>8. <<Rowless>> \in Seq(Nat) /\ \A i \in 1..Len(<<Rowless>>) : <<Rowless>>[i] <= wrote'
    BY <1>2, <2>6
  <2> QED BY <1>1, <2>1, <2>4, <2>5, <2>6, <2>7, <2>8, PublishStep DEF counters
<1>8. CASE Chatter
  <2>1. wrote' = wrote /\ wrote <= wrote' /\ wrote' \in Nat /\ chatter' \in Nat
    BY <1>1, <1>8 DEF Chatter
  <2>2. Publish(<<Rowless>>) /\ Rowless \in Nat /\ Rowless <= wrote'
    BY <1>1, <1>8, <2>1 DEF Chatter, Rowless
  <2>3. UNCHANGED <<mode, busy, tail, batch, open, subd, job, client, skip, blind, used, turns, visits, boots>>
    BY <1>8 DEF Chatter
  <2>4. <<Rowless>> \in Seq(Nat) /\ \A i \in 1..Len(<<Rowless>>) : <<Rowless>>[i] <= wrote'
    BY <1>2, <2>2
  <2> QED BY <1>1, <2>1, <2>2, <2>3, <2>4, PublishStep
<1> QED BY <1>3, <1>4, <1>5, <1>6, <1>7, <1>8

LEMMA BatchStep == LiveInv /\ SendBatch => LiveInv'
<1> SUFFICES ASSUME LiveInv, SendBatch PROVE LiveInv'
  OBVIOUS
<1> DEFINE frames == <<Frame("snapshot", chan.seq + 1, wrote)>>
<1>1. /\ tail \in TailSet /\ batch \in BatchSet /\ wrote \in Nat /\ tail.cursor <= wrote /\ wrote <= wrote
      /\ ChanOK(chan, wrote) /\ NetOK(net, wrote) /\ turns \in 0..MaxTurns /\ chatter \in Nat
      /\ busy \in BOOLEAN
  BY DEF LiveInv, TypesOK, RowsWritten
<1>2. chan' = [chan EXCEPT !.seq = @ + 1]
  BY DEF SendBatch
<1>3. ChanOK(chan', wrote)
  BY <1>1, <1>2 DEF ChanOK, ChanSet
<1>4. batch' \in BatchSet /\ (net' = net \/ net' = ToSockets(net, tail.socks \cap subd, frames))
  BY <1>1 DEF SendBatch, BatchSet
<1>5. NetOK(ToSockets(net, tail.socks \cap subd, frames), wrote)
  <2>1. /\ frames \in Seq(AnyFrame)
        /\ \A i \in 1..Len(frames) : frames[i].t \in {"delta", "snapshot"} => frames[i].row <= wrote
    BY <1>1 DEF ChanOK, ChanSet, Frame, AnyFrame
  <2> HIDE DEF frames
  <2> QED BY <1>1, <2>1, SendOK
<1>6. NetOK(net', wrote)
  BY <1>1, <1>4, <1>5
<1>7. UNCHANGED <<mode, wrote, busy, tail, open, subd, job, client, skip, blind, counters>>
  BY DEF SendBatch
<1> QED BY <1>1, <1>3, <1>4, <1>6, <1>7, QuietStep DEF counters

LEMMA RestartStep == LiveInv /\ Restart => LiveInv'
<1> SUFFICES ASSUME LiveInv, Restart PROVE LiveInv'
  OBVIOUS
<1>1. client \in [Clients -> ClientSet] /\ client' = [c \in Clients |-> [client[c] EXCEPT !.sock = 0]]
  BY DEF LiveInv, TypesOK, Restart
<1>2. /\ client' \in [Clients -> ClientSet]
      /\ \A c \in Clients : client'[c].sock = 0 /\ client'[c].shown = client[c].shown
  BY <1>1, FeedAssumption DEF ClientSet
<1>3. /\ tail' \in TailSet /\ tail'.cursor = 0 /\ tail'.socks = {} /\ batch' \in BatchSet
      /\ job' \in [Jobs -> JobSet] /\ \A j \in Jobs : job'[j].pc = "none" /\ job'[j].upto = 0
  BY FeedAssumption DEF Restart, NoTail, TailSet, Looks, BatchSet, NoJob, JobSet
<1>4. ChanOK(chan', wrote) /\ NetOK(net', wrote)
  BY FeedAssumption DEF Restart, ChanOK, ChanSet, NetOK
<1>5. UNCHANGED <<mode, wrote, busy, skip, blind, used, turns, chatter, visits>> /\ open' = {} /\ subd' = {}
  BY DEF Restart
<1>6. boots' \in Nat
  BY DEF LiveInv, TypesOK, Restart
<1>7. TypesOK'
  BY <1>2, <1>3, <1>5, <1>6 DEF LiveInv, TypesOK
<1>8. RowsWritten'
  BY <1>2, <1>3, <1>4, <1>5 DEF LiveInv, TypesOK, RowsWritten
<1>9. Owners' /\ Followed' /\ RunsThrough'
  BY <1>2, <1>3, <1>5 DEF Owners, Followed, RunsThrough
<1> QED BY <1>7, <1>8, <1>9 DEF LiveInv

\* What a step that leaves the sockets, the rows and the clients alone has to
\* show, when a subscription moves on.
LEMMA JobStep ==
  ASSUME LiveInv, UNCHANGED <<mode, wrote, busy, open, subd, client, counters>>,
         blind' = blind, skip' \in [Clients -> SkipSet],
         tail' \in TailSet, tail'.cursor <= wrote, batch' \in BatchSet,
         ChanOK(chan', wrote), NetOK(net', wrote),
         NEW j \in Jobs, NEW r \in JobSet, job' = [job EXCEPT ![j] = r], r.upto <= wrote,
         \/ r.pc # "none" /\ r.sock = job[j].sock /\ tail' = tail
         \/ /\ r.pc = "none" /\ tail'.on /\ job[j].sock \in tail'.socks
            /\ tail.on => tail.socks \subseteq tail'.socks
            /\ tail'.socks \subseteq tail.socks \cup {job[j].sock},
         job[j].pc # "none"
  PROVE  LiveInv'
<1>1. job' \in [Jobs -> JobSet] /\ job'[j] = r /\ \A k \in Jobs : k # j => job'[k] = job[k]
  BY DEF LiveInv, TypesOK
<1>2. TypesOK'
  BY <1>1 DEF LiveInv, TypesOK, counters
<1>3. RowsWritten'
  BY <1>1 DEF LiveInv, RowsWritten
<1>4. Owners'
  BY <1>1 DEF LiveInv, Owners, counters
<1>5. Followed'
  BY <1>1 DEF LiveInv, Followed
<1>6. RunsThrough'
  BY <1>1 DEF LiveInv, RunsThrough
<1> QED BY <1>2, <1>3, <1>4, <1>5, <1>6 DEF LiveInv

LEMMA NoJobType == NoJob \in JobSet /\ NoJob.upto = 0 /\ NoJob.pc = "none"
BY FeedAssumption DEF NoJob, JobSet

LEMMA ResumeStep == ASSUME LiveInv, NEW j \in Jobs, Resume(j) PROVE LiveInv'
<1> DEFINE s == job[j].sock
           resumed == Frame("resumed", chan.seq + 1, job[j].resume)
           frames == Append(Missed(job[j].resume), resumed)
           nt == ToSockets(net, {s}, frames)
           ch == [chan EXCEPT !.seq = @ + 1]
<1>1. /\ wrote \in Nat /\ ChanOK(chan, wrote) /\ NetOK(net, wrote) /\ chan \in ChanSet
      /\ job[j] \in JobSet /\ job[j].resume \in Nat
  BY DEF LiveInv, TypesOK, RowsWritten, ChanOK, JobSet
<1>2. job[j].pc = "resolving" /\ s \in Sockets
  BY DEF Resume, LiveInv, Owners
<1>3. ChanOK(ch, wrote)
  BY <1>1 DEF ChanOK, ChanSet
<1>4. resumed \in AnyFrame /\ resumed.t = "resumed"
  BY <1>1 DEF Frame, AnyFrame, ChanSet
<1>5. /\ Missed(job[j].resume) \in Seq(DeltaSet)
      /\ \A i \in 1..Len(Missed(job[j].resume)) : Missed(job[j].resume)[i].row <= wrote
  BY <1>1, MissedType DEF ChanOK
<1>6. DeltaSet \subseteq AnyFrame
  BY DEF DeltaSet, AnyFrame
<1>7. Missed(job[j].resume) \in Seq(AnyFrame)
  <2>1. \A i \in 1..Len(Missed(job[j].resume)) : Missed(job[j].resume)[i] \in AnyFrame
    BY <1>5, <1>6, ElementType
  <2> QED BY <1>5, <2>1
<1>8. frames \in Seq(AnyFrame) /\ \A i \in 1..Len(frames) : frames[i].t \in {"delta", "snapshot"} => frames[i].row <= wrote
  <2> HIDE DEF resumed
  <2>1. frames \in Seq(AnyFrame)
    BY <1>4, <1>7
  <2>2. ASSUME NEW i \in 1..Len(frames), frames[i].t \in {"delta", "snapshot"} PROVE frames[i].row <= wrote
    <3>1. CASE i \in 1..Len(Missed(job[j].resume))
      BY <1>5, <1>7, <3>1
    <3>2. CASE i = Len(Missed(job[j].resume)) + 1
      BY <1>4, <1>7, <2>2, <3>2
    <3> QED BY <1>7, <3>1, <3>2
  <2> QED BY <2>1, <2>2
<1>9. NetOK(nt, wrote)
  <2> HIDE DEF frames, s
  <2> QED BY <1>1, <1>8, SendOK
<1>10. Join(s, ch, nt)
  BY DEF Resume
<1>11. /\ ChanOK(chan', wrote) /\ NetOK(net', wrote)
       /\ tail' \in TailSet /\ batch' \in BatchSet
       /\ tail'.on /\ tail'.cursor <= wrote
       /\ s \in tail'.socks
       /\ tail.on => tail.socks \subseteq tail'.socks
       /\ tail'.socks \subseteq tail.socks \cup {s}
  <2> HIDE DEF ch, nt, s
  <2> QED BY <1>2, <1>3, <1>9, <1>10, JoinOK
<1>12. job' = [job EXCEPT ![j] = NoJob] /\ UNCHANGED <<mode, wrote, busy, open, subd, client, counters>>
       /\ blind' = blind /\ skip' = skip
  BY DEF Resume
<1>13. skip' \in [Clients -> SkipSet]
  BY <1>12 DEF LiveInv, TypesOK
<1>14. NoJob.upto <= wrote
  BY <1>1, NoJobType
<1> HIDE DEF nt, ch
<1> QED BY <1>2, <1>11, <1>12, <1>13, <1>14, NoJobType, JobStep

LEMMA GapStep == ASSUME LiveInv, NEW j \in Jobs, Gap(j) PROVE LiveInv'
<1> DEFINE frames == <<Frame("gap", chan.seq + 1, 0)>>
           r == [job[j] EXCEPT !.pc = "reading"]
<1>1. /\ wrote \in Nat /\ ChanOK(chan, wrote) /\ NetOK(net, wrote) /\ chan \in ChanSet
      /\ job[j] \in JobSet /\ tail \in TailSet /\ batch \in BatchSet /\ tail.cursor <= wrote
      /\ skip \in [Clients -> SkipSet] /\ job[j].upto <= wrote
  BY DEF LiveInv, TypesOK, RowsWritten, ChanOK, JobSet
<1>2. job[j].pc = "resolving"
  BY DEF Gap
<1>3. r \in JobSet /\ r.pc = "reading" /\ r.sock = job[j].sock /\ r.upto <= wrote
  BY <1>1 DEF JobSet
<1>4. frames \in Seq(AnyFrame) /\ \A i \in 1..Len(frames) : frames[i].t \in {"delta", "snapshot"} => frames[i].row <= wrote
  BY <1>1 DEF Frame, AnyFrame, ChanSet
<1>5. NetOK(ToSockets(net, {job[j].sock}, frames), wrote)
  <2> HIDE DEF frames
  <2> QED BY <1>1, <1>4, SendOK
<1>6. ChanOK([chan EXCEPT !.seq = @ + 1], wrote)
  BY <1>1 DEF ChanOK, ChanSet
<1>7. ChanOK(chan', wrote) /\ NetOK(net', wrote)
  BY <1>1, <1>5, <1>6 DEF Gap
<1>8. job' = [job EXCEPT ![j] = r] /\ UNCHANGED <<mode, wrote, busy, open, subd, client, counters>>
      /\ blind' = blind /\ skip' = skip /\ tail' = tail /\ batch' = batch
  BY DEF Gap
<1> HIDE DEF r
<1> QED BY <1>1, <1>2, <1>3, <1>7, <1>8, JobStep

LEMMA ReadStep == ASSUME LiveInv, NEW j \in Jobs, ReadSnapshot(j) PROVE LiveInv'
<1> DEFINE r == [job[j] EXCEPT !.pc = "read", !.upto = wrote]
<1>1. /\ wrote \in Nat /\ ChanOK(chan, wrote) /\ NetOK(net, wrote)
      /\ job[j] \in JobSet /\ tail \in TailSet /\ batch \in BatchSet /\ tail.cursor <= wrote
      /\ skip \in [Clients -> SkipSet] /\ job \in [Jobs -> JobSet]
  BY DEF LiveInv, TypesOK, RowsWritten, JobSet
<1>2. job[j].pc # "none"
  BY DEF ReadSnapshot
<1>3. r \in JobSet /\ r.pc = "read" /\ r.sock = job[j].sock /\ r.upto <= wrote
  <2>1. job[j] \in JobSet /\ wrote \in Nat
    BY <1>1
  <2>2. [job[j] EXCEPT !.upto = wrote] \in JobSet
    BY <2>1 DEF JobSet
  <2>3. r \in JobSet
    BY <2>1 DEF JobSet
  <2>4. r.pc = "read" /\ r.sock = job[j].sock /\ r.upto = wrote
    BY <2>1 DEF JobSet
  <2> QED BY <2>1, <2>3, <2>4
<1>4. job' = [job EXCEPT ![j] = r]
  BY DEF ReadSnapshot
<1>5. UNCHANGED <<mode, wrote, busy, open, subd, client, counters>>
      /\ blind' = blind /\ skip' = skip /\ tail' = tail /\ batch' = batch /\ chan' = chan /\ net' = net
  BY DEF ReadSnapshot
<1> HIDE DEF r
<1> QED BY <1>1, <1>2, <1>3, <1>4, <1>5, JobStep

LEMMA SnapshotStep == ASSUME LiveInv, NEW j \in Jobs, SendSnapshot(j) PROVE LiveInv'
<1> DEFINE s == job[j].sock
           frames == <<Frame("snapshot", chan.seq + 1, job[j].upto)>>
           nt == ToSockets(net, {s}, frames)
           ch == [chan EXCEPT !.seq = @ + 1]
<1>1. /\ wrote \in Nat /\ ChanOK(chan, wrote) /\ NetOK(net, wrote) /\ chan \in ChanSet
      /\ job[j] \in JobSet /\ job[j].upto <= wrote /\ job[j].upto \in Nat
  BY DEF LiveInv, TypesOK, RowsWritten, ChanOK, JobSet
<1>2. job[j].pc = "read" /\ s \in Sockets
  BY DEF SendSnapshot, LiveInv, Owners
<1>3. ChanOK(ch, wrote)
  BY <1>1 DEF ChanOK, ChanSet
<1>4. frames \in Seq(AnyFrame) /\ \A i \in 1..Len(frames) : frames[i].row <= wrote
  BY <1>1 DEF Frame, AnyFrame, ChanSet
<1>5. NetOK(nt, wrote)
  <2> HIDE DEF frames, s
  <2> QED BY <1>1, <1>4, SendOK
<1>6. Join(s, ch, nt)
  BY DEF SendSnapshot
<1>7. /\ ChanOK(chan', wrote) /\ NetOK(net', wrote)
      /\ tail' \in TailSet /\ batch' \in BatchSet
      /\ tail'.on /\ tail'.cursor <= wrote
      /\ s \in tail'.socks
      /\ tail.on => tail.socks \subseteq tail'.socks
      /\ tail'.socks \subseteq tail.socks \cup {s}
  <2> HIDE DEF ch, nt, s
  <2> QED BY <1>2, <1>3, <1>5, <1>6, JoinOK
<1>8. job' = [job EXCEPT ![j] = NoJob] /\ UNCHANGED <<mode, wrote, busy, open, subd, client, counters>>
      /\ blind' = blind
  BY DEF SendSnapshot
<1>9. skip' \in [Clients -> SkipSet]
  <2>1. skip \in [Clients -> SkipSet] /\ s \in 0..MaxSockets
    BY <1>1 DEF LiveInv, TypesOK, JobSet
  <2>2. (job[j].upto + 1)..tail'.cursor \in SUBSET Rows
    BY <1>1, <1>7 DEF Rows, TailSet
  <2>3. [sock |-> s, rows |-> (job[j].upto + 1)..tail'.cursor] \in SkipSet
    BY <2>1, <2>2 DEF SkipSet
  <2>4. skip' = [c \in Clients |-> IF c \in ClientOf(s)
                                  THEN [sock |-> s, rows |-> (job[j].upto + 1)..tail'.cursor]
                                  ELSE skip[c]]
    BY DEF SendSnapshot
  <2> QED BY <2>1, <2>3, <2>4
<1>10. NoJob.upto <= wrote
  BY <1>1, NoJobType
<1> HIDE DEF nt, ch
<1> QED BY <1>2, <1>7, <1>8, <1>9, <1>10, NoJobType, JobStep

\* A socket leaves: the tail stays with the ones that are left.
LEMMA LeaveOK ==
  ASSUME LiveInv, Calm, NEW s, Unsubscribe(s)
  PROVE  /\ subd' = subd \ {s} /\ batch' \in BatchSet
         /\ ChanOK(chan', wrote)
         /\ tail' \in TailSet /\ tail'.cursor <= wrote
         /\ \A x \in subd' : tail.on /\ x \in tail.socks => tail'.on /\ x \in tail'.socks
         /\ mode.harness => /\ tail'.socks \subseteq subd'
                            /\ \A j \in Jobs : job[j].pc = "none"
<1>1. /\ tail \in TailSet /\ batch \in BatchSet /\ wrote \in Nat /\ tail.cursor <= wrote
      /\ ChanOK(chan, wrote)
  BY DEF LiveInv, TypesOK, RowsWritten
<1>2. mode.harness => tail.socks \subseteq subd /\ \A j \in Jobs : job[j].pc = "none"
  BY DEF LiveInv, RunsThrough, Calm
<1>3. subd' = subd \ {s}
  BY DEF Unsubscribe
<1>4. CASE s \in subd /\ tail.on /\ tail.socks \ {s} = {}
  <2>1. /\ tail' = NoTail /\ chan' = [chan EXCEPT !.ring = <<>>]
        /\ batch' = [live |-> 0, gone |-> batch.gone + batch.live]
    BY <1>4 DEF Unsubscribe
  <2>2. NoTail \in TailSet /\ NoTail.cursor = 0 /\ NoTail.socks = {}
    BY DEF NoTail, TailSet, Looks
  <2>3. ChanOK(chan', wrote)
    <3>1. <<>> \in Seq(DeltaSet) /\ Len(<<>>) = 0 /\ Len(<<>>) <= RingCap
      BY FeedAssumption
    <3>2. chan' \in ChanSet /\ chan'.ring = <<>>
      BY <1>1, <2>1, <3>1 DEF ChanOK, ChanSet
    <3> QED BY <3>1, <3>2 DEF ChanOK
  <2>4. batch' \in BatchSet
    BY <1>1, <2>1 DEF BatchSet
  <2> QED BY <1>1, <1>2, <1>3, <1>4, <2>1, <2>2, <2>3, <2>4
<1>5. CASE ~(s \in subd /\ tail.on /\ tail.socks \ {s} = {})
  <2>1. /\ tail' = IF s \in subd THEN [tail EXCEPT !.socks = tail.socks \ {s}] ELSE tail
        /\ UNCHANGED <<chan, batch>>
    BY <1>5 DEF Unsubscribe
  <2>2. tail' \in TailSet /\ tail'.cursor = tail.cursor /\ tail'.on = tail.on
        /\ tail'.socks = IF s \in subd THEN tail.socks \ {s} ELSE tail.socks
    BY <1>1, <2>1 DEF TailSet
  <2> QED BY <1>1, <1>2, <1>3, <2>1, <2>2
<1> QED BY <1>4, <1>5

LEMMA CloseStep == ASSUME LiveInv, NEW s \in Sockets, Close(s) PROVE LiveInv'
<1>1. Calm /\ Unsubscribe(s) /\ open' = open \ {s} /\ ClientOf(s) = {}
      /\ UNCHANGED <<mode, wrote, busy, job, net, client, skip, blind, counters>>
  BY DEF Close
<1>2. /\ subd' = subd \ {s} /\ batch' \in BatchSet
      /\ ChanOK(chan', wrote)
      /\ tail' \in TailSet /\ tail'.cursor <= wrote
      /\ \A x \in subd' : tail.on /\ x \in tail.socks => tail'.on /\ x \in tail'.socks
      /\ mode.harness => /\ tail'.socks \subseteq subd'
                         /\ \A j \in Jobs : job[j].pc = "none"
  BY <1>1, LeaveOK
<1>3. TypesOK'
  BY <1>1, <1>2 DEF LiveInv, TypesOK, counters
<1>4. RowsWritten'
  BY <1>1, <1>2 DEF LiveInv, RowsWritten
<1>5. Owners'
  BY <1>1, <1>2 DEF LiveInv, Owners, ClientOf, counters
<1>6. Followed'
  BY <1>1, <1>2 DEF LiveInv, Followed
<1>7. RunsThrough'
  BY <1>1, <1>2 DEF LiveInv, RunsThrough
<1> QED BY <1>3, <1>4, <1>5, <1>6, <1>7 DEF LiveInv

\* A new subscription of an open socket.
LEMMA SubscribeOK ==
  ASSUME LiveInv, NEW s \in Sockets, NEW resume \in Nat, Subscribe(s, resume)
  PROVE  /\ subd' = subd \cup {s}
         /\ job' \in [Jobs -> JobSet]
         /\ \A j \in Jobs : job'[j].upto <= wrote
         /\ \A j \in Jobs : job'[j].pc # "none" => job'[j].sock = s \/ (job[j].pc # "none" /\ job'[j] = job[j])
         /\ \E j \in Jobs : job'[j].pc # "none" /\ job'[j].sock = s
         /\ \A j \in Jobs : job[j].pc # "none" => job'[j] = job[j]
<1> DEFINE r == [pc |-> "resolving", sock |-> s, resume |-> resume, upto |-> 0]
<1>1. PICK j \in Jobs : job[j].pc = "none" /\ job' = [job EXCEPT ![j] = r]
  BY DEF Subscribe
<1>2. r \in JobSet /\ r.pc # "none" /\ r.sock = s /\ r.upto = 0
  BY FeedAssumption DEF JobSet, Sockets
<1>3. job \in [Jobs -> JobSet] /\ wrote \in Nat /\ \A k \in Jobs : job[k].upto <= wrote
  BY DEF LiveInv, TypesOK, RowsWritten
<1>4. subd' = subd \cup {s}
  BY DEF Subscribe
<1> HIDE DEF r
<1>5. job'[j] = r /\ \A k \in Jobs : k # j => job'[k] = job[k]
  BY <1>1, <1>3
<1>6. job' \in [Jobs -> JobSet]
  BY <1>1, <1>2, <1>3
<1> QED BY <1>1, <1>2, <1>3, <1>4, <1>5, <1>6

LEMMA ConnectStep == ASSUME LiveInv, NEW c \in Clients, Connect(c) PROVE LiveInv'
<1> DEFINE s == used + 1
<1>1. /\ client[c].sock = 0 /\ used < MaxSockets /\ used' = s /\ open' = open \cup {s}
      /\ client' = [client EXCEPT ![c].sock = s]
      /\ UNCHANGED <<mode, wrote, busy, chan, tail, batch, net, skip, blind, turns, chatter, visits, boots>>
  BY DEF Connect
<1>2. used \in 0..MaxSockets /\ client \in [Clients -> ClientSet] /\ client[c] \in ClientSet
      /\ job \in [Jobs -> JobSet]
  BY DEF LiveInv, TypesOK
<1>3. s \in Sockets /\ s \in 0..MaxSockets /\ s # 0
  BY <1>1, <1>2, FeedAssumption DEF Sockets
<1>4. client[c].cursor \in Nat
  BY <1>2 DEF ClientSet
<1>5. IF client[c].wants THEN Subscribe(s, client[c].cursor) ELSE UNCHANGED <<subd, job>>
  BY DEF Connect
<1>6. /\ subd' = IF client[c].wants THEN subd \cup {s} ELSE subd
      /\ job' \in [Jobs -> JobSet]
      /\ \A j \in Jobs : job'[j].upto <= wrote
      /\ \A j \in Jobs : job'[j].pc # "none" =>
            (job'[j].sock = s /\ client[c].wants) \/ (job[j].pc # "none" /\ job'[j] = job[j])
      /\ client[c].wants => \E j \in Jobs : job'[j].pc # "none" /\ job'[j].sock = s
      /\ \A j \in Jobs : job[j].pc # "none" => job'[j] = job[j]
  <2>1. CASE client[c].wants
    BY <1>3, <1>4, <1>5, <2>1, SubscribeOK
  <2>2. CASE ~client[c].wants
    BY <1>2, <1>5, <2>2 DEF LiveInv, RowsWritten
  <2> QED BY <2>1, <2>2
<1>7. /\ client' \in [Clients -> ClientSet]
      /\ \A d \in Clients : /\ client'[d].shown = client[d].shown /\ client'[d].wants = client[d].wants
                           /\ client'[d].sock = IF d = c THEN s ELSE client[d].sock
  BY <1>1, <1>2, <1>3 DEF ClientSet
<1>8. \A x \in open : x <= used /\ x # s
  BY <1>2, <1>3 DEF LiveInv, Owners, TypesOK
<1>9. TypesOK'
  BY <1>1, <1>3, <1>6, <1>7 DEF LiveInv, TypesOK
<1>10. RowsWritten'
  BY <1>1, <1>6, <1>7 DEF LiveInv, RowsWritten
<1>11. Owners'
  <2>1. \A x \in open' : x <= used'
    BY <1>1, <1>2, <1>3, <1>8 DEF LiveInv, TypesOK, Sockets
  <2> HIDE DEF s
  <2>2. \A d \in Clients : client'[d].sock # 0 =>
          /\ client'[d].sock \in open'
          /\ client'[d].wants => client'[d].sock \in subd'
    BY <1>1, <1>6, <1>7 DEF LiveInv, Owners
  <2>3. \A d, e \in Clients : client'[d].sock # 0 /\ client'[d].sock = client'[e].sock => d = e
    BY <1>3, <1>7, <1>8 DEF LiveInv, Owners
  <2>4. \A j \in Jobs : job'[j].pc # "none" => job'[j].sock \in Sockets
    BY <1>3, <1>6 DEF LiveInv, Owners
  <2> QED BY <2>1, <2>2, <2>3, <2>4 DEF Owners
<1> HIDE DEF s
<1>12. Followed'
  BY <1>1, <1>6 DEF LiveInv, Followed
<1>13. RunsThrough'
  BY <1>1, <1>6 DEF LiveInv, RunsThrough
<1> QED BY <1>9, <1>10, <1>11, <1>12, <1>13 DEF LiveInv

LEMMA LoseStep == ASSUME LiveInv, NEW c \in Clients, Lose(c) PROVE LiveInv'
<1>1. /\ client' = [client EXCEPT ![c].sock = 0] /\ net' = [net EXCEPT ![client[c].sock] = <<>>]
      /\ UNCHANGED <<mode, wrote, busy, server, skip, blind, counters>>
  BY DEF Lose
<1>2. client \in [Clients -> ClientSet] /\ NetOK(net, wrote)
  BY DEF LiveInv, TypesOK, RowsWritten
<1>3. /\ client' \in [Clients -> ClientSet]
      /\ \A d \in Clients : /\ client'[d].shown = client[d].shown /\ client'[d].wants = client[d].wants
                           /\ client'[d].sock = IF d = c THEN 0 ELSE client[d].sock
  <2>1. 0 \in 0..MaxSockets
    BY FeedAssumption
  <2> QED BY <1>1, <1>2, <2>1 DEF ClientSet
<1>4. NetOK(net', wrote)
  <2>1. net' \in [Sockets -> Seq(AnyFrame)] /\ \A s \in Sockets : net'[s] = net[s] \/ net'[s] = <<>>
    <3>1. <<>> \in Seq(AnyFrame) /\ net \in [Sockets -> Seq(AnyFrame)]
      BY <1>2 DEF NetOK
    <3> QED BY <1>1, <3>1
  <2> QED BY <1>2, <2>1 DEF NetOK
<1>5. TypesOK' /\ RowsWritten'
  BY <1>1, <1>3, <1>4 DEF LiveInv, TypesOK, RowsWritten, server, counters
<1>6. Owners' /\ Followed' /\ RunsThrough'
  BY <1>1, <1>3 DEF LiveInv, Owners, Followed, RunsThrough, server, counters
<1> QED BY <1>5, <1>6 DEF LiveInv

LEMMA PageSteps == ASSUME LiveInv, NEW c \in Clients, Leave(c) \/ Come(c) PROVE LiveInv'
<1> DEFINE s == client[c].sock
<1>1. client \in [Clients -> ClientSet] /\ client[c] \in ClientSet /\ NetOK(net, wrote)
  BY DEF LiveInv, TypesOK, RowsWritten
<1>2. s # 0 => s \in Sockets
  BY <1>1 DEF ClientSet, Sockets
<1>3. CASE Leave(c)
  <2>1. /\ Calm /\ client' = [client EXCEPT ![c].wants = FALSE, ![c].cursor = 0] /\ visits' = visits + 1
        /\ UNCHANGED <<mode, wrote, busy, open, job, net, skip, blind, used, turns, chatter, boots>>
        /\ IF s # 0 THEN Unsubscribe(s) ELSE UNCHANGED <<chan, tail, batch, subd>>
    BY <1>3 DEF Leave
  <2>2. /\ client' \in [Clients -> ClientSet]
        /\ \A d \in Clients : /\ client'[d].shown = client[d].shown /\ client'[d].sock = client[d].sock
                             /\ client'[d].wants = IF d = c THEN FALSE ELSE client[d].wants
    BY <1>1, <2>1 DEF ClientSet
  <2>3. /\ subd' = (IF s # 0 THEN subd \ {s} ELSE subd) /\ batch' \in BatchSet
        /\ ChanOK(chan', wrote)
        /\ tail' \in TailSet /\ tail'.cursor <= wrote
        /\ \A x \in subd' : tail.on /\ x \in tail.socks => tail'.on /\ x \in tail'.socks
        /\ mode.harness => /\ tail'.socks \subseteq subd'
                           /\ \A j \in Jobs : job[j].pc = "none"
    <3>1. CASE s # 0
      <4> HIDE DEF s
      <4> QED BY <2>1, <3>1, LeaveOK
    <3>2. CASE s = 0
      BY <2>1, <3>2 DEF LiveInv, TypesOK, RowsWritten, RunsThrough, Calm
    <3> QED BY <3>1, <3>2
  <2>4. visits' \in Nat
    BY <2>1 DEF LiveInv, TypesOK
  <2>5. TypesOK'
    BY <2>1, <2>2, <2>3, <2>4 DEF LiveInv, TypesOK
  <2>6. RowsWritten'
    BY <2>1, <2>2, <2>3 DEF LiveInv, RowsWritten
  <2>7. Owners'
    BY <2>1, <2>2, <2>3 DEF LiveInv, Owners
  <2>8. Followed' /\ RunsThrough'
    BY <2>1, <2>3 DEF LiveInv, Followed, RunsThrough
  <2> QED BY <2>5, <2>6, <2>7, <2>8 DEF LiveInv
<1>4. CASE Come(c)
  <2>1. /\ client' = [client EXCEPT ![c].wants = TRUE]
        /\ UNCHANGED <<mode, wrote, busy, chan, tail, batch, open, net, skip, blind, counters>>
        /\ IF s # 0 THEN Subscribe(s, client[c].cursor) ELSE UNCHANGED <<subd, job>>
    BY <1>4 DEF Come
  <2>2. /\ client' \in [Clients -> ClientSet]
        /\ \A d \in Clients : /\ client'[d].shown = client[d].shown /\ client'[d].sock = client[d].sock
                             /\ d # c => client'[d].wants = client[d].wants
    BY <1>1, <2>1 DEF ClientSet
  <2>3. client[c].cursor \in Nat
    BY <1>1 DEF ClientSet
  <2>4. /\ subd' = IF s # 0 THEN subd \cup {s} ELSE subd
        /\ job' \in [Jobs -> JobSet]
        /\ \A j \in Jobs : job'[j].upto <= wrote
        /\ \A j \in Jobs : job'[j].pc # "none" =>
              (job'[j].sock = s /\ s # 0) \/ (job[j].pc # "none" /\ job'[j] = job[j])
        /\ s # 0 => \E j \in Jobs : job'[j].pc # "none" /\ job'[j].sock = s
        /\ \A j \in Jobs : job[j].pc # "none" => job'[j] = job[j]
    <3>1. CASE s # 0
      <4> HIDE DEF s
      <4> QED BY <1>2, <2>1, <2>3, <3>1, SubscribeOK
    <3>2. CASE s = 0
      BY <2>1, <3>2 DEF LiveInv, TypesOK, RowsWritten
    <3> QED BY <3>1, <3>2
  <2>5. s # 0 => s \in open
    BY DEF LiveInv, Owners
  <2>6. TypesOK'
    BY <2>1, <2>2, <2>4, <2>5 DEF LiveInv, TypesOK, counters
  <2>7. RowsWritten'
    BY <2>1, <2>2, <2>4 DEF LiveInv, RowsWritten
  <2>8. Owners'
    BY <1>2, <2>1, <2>2, <2>4, <2>5 DEF LiveInv, Owners, counters
  <2>9. Followed'
    BY <2>1, <2>4 DEF LiveInv, Followed
  <2>10. RunsThrough'
    BY <2>1, <2>4 DEF LiveInv, RunsThrough
  <2> QED BY <2>6, <2>7, <2>8, <2>9, <2>10 DEF LiveInv
<1> QED BY <1>3, <1>4

\* A delivered frame shows rows of the transcript.
LEMMA DeliverOK ==
  ASSUME LiveInv, NEW c \in Clients, Deliver(c)
  PROVE  /\ client' \in [Clients -> ClientSet]
         /\ \E rows \in SUBSET (1..wrote) : client'[c].shown = client[c].shown \cup rows
         /\ \A d \in Clients : client'[d].sock = client[d].sock /\ client'[d].wants = client[d].wants
         /\ \A d \in Clients : d # c => client'[d] = client[d]
         /\ NetOK(net', wrote)
<1> DEFINE s == client[c].sock
           f == Head(net[s])
<1>1. /\ s # 0 /\ net[s] # <<>> /\ net' = [net EXCEPT ![s] = Tail(@)]
      /\ \/ client' = client
         \/ client' = [client EXCEPT ![c].cursor = f.seq,
                                     ![c].shown = IF client[c].wants THEN Shows(@, f) ELSE @]
  BY DEF Deliver
<1>2. client \in [Clients -> ClientSet] /\ client[c] \in ClientSet /\ NetOK(net, wrote) /\ wrote \in Nat
  BY DEF LiveInv, TypesOK, RowsWritten
<1>3. s \in Sockets
  BY <1>1, <1>2 DEF ClientSet, Sockets
<1>4. net \in [Sockets -> Seq(AnyFrame)] /\ net[s] \in Seq(AnyFrame) /\ Len(net[s]) > 0 /\ f = net[s][1]
  BY <1>1, <1>2, <1>3 DEF NetOK
<1>5. f \in AnyFrame /\ (f.t \in {"delta", "snapshot"} => f.row <= wrote)
  <2>1. 1 \in 1..Len(net[s])
    BY <1>4
  <2> HIDE DEF s, f
  <2> QED BY <1>2, <1>3, <1>4, <2>1, ElementType DEF NetOK
<1>6. NetOK(net', wrote)
  <2> HIDE DEF s, f
  <2>1. Tail(net[s]) \in Seq(AnyFrame) /\ \A i \in 1..Len(Tail(net[s])) :
          i + 1 \in 1..Len(net[s]) /\ Tail(net[s])[i] = net[s][i + 1]
    BY <1>1, <1>4
  <2>2. net' \in [Sockets -> Seq(AnyFrame)] /\ net'[s] = Tail(net[s])
        /\ \A x \in Sockets : x # s => net'[x] = net[x]
    BY <1>1, <1>3, <1>4, <2>1
  <2>3. ASSUME NEW x \in Sockets, NEW i \in 1..Len(net'[x]), net'[x][i].t \in {"delta", "snapshot"}
        PROVE  net'[x][i].row <= wrote
    <3>1. CASE x = s
      <4>1. i + 1 \in 1..Len(net[s]) /\ net'[x][i] = net[s][i + 1]
        BY <2>1, <2>2, <2>3, <3>1
      <4> QED BY <1>2, <1>3, <2>3, <4>1 DEF NetOK
    <3>2. CASE x # s
      <4>1. net'[x] = net[x]
        BY <2>2, <3>2
      <4> QED BY <1>2, <2>3, <4>1 DEF NetOK
    <3> QED BY <3>1, <3>2
  <2> QED BY <2>2, <2>3 DEF NetOK
<1>7. \E rows \in SUBSET (1..wrote) : Shows(client[c].shown, f) = client[c].shown \cup rows
  <2> HIDE DEF s, f
  <2>1. f.row \in Nat
    BY <1>5 DEF AnyFrame
  <2>2. CASE f.t = "snapshot"
    <3>1. 1..f.row \in SUBSET (1..wrote)
      BY <1>2, <1>5, <2>1, <2>2
    <3>2. Shows(client[c].shown, f) = client[c].shown \cup 1..f.row
      BY <2>2 DEF Shows, Merge
    <3> QED BY <3>1, <3>2
  <2>3. CASE f.t = "delta" /\ f.row # Rowless
    <3>1. {f.row} \in SUBSET (1..wrote)
      BY <1>2, <1>5, <2>1, <2>3 DEF Rowless
    <3>2. Shows(client[c].shown, f) = client[c].shown \cup {f.row}
      BY <2>3 DEF Shows
    <3> QED BY <3>1, <3>2
  <2>4. CASE f.t # "snapshot" /\ ~(f.t = "delta" /\ f.row # Rowless)
    <3>1. Shows(client[c].shown, f) = client[c].shown
      BY <2>4 DEF Shows
    <3>2. {} \in SUBSET (1..wrote) /\ client[c].shown = client[c].shown \cup {}
      OBVIOUS
    <3> QED BY <3>1, <3>2
  <2> QED BY <2>2, <2>3, <2>4
<1>8. PICK rows \in SUBSET (1..wrote) : Shows(client[c].shown, f) = client[c].shown \cup rows
  BY <1>7
<1>9. CASE client' = client
  <2>1. {} \in SUBSET (1..wrote) /\ client[c].shown = client[c].shown \cup {}
    OBVIOUS
  <2> QED BY <1>2, <1>6, <1>9, <2>1
<1>10. CASE client' = [client EXCEPT ![c].cursor = f.seq,
                                     ![c].shown = IF client[c].wants THEN Shows(@, f) ELSE @]
  <2> DEFINE new == IF client[c].wants THEN Shows(client[c].shown, f) ELSE client[c].shown
  <2> HIDE DEF s, f
  <2>1. \E more \in SUBSET (1..wrote) : new = client[c].shown \cup more
    <3>1. CASE client[c].wants
      BY <1>8, <3>1
    <3>2. CASE ~client[c].wants
      <4>1. {} \in SUBSET (1..wrote) /\ client[c].shown = client[c].shown \cup {}
        OBVIOUS
      <4> QED BY <3>2, <4>1
    <3> QED BY <3>1, <3>2
  <2>2. new \in SUBSET Rows
    <3>1. PICK more \in SUBSET (1..wrote) : new = client[c].shown \cup more
      BY <2>1
    <3>2. more \subseteq Rows
      BY <1>2 DEF Rows
    <3>3. client[c].shown \subseteq Rows
      BY <1>2 DEF ClientSet
    <3> HIDE DEF new
    <3> QED BY <3>1, <3>2, <3>3
  <2>3. /\ client' = [client EXCEPT ![c].cursor = f.seq, ![c].shown = new] /\ f.seq \in Nat
    BY <1>5, <1>10 DEF AnyFrame
  <2> HIDE DEF new
  <2>4. /\ client' \in [Clients -> ClientSet] /\ client'[c].shown = new
        /\ client'[c].sock = client[c].sock /\ client'[c].wants = client[c].wants
        /\ \A d \in Clients : d # c => client'[d] = client[d]
    BY <1>2, <2>2, <2>3 DEF ClientSet
  <2> QED BY <1>6, <2>1, <2>4
<1> QED BY <1>1, <1>9, <1>10

LEMMA DeliverStep == ASSUME LiveInv, NEW c \in Clients, Deliver(c) PROVE LiveInv'
<1>1. /\ client' \in [Clients -> ClientSet]
      /\ \E rows \in SUBSET (1..wrote) : client'[c].shown = client[c].shown \cup rows
      /\ \A d \in Clients : client'[d].sock = client[d].sock /\ client'[d].wants = client[d].wants
      /\ \A d \in Clients : d # c => client'[d] = client[d]
      /\ NetOK(net', wrote)
  BY DeliverOK
<1>2. UNCHANGED <<mode, wrote, busy, server, skip, counters>>
  BY DEF Deliver
<1>3. blind' \subseteq Clients
  BY DEF Deliver, LiveInv, TypesOK
<1>4. TypesOK'
  BY <1>1, <1>2, <1>3 DEF LiveInv, TypesOK, server, counters
<1>5. RowsWritten'
  <2>1. wrote \in Nat /\ wrote' = wrote
    BY <1>2 DEF LiveInv, TypesOK
  <2>2. \A d \in Clients : \A r \in client'[d].shown : r <= wrote
    <3>1. PICK rows \in SUBSET (1..wrote) : client'[c].shown = client[c].shown \cup rows
      BY <1>1
    <3>2. \A r \in rows : r <= wrote
      BY <2>1
    <3>3. \A d \in Clients : \A r \in client[d].shown : r <= wrote
      BY DEF LiveInv, RowsWritten
    <3>4. \A d \in Clients : d # c => client'[d] = client[d]
      BY <1>1
    <3> QED BY <3>1, <3>2, <3>3, <3>4
  <2> QED BY <1>1, <1>2, <2>2 DEF LiveInv, RowsWritten, server
<1>6. Owners'
  <2>1. \A d \in Clients : client'[d].sock = client[d].sock /\ client'[d].wants = client[d].wants
    BY <1>1
  <2>2. UNCHANGED <<open, subd, job, used>>
    BY <1>2 DEF server, counters
  <2> QED BY <2>1, <2>2 DEF LiveInv, Owners
<1>7. Followed' /\ RunsThrough'
  BY <1>2 DEF LiveInv, Followed, RunsThrough, server
<1> QED BY <1>4, <1>5, <1>6, <1>7 DEF LiveInv

LEMMA StutterStep == LiveInv /\ UNCHANGED vars => LiveInv'
BY DEF vars, server, counters, LiveInv, TypesOK, RowsWritten, ChanOK, NetOK, Owners, Followed, RunsThrough

LEMMA NextInv == LiveInv /\ [Next]_vars => LiveInv'
<1> SUFFICES ASSUME LiveInv, [Next]_vars PROVE LiveInv'
  OBVIOUS
<1>1. CASE AgentStartsTurn \/ AgentEndsTurn
  BY <1>1, AgentSteps
<1>2. CASE AgentWrites \/ ShowArtifact \/ PollTranscript \/ PollState \/ Chatter
  BY <1>2, RowSteps
<1>3. CASE SendBatch \/ Restart
  BY <1>3, BatchStep, RestartStep
<1>4. ASSUME NEW j \in Jobs, Resume(j) \/ Gap(j) \/ ReadSnapshot(j) \/ SendSnapshot(j) PROVE LiveInv'
  BY <1>4, ResumeStep, GapStep, ReadStep, SnapshotStep
<1>5. ASSUME NEW s \in Sockets, Close(s) PROVE LiveInv'
  BY <1>5, CloseStep
<1>6. ASSUME NEW c \in Clients, Connect(c) \/ Lose(c) \/ Leave(c) \/ Come(c) \/ Deliver(c) PROVE LiveInv'
  BY <1>6, ConnectStep, LoseStep, PageSteps, DeliverStep
<1>7. CASE UNCHANGED vars
  BY <1>7, StutterStep
<1> QED BY <1>1, <1>2, <1>3, <1>4, <1>5, <1>6, <1>7 DEF Next

-----------------------------------------------------------------------------
(* The theorems *)

\* The inductive invariant holds of every behaviour.
THEOREM LiveInvariant == Spec => []LiveInv
<1>1. Init => LiveInv
  BY InitInv
<1>2. LiveInv /\ [Next]_vars => LiveInv'
  BY NextInv
<1> QED BY <1>1, <1>2, PTL DEF Spec

\* The state of the channel, its tail, the sockets and the clients keeps its
\* shape, and the ring never outgrows its cap.
THEOREM TypeCorrect == Spec => []TypeOK
BY LiveInvariant, InvImpliesTypeOK, PTL

\* An answered client is followed: closing or leaving other sockets, in any
\* order, never takes the tail away from under it; and isSessionWatched of a
\* harness session tells the truth.
THEOREM TailKeepsItsSockets == Spec => []TailHasItsSockets
<1>1. LiveInv => TailHasItsSockets
  BY InvImpliesSafety DEF TailHasItsSockets
<1> QED BY <1>1, LiveInvariant, PTL

\* The initial states are initial states of the abstract feed.
LEMMA FeedInit == Init => Feed!Init
<1> SUFFICES ASSUME Init PROVE Feed!Init
  OBVIOUS
<1>1. wrote \in Nat
  BY DEF Init
<1>2. [c \in Clients |-> client[c].shown] = [c \in Clients |-> {}]
  BY DEF Init
<1> QED BY <1>1, <1>2 DEF Feed!Init

\* A step writes a row, shows rows of the transcript to a client, or is none
\* of the abstract feed.
LEMMA FeedStep == LiveInv /\ [Next]_vars => [Feed!Next]_<<wrote, [c \in Clients |-> client[c].shown]>>
<1> SUFFICES ASSUME LiveInv, [Next]_vars
             PROVE  [Feed!Next]_<<wrote, [c \in Clients |-> client[c].shown]>>
  OBVIOUS
<1> DEFINE view == [c \in Clients |-> client[c].shown]
<1>1. ASSUME AgentWrites \/ ShowArtifact PROVE Feed!Next
  <2>1. wrote' = wrote + 1 /\ client' = client
    BY <1>1 DEF AgentWrites, ShowArtifact
  <2>2. view' = view
    BY <2>1
  <2>3. Feed!Write
    BY <2>1, <2>2 DEF Feed!Write
  <2> QED BY <2>3 DEF Feed!Next
<1>2. ASSUME NEW c \in Clients, Deliver(c) PROVE Feed!Next
  <2>1. /\ client' \in [Clients -> ClientSet]
        /\ \E rows \in SUBSET (1..wrote) : client'[c].shown = client[c].shown \cup rows
        /\ \A d \in Clients : client'[d].sock = client[d].sock /\ client'[d].wants = client[d].wants
        /\ \A d \in Clients : d # c => client'[d] = client[d]
        /\ NetOK(net', wrote)
    BY <1>2, DeliverOK
  <2>2. wrote' = wrote
    BY <1>2 DEF Deliver
  <2>3. PICK rows \in SUBSET (1..wrote) : client'[c].shown = client[c].shown \cup rows
    BY <2>1
  <2>4. \A d \in Clients : d # c => client'[d] = client[d]
    BY <2>1
  <2>5. view' = [view EXCEPT ![c] = @ \cup rows]
    BY <2>3, <2>4
  <2>6. Feed!Show(c)
    BY <2>2, <2>5 DEF Feed!Show
  <2> QED BY <2>6 DEF Feed!Next
<1>3. ASSUME wrote' = wrote, client \in [Clients -> ClientSet],
             \A c \in Clients : client'[c].shown = client[c].shown
      PROVE  UNCHANGED <<wrote, view>>
  BY <1>3
<1>4. client \in [Clients -> ClientSet]
  BY DEF LiveInv, TypesOK
<1>5. ASSUME \/ AgentStartsTurn \/ AgentEndsTurn \/ PollTranscript \/ PollState \/ Chatter \/ SendBatch
             \/ UNCHANGED vars
      PROVE  UNCHANGED <<wrote, view>>
  <2>1. wrote' = wrote /\ client' = client
    BY <1>5 DEF AgentStartsTurn, AgentEndsTurn, PollTranscript, PollState, Chatter, SendBatch, vars
  <2> QED BY <1>3, <1>4, <2>1
<1>6. ASSUME NEW j \in Jobs, Resume(j) \/ Gap(j) \/ ReadSnapshot(j) \/ SendSnapshot(j)
      PROVE  UNCHANGED <<wrote, view>>
  <2>1. wrote' = wrote /\ client' = client
    BY <1>6 DEF Resume, Gap, ReadSnapshot, SendSnapshot
  <2> QED BY <1>3, <1>4, <2>1
<1>7. ASSUME NEW s \in Sockets, Close(s) PROVE UNCHANGED <<wrote, view>>
  <2>1. wrote' = wrote /\ client' = client
    BY <1>7 DEF Close
  <2> QED BY <1>3, <1>4, <2>1
<1>8. ASSUME Restart PROVE UNCHANGED <<wrote, view>>
  <2>1. wrote' = wrote /\ \A c \in Clients : client'[c].shown = client[c].shown
    BY <1>4, <1>8 DEF Restart, ClientSet
  <2> QED BY <1>3, <1>4, <2>1
<1>9. ASSUME NEW c \in Clients, Connect(c) \/ Lose(c) \/ Leave(c) \/ Come(c) PROVE UNCHANGED <<wrote, view>>
  <2>1. /\ wrote' = wrote
        /\ \/ client' = [client EXCEPT ![c].sock = used + 1]
           \/ client' = [client EXCEPT ![c].sock = 0]
           \/ client' = [client EXCEPT ![c].wants = FALSE, ![c].cursor = 0]
           \/ client' = [client EXCEPT ![c].wants = TRUE]
    BY <1>9 DEF Connect, Lose, Leave, Come
  <2>2. \A d \in Clients : client'[d].shown = client[d].shown
    BY <1>4, <2>1 DEF ClientSet
  <2> QED BY <1>3, <1>4, <2>1, <2>2
<1> HIDE DEF view
<1>10. Feed!Next \/ UNCHANGED <<wrote, view>>
  BY <1>1, <1>2, <1>5, <1>6, <1>7, <1>8, <1>9 DEF Next
<1> QED BY <1>10 DEF view

\* The live feed, with its ring, replays, snapshots, lost connections and
\* restarts, implements the abstract feed: a client shows rows of the
\* transcript only, and loses none it showed.
THEOREM LiveImplementsFeed == Spec => FeedSpec
<1>1. Init => Feed!Init
  BY FeedInit
<1>2. LiveInv /\ [Next]_vars => [Feed!Next]_<<wrote, [c \in Clients |-> client[c].shown]>>
  BY FeedStep
<1>3. Spec => []LiveInv
  BY LiveInvariant
<1> QED BY <1>1, <1>2, <1>3, PTL DEF Spec, FeedSpec, Feed!Spec

-----------------------------------------------------------------------------
(* What a client may lack: the queues *)

\* Frames in the order they were numbered.
Rising(q) == \A i, k \in 1..Len(q) : i < k => q[i].seq < q[k].seq

\* A cursor from which the ring still has everything: what a resume may answer.
Reach(ch, k) ==
  k > 0 /\ IF ch.ring = <<>> THEN k >= ch.seq ELSE k + 1 >= ch.ring[1].seq

RingOK(ch) == Rising(ch.ring) /\ \A i \in 1..Len(ch.ring) : ch.ring[i].seq <= ch.seq

\* The frames under way to a client with cursor k: past the cursor, a gap only where
\* the ring does not reach, and no delta that the ring passed over.
QueueOK(ch, q, k) ==
  /\ Rising(q)
  /\ \A i \in 1..Len(q) :
       /\ k < q[i].seq /\ q[i].seq <= ch.seq
       /\ q[i].t = "gap" => i = 1 /\ ~Reach(ch, k)
       /\ q[i].t = "delta" /\ ch.ring # <<>> /\ ch.ring[1].seq <= q[i].seq
            => \E m \in 1..Len(ch.ring) : ch.ring[m] = q[i]

\* A delta past k that carries row r.
HasRow(q, k, r) == \E i \in 1..Len(q) : q[i].t = "delta" /\ q[i].row = r /\ q[i].seq > k

LEMMA FramesMix == DeltaSet \subseteq AnyFrame /\ Seq(DeltaSet) \subseteq Seq(AnyFrame)
<1>1. DeltaSet \subseteq AnyFrame
  BY DEF DeltaSet, AnyFrame
<1>2. ASSUME NEW q \in Seq(DeltaSet) PROVE q \in Seq(AnyFrame)
  BY <1>1
<1> QED BY <1>1, <1>2

\* What is numbered later goes behind.
LEMMA JoinedRising ==
  ASSUME NEW a \in Seq(AnyFrame), NEW b \in Seq(AnyFrame), Rising(a), Rising(b), NEW n \in Nat,
         \A i \in 1..Len(a) : a[i].seq <= n, \A i \in 1..Len(b) : n < b[i].seq
  PROVE  /\ a \o b \in Seq(AnyFrame) /\ Len(a \o b) = Len(a) + Len(b) /\ Rising(a \o b)
         /\ \A i \in 1..Len(a) : (a \o b)[i] = a[i]
         /\ \A i \in 1..Len(b) : Len(a) + i \in 1..Len(a \o b) /\ (a \o b)[Len(a) + i] = b[i]
         /\ \A i \in 1..Len(a \o b) :
              i \in 1..Len(a) \/ (i - Len(a) \in 1..Len(b) /\ i = Len(a) + (i - Len(a)))
<1> DEFINE q == a \o b
<1>1. q \in Seq(AnyFrame) /\ Len(q) = Len(a) + Len(b) /\ Len(a) \in Nat /\ Len(b) \in Nat
  OBVIOUS
<1>2. /\ \A i \in 1..Len(a) : q[i] = a[i]
      /\ \A i \in 1..Len(b) : Len(a) + i \in 1..Len(q) /\ q[Len(a) + i] = b[i]
      /\ \A i \in 1..Len(q) : i \in 1..Len(a) \/ (i - Len(a) \in 1..Len(b) /\ i = Len(a) + (i - Len(a)))
  OBVIOUS
<1>3. /\ \A i \in 1..Len(a) : a[i].seq \in Nat
      /\ \A i \in 1..Len(b) : b[i].seq \in Nat
  <2>1. (\A i \in 1..Len(a) : a[i] \in AnyFrame) /\ \A i \in 1..Len(b) : b[i] \in AnyFrame
    BY ElementType
  <2> QED BY <2>1 DEF AnyFrame
<1> HIDE DEF q
<1>4. ASSUME NEW i \in 1..Len(q), NEW k \in 1..Len(q), i < k
      PROVE  q[i].seq < q[k].seq
  <2>1. CASE i \in 1..Len(a) /\ k \in 1..Len(a)
    BY <1>2, <1>4, <2>1 DEF Rising
  <2>2. CASE i \in 1..Len(a) /\ k \notin 1..Len(a)
    <3>1. k - Len(a) \in 1..Len(b) /\ q[k] = b[k - Len(a)]
      BY <1>1, <1>2, <2>2
    <3>2. q[i] = a[i] /\ a[i].seq <= n /\ n < b[k - Len(a)].seq
      BY <1>2, <2>2, <3>1
    <3>3. a[i].seq \in Nat /\ b[k - Len(a)].seq \in Nat
      BY <1>3, <2>2, <3>1
    <3>4. a[i].seq < b[k - Len(a)].seq
      BY <3>2, <3>3
    <3> QED BY <3>1, <3>2, <3>4
  <2>3. CASE i \notin 1..Len(a)
    <3>0. k \notin 1..Len(a)
      BY <1>1, <1>4, <2>3
    <3>1. /\ i - Len(a) \in 1..Len(b) /\ q[i] = b[i - Len(a)]
          /\ k - Len(a) \in 1..Len(b) /\ q[k] = b[k - Len(a)]
      BY <1>2, <2>3, <3>0
    <3>2. i - Len(a) < k - Len(a)
      BY <1>1, <1>4
    <3> QED BY <3>1, <3>2 DEF Rising
  <2> QED BY <2>1, <2>2, <2>3
<1> QED BY <1>1, <1>2, <1>4 DEF Rising, q

\* Deltas are numbered past the channel, one by one.
LEMMA DeltasRise ==
  ASSUME NEW ch \in ChanSet, NEW rows \in Seq(Nat)
  PROVE  /\ Deltas(ch, rows) \in Seq(AnyFrame) /\ Deltas(ch, rows) \in Seq(DeltaSet)
         /\ Len(Deltas(ch, rows)) = Len(rows)
         /\ Rising(Deltas(ch, rows))
         /\ \A i \in 1..Len(rows) : Deltas(ch, rows)[i] = Frame("delta", ch.seq + i, rows[i])
         /\ \A i \in 1..Len(rows) : /\ ch.seq < Deltas(ch, rows)[i].seq
                                    /\ Deltas(ch, rows)[i].seq <= ch.seq + Len(rows)
                                    /\ Deltas(ch, rows)[i].t = "delta"
                                    /\ Deltas(ch, rows)[i].row = rows[i]
<1>1. Deltas(ch, rows) \in Seq(DeltaSet) /\ Len(Deltas(ch, rows)) = Len(rows)
  BY DeltasType
<1>2. \A i \in 1..Len(rows) : Deltas(ch, rows)[i] = Frame("delta", ch.seq + i, rows[i])
  BY DEF Deltas
<1>3. ch.seq \in Nat
  BY DEF ChanSet
<1>4. \A i \in 1..Len(rows) : /\ Deltas(ch, rows)[i].seq = ch.seq + i
                              /\ Deltas(ch, rows)[i].t = "delta"
                              /\ Deltas(ch, rows)[i].row = rows[i]
  <2> TAKE i \in 1..Len(rows)
  <2>1. Deltas(ch, rows)[i] = [t |-> "delta", seq |-> ch.seq + i, row |-> rows[i]]
    BY <1>2 DEF Frame
  <2> QED BY <2>1
<1>5. Len(rows) \in Nat
  OBVIOUS
<1>6. Rising(Deltas(ch, rows))
  <2> SUFFICES ASSUME NEW i \in 1..Len(rows), NEW k \in 1..Len(rows), i < k
               PROVE  Deltas(ch, rows)[i].seq < Deltas(ch, rows)[k].seq
    BY <1>1 DEF Rising
  <2>1. ch.seq + i < ch.seq + k
    BY <1>3, <1>5
  <2> QED BY <1>4, <2>1
<1>7. \A i \in 1..Len(rows) : ch.seq < ch.seq + i /\ ch.seq + i <= ch.seq + Len(rows)
  BY <1>3, <1>5
<1> QED BY <1>1, <1>2, <1>4, <1>6, <1>7, FramesMix

\* A trimmed ring begins later, and keeps all from there.
LEMMA TrimKeeps ==
  ASSUME NEW ring \in Seq(DeltaSet), Rising(ring)
  PROVE  /\ Trim(ring) \in Seq(DeltaSet) /\ Rising(Trim(ring))
         /\ ring # <<>> => Trim(ring) # <<>>
         /\ \A i \in 1..Len(Trim(ring)) : \E k \in 1..Len(ring) : Trim(ring)[i] = ring[k]
         /\ \A k \in 1..Len(ring) : Trim(ring)[1].seq <= ring[k].seq
              => \E i \in 1..Len(Trim(ring)) : Trim(ring)[i] = ring[k]
<1> DEFINE off == IF Len(ring) > RingCap THEN Len(ring) - RingCap ELSE 0
           short == Trim(ring)
<1>1. off \in Nat /\ Len(ring) \in Nat /\ (ring # <<>> => off < Len(ring)) /\ off <= Len(ring)
  BY FeedAssumption
<1>2. short = SubSeq(ring, off + 1, Len(ring))
  BY FeedAssumption DEF Trim
<1> HIDE DEF off, short
<1>3. /\ Len(short) = Len(ring) - off /\ short \in Seq(DeltaSet)
      /\ \A i \in 1..Len(short) : i + off \in 1..Len(ring) /\ short[i] = ring[i + off]
  BY <1>1, <1>2
<1>4. Rising(short)
  <2> SUFFICES ASSUME NEW i \in 1..Len(short), NEW k \in 1..Len(short), i < k
               PROVE  short[i].seq < short[k].seq
    BY DEF Rising
  <2>1. i + off \in 1..Len(ring) /\ k + off \in 1..Len(ring) /\ i + off < k + off
    BY <1>1, <1>3
  <2>2. ring[i + off].seq < ring[k + off].seq
    BY <2>1 DEF Rising
  <2> QED BY <1>3, <2>2
<1>5. ASSUME NEW k \in 1..Len(ring), short[1].seq <= ring[k].seq
      PROVE  \E i \in 1..Len(short) : short[i] = ring[k]
  <2>1. CASE k > off
    <3>1. k - off \in 1..Len(short) /\ short[k - off] = ring[k]
      BY <1>1, <1>3, <2>1
    <3> QED BY <3>1
  <2>2. CASE k <= off
    <3>1. 1 \in 1..Len(short) /\ short[1] = ring[1 + off] /\ 1 + off \in 1..Len(ring) /\ k < 1 + off
      BY <1>1, <1>3, <2>2
    <3>2. ring[k].seq < ring[1 + off].seq
      BY <3>1 DEF Rising
    <3>3. ring[k] \in DeltaSet /\ ring[1 + off] \in DeltaSet
      BY <3>1, ElementType
    <3>4. ring[k].seq \in Nat /\ ring[1 + off].seq \in Nat
      BY <3>3 DEF DeltaSet
    <3> QED BY <1>5, <3>1, <3>2, <3>4
  <2> QED BY <1>1, <2>1, <2>2
<1>6. ring # <<>> => short # <<>>
  BY <1>1, <1>3
<1>7. \A i \in 1..Len(short) : \E k \in 1..Len(ring) : short[i] = ring[k]
  BY <1>3
<1> QED BY <1>3, <1>4, <1>5, <1>6, <1>7 DEF short

\* The ring after a publication: in order, and from its first frame on nothing that was
\* in it, or that is published now, is missing.
LEMMA RememberKeeps ==
  ASSUME NEW ch \in ChanSet, RingOK(ch), NEW rows \in Seq(Nat), rows # <<>>
  PROVE  LET new == Remember(ch, rows) IN
         /\ new \in ChanSet /\ RingOK(new) /\ new.ring # <<>> /\ new.seq = ch.seq + Len(rows)
         /\ \A k \in 1..Len(ch.ring) : new.ring[1].seq <= ch.ring[k].seq
              => \E i \in 1..Len(new.ring) : new.ring[i] = ch.ring[k]
         /\ \A k \in 1..Len(rows) : new.ring[1].seq <= ch.seq + k
              => \E i \in 1..Len(new.ring) : new.ring[i] = Frame("delta", ch.seq + k, rows[k])
         /\ ch.ring = <<>> => ch.seq < new.ring[1].seq
         /\ ch.ring # <<>> => ch.ring[1].seq <= new.ring[1].seq
<1> DEFINE d == Deltas(ch, rows)
           all == ch.ring \o d
           new == Remember(ch, rows)
<1>1. ch.ring \in Seq(DeltaSet) /\ ch.ring \in Seq(AnyFrame) /\ ch.seq \in Nat /\ Len(rows) \in Nat
      /\ Len(rows) # 0
  BY FramesMix DEF ChanSet
<1>2. /\ d \in Seq(AnyFrame) /\ d \in Seq(DeltaSet) /\ Len(d) = Len(rows) /\ Rising(d)
      /\ \A i \in 1..Len(rows) : d[i] = Frame("delta", ch.seq + i, rows[i])
      /\ \A i \in 1..Len(rows) : ch.seq < d[i].seq /\ d[i].seq <= ch.seq + Len(rows)
  BY DeltasRise
<1>3. all \in Seq(DeltaSet)
  BY <1>1, <1>2
<1> HIDE DEF d
<1>4. /\ Len(all) = Len(ch.ring) + Len(d) /\ Rising(all)
      /\ \A i \in 1..Len(ch.ring) : all[i] = ch.ring[i]
      /\ \A i \in 1..Len(d) : Len(ch.ring) + i \in 1..Len(all) /\ all[Len(ch.ring) + i] = d[i]
      /\ \A i \in 1..Len(all) : \/ i \in 1..Len(ch.ring)
                                \/ i - Len(ch.ring) \in 1..Len(d) /\ i = Len(ch.ring) + (i - Len(ch.ring))
  BY <1>1, <1>2, JoinedRising DEF RingOK
<1>5. new = [seq |-> ch.seq + Len(rows), ring |-> Trim(all)]
  BY DEF Remember, d
<1> HIDE DEF all, new
<1>6. new.seq = ch.seq + Len(rows) /\ new.ring = Trim(all) /\ new \in ChanSet
  <2>1. Trim(all) \in Seq(DeltaSet)
    BY <1>3, <1>4, TrimKeeps
  <2> QED BY <1>1, <1>5, <2>1 DEF ChanSet
<1>7. /\ Rising(new.ring) /\ new.ring \in Seq(DeltaSet) /\ new.ring # <<>>
      /\ \A i \in 1..Len(new.ring) : \E k \in 1..Len(all) : new.ring[i] = all[k]
      /\ \A k \in 1..Len(all) : new.ring[1].seq <= all[k].seq
           => \E i \in 1..Len(new.ring) : new.ring[i] = all[k]
  <2>1. all # <<>>
    BY <1>1, <1>2, <1>3, <1>4
  <2> QED BY <1>3, <1>4, <1>6, <2>1, TrimKeeps
<1>8. \A k \in 1..Len(all) : all[k].seq \in Nat /\ all[k].seq <= ch.seq + Len(rows)
  <2> SUFFICES ASSUME NEW k \in 1..Len(all)
               PROVE  all[k].seq \in Nat /\ all[k].seq <= ch.seq + Len(rows)
    OBVIOUS
  <2>1. all[k] \in DeltaSet
    BY <1>3, ElementType
  <2>2. CASE k \in 1..Len(ch.ring)
    <3>1. all[k].seq <= ch.seq
      BY <1>4, <2>2 DEF RingOK
    <3> QED BY <1>1, <2>1, <3>1 DEF DeltaSet
  <2>3. CASE k \notin 1..Len(ch.ring)
    <3>1. k - Len(ch.ring) \in 1..Len(d) /\ all[k] = d[k - Len(ch.ring)]
      BY <1>4, <2>3
    <3> QED BY <1>2, <2>1, <3>1 DEF DeltaSet
  <2> QED BY <2>2, <2>3
<1>9. RingOK(new)
  BY <1>6, <1>7, <1>8 DEF RingOK
<1>10. \A k \in 1..Len(ch.ring) : new.ring[1].seq <= ch.ring[k].seq
              => \E i \in 1..Len(new.ring) : new.ring[i] = ch.ring[k]
  <2>1. \A k \in 1..Len(ch.ring) : k \in 1..Len(all)
    BY <1>1, <1>2, <1>4
  <2> QED BY <1>4, <1>7, <2>1
<1>11. \A k \in 1..Len(rows) : new.ring[1].seq <= ch.seq + k
              => \E i \in 1..Len(new.ring) : new.ring[i] = Frame("delta", ch.seq + k, rows[k])
  <2> SUFFICES ASSUME NEW k \in 1..Len(rows), new.ring[1].seq <= ch.seq + k
               PROVE  \E i \in 1..Len(new.ring) : new.ring[i] = Frame("delta", ch.seq + k, rows[k])
    OBVIOUS
  <2>1. Len(ch.ring) + k \in 1..Len(all) /\ all[Len(ch.ring) + k] = Frame("delta", ch.seq + k, rows[k])
    BY <1>2, <1>4
  <2>2. all[Len(ch.ring) + k].seq = ch.seq + k
    BY <2>1 DEF Frame
  <2> QED BY <1>7, <2>1, <2>2
<1>12. PICK m \in 1..Len(all) : new.ring[1] = all[m]
  <2>1. 1 \in 1..Len(new.ring)
    BY <1>7
  <2> QED BY <1>7, <2>1
<1>13. ch.ring = <<>> => ch.seq < new.ring[1].seq
  <2> SUFFICES ASSUME ch.ring = <<>> PROVE ch.seq < new.ring[1].seq
    OBVIOUS
  <2>1. Len(ch.ring) = 0
    OBVIOUS
  <2>2. m - Len(ch.ring) \in 1..Len(d) /\ all[m] = d[m - Len(ch.ring)]
    BY <1>4, <2>1
  <2> QED BY <1>2, <1>12, <2>2
<1>14. ch.ring # <<>> => ch.ring[1].seq <= new.ring[1].seq
  <2> SUFFICES ASSUME ch.ring # <<>> PROVE ch.ring[1].seq <= new.ring[1].seq
    OBVIOUS
  <2>1. 1 \in 1..Len(ch.ring) /\ 1 \in 1..Len(all)
    BY <1>1, <1>2, <1>4
  <2>2. all[1] = ch.ring[1]
    BY <1>4, <2>1
  <2>3. all[1].seq <= all[m].seq
    BY <1>4, <1>8, <2>1 DEF Rising
  <2> QED BY <1>12, <2>2, <2>3
<1> QED BY <1>6, <1>9, <1>7, <1>10, <1>11, <1>13, <1>14 DEF new

LEMMA ReachBack ==
  ASSUME NEW ch \in ChanSet, RingOK(ch), NEW rows \in Seq(Nat), rows # <<>>,
         NEW k \in Nat, Reach(Remember(ch, rows), k)
  PROVE  Reach(ch, k)
<1> DEFINE new == Remember(ch, rows)
<1>1. /\ new \in ChanSet /\ new.ring # <<>>
      /\ ch.ring = <<>> => ch.seq < new.ring[1].seq
      /\ ch.ring # <<>> => ch.ring[1].seq <= new.ring[1].seq
  BY RememberKeeps
<1> HIDE DEF new
<1>2. k > 0 /\ k + 1 >= new.ring[1].seq
  BY <1>1 DEF Reach, new
<1>3. new.ring[1].seq \in Nat /\ ch.seq \in Nat /\ (ch.ring # <<>> => ch.ring[1].seq \in Nat)
  <2>1. new.ring \in Seq(DeltaSet) /\ ch.ring \in Seq(DeltaSet)
    BY <1>1 DEF ChanSet
  <2>2. new.ring[1] \in DeltaSet /\ (ch.ring # <<>> => ch.ring[1] \in DeltaSet)
    BY <1>1, <2>1
  <2> QED BY <2>2 DEF DeltaSet, ChanSet
<1>4. CASE ch.ring = <<>>
  <2>1. k >= ch.seq
    BY <1>1, <1>2, <1>3, <1>4
  <2> QED BY <1>2, <1>4, <2>1 DEF Reach
<1>5. CASE ch.ring # <<>>
  <2>1. k + 1 >= ch.ring[1].seq
    BY <1>1, <1>2, <1>3, <1>5
  <2> QED BY <1>2, <1>5, <2>1 DEF Reach
<1> QED BY <1>4, <1>5

\* What a cursor within reach finds in the ring, it still finds there after a
\* publication that left it within reach, and the published rows too.
LEMMA RowsStay ==
  ASSUME NEW ch \in ChanSet, RingOK(ch), NEW rows \in Seq(Nat), rows # <<>>,
         NEW k \in Nat, k <= ch.seq, Reach(Remember(ch, rows), k)
  PROVE  /\ \A r : HasRow(ch.ring, k, r) => HasRow(Remember(ch, rows).ring, k, r)
         /\ \A i \in 1..Len(rows) : HasRow(Remember(ch, rows).ring, k, rows[i])
<1> DEFINE new == Remember(ch, rows)
<1>1. /\ new \in ChanSet /\ new.ring # <<>>
      /\ \A m \in 1..Len(ch.ring) : new.ring[1].seq <= ch.ring[m].seq
            => \E i \in 1..Len(new.ring) : new.ring[i] = ch.ring[m]
      /\ \A m \in 1..Len(rows) : new.ring[1].seq <= ch.seq + m
            => \E i \in 1..Len(new.ring) : new.ring[i] = Frame("delta", ch.seq + m, rows[m])
  BY RememberKeeps
<1> HIDE DEF new
<1>2. k + 1 >= new.ring[1].seq
  BY <1>1 DEF Reach, new
<1>3. new.ring[1].seq \in Nat /\ ch.seq \in Nat /\ Len(rows) \in Nat
      /\ \A i \in 1..Len(ch.ring) : ch.ring[i].seq \in Nat
  <2>1. new.ring \in Seq(DeltaSet) /\ ch.ring \in Seq(DeltaSet)
    BY <1>1 DEF ChanSet
  <2>2. new.ring[1] \in DeltaSet /\ \A i \in 1..Len(ch.ring) : ch.ring[i] \in DeltaSet
    BY <1>1, <2>1, ElementType
  <2> QED BY <2>2 DEF DeltaSet, ChanSet
<1>4. ASSUME NEW r, HasRow(ch.ring, k, r)
      PROVE  HasRow(new.ring, k, r)
  <2>1. PICK m \in 1..Len(ch.ring) : ch.ring[m].t = "delta" /\ ch.ring[m].row = r /\ ch.ring[m].seq > k
    BY <1>4 DEF HasRow
  <2>2. new.ring[1].seq <= ch.ring[m].seq
    BY <1>2, <1>3, <2>1
  <2> QED BY <1>1, <2>1, <2>2 DEF HasRow
<1>5. ASSUME NEW i \in 1..Len(rows)
      PROVE  HasRow(new.ring, k, rows[i])
  <2>1. new.ring[1].seq <= ch.seq + i /\ ch.seq + i > k
    BY <1>2, <1>3
  <2>2. PICK m \in 1..Len(new.ring) : new.ring[m] = [t |-> "delta", seq |-> ch.seq + i, row |-> rows[i]]
    BY <1>1, <2>1 DEF Frame
  <2>3. new.ring[m].t = "delta" /\ new.ring[m].row = rows[i] /\ new.ring[m].seq > k
    BY <2>1, <2>2
  <2> QED BY <2>3 DEF HasRow
<1> QED BY <1>4, <1>5 DEF new

\* A queue stays in order when the channel publishes, whether it gets the deltas or not.
LEMMA QueueEmits ==
  ASSUME NEW ch \in ChanSet, RingOK(ch), NEW rows \in Seq(Nat), rows # <<>>,
         NEW q \in Seq(AnyFrame), NEW k \in Nat, k <= ch.seq, QueueOK(ch, q, k)
  PROVE  /\ QueueOK(Remember(ch, rows), q, k)
         /\ QueueOK(Remember(ch, rows), q \o Deltas(ch, rows), k)
<1> DEFINE new == Remember(ch, rows)
           d == Deltas(ch, rows)
           all == q \o d
<1>1. /\ new \in ChanSet /\ new.ring # <<>> /\ new.seq = ch.seq + Len(rows)
      /\ \A m \in 1..Len(ch.ring) : new.ring[1].seq <= ch.ring[m].seq
            => \E i \in 1..Len(new.ring) : new.ring[i] = ch.ring[m]
      /\ \A m \in 1..Len(rows) : new.ring[1].seq <= ch.seq + m
            => \E i \in 1..Len(new.ring) : new.ring[i] = Frame("delta", ch.seq + m, rows[m])
      /\ ch.ring = <<>> => ch.seq < new.ring[1].seq
      /\ ch.ring # <<>> => ch.ring[1].seq <= new.ring[1].seq
  BY RememberKeeps
<1>2. ~Reach(ch, k) => ~Reach(new, k)
  BY ReachBack
<1>3. /\ d \in Seq(AnyFrame) /\ Len(d) = Len(rows) /\ Rising(d)
      /\ \A i \in 1..Len(rows) : d[i] = Frame("delta", ch.seq + i, rows[i])
      /\ \A i \in 1..Len(rows) : /\ ch.seq < d[i].seq /\ d[i].seq <= ch.seq + Len(rows)
                                 /\ d[i].t = "delta"
  BY DeltasRise
<1> HIDE DEF new, d
<1>4. /\ new.ring[1].seq \in Nat /\ ch.seq \in Nat /\ Len(rows) \in Nat
      /\ (ch.ring # <<>> => ch.ring[1].seq \in Nat)
      /\ \A i \in 1..Len(q) : q[i].seq \in Nat
      /\ \A i \in 1..Len(d) : d[i].seq \in Nat
  <2>1. new.ring \in Seq(DeltaSet) /\ ch.ring \in Seq(DeltaSet)
    BY <1>1 DEF ChanSet
  <2>2. /\ new.ring[1] \in DeltaSet /\ (ch.ring # <<>> => ch.ring[1] \in DeltaSet)
    BY <1>1, <2>1
  <2>3. (\A i \in 1..Len(q) : q[i] \in AnyFrame) /\ \A i \in 1..Len(d) : d[i] \in AnyFrame
    BY <1>3, ElementType
  <2>4. (\A i \in 1..Len(q) : q[i].seq \in Nat) /\ \A i \in 1..Len(d) : d[i].seq \in Nat
    BY <2>3 DEF AnyFrame
  <2> QED BY <2>2, <2>4 DEF DeltaSet, ChanSet
<1>5. ASSUME NEW i \in 1..Len(q)
      PROVE  /\ k < q[i].seq /\ q[i].seq <= new.seq
             /\ q[i].t = "gap" => i = 1 /\ ~Reach(new, k)
             /\ q[i].t = "delta" /\ new.ring[1].seq <= q[i].seq
                  => \E m \in 1..Len(new.ring) : new.ring[m] = q[i]
  <2>1. k < q[i].seq /\ q[i].seq <= ch.seq /\ q[i].seq <= new.seq
    BY <1>1, <1>4 DEF QueueOK
  <2>2. q[i].t = "gap" => i = 1 /\ ~Reach(new, k)
    BY <1>2 DEF QueueOK
  <2>3. ASSUME q[i].t = "delta", new.ring[1].seq <= q[i].seq
        PROVE  \E m \in 1..Len(new.ring) : new.ring[m] = q[i]
    <3>1. ch.ring # <<>>
      BY <1>1, <1>4, <2>1, <2>3
    <3>2. ch.ring[1].seq <= q[i].seq
      BY <1>1, <1>4, <2>3, <3>1
    <3>3. PICK m \in 1..Len(ch.ring) : ch.ring[m] = q[i]
      BY <2>3, <3>1, <3>2 DEF QueueOK
    <3> QED BY <1>1, <2>3, <3>3
  <2> QED BY <2>1, <2>2, <2>3
<1>6. QueueOK(new, q, k)
  BY <1>5 DEF QueueOK
<1>7. /\ Rising(all)
      /\ \A i \in 1..Len(q) : all[i] = q[i]
      /\ \A i \in 1..Len(all) : \/ i \in 1..Len(q)
                                \/ i - Len(q) \in 1..Len(d) /\ i = Len(q) + (i - Len(q))
      /\ \A i \in 1..Len(d) : all[Len(q) + i] = d[i]
  BY <1>3, <1>4, JoinedRising DEF QueueOK
<1> HIDE DEF all
<1>8. ASSUME NEW i \in 1..Len(all)
      PROVE  /\ k < all[i].seq /\ all[i].seq <= new.seq
             /\ all[i].t = "gap" => i = 1 /\ ~Reach(new, k)
             /\ all[i].t = "delta" /\ new.ring[1].seq <= all[i].seq
                  => \E m \in 1..Len(new.ring) : new.ring[m] = all[i]
  <2>1. CASE i \in 1..Len(q)
    <3>1. all[i] = q[i]
      BY <1>7, <2>1
    <3> QED BY <1>5, <2>1, <3>1
  <2>2. CASE i \notin 1..Len(q)
    <3>1. PICK m \in 1..Len(rows) : all[i] = d[m]
      BY <1>3, <1>7, <2>2
    <3>2. ch.seq < d[m].seq /\ d[m].seq <= new.seq /\ d[m].t = "delta" /\ d[m].seq \in Nat
      BY <1>1, <1>3, <1>4
    <3>3. k < d[m].seq
      BY <1>4, <3>2
    <3>4. d[m] = Frame("delta", ch.seq + m, rows[m]) /\ d[m].seq = ch.seq + m
      BY <1>3 DEF Frame
    <3> QED BY <1>1, <3>1, <3>2, <3>3, <3>4
  <2> QED BY <2>1, <2>2
<1>9. QueueOK(new, all, k)
  BY <1>7, <1>8 DEF QueueOK
<1> QED BY <1>6, <1>9 DEF new, all, d

\* A number is used for a frame that is not kept in the ring.
Bump(ch) == [ch EXCEPT !.seq = @ + 1]

LEMMA QueueBumps ==
  ASSUME NEW ch \in ChanSet, RingOK(ch), NEW q \in Seq(AnyFrame), NEW k \in Nat, k <= ch.seq,
         QueueOK(ch, q, k), NEW f \in AnyFrame, f.seq = ch.seq + 1,
         f.t = "delta" => FALSE, f.t = "gap" => q = <<>> /\ ~Reach(Bump(ch), k)
  PROVE  /\ Bump(ch) \in ChanSet /\ RingOK(Bump(ch)) /\ k <= Bump(ch).seq
         /\ Reach(Bump(ch), k) => Reach(ch, k)
         /\ QueueOK(Bump(ch), q, k) /\ QueueOK(Bump(ch), Append(q, f), k)
<1> DEFINE new == Bump(ch)
           all == Append(q, f)
<1>1. new \in ChanSet /\ new.ring = ch.ring /\ new.seq = ch.seq + 1 /\ ch.seq \in Nat
  BY DEF Bump, ChanSet
<1> HIDE DEF new
<1>2. \A i \in 1..Len(ch.ring) : ch.ring[i].seq \in Nat
  <2>1. \A i \in 1..Len(ch.ring) : ch.ring[i] \in DeltaSet
    BY ElementType DEF ChanSet
  <2> QED BY <2>1 DEF DeltaSet
<1>3. RingOK(new) /\ k <= new.seq
  BY <1>1, <1>2 DEF RingOK
<1>4. Reach(new, k) => Reach(ch, k)
  BY <1>1 DEF Reach
<1>5. \A i \in 1..Len(q) : q[i].seq \in Nat
  <2>1. \A i \in 1..Len(q) : q[i] \in AnyFrame
    BY ElementType
  <2> QED BY <2>1 DEF AnyFrame
<1>6. QueueOK(new, q, k)
  BY <1>1, <1>4, <1>5 DEF QueueOK
<1>7. /\ all \in Seq(AnyFrame) /\ Len(all) = Len(q) + 1 /\ Len(q) \in Nat
      /\ \A i \in 1..Len(q) : all[i] = q[i]
      /\ all[Len(q) + 1] = f
  OBVIOUS
<1> HIDE DEF all
<1>8. \A i \in 1..Len(all) : i \in 1..Len(q) \/ i = Len(q) + 1
  BY <1>7
<1>9. Rising(all)
  <2> SUFFICES ASSUME NEW i \in 1..Len(all), NEW m \in 1..Len(all), i < m
               PROVE  all[i].seq < all[m].seq
    BY DEF Rising
  <2>1. i \in 1..Len(q) /\ all[i] = q[i]
    BY <1>7
  <2>2. CASE m \in 1..Len(q)
    BY <1>7, <2>1, <2>2 DEF QueueOK, Rising
  <2>3. CASE m = Len(q) + 1
    <3>1. q[i].seq <= ch.seq /\ f.seq = ch.seq + 1
      BY <2>1 DEF QueueOK
    <3> QED BY <1>1, <1>5, <1>7, <2>1, <2>3, <3>1
  <2> QED BY <1>8, <2>2, <2>3
<1>10. ASSUME NEW i \in 1..Len(all)
       PROVE  /\ k < all[i].seq /\ all[i].seq <= new.seq
              /\ all[i].t = "gap" => i = 1 /\ ~Reach(new, k)
              /\ all[i].t = "delta" /\ new.ring # <<>> /\ new.ring[1].seq <= all[i].seq
                   => \E m \in 1..Len(new.ring) : new.ring[m] = all[i]
  <2>1. CASE i \in 1..Len(q)
    <3>1. all[i] = q[i]
      BY <1>7, <2>1
    <3> QED BY <1>6, <2>1, <3>1 DEF QueueOK
  <2>2. CASE i = Len(q) + 1
    <3>1. all[i] = f /\ k < f.seq /\ f.seq <= new.seq
      BY <1>1, <1>7, <2>2
    <3>2. f.t = "gap" => i = 1 /\ ~Reach(new, k)
      BY <2>2 DEF new
    <3> QED BY <3>1, <3>2
  <2> QED BY <1>8, <2>1, <2>2
<1>11. QueueOK(new, all, k)
  BY <1>9, <1>10 DEF QueueOK
<1> QED BY <1>1, <1>3, <1>4, <1>6, <1>11 DEF new, all

\* The ring goes with its tail.
LEMMA QueueClears ==
  ASSUME NEW ch \in ChanSet, RingOK(ch), NEW q, NEW k \in Nat, QueueOK(ch, q, k)
  PROVE  LET new == [ch EXCEPT !.ring = <<>>] IN
         /\ new \in ChanSet /\ RingOK(new) /\ new.seq = ch.seq
         /\ Reach(new, k) => Reach(ch, k)
         /\ QueueOK(new, q, k)
<1> DEFINE new == [ch EXCEPT !.ring = <<>>]
<1>1. new \in ChanSet /\ new.ring = <<>> /\ new.seq = ch.seq /\ ch.seq \in Nat
  <2>1. <<>> \in Seq(DeltaSet)
    OBVIOUS
  <2> QED BY <2>1 DEF ChanSet
<1> HIDE DEF new
<1>2. RingOK(new)
  BY <1>1 DEF RingOK, Rising
<1>3. ASSUME Reach(new, k) PROVE Reach(ch, k)
  <2>1. k > 0 /\ k >= ch.seq
    BY <1>1, <1>3 DEF Reach
  <2>2. CASE ch.ring = <<>>
    BY <2>1, <2>2 DEF Reach
  <2>3. CASE ch.ring # <<>>
    <3>1. ch.ring \in Seq(DeltaSet)
      BY DEF ChanSet
    <3>2. 1 \in 1..Len(ch.ring) /\ ch.ring[1] \in DeltaSet
      BY <2>3, <3>1
    <3>3. ch.ring[1].seq <= ch.seq /\ ch.ring[1].seq \in Nat
      BY <3>2 DEF RingOK, DeltaSet
    <3>4. k + 1 >= ch.ring[1].seq
      BY <1>1, <2>1, <3>3
    <3> QED BY <2>1, <2>3, <3>4 DEF Reach
  <2> QED BY <2>2, <2>3
<1>4. QueueOK(new, q, k)
  BY <1>1, <1>3 DEF QueueOK
<1> QED BY <1>1, <1>2, <1>3, <1>4 DEF new

\* A replay is what the ring has past the cursor: all of it, in order.
LEMMA MissedRows ==
  ASSUME chan \in ChanSet, RingOK(chan), NEW resume \in Nat
  PROVE  /\ Missed(resume) \in Seq(DeltaSet) /\ Missed(resume) \in Seq(AnyFrame)
         /\ Rising(Missed(resume))
         /\ \A i \in 1..Len(Missed(resume)) :
              /\ resume < Missed(resume)[i].seq
              /\ \E m \in 1..Len(chan.ring) : chan.ring[m] = Missed(resume)[i]
         /\ \A r : HasRow(chan.ring, resume, r) => HasRow(Missed(resume), 0, r)
<1> DEFINE L == Len(chan.ring)
           S == {i \in 1..Len(chan.ring) : chan.ring[i].seq <= resume}
           n == Cardinality(S)
           rest == Missed(resume)
<1>1. /\ chan.ring \in Seq(DeltaSet) /\ L \in Nat
      /\ \A i \in 1..L : chan.ring[i] \in DeltaSet
  BY ElementType DEF ChanSet
<1>2. \A i \in 1..L : chan.ring[i].seq \in Nat
  BY <1>1 DEF DeltaSet
<1>3. IsFiniteSet(S) /\ n \in Nat
  <2>1. IsFiniteSet(1..L)
    BY <1>1, FS_Interval
  <2>2. IsFiniteSet(S)
    BY <2>1, FS_Subset
  <2> QED BY <2>2, FS_CardinalityType
<1>4. ASSUME NEW i \in S
      PROVE  i <= n
  <2>1. 1..i \subseteq S
    <3> SUFFICES ASSUME NEW m \in 1..i, m # i PROVE m \in S
      OBVIOUS
    <3>1. m \in 1..L /\ i \in 1..L /\ m < i
      BY <1>1
    <3>2. chan.ring[m].seq < chan.ring[i].seq
      BY <3>1 DEF RingOK, Rising
    <3>3. chan.ring[m].seq <= resume
      BY <1>2, <3>1, <3>2
    <3> QED BY <3>1, <3>3
  <2>2. i \in Nat /\ i >= 1
    BY <1>1
  <2>3. Cardinality(1..i) = i
    BY <2>2, FS_Interval
  <2>4. Cardinality(1..i) <= Cardinality(S)
    BY <1>3, <2>1, FS_Subset
  <2> QED BY <2>3, <2>4
<1>5. S = 1..n
  <2>1. S \subseteq 1..n
    BY <1>1, <1>4
  <2>2. IsFiniteSet(1..n) /\ Cardinality(1..n) = n
    BY <1>3, FS_Interval
  <2> QED BY <2>1, <2>2, FS_Subset
<1>6. rest = SubSeq(chan.ring, 1 + n, L)
  BY DEF Missed
<1>7. \A i \in 1..L : i > n <=> chan.ring[i].seq > resume
  <2> SUFFICES ASSUME NEW i \in 1..L PROVE i > n <=> chan.ring[i].seq > resume
    OBVIOUS
  <2>1. i \in S <=> i <= n
    BY <1>3, <1>5
  <2>2. i \in S <=> chan.ring[i].seq <= resume
    OBVIOUS
  <2> QED BY <1>2, <1>3, <2>1, <2>2
<1> HIDE DEF n, S, L, rest
<1>8. /\ Len(rest) \in Nat /\ rest \in Seq(DeltaSet)
      /\ \A i \in 1..Len(rest) : i + n \in 1..L /\ rest[i] = chan.ring[i + n]
      /\ \A i \in 1..L : i > n => i - n \in 1..Len(rest) /\ rest[i - n] = chan.ring[i]
  BY <1>1, <1>3, <1>6 DEF L
<1>9. Rising(rest)
  <2> SUFFICES ASSUME NEW i \in 1..Len(rest), NEW m \in 1..Len(rest), i < m
               PROVE  rest[i].seq < rest[m].seq
    BY DEF Rising
  <2>1. i + n \in 1..L /\ m + n \in 1..L /\ i + n < m + n
    BY <1>3, <1>8
  <2>2. chan.ring[i + n].seq < chan.ring[m + n].seq
    BY <2>1 DEF RingOK, Rising, L
  <2> QED BY <1>8, <2>2
<1>10. ASSUME NEW i \in 1..Len(rest)
       PROVE  /\ resume < rest[i].seq
              /\ \E m \in 1..Len(chan.ring) : chan.ring[m] = rest[i]
  <2>1. i + n \in 1..L /\ rest[i] = chan.ring[i + n] /\ i + n > n
    BY <1>3, <1>8
  <2>2. chan.ring[i + n].seq > resume
    BY <1>7, <2>1
  <2> QED BY <1>2, <2>1, <2>2 DEF L
<1>11. ASSUME NEW r, HasRow(chan.ring, resume, r)
       PROVE  HasRow(rest, 0, r)
  <2>1. PICK m \in 1..L : chan.ring[m].t = "delta" /\ chan.ring[m].row = r /\ chan.ring[m].seq > resume
    BY <1>11 DEF HasRow, L
  <2>2. m - n \in 1..Len(rest) /\ rest[m - n] = chan.ring[m]
    BY <1>7, <1>8, <2>1
  <2>3. chan.ring[m].seq > 0
    BY <1>2, <2>1
  <2> QED BY <2>1, <2>2, <2>3 DEF HasRow
<1> QED BY <1>8, <1>9, <1>10, <1>11, FramesMix DEF rest

LEMMA ReplayOK ==
  ASSUME chan \in ChanSet, RingOK(chan), NEW resume \in Nat
  PROVE  QueueOK(chan, Missed(resume), resume)
<1>1. /\ Rising(Missed(resume)) /\ Missed(resume) \in Seq(DeltaSet)
      /\ \A i \in 1..Len(Missed(resume)) :
           /\ resume < Missed(resume)[i].seq
           /\ \E m \in 1..Len(chan.ring) : chan.ring[m] = Missed(resume)[i]
  BY MissedRows
<1>2. \A i \in 1..Len(Missed(resume)) : Missed(resume)[i].t = "delta"
  <2>1. \A i \in 1..Len(Missed(resume)) : Missed(resume)[i] \in DeltaSet
    BY <1>1, ElementType
  <2> QED BY <2>1 DEF DeltaSet
<1> QED BY <1>1, <1>2 DEF QueueOK, RingOK

\* A frame arrives.
LEMMA QueueTail ==
  ASSUME NEW ch, NEW q \in Seq(AnyFrame), q # <<>>, NEW k \in Nat, QueueOK(ch, q, k)
  PROVE  /\ Tail(q) \in Seq(AnyFrame) /\ QueueOK(ch, Tail(q), Head(q).seq)
         /\ Head(q) \in AnyFrame /\ k < Head(q).seq /\ Head(q).seq <= ch.seq
         /\ \A i \in 1..Len(Tail(q)) : i + 1 \in 1..Len(q) /\ Tail(q)[i] = q[i + 1]
         /\ \A i \in 1..Len(q) : i = 1 \/ (i - 1 \in 1..Len(Tail(q)) /\ Tail(q)[i - 1] = q[i])
         /\ \A i \in 1..Len(Tail(q)) : Tail(q)[i].t # "gap"
<1> DEFINE rest == Tail(q)
<1>1. /\ rest \in Seq(AnyFrame) /\ Head(q) = q[1] /\ 1 \in 1..Len(q) /\ Len(q) \in Nat
      /\ Len(rest) = Len(q) - 1
      /\ \A i \in 1..Len(rest) : i + 1 \in 1..Len(q) /\ rest[i] = q[i + 1]
      /\ \A i \in 1..Len(q) : i = 1 \/ (i - 1 \in 1..Len(rest) /\ rest[i - 1] = q[i])
  OBVIOUS
<1> HIDE DEF rest
<1>2. Rising(rest)
  <2> SUFFICES ASSUME NEW i \in 1..Len(rest), NEW m \in 1..Len(rest), i < m
               PROVE  rest[i].seq < rest[m].seq
    BY DEF Rising
  <2>1. i + 1 \in 1..Len(q) /\ m + 1 \in 1..Len(q) /\ i + 1 < m + 1
    BY <1>1
  <2>2. q[i + 1].seq < q[m + 1].seq
    BY <2>1 DEF QueueOK, Rising
  <2> QED BY <1>1, <2>2
<1>3. ASSUME NEW i \in 1..Len(rest)
      PROVE  /\ Head(q).seq < rest[i].seq /\ rest[i].seq <= ch.seq /\ rest[i].t # "gap"
             /\ rest[i].t = "delta" /\ ch.ring # <<>> /\ ch.ring[1].seq <= rest[i].seq
                  => \E m \in 1..Len(ch.ring) : ch.ring[m] = rest[i]
  <2>1. i + 1 \in 1..Len(q) /\ rest[i] = q[i + 1] /\ 1 < i + 1 /\ i + 1 # 1
    BY <1>1
  <2>2. q[1].seq < q[i + 1].seq
    BY <1>1, <2>1 DEF QueueOK, Rising
  <2>3. /\ q[i + 1].seq <= ch.seq /\ (q[i + 1].t = "gap" => i + 1 = 1)
        /\ q[i + 1].t = "delta" /\ ch.ring # <<>> /\ ch.ring[1].seq <= q[i + 1].seq
             => \E m \in 1..Len(ch.ring) : ch.ring[m] = q[i + 1]
    BY <2>1 DEF QueueOK
  <2> QED BY <1>1, <2>1, <2>2, <2>3
<1>4. Head(q) \in AnyFrame
  BY <1>1, ElementType
<1>5. k < Head(q).seq /\ Head(q).seq <= ch.seq
  BY <1>1 DEF QueueOK
<1> QED BY <1>1, <1>2, <1>3, <1>4, <1>5 DEF QueueOK, rest

\* What is lost on its way to a client within reach is in the ring.
LEMMA QueueInRing ==
  ASSUME NEW ch \in ChanSet, NEW q \in Seq(AnyFrame), NEW k \in Nat, k <= ch.seq,
         QueueOK(ch, q, k), Reach(ch, k), NEW r, HasRow(q, 0, r)
  PROVE  HasRow(ch.ring, k, r)
<1>1. PICK i \in 1..Len(q) : q[i].t = "delta" /\ q[i].row = r
  BY DEF HasRow
<1>2. q[i].seq \in Nat /\ ch.seq \in Nat
  <2>1. q[i] \in AnyFrame
    BY ElementType
  <2> QED BY <2>1 DEF AnyFrame, ChanSet
<1>3. k < q[i].seq /\ q[i].seq <= ch.seq
  BY DEF QueueOK
<1>4. ch.ring # <<>>
  BY <1>2, <1>3 DEF Reach
<1>5. ch.ring[1].seq \in Nat
  <2>1. ch.ring \in Seq(DeltaSet)
    BY DEF ChanSet
  <2>2. ch.ring[1] \in DeltaSet
    BY <1>4, <2>1
  <2> QED BY <2>2 DEF DeltaSet
<1>6. ch.ring[1].seq <= q[i].seq
  BY <1>2, <1>3, <1>4, <1>5 DEF Reach
<1>7. PICK m \in 1..Len(ch.ring) : ch.ring[m] = q[i]
  BY <1>1, <1>4, <1>6 DEF QueueOK
<1> QED BY <1>1, <1>2, <1>3, <1>7 DEF HasRow

LEMMA RowsJoin ==
  ASSUME NEW a \in Seq(AnyFrame), NEW b \in Seq(AnyFrame), NEW k, NEW r
  PROVE  HasRow(a, k, r) \/ HasRow(b, k, r) => HasRow(a \o b, k, r)
<1>1. /\ \A i \in 1..Len(a) : i \in 1..Len(a \o b) /\ (a \o b)[i] = a[i]
      /\ \A i \in 1..Len(b) : Len(a) + i \in 1..Len(a \o b) /\ (a \o b)[Len(a) + i] = b[i]
  OBVIOUS
<1> QED BY <1>1 DEF HasRow

LEMMA JoinedParts ==
  ASSUME NEW a \in Seq(AnyFrame), NEW b \in Seq(AnyFrame)
  PROVE  /\ Len(a) \in Nat /\ Len(a \o b) = Len(a) + Len(b)
         /\ \A i \in 1..Len(a) : i \in 1..Len(a \o b) /\ (a \o b)[i] = a[i]
         /\ \A i \in 1..Len(a \o b) :
              i \in 1..Len(a) \/ (i - Len(a) \in 1..Len(b) /\ (a \o b)[i] = b[i - Len(a)])
<1> DEFINE q == a \o b
<1>1. Len(a) \in Nat /\ Len(b) \in Nat /\ Len(q) = Len(a) + Len(b)
  OBVIOUS
<1>2. \A i \in 1..Len(a) : i \in 1..Len(q) /\ q[i] = a[i]
  OBVIOUS
<1>3. \A i \in 1..Len(q) : i \notin 1..Len(a) => i - Len(a) \in 1..Len(b) /\ q[i] = b[i - Len(a)]
  <2> SUFFICES ASSUME NEW i \in 1..Len(q), i \notin 1..Len(a)
               PROVE  i - Len(a) \in 1..Len(b) /\ q[i] = b[i - Len(a)]
    OBVIOUS
  <2>1. i - Len(a) \in 1..Len(b)
    BY <1>1
  <2> QED BY <1>1, <2>1
<1> HIDE DEF q
<1> QED BY <1>1, <1>2, <1>3 DEF q

LEMMA AppendOne ==
  ASSUME NEW q \in Seq(AnyFrame), NEW f \in AnyFrame
  PROVE  q \o <<f>> = Append(q, f)
OBVIOUS

LEMMA AppendJoin ==
  ASSUME NEW a \in Seq(AnyFrame), NEW b \in Seq(AnyFrame), NEW f \in AnyFrame
  PROVE  a \o Append(b, f) = Append(a \o b, f)
OBVIOUS

-----------------------------------------------------------------------------
(* What a client may lack: the invariant *)

\* Each of the first n rows is shown, skipped, or in a delta of q past k.
Covered(n, have, sk, q, k) == \A r \in 1..n : r \in have \/ r \in sk \/ HasRow(q, k, r)

\* Client c, whose state is cl and which the server has not answered: if its cursor is
\* within reach, a replay will bring what it lacks.
LaterOK(c, bl, cl, sk, ch, n) ==
  c \notin bl /\ Reach(ch, cl.cursor) => Covered(n, cl.shown, sk, ch.ring, cl.cursor)

\* Client c that was answered: what it lacks is on its way, in front of it a gap and
\* a snapshot perhaps, and a snapshot leaves nothing open that was published before.
ComingOK(c, bl, cl, sk, q, n) ==
  /\ cl.cursor = 0 => q # <<>> /\ q[1].t = "snapshot"
  /\ c \notin bl /\ cl.cursor # 0 /\ (q = <<>> \/ q[1].t # "gap") => Covered(n, cl.shown, sk, q, 0)
  /\ \A m \in 1..Len(q) : q[m].t = "snapshot" => Covered(n, 1..q[m].row, sk, q, q[m].seq)

ServedBy(jb, c) ==
  client[c].sock # 0 /\ \A j \in Jobs : jb[j].pc = "none" \/ jb[j].sock # client[c].sock

\* The channel ch with the queues nt has the first n rows for client c, and for all.
Fits(c, ch, nt, n, sk, jb) ==
  /\ client[c].cursor <= ch.seq
  /\ client[c].sock # 0 => QueueOK(ch, nt[client[c].sock], client[c].cursor)
  /\ ServedBy(jb, c) => ComingOK(c, blind, client[c], sk[c].rows, nt[client[c].sock], n)
  /\ ~ServedBy(jb, c) => LaterOK(c, blind, client[c], sk[c].rows, ch, n)

Fed(ch, nt, n, sk, jb) == RingOK(ch) /\ \A c \in Clients : Fits(c, ch, nt, n, sk, jb)

\* A client whose subscription is under way has been told of a gap at most.
Asking ==
  \A c \in Clients, j \in Jobs :
    client[c].sock # 0 /\ job[j].pc # "none" /\ job[j].sock = client[c].sock =>
      LET q == net[client[c].sock] IN
      /\ job[j].pc = "resolving" => q = <<>> /\ job[j].resume = client[c].cursor
      /\ job[j].pc # "resolving" =>
           \/ q = <<>> /\ (client[c].cursor = 0 \/ c \in blind)
           \/ Len(q) = 1 /\ q[1].t = "gap" /\ client[c].cursor # 0

\* With a harness a subscription or a batch is alone; the ring is the tail's; nobody
\* has left the page; and no frame waits on a socket without a client.
OneByOne ==
  /\ batch.gone = 0
  /\ \A j, k \in Jobs : job[j].pc # "none" /\ job[k].pc # "none" => j = k
  /\ (\E j \in Jobs : job[j].pc # "none") => batch.live = 0
  /\ chan.ring # <<>> => tail.on
  /\ ~tail.on => tail.cursor = 0
  /\ \A c \in Clients : client[c].wants
  /\ \A s \in Sockets : ClientOf(s) = {} => net[s] = <<>>

HoleInv == OneByOne /\ Asking /\ Fed(chan, net, tail.cursor, skip, job)

LEMMA InvImpliesHoles == LiveInv /\ (Plain => HoleInv) => HolesAreSkips
<1> SUFFICES ASSUME LiveInv, Plain, HoleInv, NEW c \in Clients, Attached(c),
                    net[client[c].sock] = <<>>, c \notin blind
             PROVE  Missing(c) \subseteq skip[c].rows
  BY DEF HolesAreSkips
<1>1. ServedBy(job, c) /\ client[c].sock # 0
  BY DEF Attached, ServedBy
<1>2. ComingOK(c, blind, client[c], skip[c].rows, <<>>, tail.cursor)
  <2>1. Fits(c, chan, net, tail.cursor, skip, job)
    BY DEF HoleInv, Fed
  <2>2. ComingOK(c, blind, client[c], skip[c].rows, net[client[c].sock], tail.cursor)
    BY <1>1, <2>1 DEF Fits
  <2> QED BY <2>2
<1>3. Covered(tail.cursor, client[c].shown, skip[c].rows, <<>>, 0)
  <2>1. client[c].cursor # 0
    BY <1>2 DEF ComingOK
  <2> QED BY <1>2, <2>1 DEF ComingOK
<1>4. \A r : ~HasRow(<<>>, 0, r)
  BY DEF HasRow
<1> QED BY <1>3, <1>4 DEF Covered, Missing

LEMMA InitHoles == Init => HoleInv
<1> SUFFICES ASSUME Init PROVE HoleInv
  OBVIOUS
<1>1. OneByOne /\ Asking
  BY DEF Init, OneByOne, Asking, NoTail, NoJob
<1>2. /\ chan.ring = <<>> /\ chan.seq = 0 /\ tail.cursor = 0
      /\ \A c \in Clients : client[c].sock = 0 /\ client[c].cursor = 0
  BY DEF Init, NoTail
<1>3. RingOK(chan)
  BY <1>2 DEF RingOK, Rising
<1>4. \A c \in Clients : ~ServedBy(job, c) /\ ~Reach(chan, client[c].cursor)
  BY <1>2 DEF ServedBy, Reach
<1> QED BY <1>1, <1>2, <1>3, <1>4 DEF HoleInv, Fed, Fits, LaterOK

-----------------------------------------------------------------------------
(* What a client may lack: frames *)

\* What the lemmas below need of the clients, and of the sockets they have.
LEMMA ClientTypes ==
  ASSUME LiveInv, NEW c \in Clients
  PROVE  /\ client[c].cursor \in Nat /\ client[c].sock \in 0..MaxSockets
         /\ client[c].sock # 0 => /\ client[c].sock \in Sockets /\ client[c].sock \in open
                                  /\ ClientOf(client[c].sock) = {c}
         /\ client[c].sock # 0 /\ client[c].wants => client[c].sock \in subd
<1>1. client[c] \in ClientSet
  BY DEF LiveInv, TypesOK
<1>2. client[c].cursor \in Nat /\ client[c].sock \in 0..MaxSockets
  BY <1>1 DEF ClientSet
<1>3. client[c].sock # 0 => /\ client[c].sock \in Sockets /\ client[c].sock \in open
                            /\ ClientOf(client[c].sock) = {c}
  BY DEF LiveInv, TypesOK, Owners, ClientOf
<1>4. client[c].sock # 0 /\ client[c].wants => client[c].sock \in subd
  BY DEF LiveInv, Owners
<1> QED BY <1>2, <1>3, <1>4

\* Deltas for everybody.
LEMMA LaterEmits ==
  ASSUME NEW ch \in ChanSet, RingOK(ch), NEW rows \in Seq(Nat), rows # <<>>,
         NEW cl, cl.cursor \in Nat, cl.cursor <= ch.seq, NEW c, NEW bl, NEW sk, NEW n, NEW n2,
         LaterOK(c, bl, cl, sk, ch, n),
         \A r \in 1..n2 : r \in 1..n \/ \E i \in 1..Len(rows) : rows[i] = r
  PROVE  LaterOK(c, bl, cl, sk, Remember(ch, rows), n2)
<1> SUFFICES ASSUME c \notin bl, Reach(Remember(ch, rows), cl.cursor)
             PROVE  Covered(n2, cl.shown, sk, Remember(ch, rows).ring, cl.cursor)
  BY DEF LaterOK
<1>1. Reach(ch, cl.cursor)
  BY ReachBack
<1>2. Covered(n, cl.shown, sk, ch.ring, cl.cursor)
  BY <1>1 DEF LaterOK
<1>3. /\ \A r : HasRow(ch.ring, cl.cursor, r) => HasRow(Remember(ch, rows).ring, cl.cursor, r)
      /\ \A i \in 1..Len(rows) : HasRow(Remember(ch, rows).ring, cl.cursor, rows[i])
  BY RowsStay
<1> QED BY <1>2, <1>3 DEF Covered

LEMMA ComingEmits ==
  ASSUME NEW ch \in ChanSet, NEW rows \in Seq(Nat), NEW q \in Seq(AnyFrame),
         NEW cl, NEW c, NEW bl, NEW sk, NEW n, NEW n2, NEW k, QueueOK(ch, q, k),
         ComingOK(c, bl, cl, sk, q, n),
         \A r \in 1..n2 : r \in 1..n \/ \E i \in 1..Len(rows) : rows[i] = r
  PROVE  ComingOK(c, bl, cl, sk, q \o Deltas(ch, rows), n2)
<1> DEFINE d == Deltas(ch, rows)
           all == q \o d
<1>1. /\ d \in Seq(AnyFrame) /\ Len(d) = Len(rows) /\ ch.seq \in Nat
      /\ \A i \in 1..Len(rows) : ch.seq < d[i].seq /\ d[i].t = "delta" /\ d[i].row = rows[i]
  BY DeltasRise DEF ChanSet
<1> HIDE DEF d
<1>2. /\ Len(q) \in Nat /\ Len(all) = Len(q) + Len(d)
      /\ \A i \in 1..Len(q) : i \in 1..Len(all) /\ all[i] = q[i]
      /\ \A i \in 1..Len(all) : \/ i \in 1..Len(q)
                                \/ \E m \in 1..Len(d) : all[i] = d[m]
      /\ q # <<>> => all # <<>> /\ all[1] = q[1] /\ 1 \in 1..Len(q)
  <2>1. /\ Len(q) \in Nat /\ Len(all) = Len(q) + Len(d)
        /\ \A i \in 1..Len(q) : i \in 1..Len(all) /\ all[i] = q[i]
        /\ \A i \in 1..Len(all) : i \in 1..Len(q) \/ (i - Len(q) \in 1..Len(d) /\ all[i] = d[i - Len(q)])
    BY <1>1, JoinedParts
  <2>2. q # <<>> => 1 \in 1..Len(q)
    OBVIOUS
  <2>3. 1 \in 1..Len(q) => all # <<>>
    BY <2>1
  <2> HIDE DEF all
  <2> QED BY <2>1, <2>2, <2>3
<1>3. \A kk, r : HasRow(q, kk, r) \/ HasRow(d, kk, r) => HasRow(all, kk, r)
  BY <1>1, RowsJoin
<1> HIDE DEF all
<1>4. ASSUME NEW i \in 1..Len(rows), NEW kk \in Nat, kk <= ch.seq
      PROVE  HasRow(all, kk, rows[i])
  <2>1. d[i].seq \in Nat
    <3>1. d[i] \in AnyFrame
      BY <1>1, ElementType
    <3> QED BY <3>1 DEF AnyFrame
  <2>2. d[i].t = "delta" /\ d[i].row = rows[i] /\ d[i].seq > kk
    BY <1>1, <1>4, <2>1
  <2>3. HasRow(d, kk, rows[i])
    BY <1>1, <2>2 DEF HasRow
  <2> QED BY <1>3, <2>3
<1>5. ASSUME NEW have, NEW kk \in Nat, kk <= ch.seq, Covered(n, have, sk, q, kk)
      PROVE  Covered(n2, have, sk, all, kk)
  BY <1>3, <1>4, <1>5 DEF Covered
<1>6. cl.cursor = 0 => all # <<>> /\ all[1].t = "snapshot"
  BY <1>2 DEF ComingOK
<1>7. ASSUME c \notin bl, cl.cursor # 0, all = <<>> \/ all[1].t # "gap"
      PROVE  Covered(n2, cl.shown, sk, all, 0)
  <2>1. q = <<>> \/ q[1].t # "gap"
    BY <1>2, <1>7
  <2>2. Covered(n, cl.shown, sk, q, 0)
    BY <1>7, <2>1 DEF ComingOK
  <2>3. 0 \in Nat /\ 0 <= ch.seq
    BY <1>1
  <2> QED BY <1>5, <2>2, <2>3
<1>8. ASSUME NEW m \in 1..Len(all), all[m].t = "snapshot"
      PROVE  Covered(n2, 1..all[m].row, sk, all, all[m].seq)
  <2>1. m \in 1..Len(q) /\ all[m] = q[m]
    BY <1>1, <1>2, <1>8
  <2>2. q[m].seq \in Nat
    <3>1. q[m] \in AnyFrame
      BY <2>1, ElementType
    <3> QED BY <3>1 DEF AnyFrame
  <2>3. Covered(n, 1..q[m].row, sk, q, q[m].seq) /\ q[m].seq <= ch.seq
    BY <1>8, <2>1 DEF ComingOK, QueueOK
  <2> QED BY <1>5, <2>1, <2>2, <2>3
<1> QED BY <1>6, <1>7, <1>8 DEF ComingOK, all, d

\* One more frame that is no delta: a snapshot of all that was published, or an answer.
LEMMA ComingSends ==
  ASSUME NEW q \in Seq(AnyFrame), NEW cl, NEW c, NEW bl, NEW sk, NEW n \in Nat,
         ComingOK(c, bl, cl, sk, q, n), NEW f \in AnyFrame,
         f.t = "resumed" \/ (f.t = "snapshot" /\ n <= f.row)
  PROVE  ComingOK(c, bl, cl, sk, Append(q, f), n)
<1> DEFINE all == Append(q, f)
<1>1. /\ Len(q) \in Nat /\ Len(all) = Len(q) + 1 /\ all[Len(q) + 1] = f
      /\ \A i \in 1..Len(q) : i \in 1..Len(all) /\ all[i] = q[i]
      /\ \A i \in 1..Len(all) : i \in 1..Len(q) \/ i = Len(q) + 1
      /\ q # <<>> => all # <<>> /\ all[1] = q[1] /\ 1 \in 1..Len(q)
  OBVIOUS
<1> HIDE DEF all
<1>2. \A kk, r : HasRow(q, kk, r) => HasRow(all, kk, r)
  BY <1>1 DEF HasRow
<1>3. \A have, kk : Covered(n, have, sk, q, kk) => Covered(n, have, sk, all, kk)
  BY <1>2 DEF Covered
<1>4. cl.cursor = 0 => all # <<>> /\ all[1].t = "snapshot"
  BY <1>1 DEF ComingOK
<1>5. ASSUME c \notin bl, cl.cursor # 0, all = <<>> \/ all[1].t # "gap"
      PROVE  Covered(n, cl.shown, sk, all, 0)
  <2>1. q = <<>> \/ q[1].t # "gap"
    BY <1>1, <1>5
  <2>2. Covered(n, cl.shown, sk, q, 0)
    BY <1>5, <2>1 DEF ComingOK
  <2> QED BY <1>3, <2>2
<1>6. ASSUME NEW m \in 1..Len(all), all[m].t = "snapshot"
      PROVE  Covered(n, 1..all[m].row, sk, all, all[m].seq)
  <2>1. CASE m \in 1..Len(q)
    <3>1. all[m] = q[m] /\ Covered(n, 1..q[m].row, sk, q, q[m].seq)
      BY <1>1, <1>6, <2>1 DEF ComingOK
    <3> QED BY <1>3, <3>1
  <2>2. CASE m = Len(q) + 1
    <3>1. n <= all[m].row /\ all[m].row \in Nat
      BY <1>1, <1>6, <2>2 DEF AnyFrame
    <3> QED BY <3>1 DEF Covered
  <2> QED BY <1>1, <2>1, <2>2
<1> QED BY <1>4, <1>5, <1>6 DEF ComingOK, all


\* A client of a channel that publishes.
LEMMA FitsEmits ==
  ASSUME LiveInv, NEW c \in Clients, NEW ch \in ChanSet, RingOK(ch),
         NEW nt \in [Sockets -> Seq(AnyFrame)], NEW rows \in Seq(Nat), rows # <<>>, NEW nu,
         client[c].sock # 0 => nu[client[c].sock] = nt[client[c].sock] \o Deltas(ch, rows),
         NEW n, NEW n2, NEW sk, NEW jb, Fits(c, ch, nt, n, sk, jb),
         \A r \in 1..n2 : r \in 1..n \/ \E i \in 1..Len(rows) : rows[i] = r
  PROVE  Fits(c, Remember(ch, rows), nu, n2, sk, jb)
<1> DEFINE new == Remember(ch, rows)
           cl == client[c]
           q == nt[client[c].sock]
<1>1. new \in ChanSet /\ new.seq = ch.seq + Len(rows) /\ ch.seq \in Nat /\ Len(rows) \in Nat
  BY RememberKeeps DEF ChanSet
<1>2. /\ cl.cursor \in Nat /\ cl.cursor <= ch.seq
      /\ cl.sock # 0 => QueueOK(ch, q, cl.cursor) /\ q \in Seq(AnyFrame)
  BY ClientTypes DEF Fits
<1>3. cl.cursor <= new.seq
  BY <1>1, <1>2
<1>4. ASSUME cl.sock # 0 PROVE QueueOK(new, nu[cl.sock], cl.cursor)
  <2>1. QueueOK(new, q \o Deltas(ch, rows), cl.cursor)
    BY <1>2, <1>4, QueueEmits
  <2> QED BY <1>4, <2>1
<1>5. ASSUME ServedBy(jb, c) PROVE ComingOK(c, blind, cl, sk[c].rows, nu[cl.sock], n2)
  <2>1. cl.sock # 0 /\ ComingOK(c, blind, cl, sk[c].rows, q, n)
    BY <1>5 DEF Fits, ServedBy
  <2>2. q \in Seq(AnyFrame) /\ QueueOK(ch, q, cl.cursor)
    BY <1>2, <2>1
  <2> HIDE DEF q, cl
  <2>3. ComingOK(c, blind, cl, sk[c].rows, q \o Deltas(ch, rows), n2)
    BY <2>1, <2>2, ComingEmits
  <2> QED BY <2>1, <2>3 DEF q, cl
<1>6. ASSUME ~ServedBy(jb, c) PROVE LaterOK(c, blind, cl, sk[c].rows, new, n2)
  <2>1. LaterOK(c, blind, cl, sk[c].rows, ch, n)
    BY <1>6 DEF Fits
  <2> HIDE DEF cl
  <2> QED BY <1>2, <2>1, LaterEmits
<1> QED BY <1>3, <1>4, <1>5, <1>6 DEF Fits

\* A channel that has the rows for every client has them when it publishes more.
LEMMA FedEmits ==
  ASSUME LiveInv, \A c \in Clients : client[c].wants,
         NEW ch \in ChanSet, NEW nt \in [Sockets -> Seq(AnyFrame)],
         NEW n, NEW n2, NEW sk, NEW jb, Fed(ch, nt, n, sk, jb),
         NEW rows \in Seq(Nat), rows # <<>>,
         \A r \in 1..n2 : r \in 1..n \/ \E i \in 1..Len(rows) : rows[i] = r
  PROVE  Fed(Remember(ch, rows), ToSockets(nt, subd, Deltas(ch, rows)), n2, sk, jb)
<1>1. RingOK(Remember(ch, rows)) /\ RingOK(ch)
  BY RememberKeeps DEF Fed
<1>2. ASSUME NEW c \in Clients
      PROVE  Fits(c, Remember(ch, rows), ToSockets(nt, subd, Deltas(ch, rows)), n2, sk, jb)
  <2>1. client[c].sock # 0 =>
          ToSockets(nt, subd, Deltas(ch, rows))[client[c].sock] = nt[client[c].sock] \o Deltas(ch, rows)
    BY ClientTypes DEF ToSockets
  <2>2. Fits(c, ch, nt, n, sk, jb)
    BY DEF Fed
  <2> QED BY <1>1, <2>1, <2>2, FitsEmits
<1> QED BY <1>1, <1>2 DEF Fed

\* A client of a channel that stamps one frame which is no delta, sent to it or not.
LEMMA FitsBumps ==
  ASSUME LiveInv, NEW c \in Clients, NEW ch \in ChanSet, RingOK(ch),
         NEW nt \in [Sockets -> Seq(AnyFrame)], NEW f \in AnyFrame, f.seq = ch.seq + 1,
         NEW n \in Nat, NEW sk, NEW jb, Fits(c, ch, nt, n, sk, jb), NEW nu,
         client[c].sock # 0 =>
            \/ nu[client[c].sock] = nt[client[c].sock]
            \/ /\ nu[client[c].sock] = Append(nt[client[c].sock], f)
               /\ f.t = "resumed" \/ (f.t = "snapshot" /\ n <= f.row)
  PROVE  Fits(c, Bump(ch), nu, n, sk, jb)
<1> DEFINE cl == client[c]
           q == nt[client[c].sock]
           g == IF f.t = "resumed" \/ f.t = "snapshot" THEN f ELSE [f EXCEPT !.t = "resumed"]
<1>1. /\ cl.cursor \in Nat /\ cl.cursor <= ch.seq
      /\ cl.sock # 0 => QueueOK(ch, q, cl.cursor) /\ q \in Seq(AnyFrame)
  BY ClientTypes DEF Fits
<1>2. Bump(ch) \in ChanSet /\ Bump(ch).seq = ch.seq + 1 /\ Bump(ch).ring = ch.ring /\ ch.seq \in Nat
  BY DEF Bump, ChanSet
<1>3. cl.cursor <= Bump(ch).seq
  BY <1>1, <1>2
<1>4. g \in AnyFrame /\ g.seq = ch.seq + 1 /\ g.t # "delta" /\ g.t # "gap"
      /\ (f.t = "resumed" \/ f.t = "snapshot" => g = f)
  BY DEF AnyFrame
<1> HIDE DEF g
<1>5. ASSUME cl.sock # 0 PROVE QueueOK(Bump(ch), nu[cl.sock], cl.cursor)
  <2>1. q \in Seq(AnyFrame) /\ QueueOK(ch, q, cl.cursor)
    BY <1>1, <1>5
  <2> HIDE DEF q, cl
  <2>2. QueueOK(Bump(ch), q, cl.cursor) /\ QueueOK(Bump(ch), Append(q, g), cl.cursor)
    BY <1>1, <1>4, <2>1, QueueBumps
  <2>3. nu[cl.sock] = q \/ nu[cl.sock] = Append(q, g)
    BY <1>4, <1>5 DEF q, cl
  <2> QED BY <2>2, <2>3
<1>6. ASSUME ServedBy(jb, c) PROVE ComingOK(c, blind, cl, sk[c].rows, nu[cl.sock], n)
  <2>1. cl.sock # 0 /\ ComingOK(c, blind, cl, sk[c].rows, q, n)
    BY <1>6 DEF Fits, ServedBy
  <2>2. q \in Seq(AnyFrame)
    BY <1>1, <2>1
  <2>3. CASE nu[cl.sock] = q
    BY <2>1, <2>3
  <2>4. CASE nu[cl.sock] = Append(q, f) /\ (f.t = "resumed" \/ (f.t = "snapshot" /\ n <= f.row))
    <3> HIDE DEF q, cl
    <3>1. ComingOK(c, blind, cl, sk[c].rows, Append(q, f), n)
      BY <2>1, <2>2, <2>4, ComingSends
    <3> QED BY <2>4, <3>1
  <2> QED BY <2>1, <2>3, <2>4
<1>7. ASSUME ~ServedBy(jb, c) PROVE LaterOK(c, blind, cl, sk[c].rows, Bump(ch), n)
  <2>1. LaterOK(c, blind, cl, sk[c].rows, ch, n)
    BY <1>7 DEF Fits
  <2> HIDE DEF cl
  <2>2. Reach(Bump(ch), cl.cursor) => Reach(ch, cl.cursor)
    BY <1>1, <1>2 DEF Reach
  <2> QED BY <1>2, <2>1, <2>2 DEF LaterOK
<1> QED BY <1>3, <1>5, <1>6, <1>7 DEF Fits

LEMMA BumpKeeps ==
  ASSUME NEW ch \in ChanSet, RingOK(ch)
  PROVE  Bump(ch) \in ChanSet /\ RingOK(Bump(ch)) /\ Bump(ch).ring = ch.ring /\ Bump(ch).seq = ch.seq + 1
<1>1. Bump(ch) \in ChanSet /\ Bump(ch).seq = ch.seq + 1 /\ Bump(ch).ring = ch.ring /\ ch.seq \in Nat
  BY DEF Bump, ChanSet
<1>2. \A i \in 1..Len(ch.ring) : ch.ring[i].seq \in Nat
  <2>1. \A i \in 1..Len(ch.ring) : ch.ring[i] \in DeltaSet
    BY ElementType DEF ChanSet
  <2> QED BY <2>1 DEF DeltaSet
<1> QED BY <1>1, <1>2 DEF RingOK

\* What the steps start from.
LEMMA HoleTypes ==
  ASSUME LiveInv, Plain, HoleInv
  PROVE  /\ chan \in ChanSet /\ RingOK(chan) /\ net \in [Sockets -> Seq(AnyFrame)]
         /\ tail.cursor \in Nat /\ wrote \in Nat /\ tail.cursor <= wrote /\ tail \in TailSet
         /\ mode.harness /\ (\A c \in Clients : client[c].wants)
         /\ job \in [Jobs -> JobSet] /\ batch \in BatchSet
         /\ Fed(chan, net, tail.cursor, skip, job) /\ OneByOne /\ Asking
<1>1. chan \in ChanSet /\ net \in [Sockets -> Seq(AnyFrame)]
  BY DEF LiveInv, RowsWritten, ChanOK, NetOK
<1>2. tail.cursor \in Nat /\ wrote \in Nat /\ tail.cursor <= wrote /\ tail \in TailSet
      /\ job \in [Jobs -> JobSet] /\ batch \in BatchSet
  BY DEF LiveInv, TypesOK, RowsWritten, TailSet
<1> QED BY <1>1, <1>2 DEF HoleInv, OneByOne, Fed, Plain

\* Fed is about the clients as they are.
LEMMA FedNext ==
  ASSUME UNCHANGED <<client, blind>>, Fed(chan', net', tail'.cursor, skip', job')
  PROVE  Fed(chan, net, tail.cursor, skip, job)'
BY DEF Fed, Fits, ServedBy

-----------------------------------------------------------------------------
(* What a client may lack: the steps of the server *)

\* The agent writes; nothing is published.
LEMMA HoleQuiet ==
  ASSUME HoleInv, UNCHANGED <<server, net, client, skip, blind>> PROVE HoleInv'
<1>1. OneByOne' /\ Asking'
  BY DEF HoleInv, OneByOne, Asking, server, ClientOf
<1>2. Fed(chan, net, tail.cursor, skip, job)'
  BY DEF HoleInv, Fed, Fits, ServedBy, server
<1> QED BY <1>1, <1>2 DEF HoleInv

LEMMA HoleAgent ==
  ASSUME LiveInv, Plain, HoleInv, AgentStartsTurn \/ AgentEndsTurn \/ AgentWrites PROVE HoleInv'
<1>1. UNCHANGED <<server, net, client, skip, blind>>
  BY DEF AgentStartsTurn, AgentEndsTurn, AgentWrites, Plain, server
<1> QED BY <1>1, HoleQuiet

\* Nothing is sent to a socket without a client.
LEMMA ToNobody ==
  ASSUME NEW nt, NEW s \in Sockets, ClientOf(s) = {}, NEW socks, NEW frames
  PROVE  ToSockets(nt, socks, frames)[s] = nt[s]
BY DEF ToSockets

\* The tail publishes: what is past its cursor, or a delta without a row.
LEMMA HolePublish ==
  ASSUME LiveInv, Plain, HoleInv, Calm, tail.on, tail'.on, NEW rows \in Seq(Nat), rows # <<>>, Publish(rows),
         \A r \in 1..tail'.cursor : r \in 1..tail.cursor \/ \E i \in 1..Len(rows) : rows[i] = r,
         batch'.gone = batch.gone,
         UNCHANGED <<open, subd, job, client, skip, blind>>
  PROVE  HoleInv'
<1>1. /\ chan \in ChanSet /\ RingOK(chan) /\ net \in [Sockets -> Seq(AnyFrame)]
      /\ tail.cursor \in Nat /\ mode.harness /\ (\A c \in Clients : client[c].wants)
      /\ Fed(chan, net, tail.cursor, skip, job) /\ OneByOne
  BY HoleTypes
<1>2. Fed(chan', net', tail'.cursor, skip, job)
  BY <1>1, FedEmits DEF Publish
<1>3. Fed(chan, net, tail.cursor, skip, job)'
  BY <1>2, FedNext
<1>4. \A j \in Jobs : job'[j].pc = "none"
  BY <1>1 DEF Calm
<1>5. Asking'
  BY <1>4 DEF Asking
<1>6. \A s \in Sockets : ClientOf(s)' = {} => net'[s] = <<>>
  <2> SUFFICES ASSUME NEW s \in Sockets, ClientOf(s)' = {} PROVE net'[s] = <<>>
    OBVIOUS
  <2>1. ClientOf(s) = {}
    BY DEF ClientOf
  <2> QED BY <1>1, <2>1, ToNobody DEF Publish, OneByOne
<1>7. OneByOne'
  BY <1>1, <1>4, <1>6 DEF OneByOne
<1> QED BY <1>3, <1>5, <1>7 DEF HoleInv

LEMMA HolePolls ==
  ASSUME LiveInv, Plain, HoleInv, PollTranscript \/ PollState \/ Chatter PROVE HoleInv'
<1>1. tail \in TailSet /\ tail.cursor \in Nat /\ wrote \in Nat /\ OneByOne
  BY HoleTypes
<1>2. CASE PollTranscript
  <2> DEFINE rows == [i \in 1..(wrote - tail.cursor) |-> tail.cursor + i]
  <2>1. /\ Calm /\ tail.on /\ tail.cursor < wrote /\ Publish(rows)
        /\ tail' = [tail EXCEPT !.cursor = wrote]
        /\ UNCHANGED <<batch, open, subd, job, client, skip, blind>>
    BY <1>2 DEF PollTranscript
  <2>2. tail'.on /\ tail'.cursor = wrote
    BY <1>1, <2>1 DEF TailSet
  <2>3. rows \in Seq(Nat) /\ rows # <<>> /\ Len(rows) = wrote - tail.cursor
    <3>1. wrote - tail.cursor \in Nat /\ wrote - tail.cursor # 0
      BY <1>1, <2>1
    <3>2. \A i \in 1..(wrote - tail.cursor) : tail.cursor + i \in Nat
      BY <1>1
    <3>3. rows \in Seq(Nat) /\ Len(rows) = wrote - tail.cursor
      BY <3>1, <3>2
    <3> HIDE DEF rows
    <3> QED BY <3>1, <3>3
  <2>4. \A r \in 1..wrote : r \in 1..tail.cursor \/ \E i \in 1..Len(rows) : rows[i] = r
    <3> SUFFICES ASSUME NEW r \in 1..wrote, r \notin 1..tail.cursor
                 PROVE  \E i \in 1..Len(rows) : rows[i] = r
      OBVIOUS
    <3>1. r - tail.cursor \in 1..(wrote - tail.cursor)
      BY <1>1
    <3>2. rows[r - tail.cursor] = r
      BY <1>1, <3>1
    <3> QED BY <2>3, <3>1, <3>2
  <2> HIDE DEF rows
  <2> QED BY <2>1, <2>2, <2>3, <2>4, HolePublish
<1>3. CASE PollState \/ Chatter
  <2>1. /\ Calm /\ tail.on /\ Publish(<<Rowless>>)
        /\ tail'.on /\ tail'.cursor = tail.cursor
        /\ UNCHANGED <<open, subd, job, client, skip, blind>>
    BY <1>1, <1>3 DEF PollState, Chatter, TailSet
  <2>2. batch'.gone = batch.gone
    <3>1. batch \in BatchSet
      BY HoleTypes
    <3>2. batch' = batch \/ batch' = [batch EXCEPT !.live = @ + 1]
      BY <1>3 DEF PollState, Chatter
    <3> QED BY <3>1, <3>2 DEF BatchSet
  <2>3. <<Rowless>> \in Seq(Nat) /\ <<Rowless>> # <<>>
    BY DEF Rowless
  <2>4. \A r \in 1..tail'.cursor : r \in 1..tail.cursor \/ \E i \in 1..Len(<<Rowless>>) : <<Rowless>>[i] = r
    BY <2>1
  <2> QED BY <2>1, <2>2, <2>3, <2>4, HolePublish
<1> QED BY <1>2, <1>3

\* A batch is a snapshot of every row.
LEMMA HoleBatch == ASSUME LiveInv, Plain, HoleInv, SendBatch PROVE HoleInv'
<1>1. /\ chan \in ChanSet /\ RingOK(chan) /\ net \in [Sockets -> Seq(AnyFrame)]
      /\ tail.cursor \in Nat /\ wrote \in Nat /\ tail.cursor <= wrote /\ batch \in BatchSet
      /\ Fed(chan, net, tail.cursor, skip, job) /\ OneByOne
  BY HoleTypes
<1> DEFINE f == Frame("snapshot", chan.seq + 1, wrote)
<1>2. /\ batch.live > 0 /\ batch'.gone = 0 /\ chan' = Bump(chan)
      /\ net' = ToSockets(net, tail.socks \cap subd, <<f>>)
      /\ UNCHANGED <<tail, open, subd, job, client, skip, blind>>
  BY <1>1 DEF SendBatch, OneByOne, BatchSet, Bump
<1>3. f \in AnyFrame /\ f.seq = chan.seq + 1 /\ f.t = "snapshot" /\ tail.cursor <= f.row
  BY <1>1 DEF Frame, AnyFrame, ChanSet
<1> HIDE DEF f
<1>4. \A j \in Jobs : job[j].pc = "none"
  <2>1. batch.live # 0
    BY <1>1, <1>2 DEF BatchSet
  <2> QED BY <1>1, <2>1 DEF OneByOne
<1>5. Fed(chan', net', tail.cursor, skip, job)
  <2>1. RingOK(chan') /\ chan'.ring = chan.ring
    BY <1>1, <1>2, BumpKeeps
  <2>2. ASSUME NEW c \in Clients PROVE Fits(c, Bump(chan), net', tail.cursor, skip, job)
    <3>1. client[c].sock # 0 => \/ net'[client[c].sock] = net[client[c].sock]
                                \/ net'[client[c].sock] = Append(net[client[c].sock], f)
      <4> SUFFICES ASSUME client[c].sock # 0
                   PROVE  \/ net'[client[c].sock] = net[client[c].sock]
                          \/ net'[client[c].sock] = Append(net[client[c].sock], f)
        OBVIOUS
      <4>1. client[c].sock \in Sockets
        BY ClientTypes
      <4>2. net[client[c].sock] \in Seq(AnyFrame)
        BY <1>1, <4>1
      <4>3. net[client[c].sock] \o <<f>> = Append(net[client[c].sock], f)
        BY <1>3, <4>2
      <4> QED BY <1>2, <4>1, <4>3 DEF ToSockets
    <3>2. Fits(c, chan, net, tail.cursor, skip, job)
      BY <1>1 DEF Fed
    <3> QED BY <1>1, <1>3, <3>1, <3>2, FitsBumps
  <2> QED BY <1>2, <2>1, <2>2 DEF Fed
<1>6. Fed(chan, net, tail.cursor, skip, job)'
  BY <1>2, <1>5, FedNext
<1>7. Asking'
  BY <1>2, <1>4 DEF Asking
<1>8. \A s \in Sockets : ClientOf(s)' = {} => net'[s] = <<>>
  <2> SUFFICES ASSUME NEW s \in Sockets, ClientOf(s)' = {} PROVE net'[s] = <<>>
    OBVIOUS
  <2>1. ClientOf(s) = {}
    BY <1>2 DEF ClientOf
  <2> QED BY <1>1, <1>2, <2>1, ToNobody DEF OneByOne
<1>9. OneByOne'
  <2>1. chan'.ring = chan.ring
    BY <1>1, <1>2, BumpKeeps
  <2> QED BY <1>1, <1>2, <1>4, <1>8, <2>1 DEF OneByOne
<1> QED BY <1>6, <1>7, <1>9 DEF HoleInv

-----------------------------------------------------------------------------
(* What a client may lack: subscriptions *)

\* A socket joins the tail, which may be a new one.
LEMMA HoleJoin ==
  ASSUME LiveInv, Plain, HoleInv, NEW s \in Sockets, NEW ch \in ChanSet,
         NEW nt \in [Sockets -> Seq(AnyFrame)], Join(s, ch, nt),
         Fed(ch, nt, tail'.cursor, skip', job'),
         \A t \in Sockets : ClientOf(t) = {} => nt[t] = <<>>,
         \A j \in Jobs : job'[j].pc = "none",
         UNCHANGED <<client, blind, open, subd>>
  PROVE  HoleInv'
<1>1. tail \in TailSet /\ batch \in BatchSet /\ wrote \in Nat /\ OneByOne
      /\ \A c \in Clients : client[c].wants
  BY HoleTypes
<1>2. /\ tail'.on
      /\ \/ chan' = ch /\ net' = nt
         \/ /\ chan' = Remember(ch, <<Rowless>>)
            /\ net' = ToSockets(nt, subd, Deltas(ch, <<Rowless>>))
  <2> DEFINE t == IF tail.on THEN tail ELSE [NoTail EXCEPT !.on = TRUE, !.cursor = wrote]
  <2>1. t \in TailSet /\ t.on
    BY <1>1 DEF TailSet, NoTail, Looks
  <2>2. PICK look \in Seen(t) :
          /\ tail' = [t EXCEPT !.socks = @ \cup {s}, !.look = look]
          /\ \/ chan' = ch /\ net' = nt
             \/ /\ chan' = Remember(ch, <<Rowless>>)
                /\ net' = ToSockets(nt, subd, Deltas(ch, <<Rowless>>))
    BY DEF Join
  <2> HIDE DEF t
  <2> QED BY <2>1, <2>2 DEF TailSet
<1>3. batch'.gone = batch.gone
  <2>1. batch' = batch \/ batch' = [batch EXCEPT !.live = @ + 1]
    BY DEF Join
  <2> QED BY <1>1, <2>1 DEF BatchSet
<1>4. Fed(chan', net', tail'.cursor, skip', job')
  <2>1. <<Rowless>> \in Seq(Nat) /\ <<Rowless>> # <<>>
    BY DEF Rowless
  <2>2. CASE /\ chan' = Remember(ch, <<Rowless>>)
             /\ net' = ToSockets(nt, subd, Deltas(ch, <<Rowless>>))
    BY <1>1, <2>1, <2>2, FedEmits
  <2> QED BY <1>2, <2>2
<1>5. Fed(chan, net, tail.cursor, skip, job)'
  BY <1>4, FedNext
<1>6. \A t \in Sockets : ClientOf(t)' = {} => net'[t] = <<>>
  <2> SUFFICES ASSUME NEW t \in Sockets, ClientOf(t)' = {} PROVE net'[t] = <<>>
    OBVIOUS
  <2>1. ClientOf(t) = {}
    BY DEF ClientOf
  <2> QED BY <1>2, <2>1, ToNobody
<1>7. OneByOne'
  BY <1>1, <1>2, <1>3, <1>6 DEF OneByOne
<1>8. Asking'
  BY DEF Asking
<1> QED BY <1>5, <1>7, <1>8 DEF HoleInv

\* Of the clients with a socket, those that wait are those of the one subscription.
LEMMA OneWaits ==
  ASSUME LiveInv, Plain, HoleInv, NEW j \in Jobs, job[j].pc # "none", NEW c \in Clients
  PROVE  /\ job[j].sock \in Sockets
         /\ ServedBy(job, c) <=> client[c].sock # 0 /\ client[c].sock # job[j].sock
         /\ c \in ClientOf(job[j].sock) <=> client[c].sock = job[j].sock
         /\ \A i \in Jobs : i # j => job[i].pc = "none"
<1>1. \A i \in Jobs : i # j => job[i].pc = "none"
  BY HoleTypes DEF OneByOne
<1>2. job[j].sock \in Sockets
  BY DEF LiveInv, Owners
<1>3. job[j].sock # 0
  BY <1>2 DEF Sockets
<1> QED BY <1>1, <1>2, <1>3 DEF ServedBy, ClientOf

LEMMA AllDone ==
  ASSUME LiveInv, Plain, HoleInv, NEW j \in Jobs, job[j].pc # "none",
         job' = [job EXCEPT ![j] = NoJob]
  PROVE  \A i \in Jobs : job'[i].pc = "none"
BY HoleTypes DEF OneByOne, NoJob

\* The subscription answers its client, if that is still there.
LEMMA AllServed ==
  ASSUME LiveInv, Plain, HoleInv, NEW j \in Jobs, job[j].pc # "none",
         job' = [job EXCEPT ![j] = NoJob], NEW c \in Clients
  PROVE  ServedBy(job', c) <=> client[c].sock # 0
BY AllDone DEF ServedBy

LEMMA HoleResume == ASSUME LiveInv, Plain, HoleInv, NEW j \in Jobs, Resume(j) PROVE HoleInv'
<1> DEFINE s == job[j].sock
           resume == job[j].resume
           f == Frame("resumed", chan.seq + 1, resume)
           rest == Missed(resume)
           mid == ToSockets(net, {s}, rest)
           nt == ToSockets(net, {s}, Append(rest, f))
<1>1. /\ chan \in ChanSet /\ RingOK(chan) /\ net \in [Sockets -> Seq(AnyFrame)]
      /\ tail.cursor \in Nat /\ wrote \in Nat /\ tail \in TailSet
      /\ Fed(chan, net, tail.cursor, skip, job) /\ OneByOne /\ Asking
      /\ job \in [Jobs -> JobSet]
  BY HoleTypes
<1>2. /\ job[j].pc = "resolving" /\ Resumable(resume)
      /\ Join(s, Bump(chan), nt)
      /\ job' = [job EXCEPT ![j] = NoJob]
      /\ UNCHANGED <<open, subd, client, skip, blind>>
  BY DEF Resume, Bump
<1>3. s \in Sockets /\ resume \in Nat /\ job[j].pc # "none"
  <2>1. job[j].pc # "none"
    BY <1>2
  <2>2. s \in Sockets
    BY <2>1 DEF LiveInv, Owners
  <2>3. job[j] \in JobSet
    BY <1>1
  <2> QED BY <2>1, <2>2, <2>3 DEF JobSet
<1>4. f \in AnyFrame /\ f.seq = chan.seq + 1 /\ f.t = "resumed"
  BY <1>1, <1>3 DEF Frame, AnyFrame, ChanSet
<1>5. /\ rest \in Seq(AnyFrame) /\ rest \in Seq(DeltaSet) /\ QueueOK(chan, rest, resume)
      /\ \A r : HasRow(chan.ring, resume, r) => HasRow(rest, 0, r)
  BY <1>1, <1>3, MissedRows, ReplayOK
<1>6. mid \in [Sockets -> Seq(AnyFrame)] /\ nt \in [Sockets -> Seq(AnyFrame)]
  <2>1. Append(rest, f) \in Seq(AnyFrame)
    BY <1>4, <1>5
  <2> QED BY <1>1, <1>5, <2>1, ToSocketsType
<1>7. Reach(chan, resume) /\ chan.ring # <<>>
  <2>1. chan.ring # <<>> /\ resume > 0 /\ chan.ring[1].seq - 1 <= resume
    BY <1>2 DEF Resumable
  <2>2. chan.ring[1].seq \in Nat
    <3>1. chan.ring \in Seq(DeltaSet)
      BY <1>1 DEF ChanSet
    <3>2. chan.ring[1] \in DeltaSet
      BY <2>1, <3>1
    <3> QED BY <3>2 DEF DeltaSet
  <2> QED BY <1>3, <2>1, <2>2 DEF Reach
<1>8. tail'.cursor = tail.cursor
  <2>1. tail.on
    BY <1>1, <1>7 DEF OneByOne
  <2>2. \E look : tail' = [tail EXCEPT !.socks = @ \cup {s}, !.look = look]
    BY <1>2, <2>1 DEF Join
  <2> QED BY <1>1, <2>2 DEF TailSet
<1> HIDE DEF s, resume, f, rest
<1>9. ASSUME NEW c \in Clients
      PROVE  Fits(c, chan, mid, tail.cursor, skip, job')
  <2> DEFINE cl == client[c]
  <2>1. Fits(c, chan, net, tail.cursor, skip, job)
    BY <1>1 DEF Fed
  <2>2. ServedBy(job', c) <=> cl.sock # 0
    BY <1>2, <1>3, AllServed
  <2>3. CASE cl.sock = 0
    BY <2>1, <2>2, <2>3 DEF Fits, ServedBy
  <2>4. CASE cl.sock # 0 /\ cl.sock # s
    <3>1. ServedBy(job, c)
      BY <1>3, <2>4, OneWaits DEF s
    <3>2. mid[cl.sock] = net[cl.sock]
      BY <2>4, ClientTypes DEF ToSockets
    <3> QED BY <2>1, <2>2, <2>4, <3>1, <3>2 DEF Fits
  <2>5. CASE cl.sock # 0 /\ cl.sock = s
    <3>1. ~ServedBy(job, c)
      BY <1>3, <2>5, OneWaits DEF s
    <3>2. net[cl.sock] = <<>> /\ resume = cl.cursor
      BY <1>1, <1>2, <2>5 DEF Asking, s, resume
    <3>3. mid[cl.sock] = rest
      <4>1. mid[cl.sock] = net[cl.sock] \o rest
        BY <2>5, ClientTypes DEF ToSockets
      <4> QED BY <1>5, <3>2, <4>1
    <3>4. LaterOK(c, blind, cl, skip[c].rows, chan, tail.cursor)
      BY <2>1, <3>1 DEF Fits
    <3>5. cl.cursor # 0
      BY <1>3, <1>7, <3>2 DEF Reach
    <3>6. c \notin blind => Covered(tail.cursor, cl.shown, skip[c].rows, rest, 0)
      <4> SUFFICES ASSUME c \notin blind PROVE Covered(tail.cursor, cl.shown, skip[c].rows, rest, 0)
        OBVIOUS
      <4>1. Covered(tail.cursor, cl.shown, skip[c].rows, chan.ring, resume)
        BY <1>7, <3>2, <3>4 DEF LaterOK
      <4> QED BY <1>5, <4>1 DEF Covered
    <3>7. \A m \in 1..Len(rest) : rest[m].t # "snapshot"
      <4>1. \A m \in 1..Len(rest) : rest[m] \in DeltaSet
        BY <1>5, ElementType
      <4> QED BY <4>1 DEF DeltaSet
    <3>8. ComingOK(c, blind, cl, skip[c].rows, rest, tail.cursor)
      BY <3>5, <3>6, <3>7 DEF ComingOK
    <3>9. QueueOK(chan, mid[cl.sock], cl.cursor) /\ cl.cursor <= chan.seq
      BY <1>5, <2>1, <3>2, <3>3 DEF Fits
    <3> QED BY <2>2, <2>5, <3>3, <3>8, <3>9 DEF Fits
  <2> QED BY <2>3, <2>4, <2>5
<1>10. ASSUME NEW c \in Clients
       PROVE  Fits(c, Bump(chan), nt, tail.cursor, skip, job')
  <2>1. client[c].sock # 0 => nt[client[c].sock] = mid[client[c].sock]
                              \/ nt[client[c].sock] = Append(mid[client[c].sock], f)
    <3> SUFFICES ASSUME client[c].sock # 0
                 PROVE  nt[client[c].sock] = mid[client[c].sock]
                        \/ nt[client[c].sock] = Append(mid[client[c].sock], f)
      OBVIOUS
    <3>1. client[c].sock \in Sockets /\ net[client[c].sock] \in Seq(AnyFrame)
      BY <1>1, ClientTypes
    <3>2. net[client[c].sock] \o Append(rest, f) = Append(net[client[c].sock] \o rest, f)
      BY <1>4, <1>5, <3>1, AppendJoin
    <3> QED BY <3>1, <3>2 DEF ToSockets
  <2> HIDE DEF mid, nt
  <2> QED BY <1>1, <1>4, <1>6, <1>9, <2>1, FitsBumps
<1>11. Bump(chan) \in ChanSet /\ Fed(Bump(chan), nt, tail'.cursor, skip', job')
  BY <1>1, <1>2, <1>8, <1>10, BumpKeeps DEF Fed
<1>12. \A t \in Sockets : ClientOf(t) = {} => nt[t] = <<>>
  BY <1>1, ToNobody DEF OneByOne
<1>13. \A i \in Jobs : job'[i].pc = "none"
  BY <1>2, <1>3, AllDone
<1> HIDE DEF nt
<1> QED BY <1>2, <1>3, <1>6, <1>11, <1>12, <1>13, HoleJoin

\* The answer is a gap, which reaches its client only where no replay could.
LEMMA HoleGap == ASSUME LiveInv, Plain, HoleInv, NEW j \in Jobs, Gap(j) PROVE HoleInv'
<1> DEFINE s == job[j].sock
           resume == job[j].resume
           f == Frame("gap", chan.seq + 1, 0)
<1>1. /\ chan \in ChanSet /\ RingOK(chan) /\ net \in [Sockets -> Seq(AnyFrame)]
      /\ tail.cursor \in Nat /\ Fed(chan, net, tail.cursor, skip, job) /\ OneByOne /\ Asking
      /\ job \in [Jobs -> JobSet]
  BY HoleTypes
<1>2. /\ job[j].pc = "resolving" /\ ~Resumable(resume) /\ job' = [job EXCEPT ![j].pc = "reading"]
      /\ \/ resume > 0 /\ chan' = Bump(chan) /\ net' = ToSockets(net, {s}, <<f>>)
         \/ ~(resume > 0) /\ chan' = chan /\ net' = net
      /\ UNCHANGED <<tail, batch, open, subd, client, skip, blind>>
  BY DEF Gap, Bump
<1>3. s \in Sockets /\ resume \in Nat /\ job[j].pc # "none" /\ chan.seq \in Nat
  <2>1. job[j].pc # "none"
    BY <1>2
  <2>2. s \in Sockets
    BY <2>1 DEF LiveInv, Owners
  <2>3. job[j] \in JobSet
    BY <1>1
  <2> QED BY <1>1, <2>1, <2>2, <2>3 DEF JobSet, ChanSet
<1>4. f \in AnyFrame /\ f.seq = chan.seq + 1 /\ f.t = "gap"
  BY <1>3 DEF Frame, AnyFrame
<1>5. /\ \A i \in Jobs : (job'[i].pc = "none" <=> job[i].pc = "none") /\ job'[i].sock = job[i].sock
      /\ job'[j].pc = "reading"
  BY <1>1, <1>2 DEF JobSet
<1>6. \A c \in Clients : ServedBy(job', c) <=> ServedBy(job, c)
  BY <1>5 DEF ServedBy
<1> HIDE DEF s, resume, f
<1>7. chan' \in ChanSet /\ RingOK(chan') /\ chan'.ring = chan.ring
  BY <1>1, <1>2, BumpKeeps
<1>8. ASSUME NEW c \in Clients, client[c].sock = s
      PROVE  /\ ~ServedBy(job, c) /\ net[s] = <<>> /\ client[c].cursor = resume
             /\ resume > 0 => net'[s] = <<f>>
             /\ ~(resume > 0) => net'[s] = <<>>
  <2>1. ~ServedBy(job, c)
    BY <1>3, <1>8, OneWaits DEF s
  <2>2. net[s] = <<>> /\ client[c].cursor = resume
    BY <1>1, <1>2, <1>3, <1>8, ClientTypes DEF Asking, s, resume, Sockets
  <2>3. resume > 0 => net'[s] = <<>> \o <<f>>
    <3>1. s \in open /\ ClientOf(s) # {}
      BY <1>3, <1>8, ClientTypes DEF Sockets
    <3> QED BY <1>2, <1>3, <2>2, <3>1 DEF ToSockets
  <2> QED BY <1>2, <1>4, <2>1, <2>2, <2>3
<1>9. ASSUME NEW c \in Clients, client[c].sock = s, resume > 0 PROVE ~Reach(Bump(chan), resume)
  <2>1. chan.ring = <<>> \/ ~(chan.ring[1].seq - 1 <= resume) \/ ~(resume <= chan.seq)
    BY <1>2, <1>9 DEF Resumable
  <2>2. chan.ring # <<>> => chan.ring[1].seq \in Nat
    <3> SUFFICES ASSUME chan.ring # <<>> PROVE chan.ring[1].seq \in Nat
      OBVIOUS
    <3>1. chan.ring \in Seq(DeltaSet)
      BY <1>1 DEF ChanSet
    <3>2. chan.ring[1] \in DeltaSet
      BY <3>1
    <3> QED BY <3>2 DEF DeltaSet
  <2>3. Bump(chan).seq = chan.seq + 1 /\ Bump(chan).ring = chan.ring
    BY <1>1, BumpKeeps
  <2>4. resume <= chan.seq
    BY <1>1, <1>8, <1>9 DEF Fed, Fits
  <2>5. CASE chan.ring = <<>>
    <3>1. ~(resume >= Bump(chan).seq)
      BY <1>3, <2>3, <2>4
    <3> QED BY <2>3, <2>5, <3>1 DEF Reach
  <2>6. CASE chan.ring # <<>>
    <3>1. ~(resume + 1 >= chan.ring[1].seq)
      BY <1>3, <2>1, <2>2, <2>4, <2>6
    <3> QED BY <2>3, <2>6, <3>1 DEF Reach
  <2> QED BY <2>5, <2>6
<1>10. ASSUME NEW c \in Clients PROVE Fits(c, chan', net', tail.cursor, skip, job')
  <2> DEFINE cl == client[c]
  <2>1. Fits(c, chan, net, tail.cursor, skip, job)
    BY <1>1 DEF Fed
  <2>2. Fits(c, chan, net, tail.cursor, skip, job')
    BY <1>6, <2>1 DEF Fits
  <2>3. CASE ~(resume > 0)
    BY <1>2, <2>2, <2>3
  <2>4. CASE resume > 0 /\ cl.sock # s
    <3>1. cl.sock # 0 => net'[cl.sock] = net[cl.sock]
      BY <1>2, <2>4, ClientTypes DEF ToSockets
    <3> QED BY <1>1, <1>2, <1>4, <2>2, <2>4, <3>1, FitsBumps
  <2>5. CASE resume > 0 /\ cl.sock = s
    <3>1. /\ ~ServedBy(job', c) /\ net[s] = <<>> /\ cl.cursor = resume /\ net'[s] = <<f>>
      BY <1>6, <1>8, <2>5
    <3>2. Fits(c, Bump(chan), net, tail.cursor, skip, job')
      BY <1>1, <1>4, <2>2, FitsBumps
    <3>3. ~Reach(Bump(chan), resume)
      BY <1>9, <2>5
    <3>4. QueueOK(chan, <<>>, resume) /\ resume <= chan.seq
      BY <2>1, <2>5, <3>1, <1>3, ClientTypes DEF Fits, Sockets
    <3>5. <<>> \in Seq(AnyFrame) /\ Append(<<>>, f) = <<f>>
      BY <1>4
    <3>6. QueueOK(Bump(chan), Append(<<>>, f), resume)
      BY <1>1, <1>3, <1>4, <3>3, <3>4, <3>5, QueueBumps
    <3> QED BY <1>2, <2>5, <3>1, <3>2, <3>5, <3>6 DEF Fits
  <2> QED BY <2>3, <2>4, <2>5
<1>11. Fed(chan, net, tail.cursor, skip, job)'
  <2>1. Fed(chan', net', tail'.cursor, skip', job')
    BY <1>2, <1>7, <1>10 DEF Fed
  <2> QED BY <1>2, <2>1, FedNext
<1>12. Asking'
  <2> SUFFICES ASSUME NEW c \in Clients, NEW i \in Jobs, client[c].sock # 0, job'[i].pc # "none",
                      job'[i].sock = client[c].sock
               PROVE  /\ job'[i].pc # "resolving"
                      /\ \/ net'[client[c].sock] = <<>> /\ (client[c].cursor = 0 \/ c \in blind)
                         \/ /\ Len(net'[client[c].sock]) = 1 /\ net'[client[c].sock][1].t = "gap"
                            /\ client[c].cursor # 0
    BY <1>2 DEF Asking
  <2>1. i = j /\ client[c].sock = s
    BY <1>3, <1>5, OneWaits DEF s
  <2>2. /\ client[c].cursor = resume
        /\ resume > 0 => net'[s] = <<f>>
        /\ ~(resume > 0) => net'[s] = <<>>
    BY <1>8, <2>1
  <2>3. Len(<<f>>) = 1 /\ <<f>>[1] = f
    OBVIOUS
  <2>4. job'[i].pc # "resolving"
    BY <1>5, <2>1
  <2>5. CASE resume > 0
    <3>1. net'[client[c].sock] = <<f>> /\ client[c].cursor # 0
      BY <1>3, <2>1, <2>2, <2>5
    <3>2. Len(net'[client[c].sock]) = 1 /\ net'[client[c].sock][1].t = "gap"
      BY <1>4, <2>3, <3>1
    <3> QED BY <2>4, <3>1, <3>2
  <2>6. CASE ~(resume > 0)
    <3>1. net'[client[c].sock] = <<>> /\ client[c].cursor = 0
      BY <1>3, <2>1, <2>2, <2>6
    <3> QED BY <2>4, <3>1
  <2> QED BY <2>5, <2>6
<1>13. \A t \in Sockets : ClientOf(t)' = {} => net'[t] = <<>>
  <2> SUFFICES ASSUME NEW t \in Sockets, ClientOf(t)' = {} PROVE net'[t] = <<>>
    OBVIOUS
  <2>1. ClientOf(t) = {}
    BY <1>2 DEF ClientOf
  <2> QED BY <1>1, <1>2, <2>1, ToNobody DEF OneByOne
<1>14. OneByOne'
  BY <1>1, <1>2, <1>5, <1>7, <1>13 DEF OneByOne
<1> QED BY <1>11, <1>12, <1>14 DEF HoleInv

LEMMA HoleRead == ASSUME LiveInv, Plain, HoleInv, NEW j \in Jobs, ReadSnapshot(j) PROVE HoleInv'
<1>1. Fed(chan, net, tail.cursor, skip, job) /\ OneByOne /\ Asking /\ job \in [Jobs -> JobSet]
  BY HoleTypes
<1>2. /\ job[j].pc = "reading" /\ job' = [job EXCEPT ![j] = [@ EXCEPT !.pc = "read", !.upto = wrote]]
      /\ UNCHANGED <<chan, net, tail, batch, open, subd, client, skip, blind>>
  BY DEF ReadSnapshot
<1>3. \A i \in Jobs : /\ job'[i].pc = "none" <=> job[i].pc = "none"
                      /\ job'[i].pc = "resolving" <=> job[i].pc = "resolving"
                      /\ job'[i].sock = job[i].sock /\ job'[i].resume = job[i].resume
  BY <1>1, <1>2 DEF JobSet
<1>4. Fed(chan, net, tail.cursor, skip, job)'
  <2>1. \A c \in Clients : ServedBy(job', c) <=> ServedBy(job, c)
    BY <1>3 DEF ServedBy
  <2>2. Fed(chan, net, tail.cursor, skip, job')
    BY <1>1, <2>1 DEF Fed, Fits
  <2> QED BY <1>2, <2>2, FedNext
<1>5. Asking'
  BY <1>1, <1>2, <1>3 DEF Asking
<1>6. OneByOne'
  BY <1>1, <1>2, <1>3 DEF OneByOne, ClientOf
<1> QED BY <1>4, <1>5, <1>6 DEF HoleInv

\* A snapshot goes out to the client that asked, and the tail has published from then on
\* all but the rows that were indexed in between.
LEMMA HoleSnapshot == ASSUME LiveInv, Plain, HoleInv, NEW j \in Jobs, SendSnapshot(j) PROVE HoleInv'
<1> DEFINE s == job[j].sock
           upto == job[j].upto
           f == Frame("snapshot", chan.seq + 1, upto)
           nt == ToSockets(net, {s}, <<f>>)
<1>1. /\ chan \in ChanSet /\ RingOK(chan) /\ net \in [Sockets -> Seq(AnyFrame)]
      /\ tail.cursor \in Nat /\ wrote \in Nat /\ tail \in TailSet
      /\ Fed(chan, net, tail.cursor, skip, job) /\ OneByOne /\ Asking
      /\ job \in [Jobs -> JobSet]
  BY HoleTypes
<1>2. /\ job[j].pc = "read" /\ Join(s, Bump(chan), nt)
      /\ skip' = [c \in Clients |-> IF c \in ClientOf(s) THEN [sock |-> s, rows |-> (upto + 1)..tail'.cursor]
                                                         ELSE skip[c]]
      /\ job' = [job EXCEPT ![j] = NoJob]
      /\ UNCHANGED <<open, subd, client, blind>>
  BY DEF SendSnapshot, Bump
<1>3. s \in Sockets /\ upto \in Nat /\ job[j].pc # "none"
  <2>1. job[j].pc # "none"
    BY <1>2
  <2>2. s \in Sockets
    BY <2>1 DEF LiveInv, Owners
  <2>3. job[j] \in JobSet
    BY <1>1
  <2> QED BY <2>1, <2>2, <2>3 DEF JobSet
<1>4. f \in AnyFrame /\ f.seq = chan.seq + 1 /\ f.t = "snapshot" /\ f.row = upto
  BY <1>1, <1>3 DEF Frame, AnyFrame, ChanSet
<1>5. nt \in [Sockets -> Seq(AnyFrame)]
  <2>1. <<f>> \in Seq(AnyFrame)
    BY <1>4
  <2> QED BY <1>1, <2>1, ToSocketsType
<1>6. /\ tail'.cursor \in Nat
      /\ tail.on => tail'.cursor = tail.cursor
  <2> DEFINE t == IF tail.on THEN tail ELSE [NoTail EXCEPT !.on = TRUE, !.cursor = wrote]
  <2>1. t \in TailSet /\ (tail.on => t = tail)
    BY <1>1 DEF TailSet, NoTail, Looks
  <2>2. \E look : tail' = [t EXCEPT !.socks = @ \cup {s}, !.look = look]
    BY <1>2 DEF Join
  <2> HIDE DEF t
  <2> QED BY <2>1, <2>2 DEF TailSet
<1> HIDE DEF s, upto, f
<1>7. Bump(chan) \in ChanSet /\ RingOK(Bump(chan)) /\ Bump(chan).ring = chan.ring /\ Bump(chan).seq = chan.seq + 1
  BY <1>1, BumpKeeps
<1>8. ASSUME NEW c \in Clients PROVE Fits(c, Bump(chan), nt, tail'.cursor, skip', job')
  <2> DEFINE cl == client[c]
             q == net[client[c].sock]
  <2>1. Fits(c, chan, net, tail.cursor, skip, job)
    BY <1>1 DEF Fed
  <2>2. ServedBy(job', c) <=> cl.sock # 0
    BY <1>2, <1>3, AllServed
  <2>3. CASE cl.sock # 0 /\ cl.sock = s
    <3>1. nt[cl.sock] = Append(q, f) /\ q \in Seq(AnyFrame)
      <4>1. nt[cl.sock] = q \o <<f>> /\ q \in Seq(AnyFrame)
        BY <1>1, <2>3, ClientTypes DEF ToSockets
      <4> HIDE DEF nt, q
      <4> QED BY <1>4, <4>1, AppendOne
    <3>2. skip'[c].rows = (upto + 1)..tail'.cursor
      BY <1>2, <2>3 DEF ClientOf
    <3>3. \/ q = <<>> /\ (cl.cursor = 0 \/ c \in blind)
          \/ Len(q) = 1 /\ q[1].t = "gap" /\ cl.cursor # 0
      BY <1>1, <1>2, <2>3 DEF Asking, s
    <3>4. /\ cl.cursor \in Nat /\ cl.cursor <= chan.seq /\ QueueOK(chan, q, cl.cursor)
      BY <2>1, <2>3, ClientTypes DEF Fits
    <3>5. QueueOK(Bump(chan), nt[cl.sock], cl.cursor) /\ cl.cursor <= Bump(chan).seq
      <4> HIDE DEF q, cl
      <4> QED BY <1>1, <1>4, <3>1, <3>4, QueueBumps
    <3>6. ComingOK(c, blind, cl, skip'[c].rows, Append(q, f), tail'.cursor)
      <4> DEFINE all == Append(q, f)
      <4>1. /\ Len(q) \in Nat /\ Len(all) = Len(q) + 1 /\ all[Len(q) + 1] = f
            /\ \A i \in 1..Len(q) : all[i] = q[i]
            /\ all # <<>>
            /\ q = <<>> => Len(q) = 0
        BY <1>4, <3>1
      <4> HIDE DEF all, q, cl
      <4>2. \A m \in 1..Len(all) : all[m].t = "snapshot" => m = Len(q) + 1
        BY <3>3, <4>1
      <4>3. Covered(tail'.cursor, 1..upto, skip'[c].rows, all, f.seq)
        BY <1>3, <1>6, <3>2 DEF Covered
      <4>4. cl.cursor = 0 => all # <<>> /\ all[1].t = "snapshot"
        BY <1>4, <3>3, <4>1
      <4>5. c \notin blind /\ cl.cursor # 0 => ~(all = <<>> \/ all[1].t # "gap")
        BY <3>3, <4>1
      <4> QED BY <1>4, <4>1, <4>2, <4>3, <4>4, <4>5 DEF ComingOK, all
    <3> QED BY <2>2, <2>3, <3>1, <3>5, <3>6 DEF Fits
  <2>4. CASE ~(cl.sock # 0 /\ cl.sock = s) /\ tail.on
    <3>1. skip'[c] = skip[c]
      BY <1>2, <1>3, <2>4 DEF ClientOf, Sockets
    <3>2. cl.sock # 0 => nt[cl.sock] = net[cl.sock]
      BY <2>4, ClientTypes DEF ToSockets
    <3>3. ServedBy(job', c) <=> ServedBy(job, c)
      BY <1>3, <2>2, <2>4, OneWaits DEF s
    <3>4. Fits(c, Bump(chan), nt, tail.cursor, skip, job)
      BY <1>1, <1>4, <2>1, <3>2, FitsBumps
    <3> QED BY <1>6, <2>4, <3>1, <3>3, <3>4 DEF Fits
  <2>5. CASE ~(cl.sock # 0 /\ cl.sock = s) /\ ~tail.on
    <3>1. cl.sock = 0
      <4> SUFFICES ASSUME cl.sock # 0 PROVE FALSE
        OBVIOUS
      <4>1. cl.sock \in subd
        BY HoleTypes, ClientTypes
      <4>2. PICK i \in Jobs : job[i].pc # "none" /\ job[i].sock = cl.sock
        BY <2>5, <4>1 DEF LiveInv, Followed
      <4> QED BY <1>3, <2>5, <4>2, OneWaits DEF s
    <3>2. ~Reach(Bump(chan), cl.cursor) /\ cl.cursor <= Bump(chan).seq
      <4>1. chan.ring = <<>>
        BY <1>1, <2>5 DEF OneByOne
      <4>2. cl.cursor \in Nat /\ cl.cursor <= chan.seq /\ chan.seq \in Nat
        BY <1>1, <2>1, ClientTypes DEF Fits, ChanSet
      <4> QED BY <1>7, <4>1, <4>2 DEF Reach
    <3> QED BY <2>2, <3>1, <3>2 DEF Fits, LaterOK
  <2> QED BY <2>3, <2>4, <2>5
<1>9. Fed(Bump(chan), nt, tail'.cursor, skip', job')
  BY <1>7, <1>8 DEF Fed
<1>10. \A t \in Sockets : ClientOf(t) = {} => nt[t] = <<>>
  BY <1>1, ToNobody DEF OneByOne
<1>11. \A i \in Jobs : job'[i].pc = "none"
  BY <1>2, <1>3, AllDone
<1> HIDE DEF nt
<1> QED BY <1>2, <1>3, <1>5, <1>7, <1>9, <1>10, <1>11, HoleJoin

-----------------------------------------------------------------------------
(* What a client may lack: the steps of the clients *)

\* The tail goes with its last socket, and with it the ring.
LEMMA HoleClose == ASSUME LiveInv, Plain, HoleInv, NEW s \in Sockets, Close(s) PROVE HoleInv'
<1>1. /\ chan \in ChanSet /\ RingOK(chan) /\ tail.cursor \in Nat /\ tail \in TailSet
      /\ batch \in BatchSet /\ Fed(chan, net, tail.cursor, skip, job) /\ OneByOne /\ mode.harness
  BY HoleTypes
<1>2. Calm /\ UNCHANGED <<job, net, client, skip, blind>>
  BY DEF Close
<1>3. (\A j \in Jobs : job[j].pc = "none") /\ batch.live = 0
  BY <1>1, <1>2 DEF Calm
<1>4. Asking'
  BY <1>2, <1>3 DEF Asking
<1>5. \/ tail' = NoTail /\ chan' = [chan EXCEPT !.ring = <<>>] /\ batch' = [live |-> 0, gone |-> 0]
      \/ /\ tail' = tail \/ \E left : tail' = [tail EXCEPT !.socks = left]
         /\ chan' = chan /\ batch' = batch
  BY <1>1, <1>3 DEF Close, Unsubscribe, OneByOne, BatchSet
<1>6. CASE tail' = NoTail /\ chan' = [chan EXCEPT !.ring = <<>>] /\ batch' = [live |-> 0, gone |-> 0]
  <2>1. chan'.ring = <<>> /\ chan'.seq = chan.seq /\ tail'.cursor = 0
    BY <1>1, <1>6 DEF ChanSet, NoTail
  <2>2. RingOK(chan')
    BY <2>1 DEF RingOK, Rising
  <2>3. ASSUME NEW c \in Clients PROVE Fits(c, chan', net, tail'.cursor, skip, job)
    <3> DEFINE cl == client[c]
    <3>1. Fits(c, chan, net, tail.cursor, skip, job) /\ cl.cursor \in Nat
      BY <1>1, ClientTypes DEF Fed
    <3>2. cl.sock # 0 => QueueOK(chan', net[cl.sock], cl.cursor)
      <4> HIDE DEF cl
      <4>1. cl.sock # 0 => QueueOK(chan, net[cl.sock], cl.cursor)
        BY <3>1 DEF Fits, cl
      <4> QED BY <1>1, <1>6, <3>1, <4>1, QueueClears
    <3>3. \A have, sk, q, k : Covered(0, have, sk, q, k)
      BY DEF Covered
    <3>4. LaterOK(c, blind, cl, skip[c].rows, chan', tail'.cursor)
      BY <2>1, <3>3 DEF LaterOK
    <3>5. ServedBy(job, c) => ComingOK(c, blind, cl, skip[c].rows, net[cl.sock], tail'.cursor)
      <4> SUFFICES ASSUME ServedBy(job, c)
                   PROVE  ComingOK(c, blind, cl, skip[c].rows, net[cl.sock], 0)
        BY <2>1
      <4>1. ComingOK(c, blind, cl, skip[c].rows, net[cl.sock], tail.cursor)
        BY <3>1 DEF Fits
      <4> HIDE DEF cl
      <4> QED BY <3>3, <4>1 DEF ComingOK
    <3>6. cl.cursor <= chan'.seq
      BY <2>1, <3>1 DEF Fits
    <3> QED BY <3>2, <3>4, <3>5, <3>6 DEF Fits
  <2>4. Fed(chan, net, tail.cursor, skip, job)'
    <3>1. Fed(chan', net', tail'.cursor, skip', job')
      BY <1>2, <2>2, <2>3 DEF Fed
    <3> QED BY <1>2, <3>1, FedNext
  <2>5. OneByOne'
    BY <1>1, <1>2, <1>3, <1>6, <2>1 DEF OneByOne, ClientOf
  <2> QED BY <1>4, <2>4, <2>5 DEF HoleInv
<1>7. CASE /\ tail' = tail \/ \E left : tail' = [tail EXCEPT !.socks = left]
           /\ chan' = chan /\ batch' = batch
  <2>1. tail'.cursor = tail.cursor /\ tail'.on = tail.on
    BY <1>1, <1>7 DEF TailSet
  <2>2. Fed(chan, net, tail.cursor, skip, job)'
    <3>1. Fed(chan', net', tail'.cursor, skip', job')
      BY <1>1, <1>2, <1>7, <2>1
    <3> QED BY <1>2, <3>1, FedNext
  <2>3. OneByOne'
    BY <1>1, <1>2, <1>3, <1>7, <2>1 DEF OneByOne, ClientOf
  <2> QED BY <1>4, <2>2, <2>3 DEF HoleInv
<1> QED BY <1>5, <1>6, <1>7

\* A client connects, and asks from its cursor.
LEMMA HoleConnect == ASSUME LiveInv, Plain, HoleInv, NEW c \in Clients, Connect(c) PROVE HoleInv'
<1> DEFINE s == used + 1
<1>1. /\ chan \in ChanSet /\ RingOK(chan) /\ net \in [Sockets -> Seq(AnyFrame)]
      /\ Fed(chan, net, tail.cursor, skip, job) /\ OneByOne /\ mode.harness
      /\ job \in [Jobs -> JobSet] /\ batch \in BatchSet /\ (\A d \in Clients : client[d].wants)
  BY HoleTypes
<1>2. /\ Calm /\ client[c].sock = 0 /\ used < MaxSockets
      /\ client' = [client EXCEPT ![c].sock = s]
      /\ Subscribe(s, client[c].cursor)
      /\ UNCHANGED <<chan, tail, batch, net, skip, blind>>
  BY <1>1 DEF Connect
<1>3. (\A j \in Jobs : job[j].pc = "none") /\ batch.live = 0
  BY <1>1, <1>2 DEF Calm
<1>4. s \in Sockets /\ s # 0 /\ client \in [Clients -> ClientSet] /\ used \in Nat
  <2>1. used \in 0..MaxSockets /\ client \in [Clients -> ClientSet] /\ MaxSockets \in Nat
    BY FeedAssumption DEF LiveInv, TypesOK
  <2> QED BY <1>2, <2>1 DEF Sockets
<1>5. \A d \in Clients : client[d].sock # s
  <2> SUFFICES ASSUME NEW d \in Clients, client[d].sock # 0 PROVE client[d].sock # s
    BY <1>4
  <2>1. client[d].sock <= used
    BY DEF LiveInv, Owners
  <2> QED BY <1>4, <2>1
<1>6. /\ client'[c].sock = s /\ client'[c].cursor = client[c].cursor
      /\ client'[c].shown = client[c].shown
      /\ \A d \in Clients : d # c => client'[d] = client[d]
      /\ \A d \in Clients : client'[d].wants
  BY <1>1, <1>2, <1>4 DEF ClientSet
<1>7. PICK j \in Jobs : job' = [job EXCEPT ![j] = [pc |-> "resolving", sock |-> s,
                                                   resume |-> client[c].cursor, upto |-> 0]]
  BY <1>2 DEF Subscribe
<1> HIDE DEF s
<1>8. /\ job'[j].pc = "resolving" /\ job'[j].sock = s /\ job'[j].resume = client[c].cursor
      /\ \A i \in Jobs : i # j => job'[i].pc = "none"
  BY <1>1, <1>3, <1>7
<1>9. net[s] = <<>>
  <2>1. ClientOf(s) = {}
    BY <1>5 DEF ClientOf
  <2> QED BY <1>1, <1>4, <2>1 DEF OneByOne
<1>10. \A d \in Clients : d # c => (ServedBy(job, d)' <=> ServedBy(job, d))
  BY <1>3, <1>5, <1>6, <1>8 DEF ServedBy
<1>11. ~ServedBy(job, c)' /\ ~ServedBy(job, c)
  BY <1>2, <1>6, <1>8 DEF ServedBy
<1>12. ASSUME NEW d \in Clients PROVE Fits(d, chan, net, tail.cursor, skip, job)'
  <2>1. Fits(d, chan, net, tail.cursor, skip, job)
    BY <1>1 DEF Fed
  <2>2. CASE d # c
    BY <1>2, <1>6, <1>10, <2>1, <2>2 DEF Fits
  <2>3. CASE d = c
    <3>1. LaterOK(c, blind, client[c], skip[c].rows, chan, tail.cursor)
      BY <1>11, <2>1, <2>3 DEF Fits
    <3>2. LaterOK(c, blind', client'[c], skip'[c].rows, chan', tail'.cursor)
      BY <1>2, <1>6, <3>1 DEF LaterOK
    <3>3. QueueOK(chan', net'[client'[c].sock], client'[c].cursor)
      BY <1>2, <1>6, <1>9 DEF QueueOK, Rising
    <3>4. client'[c].cursor <= chan'.seq
      BY <1>2, <1>6, <2>1, <2>3 DEF Fits
    <3> QED BY <1>11, <2>3, <3>2, <3>3, <3>4 DEF Fits
  <2> QED BY <2>2, <2>3
<1>13. Fed(chan, net, tail.cursor, skip, job)'
  BY <1>1, <1>2, <1>12 DEF Fed
<1>14. Asking'
  <2> SUFFICES ASSUME NEW d \in Clients, NEW i \in Jobs, client'[d].sock # 0, job'[i].pc # "none",
                      job'[i].sock = client'[d].sock
               PROVE  /\ job'[i].pc = "resolving" /\ net'[client'[d].sock] = <<>>
                      /\ job'[i].resume = client'[d].cursor
    BY DEF Asking
  <2>1. i = j /\ d = c
    BY <1>5, <1>6, <1>8
  <2> QED BY <1>2, <1>6, <1>8, <1>9, <2>1
<1>15. \A t \in Sockets : ClientOf(t)' = {} => net'[t] = <<>>
  <2> SUFFICES ASSUME NEW t \in Sockets, ClientOf(t)' = {} PROVE net'[t] = <<>>
    OBVIOUS
  <2>1. ClientOf(t) = {}
    <3> SUFFICES ASSUME NEW d \in Clients, client[d].sock = t PROVE FALSE
      BY DEF ClientOf
    <3>1. d # c
      BY <1>2 DEF Sockets
    <3> QED BY <1>6, <3>1 DEF ClientOf
  <2> QED BY <1>1, <1>2, <2>1 DEF OneByOne
<1>16. OneByOne'
  BY <1>1, <1>2, <1>3, <1>6, <1>8, <1>15 DEF OneByOne
<1> QED BY <1>13, <1>14, <1>16 DEF HoleInv

\* A connection breaks: what was on its way is in the ring, as far as the ring reaches.
LEMMA HoleLose == ASSUME LiveInv, Plain, HoleInv, NEW c \in Clients, Lose(c) PROVE HoleInv'
<1> DEFINE s == client[c].sock
<1>1. /\ chan \in ChanSet /\ RingOK(chan) /\ net \in [Sockets -> Seq(AnyFrame)]
      /\ Fed(chan, net, tail.cursor, skip, job) /\ OneByOne /\ Asking
      /\ (\A d \in Clients : client[d].wants)
  BY HoleTypes
<1>2. /\ s # 0 /\ client' = [client EXCEPT ![c].sock = 0] /\ net' = [net EXCEPT ![s] = <<>>]
      /\ UNCHANGED <<chan, tail, batch, job, skip, blind>>
  BY DEF Lose, server
<1>3. s \in Sockets /\ client \in [Clients -> ClientSet] /\ ClientOf(s) = {c}
  BY <1>2, ClientTypes DEF LiveInv, TypesOK
<1>4. /\ client'[c].sock = 0 /\ client'[c].cursor = client[c].cursor
      /\ client'[c].shown = client[c].shown
      /\ \A d \in Clients : d # c => client'[d] = client[d] /\ client[d].sock # s
      /\ \A d \in Clients : client'[d].wants
  BY <1>1, <1>2, <1>3 DEF ClientSet, ClientOf
<1>5. net'[s] = <<>> /\ \A t \in Sockets : t # s => net'[t] = net[t]
  BY <1>1, <1>2, <1>3
<1>6. \A d \in Clients : d # c => (ServedBy(job, d)' <=> ServedBy(job, d))
  BY <1>2, <1>4 DEF ServedBy
<1>7. ~ServedBy(job, c)'
  BY <1>4 DEF ServedBy
<1> HIDE DEF s
<1>8. ASSUME NEW d \in Clients PROVE Fits(d, chan, net, tail.cursor, skip, job)'
  <2>1. Fits(d, chan, net, tail.cursor, skip, job)
    BY <1>1 DEF Fed
  <2>2. CASE d # c
    <3>1. client[d].sock # 0 => net'[client[d].sock] = net[client[d].sock]
      BY <1>4, <1>5, <2>2, ClientTypes
    <3>2. ServedBy(job, d) => client[d].sock # 0
      BY DEF ServedBy
    <3> QED BY <1>2, <1>4, <1>6, <2>1, <2>2, <3>1, <3>2 DEF Fits
  <2>3. CASE d = c
    <3> DEFINE cl == client[c]
               q == net[s]
    <3>1. /\ QueueOK(chan, q, cl.cursor) /\ cl.cursor <= chan.seq /\ cl.cursor \in Nat
          /\ q \in Seq(AnyFrame)
      BY <1>1, <1>2, <1>3, <2>1, <2>3, ClientTypes DEF Fits, s
    <3>2. LaterOK(c, blind, cl, skip[c].rows, chan, tail.cursor)
      <4>1. CASE ~ServedBy(job, c)
        BY <2>1, <2>3, <4>1 DEF Fits
      <4>2. CASE ServedBy(job, c)
        <5>1. ComingOK(c, blind, cl, skip[c].rows, q, tail.cursor)
          BY <2>1, <2>3, <4>2 DEF Fits, s
        <5> HIDE DEF cl, q
        <5> SUFFICES ASSUME c \notin blind, Reach(chan, cl.cursor)
                     PROVE  Covered(tail.cursor, cl.shown, skip[c].rows, chan.ring, cl.cursor)
          BY DEF LaterOK
        <5>2. cl.cursor # 0
          BY <3>1 DEF Reach
        <5>3. q = <<>> \/ q[1].t # "gap"
          <6> SUFFICES ASSUME q # <<>> PROVE q[1].t # "gap"
            OBVIOUS
          <6>1. 1 \in 1..Len(q)
            BY <3>1
          <6> QED BY <3>1, <6>1 DEF QueueOK
        <5>4. Covered(tail.cursor, cl.shown, skip[c].rows, q, 0)
          BY <5>1, <5>2, <5>3 DEF ComingOK
        <5>5. \A r : HasRow(q, 0, r) => HasRow(chan.ring, cl.cursor, r)
          BY <1>1, <3>1, QueueInRing
        <5> QED BY <5>4, <5>5 DEF Covered
      <4> QED BY <4>1, <4>2
    <3>3. LaterOK(c, blind', client'[c], skip'[c].rows, chan', tail'.cursor)
      BY <1>2, <1>4, <3>2 DEF LaterOK
    <3>4. client'[c].cursor <= chan'.seq
      BY <1>2, <1>4, <3>1
    <3> QED BY <1>4, <1>7, <2>3, <3>3, <3>4 DEF Fits
  <2> QED BY <2>2, <2>3
<1>9. Fed(chan, net, tail.cursor, skip, job)'
  BY <1>1, <1>2, <1>8 DEF Fed
<1>10. Asking'
  <2> SUFFICES ASSUME NEW d \in Clients, NEW i \in Jobs, client'[d].sock # 0, job'[i].pc # "none",
                      job'[i].sock = client'[d].sock
               PROVE  LET q == net'[client'[d].sock] IN
                      /\ job'[i].pc = "resolving" => q = <<>> /\ job'[i].resume = client'[d].cursor
                      /\ job'[i].pc # "resolving" =>
                           \/ q = <<>> /\ (client'[d].cursor = 0 \/ d \in blind')
                           \/ Len(q) = 1 /\ q[1].t = "gap" /\ client'[d].cursor # 0
    BY DEF Asking
  <2>1. d # c /\ client'[d] = client[d] /\ client[d].sock \in Sockets /\ client[d].sock # s
    BY <1>4, ClientTypes
  <2>2. net'[client'[d].sock] = net[client[d].sock]
    BY <1>5, <2>1
  <2> QED BY <1>1, <1>2, <2>1, <2>2 DEF Asking
<1>11. \A t \in Sockets : ClientOf(t)' = {} => net'[t] = <<>>
  <2> SUFFICES ASSUME NEW t \in Sockets, ClientOf(t)' = {}, t # s PROVE net'[t] = <<>>
    BY <1>5
  <2>1. ClientOf(t) = {}
    <3> SUFFICES ASSUME NEW d \in Clients, client[d].sock = t PROVE FALSE
      BY DEF ClientOf
    <3>1. d # c
      BY DEF s
    <3> QED BY <1>4, <3>1 DEF ClientOf
  <2> QED BY <1>1, <1>5, <2>1 DEF OneByOne
<1>12. OneByOne'
  BY <1>1, <1>2, <1>4, <1>11 DEF OneByOne
<1> QED BY <1>9, <1>10, <1>12 DEF HoleInv

\* A frame arrives: a gap lets the client wait for the snapshot behind it, a snapshot
\* shows what the client may have missed, and of what was on its way one row is shown.
LEMMA HoleDeliver == ASSUME LiveInv, Plain, HoleInv, NEW c \in Clients, Deliver(c) PROVE HoleInv'
<1> DEFINE s == client[c].sock
           q == net[client[c].sock]
           f == Head(net[client[c].sock])
           rest == Tail(net[client[c].sock])
           k == client[c].cursor
<1>1. /\ chan \in ChanSet /\ RingOK(chan) /\ net \in [Sockets -> Seq(AnyFrame)]
      /\ tail.cursor \in Nat
      /\ Fed(chan, net, tail.cursor, skip, job) /\ OneByOne /\ Asking
      /\ (\A d \in Clients : client[d].wants)
  BY HoleTypes
<1>2. /\ s # 0 /\ q # <<>> /\ net' = [net EXCEPT ![s] = rest]
      /\ UNCHANGED <<chan, tail, batch, job, skip>>
      /\ blind' = CASE f.t = "gap" -> blind \cup {c} [] f.t = "snapshot" -> blind \ {c} [] OTHER -> blind
      /\ ~(f.t = "delta" /\ f.seq <= k) =>
           client' = [client EXCEPT ![c].cursor = f.seq, ![c].shown = Shows(@, f)]
  BY <1>1 DEF Deliver, server
<1>3. s \in Sockets /\ client \in [Clients -> ClientSet] /\ ClientOf(s) = {c} /\ k \in Nat
  BY <1>2, ClientTypes DEF LiveInv, TypesOK
<1>4. q \in Seq(AnyFrame) /\ QueueOK(chan, q, k) /\ k <= chan.seq
  BY <1>1, <1>2, <1>3 DEF Fed, Fits
<1>5. /\ rest \in Seq(AnyFrame) /\ QueueOK(chan, rest, f.seq)
      /\ f \in AnyFrame /\ k < f.seq /\ f.seq <= chan.seq /\ f = q[1] /\ 1 \in 1..Len(q)
      /\ \A i \in 1..Len(rest) : i + 1 \in 1..Len(q) /\ rest[i] = q[i + 1]
      /\ \A i \in 1..Len(q) : i = 1 \/ (i - 1 \in 1..Len(rest) /\ rest[i - 1] = q[i])
      /\ \A i \in 1..Len(rest) : rest[i].t # "gap"
      /\ Len(rest) = Len(q) - 1 /\ Len(q) \in Nat
  <2>1. f = q[1] /\ 1 \in 1..Len(q) /\ Len(rest) = Len(q) - 1 /\ Len(q) \in Nat
    BY <1>2, <1>4
  <2> HIDE DEF k
  <2> QED BY <1>2, <1>3, <1>4, <2>1, QueueTail
<1>6. /\ f.seq \in Nat /\ f.seq # 0 /\ f.row \in Nat
      /\ client' = [client EXCEPT ![c].cursor = f.seq, ![c].shown = Shows(@, f)]
  <2>1. f.seq \in Nat /\ f.row \in Nat
    BY <1>5 DEF AnyFrame
  <2> HIDE DEF f, k
  <2> QED BY <1>2, <1>3, <1>5, <2>1
<1>7. /\ client'[c].sock = s /\ client'[c].cursor = f.seq /\ client'[c].wants = client[c].wants
      /\ client'[c].shown = Shows(client[c].shown, f)
      /\ \A d \in Clients : d # c => client'[d] = client[d] /\ client[d].sock # s
      /\ \A d \in Clients : client'[d].sock = client[d].sock
      /\ \A d \in Clients : client'[d].wants
  <2> HIDE DEF f
  <2> QED BY <1>1, <1>3, <1>6 DEF ClientSet, ClientOf
<1>8. net'[s] = rest /\ \A t \in Sockets : t # s => net'[t] = net[t]
  <2> HIDE DEF rest
  <2> QED BY <1>1, <1>2, <1>3
<1>9. \A d \in Clients : d # c => (d \in blind' <=> d \in blind)
  BY <1>2
<1>10. \A d \in Clients : ServedBy(job, d)' <=> ServedBy(job, d)
  BY <1>2, <1>7 DEF ServedBy
<1>11. f.t = "gap" => c \in blind'
  BY <1>2
<1>12. f.t \notin {"gap", "snapshot"} => (c \in blind' <=> c \in blind)
  BY <1>2
<1> HIDE DEF s, q, f, rest, k
<1>13. ASSUME NEW r, NEW m \in Nat, f.seq <= m, HasRow(q, m, r) PROVE HasRow(rest, m, r)
  <2>1. PICK i \in 1..Len(q) : q[i].t = "delta" /\ q[i].row = r /\ q[i].seq > m
    BY <1>13 DEF HasRow
  <2>2. i # 1
    BY <1>5, <1>6, <1>13, <2>1
  <2> QED BY <1>5, <2>1, <2>2 DEF HasRow
<1>14. ASSUME NEW r, HasRow(q, 0, r)
       PROVE  HasRow(rest, 0, r) \/ (f.t = "delta" /\ f.row = r)
  <2>1. PICK i \in 1..Len(q) : q[i].t = "delta" /\ q[i].row = r /\ q[i].seq > 0
    BY <1>14 DEF HasRow
  <2>2. CASE i = 1
    BY <1>5, <2>1, <2>2
  <2>3. CASE i # 1
    BY <1>5, <2>1, <2>3 DEF HasRow
  <2> QED BY <2>2, <2>3
<1>15. ASSUME ServedBy(job, c)
       PROVE  ComingOK(c, blind', client'[c], skip[c].rows, rest, tail.cursor)
  <2> DEFINE n == tail.cursor
             sk == skip[c].rows
  <2>1. ComingOK(c, blind, client[c], sk, q, n)
    BY <1>1, <1>15 DEF Fed, Fits, q
  <2>2. ASSUME c \notin blind' PROVE Covered(n, client'[c].shown, sk, rest, 0)
    <3>1. f.t # "gap"
      BY <1>11, <2>2
    <3>2. CASE f.t = "snapshot"
      <4>1. Covered(n, 1..f.row, sk, q, f.seq)
        BY <1>5, <2>1, <3>2 DEF ComingOK
      <4>2. \A r : HasRow(q, f.seq, r) => HasRow(rest, 0, r)
        <5>1. \A r : HasRow(q, f.seq, r) => HasRow(rest, f.seq, r)
          BY <1>6, <1>13
        <5>2. \A i \in 1..Len(rest) : rest[i].seq \in Nat
          <6>1. \A i \in 1..Len(rest) : rest[i] \in AnyFrame
            BY <1>5, ElementType
          <6> QED BY <6>1 DEF AnyFrame
        <5>3. \A r : HasRow(rest, f.seq, r) => HasRow(rest, 0, r)
          BY <1>6, <5>2 DEF HasRow
        <5> QED BY <5>1, <5>3
      <4>3. 1..f.row \subseteq client'[c].shown
        BY <1>7, <3>2 DEF Shows, Merge
      <4> QED BY <4>1, <4>2, <4>3 DEF Covered
    <3>3. CASE f.t # "snapshot"
      <4>1. k # 0 /\ c \notin blind /\ q[1].t # "gap"
        BY <1>5, <1>12, <2>1, <2>2, <3>1, <3>3 DEF ComingOK, k
      <4>2. Covered(n, client[c].shown, sk, q, 0)
        BY <2>1, <4>1 DEF ComingOK, k
      <4>3. client[c].shown \subseteq client'[c].shown
        BY <1>7, <3>3 DEF Shows
      <4>4. \A r \in 1..n : f.t = "delta" /\ f.row = r => r \in client'[c].shown
        BY <1>7 DEF Shows, Rowless
      <4> QED BY <1>14, <4>2, <4>3, <4>4 DEF Covered
    <3> QED BY <3>2, <3>3
  <2>3. ASSUME NEW m \in 1..Len(rest), rest[m].t = "snapshot"
        PROVE  Covered(n, 1..rest[m].row, sk, rest, rest[m].seq)
    <3>1. m + 1 \in 1..Len(q) /\ rest[m] = q[m + 1]
      BY <1>5
    <3>2. Covered(n, 1..rest[m].row, sk, q, rest[m].seq)
      BY <2>1, <2>3, <3>1 DEF ComingOK
    <3>3. f.seq < rest[m].seq
      BY <1>5 DEF QueueOK
    <3>4. rest[m].seq \in Nat
      <4>1. rest[m] \in AnyFrame
        BY <1>5, ElementType
      <4> QED BY <4>1 DEF AnyFrame
    <3>5. \A r : HasRow(q, rest[m].seq, r) => HasRow(rest, rest[m].seq, r)
      BY <1>6, <1>13, <3>3, <3>4
    <3> QED BY <3>2, <3>5 DEF Covered
  <2> QED BY <1>6, <1>7, <2>2, <2>3 DEF ComingOK
<1>16. ASSUME ~ServedBy(job, c)
       PROVE  f.t = "gap" /\ rest = <<>> /\ \A i \in Jobs : job[i].pc # "none" /\ job[i].sock = s => job[i].pc # "resolving"
  <2>1. PICK i \in Jobs : job[i].pc # "none" /\ job[i].sock = s
    BY <1>2, <1>16 DEF ServedBy, s
  <2>2. ASSUME NEW m \in Jobs, job[m].pc # "none", job[m].sock = s
        PROVE  job[m].pc # "resolving" /\ Len(q) = 1 /\ q[1].t = "gap"
    BY <1>1, <1>2, <2>2 DEF Asking, s, q
  <2>3. Len(q) = 1 /\ q[1].t = "gap"
    BY <2>1, <2>2
  <2>4. rest = <<>>
    BY <1>5, <2>3
  <2> QED BY <1>5, <2>2, <2>3, <2>4
<1>17. ASSUME NEW d \in Clients PROVE Fits(d, chan, net, tail.cursor, skip, job)'
  <2>1. Fits(d, chan, net, tail.cursor, skip, job)
    BY <1>1 DEF Fed
  <2>2. CASE d # c
    <3>1. client[d].sock # 0 => net'[client[d].sock] = net[client[d].sock]
      BY <1>7, <1>8, <2>2, ClientTypes
    <3>2. ServedBy(job, d) => client[d].sock # 0
      BY DEF ServedBy
    <3>3. /\ client[d].cursor <= chan.seq
          /\ client[d].sock # 0 => QueueOK(chan, net'[client[d].sock], client[d].cursor)
      BY <2>1, <3>1 DEF Fits
    <3>4. ServedBy(job, d) => ComingOK(d, blind', client[d], skip[d].rows, net'[client[d].sock], tail.cursor)
      BY <1>9, <2>1, <2>2, <3>1, <3>2 DEF Fits, ComingOK
    <3>5. ~ServedBy(job, d) => LaterOK(d, blind', client[d], skip[d].rows, chan, tail.cursor)
      BY <1>9, <2>1, <2>2 DEF Fits, LaterOK
    <3> QED BY <1>2, <1>7, <1>10, <2>2, <3>3, <3>4, <3>5 DEF Fits
  <2>3. CASE d = c
    <3>1. client'[c].cursor <= chan'.seq
      BY <1>2, <1>5, <1>7
    <3>2. net'[client'[c].sock] = rest
      BY <1>7, <1>8
    <3>3. QueueOK(chan', net'[client'[c].sock], client'[c].cursor)
      BY <1>2, <1>5, <1>7, <3>2
    <3>4. ~ServedBy(job, c) => LaterOK(c, blind', client'[c], skip'[c].rows, chan', tail'.cursor)
      BY <1>11, <1>16 DEF LaterOK
    <3>5. ServedBy(job, c) => ComingOK(c, blind', client'[c], skip'[c].rows, net'[client'[c].sock], tail'.cursor)
      BY <1>2, <1>15, <3>2
    <3> QED BY <1>10, <2>3, <3>1, <3>3, <3>4, <3>5 DEF Fits
  <2> QED BY <2>2, <2>3
<1>18. Fed(chan, net, tail.cursor, skip, job)'
  BY <1>1, <1>2, <1>17 DEF Fed
<1>19. Asking'
  <2> SUFFICES ASSUME NEW d \in Clients, NEW i \in Jobs, client'[d].sock # 0, job'[i].pc # "none",
                      job'[i].sock = client'[d].sock
               PROVE  LET p == net'[client'[d].sock] IN
                      /\ job'[i].pc = "resolving" => p = <<>> /\ job'[i].resume = client'[d].cursor
                      /\ job'[i].pc # "resolving" =>
                           \/ p = <<>> /\ (client'[d].cursor = 0 \/ d \in blind')
                           \/ Len(p) = 1 /\ p[1].t = "gap" /\ client'[d].cursor # 0
    BY DEF Asking
  <2>1. CASE d = c
    <3>1. ~ServedBy(job, c)
      BY <1>2, <1>7, <2>1 DEF ServedBy
    <3> QED BY <1>2, <1>7, <1>8, <1>11, <1>16, <2>1, <3>1
  <2>2. CASE d # c
    <3>1. client'[d] = client[d] /\ client[d].sock \in Sockets /\ client[d].sock # s
      BY <1>7, <2>2, ClientTypes
    <3>2. net'[client'[d].sock] = net[client[d].sock]
      BY <1>8, <3>1
    <3> QED BY <1>1, <1>2, <1>9, <2>2, <3>1, <3>2 DEF Asking
  <2> QED BY <2>1, <2>2
<1>20. \A t \in Sockets : ClientOf(t)' = {} => net'[t] = <<>>
  <2> SUFFICES ASSUME NEW t \in Sockets, ClientOf(t)' = {} PROVE net'[t] = <<>>
    OBVIOUS
  <2>1. ClientOf(t) = {}
    BY <1>7 DEF ClientOf
  <2>2. t # s
    BY <1>3, <2>1
  <2> QED BY <1>1, <1>8, <2>1, <2>2 DEF OneByOne
<1>21. OneByOne'
  BY <1>1, <1>2, <1>7, <1>20 DEF OneByOne
<1> QED BY <1>18, <1>19, <1>21 DEF HoleInv

-----------------------------------------------------------------------------
(* What a client may lack: the theorem *)

\* A behaviour in which the modes are plain has been so from its start.
LEMMA PlainBefore ==
  ASSUME LiveInv, [Next]_vars, Plain'
  PROVE  /\ Plain
         /\ ~ShowArtifact /\ ~Restart /\ \A c \in Clients : ~Leave(c)
<1>1. visits \in Nat /\ boots \in Nat
  BY DEF LiveInv, TypesOK
<1>2. mode' = mode
  BY DEF Next, AgentStartsTurn, AgentEndsTurn, AgentWrites, ShowArtifact, PollTranscript, PollState, Chatter,
         SendBatch, Restart, Resume, Gap, ReadSnapshot, SendSnapshot, Close, Connect, Lose, Leave, Come,
         Deliver, vars
<1>3. visits' = visits \/ visits' = visits + 1
  BY DEF Next, AgentStartsTurn, AgentEndsTurn, AgentWrites, ShowArtifact, PollTranscript, PollState, Chatter,
         SendBatch, Restart, Resume, Gap, ReadSnapshot, SendSnapshot, Close, Connect, Lose, Leave, Come,
         Deliver, vars, counters
<1>4. boots' = boots \/ boots' = boots + 1
  BY DEF Next, AgentStartsTurn, AgentEndsTurn, AgentWrites, ShowArtifact, PollTranscript, PollState, Chatter,
         SendBatch, Restart, Resume, Gap, ReadSnapshot, SendSnapshot, Close, Connect, Lose, Leave, Come,
         Deliver, vars, counters
<1>5. Plain
  BY <1>1, <1>2, <1>3, <1>4 DEF Plain
<1>6. ~ShowArtifact
  BY <1>5 DEF ShowArtifact, Plain
<1>7. ~Restart
  BY <1>1 DEF Restart, Plain
<1>8. \A c \in Clients : ~Leave(c)
  BY <1>1 DEF Leave, Plain
<1> QED BY <1>5, <1>6, <1>7, <1>8

LEMMA HoleNext == LiveInv /\ (Plain => HoleInv) /\ [Next]_vars => (Plain => HoleInv)'
<1> SUFFICES ASSUME LiveInv, Plain => HoleInv, [Next]_vars, Plain' PROVE HoleInv'
  OBVIOUS
<1>1. Plain /\ HoleInv /\ ~ShowArtifact /\ ~Restart /\ \A c \in Clients : ~Leave(c)
  BY PlainBefore
<1>2. \A c \in Clients : ~Come(c)
  BY <1>1, HoleTypes DEF Come
<1>3. CASE AgentStartsTurn \/ AgentEndsTurn \/ AgentWrites
  BY <1>1, <1>3, HoleAgent
<1>4. CASE PollTranscript \/ PollState \/ Chatter
  BY <1>1, <1>4, HolePolls
<1>5. CASE SendBatch
  BY <1>1, <1>5, HoleBatch
<1>6. ASSUME NEW j \in Jobs, Resume(j) \/ Gap(j) \/ ReadSnapshot(j) \/ SendSnapshot(j) PROVE HoleInv'
  BY <1>1, <1>6, HoleResume, HoleGap, HoleRead, HoleSnapshot
<1>7. ASSUME NEW s \in Sockets, Close(s) PROVE HoleInv'
  BY <1>1, <1>7, HoleClose
<1>8. ASSUME NEW c \in Clients, Connect(c) \/ Lose(c) \/ Deliver(c) PROVE HoleInv'
  BY <1>1, <1>8, HoleConnect, HoleLose, HoleDeliver
<1>9. CASE UNCHANGED vars
  BY <1>1, <1>9, HoleQuiet DEF vars
<1> QED BY <1>1, <1>2, <1>3, <1>4, <1>5, <1>6, <1>7, <1>8, <1>9 DEF Next

\* In the plain modes a client that was answered, has no frame under way and took no gap
\* lacks none of the rows the tail has published but those it skipped, however often its
\* connection broke and however it was answered: replayOrSnapshot, the ring and the
\* cursor of the client leave no other hole.
THEOREM HolesAreSkipsHolds == Spec => []HolesAreSkips
<1>1. Init => (Plain => HoleInv)
  BY InitHoles
<1>2. LiveInv /\ (Plain => HoleInv) /\ [Next]_vars => (Plain => HoleInv)'
  BY HoleNext
<1>3. LiveInv /\ (Plain => HoleInv) => HolesAreSkips
  BY InvImpliesHoles
<1>4. Spec => []LiveInv
  BY LiveInvariant
<1> QED BY <1>1, <1>2, <1>3, <1>4, PTL DEF Spec

=============================================================================
