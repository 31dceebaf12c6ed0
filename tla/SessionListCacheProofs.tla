------------------------ MODULE SessionListCacheProofs ------------------------
(***************************************************************************)
(* The session list cache keeps its promise: SessionListCache implements   *)
(* SessionScan, for any rows, readers, scans, time to live and bounds.     *)
(*                                                                         *)
(* The invariant compares windows.  A scan of the current epoch began      *)
(* after the last invalidation, so it has seen no more than the settled    *)
(* window, and the same holds for the cached list and for the reader who   *)
(* joined the scan.                                                        *)
(***************************************************************************)
EXTENDS SessionListCache, TLAPS

\* The interval of a lies within the interval of b.
Within(a, b) == b.sure \subseteq a.sure /\ a.maybe \subseteq b.maybe

CacheInv ==
  /\ world \in Seen(settled)
  /\ \A s \in Slots : of[s] <= epoch
  /\ \A s \in Slots : scans[s].on /\ of[s] = epoch => Within(scans[s].win, settled)
  /\ cached.known => cached.rows \in Seen(settled) /\ cached.at = cached.begun
  /\ \A r \in Readers : \A s \in awaits[r] : Within(scans[s].win, reader[r].win)
  /\ AnswerIsCurrent

\* What a list was seen to be within a window, it may have been within a longer one.
LEMMA SeenWithin ==
  ASSUME NEW a \in Window, NEW b \in Window, Within(a, b), NEW S \in Seen(a)
  PROVE  S \in Seen(b)
BY DEF Window, Within, Seen

\* A change of the list keeps windows windows, and one within the other.
LEMMA ThroughWindow ==
  ASSUME NEW a \in Window, NEW b \in Window, NEW w \in SUBSET Rows
  PROVE  /\ Through(a, w) \in Window
         /\ Within(a, b) => Within(Through(a, w), Through(b, w))
         /\ \A S : S \in Seen(a) => S \in Seen(Through(a, w))
BY DEF Window, Within, Through, Seen

\* The interval that begins now lies within any that is open.
LEMMA FromWindow ==
  ASSUME NEW w \in SUBSET Rows
  PROVE  From(w) \in Window /\ w \in Seen(From(w)) /\ Within(From(w), From(w))
BY DEF Window, Within, From, Seen

\* At first nobody asked and nothing was scanned.
LEMMA InitInv == Init => TypeOK /\ CacheInv
<1> SUFFICES ASSUME Init PROVE TypeOK /\ CacheInv
  OBVIOUS
<1> USE DEF Init, ScanInit
<1>1. From({}) \in Window
  BY FromWindow
<1>2. 0 \in Time
  BY ScanAssumption DEF Time
<1>3. ScanTypeOK
  BY <1>1, <1>2 DEF ScanTypeOK, NoScan, NoLatest, Idle
<1>4. TypeOK
  BY <1>2, <1>3, CacheAssumption DEF TypeOK, Empty, Waiting, Idle
<1>5. CacheInv
  BY FromWindow DEF CacheInv, NoScan, Empty, AnswerIsCurrent, Idle
<1> QED
  BY <1>4, <1>5

Scan == [on : BOOLEAN, startedAt : Time, win : Window]
Reader == [state : {"idle", "waiting", "done"}, win : Window, ans : SUBSET Rows]

\* Who awaits what.
Booked ==
  /\ \A s, u \in inflight : s = u
  /\ \A r \in Readers : \A s, u \in awaits[r] : s = u
  /\ \A s \in inflight : scans[s].on
  /\ \A r \in Readers : \A s \in awaits[r] : scans[s].on
  /\ \A r \in Readers : reader[r].state = "waiting" <=> awaits[r] # {}

Typed ==
  /\ now \in Time /\ world \in SUBSET Rows /\ settled \in Window
  /\ scans \in [Slots -> Scan] /\ reader \in [Readers -> Reader]
  /\ latest \in [known : BOOLEAN, startedAt : Time, rows : SUBSET Rows]
  /\ epoch \in 0..MaxEpoch /\ inflight \in SUBSET Slots
  /\ cached \in [known : BOOLEAN, at : Time, rows : SUBSET Rows, begun : Time]
  /\ of \in [Slots -> 0..MaxEpoch] /\ awaits \in [Readers -> SUBSET Slots]
  /\ Booked

\* The type invariant in parts, before a step and after it.
LEMMA TypeParts ==
  /\ TypeOK <=> Typed
  /\ TypeOK' <=> Typed'
BY DEF TypeOK, ScanTypeOK, Booked, Waiting, Scan, Reader, Typed

\* A scan that begins is the one in flight.
LEMMA StartType ==
  ASSUME TypeOK, NEW s \in Slots, StartScan(s)
  PROVE  /\ scans' \in [Slots -> Scan] /\ of' \in [Slots -> 0..MaxEpoch] /\ inflight' = {s}
         /\ ~scans[s].on
         /\ \A u \in Slots : scans'[u].on <=> (u = s \/ scans[u].on)
<1>1. From(world) \in Window
  BY TypeParts, FromWindow DEF Typed
<1>2. [on |-> TRUE, startedAt |-> now, win |-> From(world)] \in Scan
  BY <1>1, TypeParts DEF Typed, Scan
<1> QED
  BY <1>2, TypeParts DEF Typed, StartScan, Begin

\* The end of a scan wakes those who await it, and nobody else.
LEMMA ResolveType ==
  ASSUME TypeOK, NEW s \in Slots, NEW to \in [Readers -> Reader],
         \A r \in Readers : to[r].state # "waiting",
         Resolve(s, to),
         latest' \in [known : BOOLEAN, startedAt : Time, rows : SUBSET Rows],
         cached' \in [known : BOOLEAN, at : Time, rows : SUBSET Rows, begun : Time]
  PROVE  TypeOK'
<1>1. NoScan \in Scan /\ ~NoScan.on
  BY FromWindow, ScanAssumption DEF NoScan, Scan, Time
<1>2. scans' \in [Slots -> Scan] /\ \A u \in Slots : scans'[u].on <=> (u # s /\ scans[u].on)
  BY <1>1, TypeParts DEF Typed, Resolve
<1>3. reader' \in [Readers -> Reader] /\ awaits' \in [Readers -> SUBSET Slots]
  BY TypeParts DEF Typed, Resolve
<1>4. of' \in [Slots -> 0..MaxEpoch] /\ inflight' \in SUBSET Slots
  BY TypeParts, CacheAssumption DEF Typed, Resolve
<1>5. Booked'
  <2>1. ASSUME NEW r \in Readers PROVE reader'[r].state = "waiting" <=> awaits'[r] # {}
    <3>1. CASE s \in awaits[r]
      BY <3>1, TypeParts DEF Typed, Resolve, Booked
    <3>2. CASE s \notin awaits[r]
      BY <3>2, TypeParts DEF Typed, Resolve, Booked
    <3> QED
      BY <3>1, <3>2
  <2> QED
    BY <2>1, <1>2, <1>3, <1>4, TypeParts DEF Typed, Booked, Resolve
<1> QED
  BY <1>2, <1>3, <1>4, <1>5, TypeParts DEF Typed, Resolve

\* Every step keeps the types, and the bookkeeping of who awaits what.
LEMMA NextType == TypeOK /\ [Next]_vars => TypeOK'
<1> SUFFICES ASSUME TypeOK, [Next]_vars PROVE TypeOK'
  OBVIOUS
<1>1. CASE Tick /\ UNCHANGED cacheVars
  BY <1>1, TypeParts, ScanAssumption DEF Typed, Tick, cacheVars, Time, Booked
<1>2. CASE ChangeSilently
  <2>1. PICK w \in SUBSET Rows : Change(w)
    BY <1>2 DEF ChangeSilently
  <2>2. \A win \in Window : Through(win, w) \in Window
    BY ThroughWindow
  <2>3. scans' \in [Slots -> Scan] /\ \A s \in Slots : scans'[s].on = scans[s].on
    BY <2>1, <2>2, TypeParts DEF Typed, Change, ScansThrough, Scan
  <2>4. reader' \in [Readers -> Reader] /\ \A r \in Readers : reader'[r].state = reader[r].state
    BY <2>1, <2>2, TypeParts DEF Typed, Change, Reader
  <2>5. world' \in SUBSET Rows /\ settled' \in Window /\ UNCHANGED <<now, latest>>
    BY <2>1, <2>2, TypeParts DEF Typed, Change
  <2>6. UNCHANGED cacheVars
    BY <1>2 DEF ChangeSilently
  <2>7. Booked'
    BY <2>3, <2>4, <2>6, TypeParts DEF Typed, Booked, cacheVars
  <2> QED
    BY <2>3, <2>4, <2>5, <2>6, <2>7, TypeParts DEF Typed, cacheVars
<1>3. CASE InvalidateCache
  <2>1. Empty \in [known : BOOLEAN, at : Time, rows : SUBSET Rows, begun : Time]
    BY ScanAssumption DEF Empty, Time
  <2>2. From(world) \in Window
    BY TypeParts, FromWindow DEF Typed
  <2> QED
    BY <1>3, <2>1, <2>2, TypeParts, CacheAssumption DEF Typed, InvalidateCache, Invalidate, Booked
<1>4. CASE WarmRefresh
  <2>1. PICK s \in Slots : StartScan(s)
    BY <1>4 DEF WarmRefresh
  <2> QED
    BY <1>4, <2>1, StartType, TypeParts DEF Typed, WarmRefresh, Booked
<1>5. ASSUME NEW r \in Readers, Get(r) PROVE TypeOK'
  <2>1. Answered(settled, cached.rows) \in Reader /\ Answered(settled, cached.rows).state = "done"
    BY TypeParts DEF Typed, Answered, Reader
  <2>2. Waits(settled) \in Reader /\ Waits(settled).state = "waiting"
    BY TypeParts DEF Typed, Waits, Reader
  <2>3. CASE FreshCache
    BY <1>5, <2>1, <2>3, TypeParts DEF Typed, Get, Booked, Waiting
  <2>4. CASE ~FreshCache /\ Joinable # {}
    BY <1>5, <2>2, <2>4, TypeParts DEF Typed, Get, Joinable, Booked
  <2>5. CASE ~FreshCache /\ Joinable = {}
    <3>1. PICK s \in Slots : StartScan(s) /\ awaits' = [awaits EXCEPT ![r] = {s}]
      BY <1>5, <2>5 DEF Get
    <3>2. reader' = [reader EXCEPT ![r] = Waits(settled)] /\ UNCHANGED <<now, world, settled, latest, epoch, cached>>
      BY <1>5, <2>5 DEF Get
    <3>3. Booked'
      BY <2>2, <3>1, <3>2, StartType, TypeParts DEF Typed, Booked
    <3> QED
      BY <2>2, <3>1, <3>2, <3>3, StartType, TypeParts DEF Typed
  <2> QED
    BY <2>3, <2>4, <2>5
<1>6. ASSUME NEW s \in Slots, ScanDone(s) PROVE TypeOK'
  <2> DEFINE to(S) == [r \in Readers |-> Answered(reader[r].win, S)]
  <2>1. PICK S \in Seen(scans[s].win) :
          /\ cached' = IF Owns(s)
                       THEN [known |-> TRUE, at |-> Stamp(s), rows |-> S, begun |-> scans[s].startedAt]
                       ELSE cached
          /\ Adopt(s, S)
          /\ Resolve(s, to(S))
    BY <1>6 DEF ScanDone
  <2>2. S \in SUBSET Rows /\ scans[s].startedAt \in Time
    BY TypeParts DEF Typed, Seen, Scan
  <2>3. to(S) \in [Readers -> Reader] /\ \A r \in Readers : to(S)[r].state # "waiting"
    BY <2>2, TypeParts DEF Typed, Answered, Reader
  <2>4. latest' \in [known : BOOLEAN, startedAt : Time, rows : SUBSET Rows]
    BY <2>1, <2>2, TypeParts DEF Typed, Adopt
  <2>5. cached' \in [known : BOOLEAN, at : Time, rows : SUBSET Rows, begun : Time]
    BY <2>1, <2>2, TypeParts DEF Typed, Stamp
  <2> HIDE DEF to
  <2> QED
    BY <2>1, <2>3, <2>4, <2>5, ResolveType
<1>7. ASSUME NEW s \in Slots, ScanFails(s) PROVE TypeOK'
  <2> DEFINE to == [r \in Readers |-> Idle]
  <2>1. to \in [Readers -> Reader] /\ \A r \in Readers : to[r].state # "waiting"
    BY FromWindow DEF Idle, Reader
  <2>2. Resolve(s, to) /\ UNCHANGED <<cached, latest>>
    BY <1>7 DEF ScanFails
  <2> HIDE DEF to
  <2> QED
    BY <2>1, <2>2, ResolveType, TypeParts DEF Typed
<1>8. CASE UNCHANGED vars
  BY <1>8, TypeParts DEF Typed, vars, scanVars, cacheVars, Booked
<1> QED
  BY <1>1, <1>2, <1>3, <1>4, <1>5, <1>6, <1>7, <1>8 DEF Next
-----------------------------------------------------------------------------
\* The windows

\* Every step preserves the invariant of the windows.
LEMMA NextInv == TypeOK /\ CacheInv /\ [Next]_vars => CacheInv'
<1> SUFFICES ASSUME TypeOK, CacheInv, [Next]_vars PROVE CacheInv'
  OBVIOUS
<1>0. Typed /\ Typed'
  BY NextType, TypeParts
<1>1. CASE Tick /\ UNCHANGED cacheVars
  BY <1>1 DEF Tick, cacheVars, CacheInv, AnswerIsCurrent
<1>2. CASE ChangeSilently
  <2>1. PICK w \in SUBSET Rows : Change(w)
    BY <1>2 DEF ChangeSilently
  <2>2. UNCHANGED cacheVars
    BY <1>2 DEF ChangeSilently
  <2>3. \A s \in Slots : scans[s].on =>
          scans'[s].on /\ scans[s].win \in Window /\ scans'[s].win = Through(scans[s].win, w)
    BY <1>0, <2>1 DEF Change, ScansThrough, Typed, Scan
  <2>4. \A s \in Slots : scans'[s].on => scans[s].on
    BY <1>0, <2>1 DEF Change, ScansThrough, Typed, Scan
  <2>5. settled \in Window /\ settled' = Through(settled, w)
    BY <1>0, <2>1 DEF Change, ScansThrough, Typed
  <2>5a. world' \in Seen(settled')
    BY <1>0, <2>1, <2>5 DEF Change, ScansThrough, Typed, Through, Seen, Window, CacheInv
  <2>6. ASSUME NEW s \in Slots, scans'[s].on, of'[s] = epoch' PROVE Within(scans'[s].win, settled')
    BY <2>2, <2>3, <2>4, <2>5, <2>6, ThroughWindow DEF CacheInv, cacheVars
  <2>7. cached'.known => cached'.rows \in Seen(settled') /\ cached'.at = cached'.begun
    BY <2>2, <2>5, ThroughWindow DEF CacheInv, cacheVars
  <2>8. ASSUME NEW r \in Readers, NEW s \in awaits'[r] PROVE Within(scans'[s].win, reader'[r].win)
    <3>1. s \in Slots /\ s \in awaits[r] /\ scans[s].on /\ reader[r].state = "waiting"
      BY <1>0, <2>2, <2>8 DEF Typed, Booked, cacheVars
    <3>2. reader[r].win \in Window /\ reader'[r].win = Through(reader[r].win, w)
      BY <1>0, <2>1, <3>1 DEF Change, ScansThrough, Typed, Reader
    <3>3. Within(scans[s].win, reader[r].win)
      BY <3>1 DEF CacheInv
    <3> QED
      BY <2>3, <3>1, <3>2, <3>3, ThroughWindow
  <2>9. AnswerIsCurrent'
    <3> SUFFICES ASSUME NEW r \in Readers, reader'[r].state = "done"
                 PROVE  reader'[r].ans \in Seen(reader'[r].win)
      BY DEF AnswerIsCurrent
    <3>1. reader'[r] = reader[r]
      BY <1>0, <2>1 DEF Change, ScansThrough, Typed, Reader
    <3> QED
      BY <3>1 DEF CacheInv, AnswerIsCurrent
  <2> QED
    BY <2>2, <2>5a, <2>6, <2>7, <2>8, <2>9 DEF CacheInv, cacheVars
<1>3. CASE InvalidateCache
  <2>1. \A s \in Slots : of[s] < epoch'
    BY <1>0, <1>3 DEF InvalidateCache, CacheInv, Typed
  <2>2. world \in Seen(From(world))
    BY <1>0, FromWindow DEF Typed
  <2> QED
    BY <1>0, <1>3, <2>1, <2>2 DEF InvalidateCache, Invalidate, CacheInv, AnswerIsCurrent, Empty, Typed
<1>4. ASSUME NEW s \in Slots, StartScan(s),
             UNCHANGED <<world, settled, epoch, cached>>
      PROVE  /\ \A u \in Slots : of'[u] <= epoch'
             /\ \A u \in Slots : scans'[u].on /\ of'[u] = epoch' => Within(scans'[u].win, settled')
             /\ cached'.known => cached'.rows \in Seen(settled') /\ cached'.at = cached'.begun
             /\ Within(scans'[s].win, settled)
             /\ \A u \in Slots \ {s} : scans'[u] = scans[u]
  <2>1. Within(From(world), settled)
    BY DEF CacheInv, Within, From, Seen
  <2>2. scans'[s].win = From(world) /\ \A u \in Slots \ {s} : scans'[u] = scans[u]
    BY <1>0, <1>4 DEF StartScan, Begin, Typed
  <2>3. \A u \in Slots : of'[u] = IF u = s THEN epoch ELSE of[u]
    BY <1>0, <1>4 DEF StartScan, Typed
  <2> QED
    BY <1>0, <1>4, <2>1, <2>2, <2>3 DEF CacheInv, Typed
<1>5. CASE WarmRefresh
  <2>1. PICK s \in Slots : StartScan(s)
    BY <1>5 DEF WarmRefresh
  <2>2. UNCHANGED <<now, world, settled, latest, reader, epoch, cached, awaits>>
    BY <1>5 DEF WarmRefresh
  <2>3. ~scans[s].on
    BY <2>1, StartType
  <2>4. ASSUME NEW r \in Readers, NEW u \in awaits'[r] PROVE Within(scans'[u].win, reader'[r].win)
    BY <1>0, <1>4, <2>1, <2>2, <2>3 DEF CacheInv, Typed, Booked
  <2> QED
    BY <1>4, <2>1, <2>2, <2>4 DEF CacheInv, AnswerIsCurrent
<1>6. ASSUME NEW r \in Readers, Get(r) PROVE CacheInv'
  <2>1. \A q \in Readers \ {r} : reader'[q] = reader[q]
    BY <1>0, <1>6 DEF Get, Typed
  <2>2. UNCHANGED <<now, world, settled, latest, epoch, cached>>
    BY <1>6 DEF Get
  <2>3. CASE FreshCache
    <3>1. reader'[r].ans \in Seen(reader'[r].win)
      BY <1>0, <1>6, <2>3 DEF Get, FreshCache, Answered, CacheInv, Typed
    <3>2. awaits'[r] = {}
      BY <1>0, <1>6, <2>3 DEF Get, Typed, Booked, Waiting
    <3>3. UNCHANGED <<scans, inflight, of, awaits>>
      BY <1>6, <2>3 DEF Get
    <3> QED
      BY <2>1, <2>2, <3>1, <3>2, <3>3 DEF CacheInv, AnswerIsCurrent
  <2>4. CASE ~FreshCache /\ Joinable # {}
    <3>1. UNCHANGED <<scans, inflight, of>> /\ awaits' = [awaits EXCEPT ![r] = Joinable]
      BY <1>6, <2>4 DEF Get
    <3>2. reader'[r] = Waits(settled)
      BY <1>0, <1>6, <2>4 DEF Get, Typed
    <3>3. \A s \in Joinable : Within(scans[s].win, settled)
      BY <1>0 DEF Joinable, CacheInv, Typed, Booked
    <3> QED
      BY <1>0, <2>1, <2>2, <3>1, <3>2, <3>3 DEF CacheInv, AnswerIsCurrent, Waits, Typed
  <2>5. CASE ~FreshCache /\ Joinable = {}
    <3>1. PICK s \in Slots : StartScan(s) /\ awaits' = [awaits EXCEPT ![r] = {s}]
      BY <1>6, <2>5 DEF Get
    <3>2. reader'[r] = Waits(settled)
      BY <1>0, <1>6, <2>5 DEF Get, Typed
    <3>3. ~scans[s].on
      BY <3>1, StartType
    <3>4. awaits'[r] = {s} /\ \A q \in Readers \ {r} : awaits'[q] = awaits[q]
      BY <1>0, <3>1 DEF Typed
    <3>5. ASSUME NEW q \in Readers, NEW u \in awaits'[q] PROVE Within(scans'[u].win, reader'[q].win)
      <4>1. CASE q = r
        BY <1>4, <2>2, <3>1, <3>2, <3>4, <3>5, <4>1 DEF Waits
      <4>2. CASE q # r
        BY <1>0, <1>4, <2>1, <2>2, <3>1, <3>3, <3>4, <3>5, <4>2 DEF CacheInv, Typed, Booked
      <4> QED
        BY <4>1, <4>2
    <3>6. AnswerIsCurrent'
      BY <2>1, <3>2 DEF CacheInv, AnswerIsCurrent, Waits
    <3> QED
      BY <1>4, <2>2, <3>1, <3>5, <3>6 DEF CacheInv
  <2> QED
    BY <2>3, <2>4, <2>5
<1>7. ASSUME NEW s \in Slots, NEW to, Resolve(s, to),
             \A r \in Readers : s \in awaits[r] /\ to[r].state = "done" => to[r].ans \in Seen(to[r].win),
             cached'.known => cached'.rows \in Seen(settled') /\ cached'.at = cached'.begun
      PROVE  CacheInv'
  <2>1. \A u \in Slots : scans'[u].on => u # s /\ scans'[u] = scans[u] /\ of'[u] = of[u]
    BY <1>0, <1>7 DEF Resolve, NoScan, Typed
  <2>2. \A u \in Slots : of'[u] <= epoch'
    BY <1>0, <1>7 DEF Resolve, CacheInv, Typed
  <2>3. ASSUME NEW r \in Readers, NEW u \in awaits'[r] PROVE Within(scans'[u].win, reader'[r].win)
    <3>1. u \in Slots /\ u # s /\ u \in awaits[r]
      BY <1>0, <1>7, <2>3 DEF Resolve, Typed
    <3>2. s \notin awaits[r]
      BY <1>0, <3>1 DEF Typed, Booked
    <3>3. scans'[u] = scans[u] /\ reader'[r] = reader[r]
      BY <1>0, <1>7, <3>1, <3>2 DEF Resolve, Typed
    <3> QED
      BY <3>1, <3>3 DEF CacheInv
  <2>4. AnswerIsCurrent'
    BY <1>0, <1>7 DEF Resolve, CacheInv, AnswerIsCurrent, Typed
  <2>5. UNCHANGED <<now, world, settled, epoch>>
    BY <1>7 DEF Resolve
  <2> QED
    BY <1>7, <2>1, <2>2, <2>3, <2>4, <2>5 DEF CacheInv
<1>8. ASSUME NEW s \in Slots, ScanDone(s) PROVE CacheInv'
  <2> DEFINE to(S) == [r \in Readers |-> Answered(reader[r].win, S)]
  <2>1. PICK S \in Seen(scans[s].win) :
          /\ cached' = IF Owns(s)
                       THEN [known |-> TRUE, at |-> Stamp(s), rows |-> S, begun |-> scans[s].startedAt]
                       ELSE cached
          /\ Resolve(s, to(S))
    BY <1>8 DEF ScanDone
  <2>2. scans[s].on /\ scans[s].win \in Window
    BY <1>0, <1>8 DEF ScanDone, Typed, Scan
  <2>3. ASSUME NEW r \in Readers, s \in awaits[r] PROVE to(S)[r].ans \in Seen(to(S)[r].win)
    <3>1. Within(scans[s].win, reader[r].win) /\ reader[r].win \in Window
      BY <1>0, <2>3 DEF CacheInv, Typed, Reader
    <3> QED
      BY <2>2, <3>1, SeenWithin DEF Answered
  <2>4. UNCHANGED settled
    BY <2>1 DEF Resolve
  <2>5. CASE Owns(s)
    <3>1. S \in Seen(settled)
      BY <1>0, <2>2, <2>5, SeenWithin DEF Owns, CacheInv, Typed
    <3> HIDE DEF to
    <3> QED
      BY <1>7, <2>1, <2>3, <2>4, <2>5, <3>1 DEF Stamp
  <2>6. CASE ~Owns(s)
    <3> HIDE DEF to
    <3> QED
      BY <1>7, <2>1, <2>3, <2>4, <2>6 DEF CacheInv
  <2> QED
    BY <2>5, <2>6
<1>9. ASSUME NEW s \in Slots, ScanFails(s) PROVE CacheInv'
  <2> DEFINE to == [r \in Readers |-> Idle]
  <2>1. \A r \in Readers : to[r].state # "done"
    BY DEF Idle
  <2>2. Resolve(s, to) /\ UNCHANGED <<cached, settled>>
    BY <1>9 DEF ScanFails, Resolve
  <2> HIDE DEF to
  <2> QED
    BY <1>7, <2>1, <2>2 DEF CacheInv
<1>10. CASE UNCHANGED vars
  BY <1>10 DEF vars, scanVars, cacheVars, CacheInv, AnswerIsCurrent
<1> QED
  BY <1>1, <1>2, <1>3, <1>5, <1>6, <1>8, <1>9, <1>10 DEF Next

-----------------------------------------------------------------------------
\* The theorems

\* Every variable of the cache stays in its type, and every waiting reader awaits a
\* scan that is in progress: no caller of listSessionsCached() is forgotten.
THEOREM TypeCorrect == Spec => []TypeOK
<1>1. Init => TypeOK
  BY InitInv
<1> QED
  BY <1>1, NextType, PTL DEF Spec

\* The invariant of the windows.
THEOREM Invariant == Spec => [](TypeOK /\ CacheInv)
<1>1. Init => TypeOK /\ CacheInv
  BY InitInv
<1>2. TypeOK /\ CacheInv /\ [Next]_vars => (TypeOK /\ CacheInv)'
  BY NextType, NextInv
<1> QED
  BY <1>1, <1>2, PTL DEF Spec

\* Who asks after an invalidation gets a list as it was at some time since then.
THEOREM AnswersAreCurrent == Spec => []AnswerIsCurrent
<1>1. CacheInv => AnswerIsCurrent
  BY DEF CacheInv
<1> QED
  BY <1>1, Invariant, PTL

\* A list served from the cache began to be scanned within the time to live.
THEOREM CacheStaysYoung == Spec => []CacheIsYoung
<1>1. CacheInv => CacheIsYoung
  BY DEF CacheInv, CacheIsYoung, FreshCache
<1> QED
  BY <1>1, Invariant, PTL

\* The steps of the cache are steps of the promise, or invisible to it.
LEMMA StepRefines == TypeOK /\ CacheInv /\ [Next]_vars => [ScanNext]_scanVars
<1> SUFFICES ASSUME TypeOK, CacheInv, [Next]_vars PROVE [ScanNext]_scanVars
  OBVIOUS
<1>0. Typed
  BY TypeParts
<1>1. CASE Tick /\ UNCHANGED cacheVars
  BY <1>1 DEF ScanNext
<1>2. CASE ChangeSilently
  BY <1>2 DEF ChangeSilently, ScanNext
<1>3. CASE InvalidateCache
  BY <1>3 DEF InvalidateCache, ScanNext
<1>4. CASE WarmRefresh
  <2>1. PICK s \in Slots : Start(s)
    BY <1>4 DEF WarmRefresh, StartScan, Start
  <2> QED
    BY <2>1 DEF ScanNext
<1>5. ASSUME NEW r \in Readers, Get(r) PROVE Ask(r)
  <2>1. CASE FreshCache
    BY <1>5, <2>1 DEF Get, Ask, FreshCache, CacheInv
  <2>2. CASE ~FreshCache
    BY <1>5, <2>2 DEF Get, Ask, StartScan
  <2> QED
    BY <2>1, <2>2
<1>6. ASSUME NEW s \in Slots, ScanDone(s) PROVE Finish(s)
  <2> DEFINE to(S) == [r \in Readers |-> Answered(reader[r].win, S)]
             R == {r \in Readers : s \in awaits[r]}
  <2>1. PICK S \in Seen(scans[s].win) : Adopt(s, S) /\ Resolve(s, to(S))
    BY <1>6 DEF ScanDone
  <2>2. scans[s].on /\ scans[s].win \in Window /\ S \in SUBSET Rows
    BY <1>0, <1>6 DEF ScanDone, Typed, Scan, Seen
  <2>3. R \in SUBSET {r \in Readers : Waiting(r)}
    BY <1>0 DEF Typed, Booked, Waiting
  <2>4. \A r \in R : S \in Seen(reader[r].win)
    BY <1>0, <2>2, SeenWithin DEF CacheInv, Typed, Reader
  <2>5. reader' = [r \in Readers |-> IF r \in R THEN Answered(reader[r].win, S) ELSE reader[r]]
    BY <2>1 DEF Resolve
  <2>6. scans' = [scans EXCEPT ![s] = NoScan] /\ UNCHANGED <<now, world, settled>>
    BY <2>1 DEF Resolve
  <2> HIDE DEF R, to
  <2> QED
    BY <2>1, <2>2, <2>3, <2>4, <2>5, <2>6 DEF Finish
<1>7. ASSUME NEW s \in Slots, ScanFails(s) PROVE Finish(s)
  <2> DEFINE R == {r \in Readers : s \in awaits[r]}
  <2>1. R \in SUBSET {r \in Readers : Waiting(r)}
    BY <1>0 DEF Typed, Booked, Waiting
  <2>2. reader' = [r \in Readers |-> IF r \in R THEN Idle ELSE reader[r]]
    BY <1>7 DEF ScanFails, Resolve
  <2>3. scans[s].on /\ scans' = [scans EXCEPT ![s] = NoScan] /\ UNCHANGED <<now, world, settled, latest>>
    BY <1>7 DEF ScanFails, Resolve
  <2> HIDE DEF R
  <2> QED
    BY <2>1, <2>2, <2>3 DEF Finish
<1>8. CASE UNCHANGED vars
  BY <1>8 DEF vars
<1>9. CASE \E r \in Readers : Get(r)
  BY <1>5, <1>9 DEF ScanNext
<1>10. CASE \E s \in Slots : ScanDone(s) \/ ScanFails(s)
  BY <1>6, <1>7, <1>10 DEF ScanNext
<1> QED
  BY <1>1, <1>2, <1>3, <1>4, <1>8, <1>9, <1>10 DEF Next

\* The cache of session-cache.ts implements what its comments promise.
THEOREM Implements == Spec => Promise
<1>1. Init => ScanInit
  BY DEF Init
<1> QED
  BY <1>1, StepRefines, Invariant, PTL DEF Spec, Promise, ScanSpec

\* latest() never goes back to an older scan.
THEOREM LatestGoesForward == Spec => LatestMovesForward
<1>1. TypeOK /\ [Next]_vars =>
        [latest.known => latest'.known /\ latest'.startedAt >= latest.startedAt]_scanVars
  <2> SUFFICES ASSUME TypeOK, [Next]_vars, latest.known
               PROVE  latest'.known /\ latest'.startedAt >= latest.startedAt
    OBVIOUS
  <2>0. Typed
    BY TypeParts
  <2>1. CASE latest' = latest
    BY <2>0, <2>1 DEF Typed, Time
  <2>2. CASE \E s \in Slots : ScanDone(s)
    BY <2>0, <2>2 DEF ScanDone, Adopt, Typed, Scan, Time
  <2>3. (\E s \in Slots : ScanDone(s)) \/ latest' = latest
    BY DEF Next, Tick, ChangeSilently, Change, InvalidateCache, Invalidate, WarmRefresh, Get,
           ScanFails, vars, scanVars
  <2> QED
    BY <2>1, <2>2, <2>3
<1> QED
  BY <1>1, TypeCorrect, PTL DEF Spec, LatestMovesForward
=============================================================================
