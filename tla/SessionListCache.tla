--------------------------- MODULE SessionListCache ---------------------------
(***************************************************************************)
(* createSessionListCache of src/src/session-cache.ts: epochs, the scan in *)
(* flight, the cached list with its time to live, and the newest scan.     *)
(* It implements SessionScan.                                              *)
(***************************************************************************)
EXTENDS SessionScan

CONSTANTS
  Ttl,        \* LIST_SESSIONS_CACHE_TTL_MS, in ticks of the clock
  MaxEpoch    \* bound: invalidations

ASSUME CacheAssumption == Ttl \in Nat /\ MaxEpoch \in Nat

VARIABLES
  epoch,      \* bumped by every invalidate()
  inflight,   \* the scan callers may join: a set of one, or empty
  cached,     \* the list get() may serve
  of,         \* the epoch each scan began in
  awaits      \* the scan each reader awaits: a set of one, or empty

cacheVars == <<epoch, inflight, cached, of, awaits>>
vars == <<scanVars, cacheVars>>

Empty == [known |-> FALSE, at |-> 0, rows |-> {}, begun |-> 0]

TypeOK ==
  /\ ScanTypeOK
  /\ epoch \in 0..MaxEpoch
  /\ inflight \subseteq Slots
  \* `begun' is history: when the scan that made the list really began.
  /\ cached \in [known : BOOLEAN, at : Time, rows : SUBSET Rows, begun : Time]
  /\ of \in [Slots -> 0..MaxEpoch]
  /\ awaits \in [Readers -> SUBSET Slots]
  \* Only scans in progress are joined or awaited, one at a time, and every waiting
  \* reader has one.
  /\ \A s, u \in inflight : s = u
  /\ \A r \in Readers : \A s, u \in awaits[r] : s = u
  /\ \A s \in inflight : scans[s].on
  /\ \A r \in Readers : \A s \in awaits[r] : scans[s].on
  /\ \A r \in Readers : Waiting(r) <=> awaits[r] # {}

Init ==
  /\ ScanInit
  /\ epoch = 0
  /\ inflight = {}
  /\ cached = Empty
  /\ of = [s \in Slots |-> 0]
  /\ awaits = [r \in Readers |-> {}]

-----------------------------------------------------------------------------

\* startScan(): the scan belongs to the epoch it begins in.
StartScan(s) ==
  /\ Begin(s)
  /\ of' = [of EXCEPT ![s] = epoch]
  /\ inflight' = {s}

\* Mutant: refresh() joins whatever is in flight.
JoinableAnyEpoch == inflight

\* refresh() joins the scan in flight only if nothing was invalidated since it began.
Joinable == {s \in inflight : of[s] = epoch}

\* Mutant: the cached list outlives the invalidation.
InvalidateCacheKept ==
  /\ epoch < MaxEpoch
  /\ epoch' = epoch + 1
  /\ Invalidate
  /\ UNCHANGED <<cached, inflight, of, awaits>>

\* invalidate()
InvalidateCache ==
  /\ epoch < MaxEpoch
  /\ epoch' = epoch + 1
  /\ cached' = Empty
  /\ Invalidate
  /\ UNCHANGED <<inflight, of, awaits>>

\* The process table or a transcript changes; nobody tells the cache.
ChangeSilently ==
  /\ \E w \in SUBSET Rows : w # world /\ Change(w)
  /\ UNCHANGED cacheVars

FreshCache == cached.known /\ now - cached.at < Ttl

\* get(): the cached list, or the scan in flight, or a scan of its own.
Get(r) ==
  /\ ~Waiting(r)
  /\ IF FreshCache
     THEN /\ reader' = [reader EXCEPT ![r] = Answered(settled, cached.rows)]
          /\ UNCHANGED <<scans, inflight, of, awaits>>
     ELSE /\ reader' = [reader EXCEPT ![r] = Waits(settled)]
          /\ \/ /\ awaits' = [awaits EXCEPT ![r] = Joinable]
                /\ Joinable # {}
                /\ UNCHANGED <<scans, inflight, of>>
             \/ /\ Joinable = {}
                /\ \E s \in Slots : StartScan(s) /\ awaits' = [awaits EXCEPT ![r] = {s}]
  /\ UNCHANGED <<now, world, settled, latest, epoch, cached>>

\* warmRefreshTick() while clients are active.
WarmRefresh ==
  /\ Joinable = {}
  /\ \E s \in Slots : StartScan(s)
  /\ UNCHANGED <<now, world, settled, latest, reader, epoch, cached, awaits>>

\* Mutant: the scan stays in flight after its end.
ResolveKeepsInflight(s, to) ==
  /\ scans' = [scans EXCEPT ![s] = NoScan]
  /\ reader' = [r \in Readers |-> IF s \in awaits[r] THEN to[r] ELSE reader[r]]
  /\ awaits' = [r \in Readers |-> awaits[r] \ {s}]
  /\ of' = [of EXCEPT ![s] = 0]
  /\ UNCHANGED <<now, world, settled, epoch, inflight>>

\* The callers that await scan s resolve to `to', and the slot is free.
Resolve(s, to) ==
  /\ scans' = [scans EXCEPT ![s] = NoScan]
  /\ reader' = [r \in Readers |-> IF s \in awaits[r] THEN to[r] ELSE reader[r]]
  /\ awaits' = [r \in Readers |-> awaits[r] \ {s}]
  /\ inflight' = inflight \ {s}
  /\ of' = [of EXCEPT ![s] = 0]
  /\ UNCHANGED <<now, world, settled, epoch>>

\* Mutant: a scan that an invalidation retired is installed.
OwnsAlways(s) == TRUE

Stamp(s) == scans[s].startedAt
Owns(s) == of[s] = epoch

\* The scan returns: it owns the cache only if its epoch is still the current one.
ScanDone(s) ==
  /\ scans[s].on
  /\ \E S \in Seen(scans[s].win) :
       /\ cached' = IF Owns(s)
                    THEN [known |-> TRUE, at |-> Stamp(s), rows |-> S, begun |-> scans[s].startedAt]
                    ELSE cached
       /\ Adopt(s, S)
       /\ Resolve(s, [r \in Readers |-> Answered(reader[r].win, S)])

\* The scan throws: its callers get the error.
ScanFails(s) ==
  /\ scans[s].on
  /\ Resolve(s, [r \in Readers |-> Idle])
  /\ UNCHANGED <<cached, latest>>

Next ==
  \/ Tick /\ UNCHANGED cacheVars
  \/ ChangeSilently
  \/ InvalidateCache
  \/ WarmRefresh
  \/ \E r \in Readers : Get(r)
  \/ \E s \in Slots : ScanDone(s) \/ ScanFails(s)

Spec == Init /\ [][Next]_vars

-----------------------------------------------------------------------------
\* Properties (with AnswerIsCurrent and LatestMovesForward of SessionScan)

\* A list served from the cache is never older than the time to live, counted from
\* the moment its scan began to look: a slow scan earns no freshness.
CacheIsYoung == FreshCache => now - cached.begun < Ttl

\* The cache implements what SessionScan promises.
Promise == ScanSpec

=============================================================================
