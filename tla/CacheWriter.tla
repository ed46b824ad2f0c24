----------------------------- MODULE CacheWriter -----------------------------
(***************************************************************************)
(* The data-svc writer on one feed: DataFetcher.fetch and BarCache.get_bars*)
(* step by step, against a market that moves on while the tv CLI runs.     *)
(*                                                                         *)
(* Time is counted in bars of the feed: bar t opens at t and closes at     *)
(* t + 1.  Bar times of one timeframe are on its grid, so every comparison *)
(* the code makes in seconds has the same answer in whole bars.            *)
(***************************************************************************)
EXTENDS BarCache

CONSTANTS
    Count,      \* DataSvcConfig.bars_to_fetch
    TvCap,      \* the 500-bar limit of one `tv ohlcv` call
    Closes,     \* closes the market can take
    FetchLag,   \* bar boundaries that may pass during the first tv call, which
                \* times out after 30 s: half of the shortest bar
    StepLag,    \* ... and during each later step of one cycle
    MaxTime     \* bound: the clock stops here

ASSUME WriterAssumption ==
    /\ Count \in Nat \ {0} /\ TvCap \in Nat \ {0} /\ Closes \subseteq Nat
    /\ FetchLag \in 0..1 /\ StepLag \in Nat /\ MaxTime \in Nat

VARIABLES
    now,      \* the clock: the bar that is forming
    market,   \* market[t]: final close of bar t < now, current close of now
    bars,     \* table bars of the series
    meta,     \* its cache_meta row, or NoRow
    pc,       \* where the writer is in its cycle
    seen,     \* the cache_meta row get_bars started from
    want,     \* number of bars it asks TradingView for
    batch,    \* the data frame it holds
    lag       \* bar boundaries passed since the writer's last step

env == <<now, market>>
store == <<bars, meta>>
local == <<seen, want, batch>>
vars == <<now, market, bars, meta, pc, seen, want, batch, lag>>

Smaller(a, b) == IF a <= b THEN a ELSE b
Larger(a, b) == IF a >= b THEN a ELSE b

Init ==
    /\ now = 0
    /\ \E c \in Closes : market = [t \in {0} |-> c]
    /\ bars = EmptyTable /\ meta = NoRow
    /\ pc = "idle" /\ seen = NoRow /\ want = 0 /\ batch = EmptyTable /\ lag = 0

-----------------------------------------------------------------------------
(* The market *)

\* Mutant: a tv call without a timeout shorter than a bar.
LagBoundNoTimeout == FetchLag + StepLag + 1

\* Bar boundaries that may pass before the writer's next step.
LagBound == IF pc = "fetch" THEN FetchLag ELSE StepLag

\* The forming bar closes and the next one opens at the same price.
Tick ==
    /\ now < MaxTime
    /\ pc # "idle" => lag < LagBound
    /\ now' = now + 1
    /\ market' = [t \in 0..now + 1 |-> IF t <= now THEN market[t] ELSE market[now]]
    /\ lag' = IF pc = "idle" THEN 0 ELSE lag + 1
    /\ UNCHANGED <<store, pc, local>>

\* A trade moves the close of the forming bar.
Trade ==
    /\ \E c \in Closes \ {market[now]} : market' = [market EXCEPT ![now] = c]
    /\ UNCHANGED <<now, store, pc, local, lag>>

\* What `tv ohlcv -n n` returns: the newest n bars, the forming one included.
Oldest(n) == Larger(0, now - Smaller(n, TvCap) + 1)

Snapshot(n) ==
    [t \in Oldest(n)..now |-> [close |-> market[t], final |-> t < now]]

-----------------------------------------------------------------------------
(* The writer *)

\* The cycle ends: get_bars reads back and returns, or the feed failed and
\* is retried in the next cycle.
EndCycle ==
    /\ pc' = "idle" /\ lag' = 0
    /\ seen' = NoRow /\ want' = 0 /\ batch' = EmptyTable

\* Mutants: the fast path waits one bar too long, or is one bar too eager.
BeginLate ==
    /\ pc = "idle"
    /\ meta # NoRow => now - meta.last >= 3
    /\ pc' = "get" /\ lag' = 0
    /\ UNCHANGED <<env, store, local>>
BeginEager ==
    /\ pc = "idle"
    /\ meta # NoRow => now - meta.last >= 1
    /\ pc' = "get" /\ lag' = 0
    /\ UNCHANGED <<env, store, local>>

\* DataFetcher.fetch past its fast path: a new closed bar is possible.
Begin ==
    /\ pc = "idle"
    /\ meta # NoRow => now - meta.last >= 2
    /\ pc' = "get" /\ lag' = 0
    /\ UNCHANGED <<env, store, local>>

\* Mutant: the fetch is sized without the overlap bar.
ReadMetaGapOnly ==
    /\ pc = "get"
    /\ seen' = meta
    /\ want' = IF meta = NoRow THEN Count
               ELSE Smaller(Larger(1, now - meta.last), Count)
    /\ pc' = "fetch" /\ lag' = 0
    /\ UNCHANGED <<env, store, batch>>

\* get_bars reads cache_meta and the clock and sizes the fetch.
ReadMeta ==
    /\ pc = "get"
    /\ seen' = meta
    /\ want' = IF meta = NoRow THEN Count
               ELSE Smaller(Larger(1, now - meta.last) + 1, Count)
    /\ pc' = "fetch" /\ lag' = 0
    /\ UNCHANGED <<env, store, batch>>

\* Mutant: the rows of the answer are paired with the bar times in reverse.
FetchedReversed(n, next) ==
    /\ \A t \in Oldest(n)..now : IsPlausible(market[t])
    /\ batch' = [t \in Oldest(n)..now |-> Snapshot(n)[Oldest(n) + now - t]]
    /\ pc' = next /\ lag' = 0
    /\ UNCHANGED <<env, store, seen, want>>

\* The tv call answers and every close is plausible.
Fetched(n, next) ==
    /\ \A t \in Oldest(n)..now : IsPlausible(market[t])
    /\ batch' = Snapshot(n)
    /\ pc' = next /\ lag' = 0
    /\ UNCHANGED <<env, store, seen, want>>

Fetch == pc = "fetch" /\ Fetched(want, IF seen = NoRow THEN "insert" ELSE "check")

\* The full refetch after an overlap mismatch; nothing was deleted before it.
Refetch == pc = "refetch" /\ Fetched(Count, "insert")

\* Focusing the tab, switching the chart, the tv CLI or its answer failed.
FetchFails ==
    /\ pc \in {"get", "fetch", "refetch"}
    /\ EndCycle
    /\ UNCHANGED <<env, store>>

\* Mutant: the cache is invalidated before the refetch (the old BUG 2).
OverlapMismatchInvalidates ==
    /\ pc = "check"
    /\ ~ OverlapValid(seen.last, batch, bars)
    /\ bars' = EmptyTable /\ meta' = NoRow
    /\ pc' = "refetch" /\ lag' = 0
    /\ UNCHANGED <<env, local>>

\* The overlap bar disagrees with the cache.
OverlapMismatch ==
    /\ pc = "check"
    /\ ~ OverlapValid(seen.last, batch, bars)
    /\ pc' = "refetch" /\ lag' = 0
    /\ UNCHANGED <<env, store, local>>

NewBars == {t \in DOMAIN batch : t > seen.last}

OverlapMatch ==
    /\ pc = "check"
    /\ OverlapValid(seen.last, batch, bars)
    /\ \/ /\ NewBars # {}
          /\ batch' = Rows(batch, NewBars)
          /\ pc' = "insert" /\ lag' = 0
          /\ UNCHANGED <<seen, want>>
       \/ NewBars = {} /\ EndCycle
    /\ UNCHANGED <<env, store>>

\* _insert_bars reads the clock again, filters and applies the guards.
Closed == ClosedRows(batch, 1, now)

Guard ==
    /\ pc = "insert"
    /\ \/ /\ Insertable(Closed, bars, 1, 0)
          /\ batch' = Closed
          /\ pc' = "commit" /\ lag' = 0
          /\ UNCHANGED <<seen, want>>
       \/ ~ Insertable(Closed, bars, 1, 0) /\ EndCycle
    /\ UNCHANGED <<env, store>>

\* Its transaction: rows and cache_meta together.
Commit ==
    /\ pc = "commit"
    /\ bars' = Upsert(bars, batch)
    /\ meta' = MetaAfter(batch, bars')
    /\ EndCycle
    /\ UNCHANGED env

\* The container dies and is restarted: only the database survives.
Crash ==
    /\ pc # "idle"
    /\ EndCycle
    /\ UNCHANGED <<env, store>>

WriterStep ==
    \/ Begin \/ ReadMeta \/ Fetch \/ Refetch
    \/ OverlapMismatch \/ OverlapMatch \/ Guard \/ Commit

Next == Tick \/ Trade \/ WriterStep \/ FetchFails \/ Crash

Spec == Init /\ [][Next]_vars

\* Time passes, the writer keeps running (restart: unless-stopped, an endless
\* loop), and no step of a cycle fails for ever: the tv CLI and the process
\* fail, but not every time.
Fairness ==
    /\ WF_vars(Tick)
    /\ WF_vars(Begin)
    /\ SF_vars(ReadMeta) /\ SF_vars(Fetch) /\ SF_vars(Refetch)
    /\ SF_vars(OverlapMismatch) /\ SF_vars(OverlapMatch)
    /\ SF_vars(Guard) /\ SF_vars(Commit)

FairSpec == Spec /\ Fairness

-----------------------------------------------------------------------------
(* Properties *)

Times == 0..MaxTime

TypeOK ==
    /\ now \in Times
    /\ market \in [0..now -> Closes]
    /\ DOMAIN bars \subseteq Times /\ bars \in [DOMAIN bars -> Bar]
    /\ meta \in MetaRow \cup {NoRow}
    /\ pc \in {"idle", "get", "fetch", "check", "refetch", "insert", "commit"}
    /\ seen \in MetaRow \cup {NoRow}
    /\ want \in Nat
    /\ DOMAIN batch \subseteq Times /\ batch \in [DOMAIN batch -> Bar]
    /\ lag \in 0..Larger(FetchLag, StepLag)

\* cache_meta, which latest_bar_ts, HealthCheck and the fast path trust
\* without looking at bars, always summarises the rows: there is a meta row
\* exactly when there are bars, last_bar_ts is the newest of them and
\* bar_count is their number, whatever the writer was doing when it crashed.
MetaSummarisesRows ==
    /\ meta = NoRow <=> DOMAIN bars = {}
    /\ meta # NoRow =>
         /\ meta.last \in DOMAIN bars
         /\ \A t \in DOMAIN bars : t <= meta.last
         /\ meta.count = Cardinality(DOMAIN bars)

\* The forming bar is never served: every stored bar had closed.
OnlyClosedBars == \A t \in DOMAIN bars : t < now

\* "Bar count in Postgres never decreases because of a failed fetch"
\* (BUG_tv_non_json.md): no step removes a row, mismatch or not.
NothingForgotten == [][DOMAIN bars \subseteq DOMAIN bars']_vars

\* A row that holds the bar as it closed is never replaced by an older
\* snapshot of it.
Settled(t) == bars[t].final /\ bars[t].close = market[t]
SettledRowsStay ==
    [][\A t \in DOMAIN bars : Settled(t) => bars'[t] = bars[t]]_vars

\* A snapshot that slipped in (the clock is read again after the fetch) is
\* caught by the overlap check: no append starts while the fetch showed a
\* newest cached close that differs from the one the bar closed with.
OverlapCatchesSnapshot ==
    [][pc = "check" /\ pc' = "insert" /\ seen.last \in DOMAIN batch
         => bars[seen.last].close \in {0, market[seen.last]}]_vars

\* Appending leaves no hole behind the newest cached bar, unless the feed
\* was out for more bars than one fetch brings.
NoSkippedBar ==
    [][(/\ meta # NoRow /\ meta' # meta
        /\ now - meta.last <= Smaller(Count, TvCap))
         => meta.last..meta'.last \subseteq DOMAIN bars']_vars

\* Every row older than the newest has the close its bar closed with.  It is
\* what overlap validation is for; it holds when the first fetch does not
\* straddle a bar boundary and no outage outlasts the window.
OldClosesAreFinal ==
    \A t \in DOMAIN bars : t < meta.last => bars[t].close = market[t]

\* cache.py:6-8: the fetch brings "the overlap bar: the most recent cached
\* bar", to compare it.
OverlapBarFetched == pc = "check" => seen.last \in DOMAIN batch

CaughtUp == meta # NoRow /\ meta.last >= now - 1

\* The drift guard refuses the newest closed bar: the market moved by more
\* than half since the newest cached one.
StuckOnDrift ==
    meta # NoRow /\ Drifted(market[now - 1], bars[meta.last].close)

\* When the clock stops the cache ends up with the newest closed bar and
\* keeps it; the only thing that holds it back for ever is the drift guard.
EventuallyCaughtUp == <>[](CaughtUp \/ StuckOnDrift)

\* The writer implements the ledger its readers rely on.
Ledger == INSTANCE BarLedger WITH
    clock <- now,
    stored <- DOMAIN bars,
    last <- IF meta = NoRow THEN -1 ELSE meta.last

ImplementsLedger == Ledger!Spec

-----------------------------------------------------------------------------
(* The inductive invariant behind the theorems of CacheWriterProofs *)

InCycle == {"get", "fetch", "check", "refetch", "insert", "commit"}
Holding == {"check", "insert", "commit"}

\* Nobody else writes the series, so the row get_bars read is still there,
\* and a cycle only runs when a closed bar is missing.
CycleInv ==
    /\ pc \in InCycle /\ meta # NoRow => meta.last + 2 <= now
    /\ pc \in InCycle \ {"get"} => seen = meta
    /\ pc \in {"check", "refetch"} => meta # NoRow

\* The fetch was sized for the gap at the clock reading, lag bars ago.
WantInv ==
    pc = "fetch" =>
        /\ lag <= FetchLag
        /\ meta = NoRow => want = Count
        /\ meta # NoRow => \/ want = Count
                           \/ want = now - lag - meta.last + 1

\* The data frame is a window of bars that ends past the newest cached one;
\* where it overlaps the cache it holds bars as they closed, and it starts
\* right behind the cache unless the outage outlasted a fetch.
Window(lo, hi) ==
    /\ lo <= hi /\ hi <= now /\ DOMAIN batch = lo..hi
    /\ pc = "commit" => hi < now
    /\ meta # NoRow =>
         /\ hi > meta.last
         /\ pc # "commit" => hi > meta.last + 1
         /\ \A t \in lo..hi :
              t <= meta.last => batch[t] = [close |-> market[t], final |-> TRUE]
         /\ now - meta.last <= Smaller(Count, TvCap) => lo <= meta.last + 1

WindowInv == pc \in Holding => \E lo, hi \in 0..now : Window(lo, hi)

WriterInv ==
    TypeOK /\ MetaSummarisesRows /\ OnlyClosedBars /\ CycleInv /\ WantInv /\ WindowInv
=============================================================================
