# A verification development for hybrid-data-svc

TLA+ models of hybrid-data-svc, TLC runs on small instances of them, and proofs
checked by TLAPS. Line numbers refer to the repository, with `data_svc/`,
`ops/`, `migrations/` and so on taken from its root. `PROJECT.json` maps every
definition of a module to the lines it stands for and lists the runs, mutants,
findings, hazards and theorems.

## 1. The system

hybrid-data-svc reads candles out of a running TradingView Desktop (through the
`tv` command line tool and the Chrome DevTools Protocol, CDP), caches closed
bars in Postgres and serves them over gRPC and REST.

| Component | State | Operations | Talks to |
|---|---|---|---|
| **Bar cache** (`data_svc/db/cache.py`) | tables `bars`, `cache_meta` | `get_bars` (cold, warm, overlap check, refetch), `_insert_bars` (closed-bar filter, three guards, one transaction), readers | Postgres; a fetcher callback |
| **Fetcher** (`data_svc/fetcher.py`) | the chart it *believes* to be up | `fetch` (fast path, tab focus, symbol/timeframe switch, verify-after-fetch) | bar cache, tab pin, `tv` CLI |
| **Main loop** (`data_svc/__main__.py`) | none that survives | seed feeds, pin a tab, poll every feed, promote pending feeds, daily audit | all of the above, feeds |
| **Backfill** (`data_svc/backfill.py`) | none | one-shot history import beside the running writer | Binance, `_insert_bars`; promotes no feed |
| **Asset catalog** (`data_svc/db/assets.py`, `grpc_server/assets_service.py`) | table `assets` | `CreateAsset` (one transaction over `assets` and `feeds`), list, search | called by ten gRPC threads |
| **assets.yaml loader** (`services/assets_loader.py`) | none | upsert of every asset when bar-grpc starts | catalog |
| **Feeds** (`data_svc/db/feeds.py`, `services/feeds_loader.py`) | table `feeds` (pending, active, inactive) | `seed_from_env`, `polling_targets`, `mark_active` | written by writer and `CreateAsset` |
| **CDP discovery and tab pin** (`cdp_discover.py`, `tab_pin.py`, a Node mirror in `patches/`) | cached endpoint file, pinned tab id | probe, scan, pin, activate | TradingView |
| **Watchdog** (`ops/tv-watchdog/tv-watchdog.sh`) | lock directory with `owner.pid` | judge a lock, probe, warn, quit, kill, relaunch, verify | TradingView; started by launchd every 300 s |
| **gRPC bar service** (`grpc_server/service.py`) | none | `GetRecentBars`, `GetBarsInRange`, `HealthCheck`, `Ping` | reads the bar cache, one connection per statement |
| **REST gateway** (`data_svc/rest/`) | none | quote, historical, profile, search, list and create assets, healthz | gRPC services, each call with a deadline |
| **Audit** (`db/audit.py`) | none | counts gaps, extra and off-grid rows once a day | reads `bars`, called by the main loop |
| **Aggregation** (`aggregate.py`) | none | resampling | no caller yet |
| **Migrations, seeding** (`migrations/`, `scripts/seed_from_sqlite.py`) | schema | 001-004; import of a legacy SQLite file | Postgres |
| **TradingView Desktop** (external) | process, port, tab, chart | may exit, lose CDP, lose its chart, load late | watchdog, fetcher |

What ties them together is shared state with several writers: the series of one
feed (writer and backfill), the `feeds` table (writer, backfill, `CreateAsset`
and the operator), the chart of one TradingView (all feeds), TradingView itself
(watchdog and everybody who needs it), and the lock directory of the watchdog.

What is hard, and what makes each part correct:

* **Bar cache.** The clock is read several times in a cycle while bars close
  and the market moves; a fetch, a refetch or the process may fail between any
  two steps. Correct means: `cache_meta` describes the rows, no forming bar is
  served, nothing is lost, no holes, a settled close is never replaced by an
  older snapshot, and the cache catches up.
* **Writer and backfill.** Two transactions under READ COMMITTED with a
  `COUNT(*)` and a blind overwrite of `cache_meta`. Correct means: no row lost,
  the metadata never promises what is not there, and recovers when behind.
* **Chart.** The belief about the chart is never checked, a switch is two calls,
  a chart loads when it likes. Correct means that bars of another symbol do not
  get in where the guards can tell.
* **Catalog.** Transactions that collide on keys of rows not yet committed, roll
  back, deadlock, and a promotion decided on a status read long before. Correct
  means: an active feed has bars, what was created is wired, disabled stays
  disabled, pending feeds are promoted.
* **Read side.** Every answer is put together from statements on separate
  connections while transactions commit in between, pages are walked while
  assets are added, and a POST may commit after its caller gave up. Correct
  means: what an answer claims is stored, what it leaves out it says, nobody
  reads "no data" next to stored bars, and no page hides or repeats an asset.
* **Endpoint.** A port found in a file that others write, a scan that sees ports
  one after the other, a pin that is taken once. Correct means: data-svc talks
  to a port that has answered it as TradingView, and finds it again after a
  regression.
* **Watchdog.** A lock protocol made of `mkdir`, a pid file, ages and `rm -rf`;
  a judgement of the lock that reads it piece by piece while its owner leaves;
  scans that see TradingView port by port while it changes, with probes that give
  up. Correct means: runs exclude each other, a healthy TradingView is left alone,
  a dead lock does not disable the watchdog, TradingView comes back. How far the
  first two hold is a result of the checks.

## 2. The modules

```
BarCache      operators of cache.py
   +-- CacheWriter  one feed, one writer ------ implements BarLedger
   |      +-- CacheHistory  with one bit of history
   |      +-- SharedCache  writer + backfill -- implements Series    --+
   +-- Chart        several feeds on one chart                         |
Catalog       assets, feeds, promotion -------- implements Inventory --+
                                                                       |
Audit         the two audit statements --+-- Serving: gRPC, REST, audit+
TvDesktop     TradingView and its ports
   +-- Watchdog     the shell script and its lock
          +-- Endpoint   discovery, tab pin, start of data-svc
MC*           constants for TLC
SetLemmas     least and greatest elements of sets of naturals
*Proofs       CacheWriter, CacheHistory, SharedCache, Chart, Catalog, Serving,
              Desktop (Watchdog and Endpoint): the theorems of section 4
```

**BarCache** holds the pure part of `cache.py`: the closed-bar filter
(`ClosedRows`), the guards of `_insert_bars` (`IsPlausible`, `Drifted`,
`TsAligned`, together `Insertable`), the upsert, the `cache_meta` row computed
after it, and `_validate_overlap` (`OverlapValid`). A bar is its close and a
history flag `final` (the data was taken after the bar closed); open, high, low
and volume are carried along by the code and decide nothing. The overlap
tolerance of 0.001 % is equality: closes of the instances are far apart.

**CacheWriter** is `DataFetcher.fetch` and `BarCache.get_bars` on one feed. `pc`
is where the cycle is; `seen`, `want`, `batch` are its Python locals; `now` and
`market` are the world. Time is counted in bars, which is exact because every
comparison in the code is between multiples of the bar length and a clock.
`Begin` is the fast-path decision, `ReadMeta` the sizing of the fetch, `Fetch`
the tv call, `OverlapMatch` and `OverlapMismatch` the check, `Refetch` the second call,
`Guard` the filter and guards (with a *second* clock reading), `Commit` the
transaction. `FetchFails` covers every `DataFetchError`; `Crash` the process.

**CacheHistory** adds the history variable `missed` (some fetch came back
without the overlap bar) to every step of CacheWriter and changes nothing else;
the runs of the writer use its specification.

**BarLedger** is the abstract specification: closed bars published in windows
that never end before the newest one. `ImplementsLedger` is the refinement, with
`stored <- DOMAIN bars` and `last <- meta.last`.

**SharedCache** extends CacheWriter by the backfill process and takes `Commit`
apart into the statements of the transaction (upsert with row locks, count, meta
and commit), once for each process, with visibility as under READ COMMITTED. The
backfill, like the writer, filters and guards its rows before it opens the
transaction (`BackfillGuard`); bars may close and the writer may commit between.

**Series** is the abstract bar store: transactions that add bars to a series and
set its `cache_meta` row to their newest bar and to a count that may miss rows
committed meanwhile. `ImplementsSeries` shows that writer and backfill together
are such a store.

**Chart** is the loop over several feeds that share a chart. `chart` is what it
is set to, `shown` what `tv ohlcv` still returns, `believed` what the fetcher
thinks. Prices stand still: a row remembers which chart it came from.

**Catalog** is `create_with_feeds` statement by statement (row locks of
uncommitted keys, deadlock victims, the re-read that answers 409), the yaml
upsert at start, `seed_from_env`, the writer's boot, poll and promotion, the
rows a backfill brings, and an operator who disables feeds.

**Inventory** is the abstract catalog: an asset appears once and together with
its feeds, a reload moves storage symbols, a feed is promoted only when it has
bars, and disabled feeds stay disabled. `ImplementsInventory` shows that Catalog
is one.

**Serving** is the read side over these two abstractions, which is why it needs
neither writers nor transactions of its own: its tables move by `Publish` of
Series and by the steps of Inventory. A request is a record `call` with the step
it has come to; each SQL statement is a step (`Profile`, `Resolve`, `ReadRecent`,
`ReadRange`, `ReadCount`, `ReadLast`, `ListPage`, `PostConflict`, `AuditCombos`,
`AuditOffGrid`), and `answer` is what the client gets, with what was stored when
its request was resolved as history. Handlers share nothing but the tables, so
one request in flight sees all that any number could. `late` holds POSTs whose
5 s deadline passed before their commit. Symbols are numbers because only their
order matters (`ORDER BY symbol`); REST timeframes are translated as
`_timeframes.py` does. `Ordered` is `ORDER BY symbol`. **Audit** has the two SQL statements as operators on a set
of rows, with `Contiguous` as the reference they are compared with.

**TvDesktop** is the external application; **Watchdog** the script: the port scans
(one port per step, in the second scan one request per step), quit, wait,
SIGTERM, SIGKILL, launch, verify, and the EXIT trap. A run that finds the lock
taken judges it as `_reclaim_lock_if_stale` does: `-d` (`IsDir`), `stat` (`Stat`,
with mtime 0 for a directory that has just gone), the pid file (`PidFile`), the
owner (`Alive`), `rm -rf` (`Remove`), each on the lock that is there at that moment.
The three reads of `_lock_owner_alive` are one step: whatever they say together,
they say at the moment the last owner they saw was there, or just after it left.
A curl that gives up after `TV_PROBE_TIMEOUT_S` is an action of its own for every
request that would have told the run that TradingView is healthy (`ProbeLate`,
`WarnLate`, `TabsLate`). `health` and `spoiled` are history variables: what
TradingView was like since a run began to probe, and whether an owner may lose
its lock. Other apps on the host may answer CDP on scanned ports (`foreign`),
some of them with a page of tradingview.com that is no chart (`decoys`).

**Endpoint** adds data-svc to the two: `discover_cdp` (cached port, scan port by
port, second read of the file, choice, write), `TabPin.resolve`, the loop with
`TabPin.activate`, and exits that docker restarts. `file` is the cache file,
which the Node mirror writes, too. A pin is `live` as long as the tab it was
taken from is open: target ids are new with every tab and process. `seen` is
history: the ports that have answered a probe of this start as TradingView.

## 3. The runs

| Run | Question | Bounds, and why they are enough |
|---|---|---|
| `CacheWriter` | All properties of one writer, with fairness | 5 bars of time, fetches of 3, so that an outage can outlast a fetch, a fetch can straddle a boundary, and two cycles follow; a rise from 10 to 16 is refused by the drift guard, the fall back is not |
| `CacheStraddle` | Is the overlap bar always fetched? (no) | A window no outage outlasts, calm prices, a boundary during the fetch |
| `SharedCache` | Do two writers make a `Series`, and does `last_bar_ts` recover? | One backfill of 3 bars in 3 bars of time: before, inside and after every statement of the writer; the price moves once |
| `Chart` | Do the guards keep symbols apart? | Two timeframes of one symbol and a second symbol; one feed relies on the band, one on the drift guard |
| `ChartLeak` | Do they keep charts apart? (no) | As above |
| `Catalog` | Transactions, promotion, restarts | Two handlers, two symbols, feeds wanted in opposite orders, one timeframe nobody knows |
| `CatalogLive` | Is every pending feed promoted? | One handler; the feeds, not the handlers, are what must make progress |
| `CatalogRace` | Is a duplicate always a 409? (no) | Two handlers, no failing database |
| `Watchdog` | Exclusion, restraint, freed lock, recovery | Two slots (launchd and by hand), which one after the other make any number of runs; two ports; two faults of the desktop or of a probe; one mishap of a run |
| `WatchdogForeign` | Does TradingView always come back? (no) | As above |
| `Serving` | What can a client or the audit be told? | Two providers of one series, three bars in half-bar time (an off-grid row of old days is possible), limits of 2 bars and 1 asset so that every limit is exceeded, three symbols of which one is POSTed and one moved by a reload |
| `Endpoint` | Does data-svc find TradingView again? | Two ports, the watchdog's launchd run, two faults anywhere |

Properties that deserve a word:

* `MetaSummarisesRows` holds for one writer; with a backfill it is too strong
  (`bar_count` can lag and `last_bar_ts` can move back) and
  `MetaNeverOverstates` is what remains, with `LastRecovers` for the rest.
* `SettledRowsStay` and `OverlapCatchesSnapshot` are about the second clock
  reading: a bar that was forming in the snapshot may count as closed in the
  filter. Its wrong close gets in, but never over a right one, and the next
  append notices, provided the fetch reaches it. `OldClosesUnlessMissed` says
  what that gives in sum: unless some fetch came back without the overlap bar
  (the history variable `missed`), every close behind the newest is final.
  `CacheStraddle` shows why the condition is needed.
* `ImplementsSeries` and `ImplementsInventory` are what Serving stands on: a
  reader's property there holds for the detailed writers, since Serving uses
  nothing of the tables but these abstractions.
* `HealthIsStored` holds although its two reads may see different commits: a
  series only grows and `cache_meta` never overstates it.
* `InventoryServed` covers `resolve_provider` (a client that names no provider)
  and the timeframe translation of POST and GET in one: what was onboarded as
  `15m` and is active answers to `15m`.
* `AuditIsSound` is conditional on one provider, see section 5.
* `Reconnects` names every reason for which data-svc may stay without data: its
  pinned tab is gone (a relaunch by the watchdog is enough; only a restart of
  data-svc pins again), a decoy (discovery takes it, the pin refuses it, and the
  next start takes it again), or TradingView itself is down for a reason that
  `Recovers` names. Removing any of them makes TLC find a counterexample.
* `BandKeepsSymbolsApart` and `DriftKeepsSymbolsApart` are conditional on prices
  that differ; that is all the guards can do, as `ChartLeak` shows.
* `LockExcludes` holds wherever runs are killed and their locks reclaimed, and
  whenever a run looks at a lock that has no pid yet. What it leaves out is
  `spoiled`, which three things set: a run whose pid is not written, one that
  outlasts the maximum age of 180 s, and one that makes a lock while another run is
  misled by the one before (`MisledBy`: it has read an old age, the pid file, or
  that the owner is gone). The last needs no failure at all; section 5 has the
  behaviour. The property shows that nothing else lets two runs in.
* `HealthyLeftAlone` says that a run that quits TradingView has seen it unhealthy
  since it began to probe, or got its answer too late (`health` is "late"). It may
  have become healthy in between. That a late answer is enough is in section 5,
  too; the property shows that nothing else is.
* `Recovers` leaves out what the design leaves out (a chart the operator closed)
  and what `WatchdogForeign` shows (another app on a scanned port).

Every property has a mutant: a change of one definition, of the kind a bug would
make, under which its run is violated. The mutants stand before the definitions
they replace.

### Fairness

* CacheWriter: the loop has no end and its waits are bounded, so each enabled
  step is taken; failures are not permanent, so steps that a failure can
  pre-empt get strong fairness. `FetchLag <= 1` because `tv ohlcv` is cut off
  after 30 s (`fetcher.py:153-160`) and the shortest bar is 60 s.
* SharedCache: the same for the writer, and the backfill ends (or stops).
* Catalog: docker restarts the writer (`restart: unless-stopped`), and polls of a
  feed do not fail for ever; no fairness for requests, the operator or crashes.
* Watchdog: launchd keeps starting runs, a run's waits have timeouts, TradingView
  comes up once launched, and neither kill nor open fails for ever. Regressions
  and probes that give up are bounded by `MaxFaults`, which is what makes "comes
  back" meaningful. A run
  that launchd starts finds TradingView settled, since 300 s pass between
  runs; one that does not costs a fault.
* Endpoint: the watchdog's fairness, and docker restarts data-svc, whose every
  request has a timeout. Timeouts, crashes and restarts by hand count as faults.
* Serving is about safety only: a request may hang or be dropped.

## 4. What is proved

Every safety invariant, every action property and every refinement that a
passing run checks is also a theorem, for every value of the constants that the
assumptions below allow. Each component has one inductive invariant; it stands
at the end of the component's module and a lemma per action (or group of actions)
shows that it is kept. Each was checked by TLC as an `INVARIANT` of the component's
configuration before it was proved (`WriterInv` stays one of the run
`CacheWriter`): `HistoryInv` on 49,606 states, `SharedInv` on 20,582, `ChartInv` on
1,150,769, `CatalogInv` on 325,497, `WatchdogInv` on 258,873, `EndpointInv` on 150,477
and `ServingInv` on 737,022.

| Module | Theorem | States |
|---|---|---|
| `CacheWriterProofs` | `Invariance` | `WriterInv` |
| | `TypeCorrect`, `MetaCorrect`, `ClosedOnly` | `TypeOK`, `MetaSummarisesRows`, `OnlyClosedBars` |
| | `RowsNeverLost`, `SettledRowsKept` | `NothingForgotten`, `SettledRowsStay` |
| | `SnapshotCaught`, `NoHole` | `OverlapCatchesSnapshot`, `NoSkippedBar` |
| | `Refinement` | `ImplementsLedger` |
| `CacheHistoryProofs` | `OldClosesFinal` | `OldClosesUnlessMissed` |
| `SharedCacheProofs` | `SharedInvariance` | `SharedInv` |
| | `SharedTypeCorrect`, `SharedClosedOnly`, `MetaSound` | `SharedTypeOK`, `OnlyClosedBars`, `MetaNeverOverstates` |
| | `SharedRefinement` | `ImplementsSeries` |
| `ChartProofs` | `Invariance`, `TypeCorrect` | `ChartInv`, `TypeOK` |
| | `BandIsolates`, `DriftIsolates` | `BandKeepsSymbolsApart`, `DriftKeepsSymbolsApart` |
| `CatalogProofs` | `Invariance`, `TypeCorrect` | `CatalogInv`, `TypeOK` |
| | `ActiveFeedsHaveBars`, `CreatedAssetsAreWired`, `DisabledFeedsStay` | `ActiveHasBars`, `CreatedIsWired`, `DisabledStays` |
| | `Refinement` | `ImplementsInventory` |
| `DesktopProofs` | `WatchdogInvariance`, `WatchdogTypeCorrect` | `WatchdogInv`, `WatchdogTypeOK` |
| | `LockIsExclusive`, `HealthyIsLeftAlone` | `LockExcludes`, `HealthyLeftAlone` |
| | `EndpointInvariance`, `EndpointTypeCorrect`, `OnlySeenEndpoints` | `EndpointInv`, `EndpointTypeOK`, `EndpointWasSeen` |
| `ServingProofs` | `Invariance`, `TypeCorrect` | `ServingInv`, `TypeOK` |
| | `ReadyIsStored`, `EmptyMeansNone`, `RangesAreHonest` | `HealthIsStored`, `InventoryServed`, `RangeIsHonest` |
| | `WalksAreComplete`, `ActiveMeansBars`, `HealthyIsContiguous` | `PagesComplete`, `ActiveShowsBars`, `AuditIsSound` |

### The inductive invariants

**CacheWriter.** None of the properties is inductive: that a commit makes
`cache_meta` right depends on what the data frame can hold by then, which depends
on the row `get_bars` read four steps earlier. `WriterInv` adds three facts.
`CycleInv`: a cycle runs only when a closed bar is missing, and the row it read
is still there. `WantInv`: the fetch was sized for the gap as of `lag` bars ago.
And `WindowInv`, the heart: the data frame is a window `lo..hi` that ends past the
newest cached bar, holds final closes wherever it overlaps the cache, and starts
right behind it unless the outage outlasted a fetch. `FetchReaches` is where
`FetchLag <= 1` is needed: `gap + 1` bars cover the gap even if one boundary
passes. The action properties and the refinement follow from `CommitPublishes`
and the fact that only `Commit` touches the tables.

**CacheHistory.** `HistoryInv` follows a close through the cycle: every close was
traded and plausible (`TradedInv`), only the newest row of a data frame can be a
snapshot (`BatchInv`), and the newest cached bar is compared before it is left
behind (`OverlapInv`): past the check, the batch replaces it or it has the close
it closed with.

**SharedCache.** Under READ COMMITTED a count may miss what the other
transaction commits after it. `TxInv` bounds an open transaction's count from
both sides, by its own rows and by the rows there will be when it commits, and
`HoldInv` and `BackfillHoldInv` say that rows that wait for their transaction stay
closed, which is why `cache_meta` never overstates although it is overwritten blindly. The
refinement maps each commit to one `Publish` of `Series`, whose count is exactly
between these bounds, and every other step to a stutter.

**Chart.** `RowsPriced`: a row has the close of the chart it was read from,
whatever chart that was. Together with the band this isolates symbols; the drift
guard only compares with the newest row, so `DriftKeepsSymbolsApart` needs that
all rows of the table have one price, its hypothesis.

**Catalog.** `TxInv` says, for any number of handlers, that a transaction
inserts only feeds that are missing, that what it has not inserted is committed
or still ahead of it, and that no two transactions hold the same key. So a
commit wires the asset whichever handler inserted which feed, and a rollback
takes nothing that another one relied on. `MarkInv` covers the promotion decided
on a status read long before. Transactions map to one `Onboard` of `Inventory`.

**Watchdog.** Exclusion depends on the lock directory between its `mkdir` and its
pid, and on what judging runs have read of it. `LockInv`: unless the lock is
spoiled, each run inside `Holds` it (without owner and younger than the grace, or
with its own pid), there is at most one, and every other run `Spares` it: what it
has read so far lets it come to no other end than to leave. `Spares` is the part
that judging in steps asks for: a run that has read an age has read it of this
lock, so it is no older than the lock is now; before the pid is written that age
is below the grace, and after it the owner that is read is alive. `CleanInv` says
how far a run can have scanned a TradingView that was healthy throughout and
answered in time: not past its port.

**Endpoint.** `MatchesSeen`: what a scan has matched has answered in this start,
and the matches do not outlive the scan, restart or crash in which they were found.

**Serving.** The tables move between any two statements, so the invariant says
what a request in flight may still rely on. `SeriesInv` and `CatalogInv` are the
tables' own; all else rests on `Grown`: series and feeds only grow. `BarCallInv`:
what was stored when the provider was resolved still is, an unnamed provider was
resolved to one that has bars if any has, a promise is backed by rows, and a
count read before `last_bar_ts` is not above the rows of now. `ListCallInv`: the
walk has shown, in order, every asset of its start up to the cursor.
`AuditCallInv`: the gaps were counted in rows that are still there. The answers
then follow from facts about the operators: `NewestFacts` and `SentinelFacts`
(`LIMIT n + 1`), `OrderedFacts` and `PageFacts` (`ORDER BY`, cursor), `LastBarFacts`
(`MAX(last_bar_ts)`), and `GridFacts`, which is why the audit need not look at
single bars: as many times as an unbroken run has, all on one grid, are that run.

`SetLemmas` and `OrderedExists` replace an induction over finite sets, which the
provers cannot do here, by a minimal counterexample in the subset ordering, whose
well-foundedness the library proves.

### Assumptions

* `WriterAssumption`: `Count` and the cap of `tv ohlcv` are positive, `FetchLag` is
  0 or 1 (see the fairness of CacheWriter), closes are naturals.
* `PriceAssumption` (CacheHistory): no plausible price is 0, since the code takes a
  cached close of 0 for "nothing cached".
* `NoRowAssumption`, `BandAssumption`, `SharedAssumption`, `CatalogAssumption`,
  `WatchdogAssumption`, `DesktopAssumption`: types of the constants; a request names
  at least one timeframe.
* `NoLockAssumption`: no lock is no lock directory.
* `ChartAssumption`: something is polled, every feed has a symbol with a positive
  price, a bar length and a band.
* `ServingAssumption`: the stored timeframes include those the REST enum
  translates to, batches, legacy rows and `assets.yaml` are finite, times are
  seconds since 1970 and not 0, limits are positive.

### Only model-checked

* Liveness: `EventuallyCaughtUp`, `LastRecovers`, `EventuallyPromoted`,
  `LockIsFreed`, `Recovers`, `Reconnects`. Fairness is stated with `ENABLED`, which
  the provers cannot reason about.
* The four runs that expect a violation: TLC's counterexample is the result.

## 5. Where code and documents disagree

With a run:

* `cache.py:7-8` counts on the overlap bar being in every fetch; a bar boundary
  during the call leaves it out and the check is skipped (`CacheStraddle`).
* `README.md:225` says the layers defend against chart-switch contamination;
  bars of another timeframe, or of anything on a cold start without a band, get
  in (`ChartLeak`).
* `docs/openapi.yaml:278` promises 409 for a symbol that exists; the loser of a
  race gets an internal error (`CatalogRace`).
* The watchdog's design (line 35) promises recovery after any regression; with
  another CDP app on a scanned port it only warns (`WatchdogForeign`).

Met while modelling, without a run of their own:

* `README.md:229` says a mismatch "invalidates the cache"; `cache.py:126-141`
  deliberately refetches without deleting (and `NothingForgotten` needs that).
* `backfill.py:16` says re-runs are safe; a backfill that fetched a bar while it
  formed and commits after it closed overwrites the settled row.
* `cache.py:8` equates `last_bar_ts` with the newest bar; a late backfill commit
  moves it back for a while (`LastRecovers`).
* `feeds.py:15` names a caller of `upsert()` that does not exist.
* `cdp_discover.py:12-14` says a port with a chart tab wins and any tradingview
  page is the fallback; the code only uses the generic pattern
  (`_TV_CHART_PATTERN` is unused), so a page that is no chart can win, and
  data-svc exits in `TabPin.resolve` at every start (`Reconnects`).
* `audit.py:46-73` groups by symbol and timeframe but not by provider, which
  migration 004 made part of the key: rows of a second provider cancel the gaps
  of the first. Its grid starts at the oldest row, that of `_ts_aligned` at 0.
* `get_quote` and `get_historical` answer 500 when GetProfile fails; the other
  routes, and the bar call of the same routes, answer 503.
* `scripts/seed_from_sqlite.py:85` names `(symbol, timeframe, ts)` in its ON
  CONFLICT, which is no key since migration 004.
* `aggregate.py:26-32` has timeframes (`8h`, `3D`, `1M`) that
  `cache._TF_SECONDS` does not know.
* `tv-watchdog.sh:110-112` says a lock is removed when it is "provably orphaned" and
  left alone when a live owner is inside. But a run that has passed `-d` reads mtime
  0, an age above every limit, when the owner ends normally before its `stat`; or it
  finds no owner when that one ends before line 129. If the next run has done its
  `mkdir` by the `rm -rf`, its lock is removed, and two runs are inside although none
  was killed, late or without a pid (`LockExcludes` without `~ spoiled` is violated
  so). It takes a third run within moments of the second's end, as `launchctl
  kickstart` (`install.sh:40`) or a run by hand brings.
* The watchdog's design (line 36) says that nothing is done to a healthy
  TradingView. When one probe of the first scan gives up (`tv-watchdog.sh:178-180`,
  `188-190`), the second scan passes over the port because it does have a chart
  (219), and the run quits it (`HealthyLeftAlone` without "late" is violated so). It
  may also become healthy behind the scan and still be quit.

## 6. What is not modelled, and the plan

Left out on purpose: parsing of the CLI's output (success or failure), logging,
configuration syntax, protobuf and JSON translation, the browser side of the
Node patches. Postgres is modelled by what the statements rely on: row locks on
conflicting keys, READ COMMITTED visibility, deadlock victims, atomic commit.

Not modelled, and why:

* `aggregate.py`: a pure function that nothing calls yet. What would be worth
  checking (a window that starts inside a bucket and overwrites a complete row)
  depends on a writer that does not exist.
* `scripts/seed_from_sqlite.py`: a one-shot import that the current schema
  refuses; the order of migrations is applied by hand.
* Authentication, request validation and response models of the REST gateway:
  FastAPI's, decided by one request alone.
* `BarCache.invalidate`, `BarCache.latest_bar`, `FeedsRepo.upsert`,
  `discover_cdp(force=True)`: no callers. `CDP_PORT` set by hand skips what
  Endpoint is about.
* Generated code (`proto/*_pb2*.py`, `rest/models/_generated.py`).

The plan:

1. Built: `BarCache`, `CacheWriter`, `BarLedger` and the proofs about them;
   `SharedCache`, `Chart`, `Catalog`; `TvDesktop`, `Watchdog`; `Series`,
   `Inventory`, `Audit`, `Serving`; `Endpoint`.
2. Proved: every safety property, action property and refinement of the runs
   (section 4).
3. Open: tie `Serving` to its writers in one module, so that the two refinements
   it stands on are used by a theorem and not only side by side; abstract
   specifications of the watchdog's lock and of the endpoint.

Runs are kept few: a question about the same state space joins an existing run
instead of getting one of its own.
