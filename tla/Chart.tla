-------------------------------- MODULE Chart --------------------------------
(***************************************************************************)
(* The data-svc loop over several feeds that share one TradingView chart:  *)
(* DataFetcher keeps what it believes the chart shows, switches symbol and *)
(* timeframe in two tv-CLI calls when a feed needs another chart, and      *)
(* trusts the three leak guards of BarCache to refuse the bars of a chart  *)
(* it did not mean to read.                                                *)
(*                                                                         *)
(* Time is in units of the shortest timeframe.  Prices stand still: how    *)
(* bars form and move is the subject of CacheWriter, here a row only has   *)
(* to tell one symbol from another.                                        *)
(***************************************************************************)
EXTENDS Integers, Sequences, FiniteSets

CONSTANTS
    Polled,     \* polling_targets(): the feeds, in the order they are polled
    Primary,    \* the first feed of the environment
    Sym,        \* Sym[f]: TradingView symbol of feed f
    Secs,       \* Secs[f]: length of its bars
    Price,      \* Price[s]: the close of every bar of symbol s
    Band,       \* Band[f]: plausible closes of feed f, [lo, hi]
    Count,      \* bars_to_fetch
    NoRow,
    MaxTime     \* bound: the clock stops here

VARIABLES
    now,
    chart,      \* symbol and timeframe the chart is set to
    shown,      \* the chart whose bars `tv ohlcv` still returns
    believed,   \* _chart_tv_symbol and _chart_timeframe
    table,      \* table[f]: bars stored for feed f
    meta,       \* meta[f]: its cache_meta row
    turn,       \* index of the feed whose turn it is
    pc          \* where the loop is with that feed

tv == <<chart, shown>>
store == <<table, meta>>
vars == <<now, chart, shown, believed, table, meta, turn, pc>>

Feeds == {Polled[i] : i \in 1..Len(Polled)}
Configured == Feeds \cup {Primary}
Charts == [sym: DOMAIN Price, secs: {Secs[f] : f \in Configured}]
ChartOf(f) == [sym |-> Sym[f], secs |-> Secs[f]]

\* The cache operators with the plausibility band of feed f.
Cache(f) == INSTANCE BarCache WITH BandLo <- Band[f].lo, BandHi <- Band[f].hi

\* At least one feed is polled; the primary one may have been disabled.  A
\* symbol without a band has the widest one.
ASSUME ChartAssumption ==
    /\ Polled \in Seq(Feeds) /\ Polled # <<>>
    /\ DOMAIN Sym = Configured /\ DOMAIN Secs = Configured
    /\ \A f \in Configured : Sym[f] \in DOMAIN Price /\ Secs[f] \in Nat \ {0}
    /\ \A s \in DOMAIN Price : Price[s] \in Nat \ {0}
    /\ \A f \in Feeds : Band[f].lo \in Nat /\ Band[f].hi \in Nat
    /\ Count \in Nat \ {0} /\ MaxTime \in Nat
    /\ NoRow \notin [last: Nat, count: Nat]

feed == Polled[turn]

\* The chart DataFetcher starts to believe in is configuration, not looked up.
Init ==
    /\ now = 0
    /\ chart \in Charts /\ shown = chart
    /\ believed = ChartOf(Primary)
    /\ table = [f \in Feeds |-> Cache(f)!EmptyTable]
    /\ meta = [f \in Feeds |-> NoRow]
    /\ turn = 1 /\ pc = "idle"

-----------------------------------------------------------------------------
(* TradingView Desktop *)

Tick == now < MaxTime /\ pc = "idle" /\ now' = now + 1
        /\ UNCHANGED <<tv, believed, store, turn, pc>>

\* The chart finishes loading; nothing tells the writer when.
Settle == shown # chart /\ shown' = chart
          /\ UNCHANGED <<now, chart, believed, store, turn, pc>>

\* `tv ohlcv -n n`: the newest n bars of the chart that is shown.
Snapshot(n) ==
    LET opens == {t \in 0..now : t % shown.secs = 0}
    IN [t \in {u \in opens : Cardinality({v \in opens : v > u}) < n} |->
          [close |-> Price[shown.sym], from |-> shown]]

-----------------------------------------------------------------------------
(* The loop *)

\* Mutant: the loop runs past its last feed.
NextFeedNoWrap == pc' = "idle" /\ turn' = turn + 1

NextFeed ==
    /\ pc' = "idle"
    /\ turn' = IF turn = Len(Polled) THEN 1 ELSE turn + 1

\* No new closed bar is possible: served from the database.
FastPath ==
    /\ pc = "idle" /\ meta[feed] # NoRow
    /\ now - meta[feed].last < 2 * Secs[feed]
    /\ NextFeed
    /\ UNCHANGED <<now, tv, believed, store>>

\* The pinned tab is focused; the chart is switched only if it is believed to
\* be another one.
SlowPath ==
    /\ pc = "idle"
    /\ meta[feed] # NoRow => now - meta[feed].last >= 2 * Secs[feed]
    /\ pc' = IF believed = ChartOf(feed) THEN "fetch" ELSE "symbol"
    /\ UNCHANGED <<now, tv, believed, store, turn>>

SwitchSymbol ==
    /\ pc = "symbol"
    /\ chart' = [chart EXCEPT !.sym = Sym[feed]]
    /\ pc' = "timeframe"
    /\ UNCHANGED <<now, shown, believed, store, turn>>

\* Only now does the writer change its belief.
SwitchTimeframe ==
    /\ pc = "timeframe"
    /\ chart' = [chart EXCEPT !.secs = Secs[feed]]
    /\ believed' = ChartOf(feed)
    /\ pc' = "fetch"
    /\ UNCHANGED <<now, shown, store, turn>>

\* A switch call fails or times out; the chart may have changed all the same.
SwitchFails ==
    /\ \/ pc = "symbol" /\ chart' \in {chart, [chart EXCEPT !.sym = Sym[feed]]}
       \/ pc = "timeframe" /\ chart' \in {chart, [chart EXCEPT !.secs = Secs[feed]]}
    /\ NextFeed
    /\ UNCHANGED <<now, shown, believed, store>>

\* _insert_bars: filter, guards, transaction.
InsertBars(df) ==
    LET rows == Cache(feed)!ClosedRows(df, Secs[feed], now)
    IN IF Cache(feed)!Insertable(rows, table[feed], Secs[feed], 0)
       THEN /\ table' = [table EXCEPT ![feed] = Cache(feed)!Upsert(@, rows)]
            /\ meta' = [meta EXCEPT ![feed] = Cache(feed)!MetaAfter(rows, table'[feed])]
       ELSE UNCHANGED store

\* The verify-after-fetch of _fetcher.
Plausible(df) == \A t \in DOMAIN df : Cache(feed)!IsPlausible(df[t].close)

Gap == (now - meta[feed].last) \div Secs[feed]

Smaller(a, b) == IF a <= b THEN a ELSE b

WarmFetch == Snapshot(Smaller((IF Gap > 1 THEN Gap ELSE 1) + 1, Count))

GetBarsCold ==
    /\ pc = "fetch" /\ meta[feed] = NoRow
    /\ Plausible(Snapshot(Count))
    /\ InsertBars(Snapshot(Count))
    /\ NextFeed
    /\ UNCHANGED <<now, tv, believed>>

GetBarsWarm ==
    /\ pc = "fetch" /\ meta[feed] # NoRow
    /\ Plausible(WarmFetch)
    /\ \/ /\ Cache(feed)!OverlapValid(meta[feed].last, WarmFetch, table[feed])
          /\ InsertBars(Cache(feed)!Rows(WarmFetch, {t \in 0..now : t > meta[feed].last}))
          /\ NextFeed
       \/ /\ ~ Cache(feed)!OverlapValid(meta[feed].last, WarmFetch, table[feed])
          /\ pc' = "refetch"
          /\ UNCHANGED <<store, turn>>
    /\ UNCHANGED <<now, tv, believed>>

Refetch ==
    /\ pc = "refetch"
    /\ Plausible(Snapshot(Count))
    /\ InsertBars(Snapshot(Count))
    /\ NextFeed
    /\ UNCHANGED <<now, tv, believed>>

\* The tab could not be focused, the tv CLI failed, or a close was implausible.
FetchFails ==
    /\ pc \in {"symbol", "fetch", "refetch"}
    /\ NextFeed
    /\ UNCHANGED <<now, tv, believed, store>>

\* data-svc is restarted and starts from its configuration again.
Restart ==
    /\ believed' = ChartOf(Primary)
    /\ turn' = 1 /\ pc' = "idle"
    /\ UNCHANGED <<now, tv, store>>

Next ==
    \/ Tick \/ Settle
    \/ FastPath \/ SlowPath \/ SwitchSymbol \/ SwitchTimeframe \/ SwitchFails
    \/ GetBarsCold \/ GetBarsWarm \/ Refetch \/ FetchFails \/ Restart

Spec == Init /\ [][Next]_vars

-----------------------------------------------------------------------------
(* Properties *)

TypeOK ==
    /\ now \in 0..MaxTime
    /\ chart \in Charts /\ shown \in Charts /\ believed \in Charts
    /\ DOMAIN table = Feeds /\ DOMAIN meta = Feeds
    /\ \A f \in Feeds :
        /\ DOMAIN table[f] \subseteq 0..now
        /\ table[f] \in [DOMAIN table[f] -> [close: Nat, from: Charts]]
        /\ meta[f] \in Cache(f)!MetaRow \cup {NoRow}
    /\ turn \in 1..Len(Polled)
    /\ pc \in {"idle", "symbol", "timeframe", "fetch", "refetch"}

\* The prices of the other symbols lie outside the band of feed f.
BandSeparates(f) ==
    \A s \in DOMAIN Price \ {Sym[f]} : Price[s] \notin Band[f].lo..Band[f].hi

\* README.md:227: a feed whose band excludes the other symbols never stores a
\* bar of one of them, whatever chart is up when it is fetched.
BandKeepsSymbolsApart ==
    \A f \in Feeds : BandSeparates(f) =>
        \A t \in DOMAIN table[f] : table[f][t].from.sym = Sym[f]

\* README.md:228: once a feed holds bars of its own symbol only, the drift
\* guard keeps out any symbol whose price is more than half away.
OwnSymbolOnly(f) ==
    table[f] # Cache(f)!EmptyTable
        /\ \A t \in DOMAIN table[f] : table[f][t].from.sym = Sym[f]

WithinHalf(close, own) == 2 * close \in own..3 * own

DriftKeepsSymbolsApart ==
    [][\A f \in Feeds : OwnSymbolOnly(f) =>
         \A t \in DOMAIN table'[f] :
            WithinHalf(Price[table'[f][t].from.sym], Price[Sym[f]])]_vars

\* README.md:225: the layers "defend against TradingView chart-switch races
\* contaminating the cache": every stored bar came from its feed's own chart.
NoContamination ==
    \A f \in Feeds : \A t \in DOMAIN table[f] : table[f][t].from = ChartOf(f)

-----------------------------------------------------------------------------
(* The inductive invariant behind the theorems of ChartProofs *)

\* A row has the close of the chart it was read from.
RowsPriced ==
    \A f \in Feeds : \A t \in DOMAIN table[f] :
        table[f][t].close = Price[table[f][t].from.sym]

ChartInv == TypeOK /\ RowsPriced /\ BandKeepsSymbolsApart
=============================================================================
