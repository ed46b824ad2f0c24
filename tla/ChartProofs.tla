----------------------------- MODULE ChartProofs -----------------------------
(***************************************************************************)
(* Theorems about Chart, for every list of feeds, every symbol, timeframe, *)
(* price and band: which bars the leak guards keep out of a feed that      *)
(* shares its chart with others.  They follow from ChartInv.               *)
(***************************************************************************)
EXTENDS Chart, SetLemmas

-----------------------------------------------------------------------------
(* What TradingView returns, and what the cache operators keep of it *)

\* A data frame read from the chart that is shown.
Read(df) ==
    /\ DOMAIN df \subseteq 0..now
    /\ \A t \in DOMAIN df : df[t] = [close |-> Price[shown.sym], from |-> shown]

LEMMA SnapshotIsRead == ASSUME NEW n PROVE Read(Snapshot(n))
  BY DEF Read, Snapshot

LEMMA RowsAreRead ==
    ASSUME NEW f, NEW S, NEW df, Read(df)
    PROVE  Read(Cache(f)!Rows(df, S))
  BY DEF Read, Cache!Rows

LEMMA ClosedRowsAreRead ==
    ASSUME NEW f, NEW secs, NEW clock, NEW df, Read(df)
    PROVE  Read(Cache(f)!ClosedRows(df, secs, clock))
  BY RowsAreRead DEF Cache!ClosedRows

LEMMA NewestRow ==
    ASSUME now \in Nat, NEW f, NEW rows, DOMAIN rows \subseteq 0..now, DOMAIN rows # {}
    PROVE  Cache(f)!Newest(rows) \in DOMAIN rows
<1>1. Cache(f)!Newest(rows) = Max(DOMAIN rows)
  BY Zenon DEF Cache!Newest, Cache!Max, Max
<1> QED
  BY <1>1, MaxExists

LEMMA FeedType == TypeOK => feed \in Feeds /\ Len(Polled) \in Nat \ {0} /\ now \in Nat
  BY ChartAssumption DEF TypeOK, feed, Feeds, ChartAssumption

LEMMA ChartTypes ==
    /\ \A f \in Configured : ChartOf(f) \in Charts
    /\ \A c \in Charts, f \in Configured :
         [c EXCEPT !.sym = Sym[f]] \in Charts /\ [c EXCEPT !.secs = Secs[f]] \in Charts
    /\ \A c \in Charts : c.sym \in DOMAIN Price /\ Price[c.sym] \in Nat \ {0}
  BY ChartAssumption DEF Charts, ChartOf, ChartAssumption

LEMMA NextFeedType ==
    ASSUME TypeOK, NextFeed
    PROVE  turn' \in 1..Len(Polled) /\ pc' = "idle"
  BY FeedType DEF TypeOK, NextFeed

-----------------------------------------------------------------------------
(* What one insert does *)

\* A batch is refused as a whole, or all of it has passed the guards: the
\* close of the chart that is shown is in the band, and not more than half
\* away from the newest stored close.
Inserted(rows) ==
    /\ Read(rows) /\ DOMAIN rows # {}
    /\ Band[feed].lo <= Price[shown.sym] /\ Price[shown.sym] <= Band[feed].hi
    /\ DOMAIN table[feed] # {} =>
         \E t \in DOMAIN table[feed] :
            ~ Cache(feed)!Drifted(Price[shown.sym], table[feed][t].close)
    /\ table' = [table EXCEPT ![feed] = Cache(feed)!Upsert(table[feed], rows)]
    /\ \E last \in DOMAIN rows :
         meta' = [meta EXCEPT
           ![feed] = [last |-> last, count |-> Cardinality(DOMAIN table'[feed])]]

LEMMA InsertEffect ==
    ASSUME TypeOK, NEW df, Read(df), InsertBars(df)
    PROVE  UNCHANGED store \/ \E rows : Inserted(rows)
<1> DEFINE rows == Cache(feed)!ClosedRows(df, Secs[feed], now)
<1>1. Read(rows)
  BY ClosedRowsAreRead
<1>2. CASE ~ Cache(feed)!Insertable(rows, table[feed], Secs[feed], 0)
  BY <1>2 DEF InsertBars
<1>3. CASE Cache(feed)!Insertable(rows, table[feed], Secs[feed], 0)
  <2>1. /\ table' = [table EXCEPT ![feed] = Cache(feed)!Upsert(table[feed], rows)]
        /\ meta' = [meta EXCEPT ![feed] = Cache(feed)!MetaAfter(rows, table'[feed])]
    BY <1>3 DEF InsertBars
  <2> HIDE DEF rows
  <2>2. /\ DOMAIN rows # {}
        /\ \A t \in DOMAIN rows : Cache(feed)!IsPlausible(rows[t].close)
        /\ DOMAIN table[feed] # {} =>
             ~ Cache(feed)!Drifted(rows[Cache(feed)!Newest(rows)].close,
                                   table[feed][Cache(feed)!Newest(table[feed])].close)
    BY <1>3 DEF Cache!Insertable
  <2>3. Cache(feed)!Newest(rows) \in DOMAIN rows
    BY <1>1, <2>2, NewestRow, FeedType DEF Read
  <2>4. rows[Cache(feed)!Newest(rows)].close = Price[shown.sym]
    BY <1>1, <2>3 DEF Read
  <2>5. Band[feed].lo <= Price[shown.sym] /\ Price[shown.sym] <= Band[feed].hi
    BY <2>2, <2>3, <2>4 DEF Cache!IsPlausible
  <2>6. ASSUME DOMAIN table[feed] # {}
        PROVE  Cache(feed)!Newest(table[feed]) \in DOMAIN table[feed]
    BY <2>6, NewestRow, FeedType DEF TypeOK
  <2>7. Cache(feed)!Cardinality(DOMAIN table'[feed]) = Cardinality(DOMAIN table'[feed])
    BY Zenon DEF Cache!Cardinality, Cardinality
  <2>8. Cache(feed)!MetaAfter(rows, table'[feed]) =
          [last |-> Cache(feed)!Newest(rows), count |-> Cardinality(DOMAIN table'[feed])]
    BY <2>7 DEF Cache!MetaAfter
  <2>9. Inserted(rows)
    BY <1>1, <2>1, <2>2, <2>3, <2>4, <2>5, <2>6, <2>8 DEF Inserted
  <2> QED
    BY <2>9
<1> QED
  BY <1>2, <1>3

\* The table of the feed after it.
LEMMA InsertedRows ==
    ASSUME TypeOK, NEW rows, Inserted(rows)
    PROVE  /\ DOMAIN table' = Feeds
           /\ \A f \in Feeds \ {feed} : table'[f] = table[f]
           /\ DOMAIN table'[feed] = DOMAIN table[feed] \cup DOMAIN rows
           /\ \A t \in DOMAIN rows :
                table'[feed][t] = [close |-> Price[shown.sym], from |-> shown]
           /\ \A t \in DOMAIN table[feed] \ DOMAIN rows : table'[feed][t] = table[feed][t]
           /\ table'[feed] = [t \in DOMAIN table'[feed] |-> table'[feed][t]]
<1>1. feed \in Feeds /\ DOMAIN table = Feeds
  BY FeedType DEF TypeOK
<1> DEFINE new == Cache(feed)!Upsert(table[feed], rows)
<1>2. /\ DOMAIN new = DOMAIN table[feed] \cup DOMAIN rows
      /\ \A t \in DOMAIN rows : new[t] = rows[t]
      /\ \A t \in DOMAIN table[feed] \ DOMAIN rows : new[t] = table[feed][t]
      /\ new = [t \in DOMAIN new |-> new[t]]
  BY DEF Cache!Upsert
<1>3. table' = [table EXCEPT ![feed] = new]
  BY DEF Inserted
<1> HIDE DEF new
<1>4. /\ DOMAIN table' = Feeds /\ table'[feed] = new
      /\ \A f \in Feeds \ {feed} : table'[f] = table[f]
  BY <1>1, <1>3
<1>5. \A t \in DOMAIN rows : rows[t] = [close |-> Price[shown.sym], from |-> shown]
  BY DEF Inserted, Read
<1> QED
  BY <1>2, <1>4, <1>5

\* An insert keeps the types of the store, what rows say of their chart, and
\* the bars of other symbols out of a feed whose band excludes them.
LEMMA InsertKeeps ==
    ASSUME ChartInv, NEW rows, Inserted(rows), now' = now
    PROVE  /\ DOMAIN table' = Feeds /\ DOMAIN meta' = Feeds
           /\ \A f \in Feeds :
                /\ DOMAIN table'[f] \subseteq 0..now'
                /\ table'[f] \in [DOMAIN table'[f] -> [close: Nat, from: Charts]]
                /\ meta'[f] \in Cache(f)!MetaRow \cup {NoRow}
           /\ RowsPriced' /\ BandKeepsSymbolsApart'
<1>1. TypeOK /\ RowsPriced /\ BandKeepsSymbolsApart
  BY DEF ChartInv
<1>2. feed \in Feeds /\ now \in Nat
  BY <1>1, FeedType
<1>0. /\ DOMAIN table' = Feeds
      /\ \A f \in Feeds \ {feed} : table'[f] = table[f]
      /\ DOMAIN table'[feed] = DOMAIN table[feed] \cup DOMAIN rows
      /\ \A t \in DOMAIN rows :
           table'[feed][t] = [close |-> Price[shown.sym], from |-> shown]
      /\ \A t \in DOMAIN table[feed] \ DOMAIN rows : table'[feed][t] = table[feed][t]
  BY <1>1, InsertedRows
<1>3. shown \in Charts /\ shown.sym \in DOMAIN Price /\ Price[shown.sym] \in Nat
  BY <1>1, ChartTypes DEF TypeOK
<1>4. DOMAIN table'[feed] \subseteq 0..now
  BY <1>0, <1>1, <1>2 DEF TypeOK, Inserted, Read
<1>5. table'[feed] \in [DOMAIN table'[feed] -> [close: Nat, from: Charts]]
  <2>1. ASSUME NEW t \in DOMAIN table'[feed] PROVE table'[feed][t] \in [close: Nat, from: Charts]
    <3>1. CASE t \in DOMAIN rows
      BY <1>0, <1>1, <1>3, <3>1
    <3>2. CASE t \notin DOMAIN rows
      BY <1>0, <1>1, <1>2, <2>1, <3>2 DEF TypeOK
    <3> QED
      BY <3>1, <3>2
  <2>2. table'[feed] = [t \in DOMAIN table'[feed] |-> table'[feed][t]]
    BY <1>1, InsertedRows
  <2> QED
    BY <2>1, <2>2, Zenon
<1>6. /\ DOMAIN meta' = Feeds /\ meta'[feed] \in Cache(feed)!MetaRow
      /\ \A f \in Feeds \ {feed} : meta'[f] = meta[f]
  <2>1. PICK last \in DOMAIN rows :
          meta' = [meta EXCEPT
            ![feed] = [last |-> last, count |-> Cardinality(DOMAIN table'[feed])]]
    BY DEF Inserted
  <2>2. Cardinality(DOMAIN table'[feed]) \in Nat
    BY <1>2, <1>4, CountBounded
  <2>3. last \in Nat
    BY <1>2 DEF Inserted, Read
  <2>4. [last |-> last, count |-> Cardinality(DOMAIN table'[feed])] \in Cache(feed)!MetaRow
    BY <2>2, <2>3 DEF Cache!MetaRow
  <2> QED
    BY <1>0, <1>1, <1>2, <2>1, <2>4 DEF TypeOK
<1>7. ASSUME NEW f \in Feeds
      PROVE  /\ DOMAIN table'[f] \subseteq 0..now'
             /\ table'[f] \in [DOMAIN table'[f] -> [close: Nat, from: Charts]]
             /\ meta'[f] \in Cache(f)!MetaRow \cup {NoRow}
  <2>1. CASE f = feed
    BY <1>4, <1>5, <1>6, <2>1
  <2>2. CASE f # feed
    BY <1>0, <1>1, <1>6, <2>2 DEF TypeOK
  <2> QED
    BY <2>1, <2>2
<1>8. RowsPriced'
  BY <1>0, <1>1, <1>2 DEF RowsPriced
<1>9. BandKeepsSymbolsApart'
  <2> SUFFICES ASSUME NEW f \in Feeds, BandSeparates(f), NEW t \in DOMAIN table'[f]
               PROVE  table'[f][t].from.sym = Sym[f]
    BY DEF BandKeepsSymbolsApart, BandSeparates
  <2>1. CASE f # feed
    BY <1>0, <1>1, <2>1 DEF BandKeepsSymbolsApart
  <2>2. CASE f = feed /\ t \notin DOMAIN rows
    BY <1>0, <1>1, <2>2 DEF BandKeepsSymbolsApart
  <2>3. CASE f = feed /\ t \in DOMAIN rows
    <3>1. table'[f][t].from = shown
      BY <1>0, <1>1, <2>3
    <3>2. Price[shown.sym] \in Band[f].lo..Band[f].hi
      BY <1>3, <2>3, ChartAssumption DEF Inserted, ChartAssumption
    <3> QED
      BY <1>3, <3>1, <3>2 DEF BandSeparates
  <2> QED
    BY <2>1, <2>2, <2>3
<1> QED
  BY <1>0, <1>1, <1>6, <1>7, <1>8, <1>9

-----------------------------------------------------------------------------
(* The invariant is inductive *)

GetBars == GetBarsCold \/ GetBarsWarm \/ Refetch

LEMMA GetBarsEffect ==
    ASSUME TypeOK, GetBars
    PROVE  /\ UNCHANGED store \/ \E rows : Inserted(rows)
           /\ UNCHANGED <<now, tv, believed>>
           /\ turn' \in 1..Len(Polled) /\ pc' \in {"idle", "refetch"}
<1>1. CASE GetBarsCold
  BY <1>1, SnapshotIsRead, InsertEffect, NextFeedType DEF GetBarsCold
<1>2. CASE GetBarsWarm
  <2>1. CASE pc' = "refetch" /\ UNCHANGED <<store, turn>>
    BY <1>2, <2>1 DEF GetBarsWarm, TypeOK
  <2>2. CASE /\ InsertBars(Cache(feed)!Rows(WarmFetch, {t \in 0..now : t > meta[feed].last}))
             /\ NextFeed
    <3>1. Read(Cache(feed)!Rows(WarmFetch, {t \in 0..now : t > meta[feed].last}))
      BY SnapshotIsRead, RowsAreRead DEF WarmFetch
    <3> QED
      BY <1>2, <2>2, <3>1, InsertEffect, NextFeedType DEF GetBarsWarm
  <2> QED
    BY <1>2, <2>1, <2>2 DEF GetBarsWarm
<1>3. CASE Refetch
  BY <1>3, SnapshotIsRead, InsertEffect, NextFeedType DEF Refetch
<1> QED
  BY <1>1, <1>2, <1>3 DEF GetBars

\* What every other step may change.
LEMMA OthersKeep ==
    ASSUME ChartInv, UNCHANGED store, now' \in now..MaxTime,
           chart' \in Charts, shown' \in Charts, believed' \in Charts,
           turn' \in 1..Len(Polled),
           pc' \in {"idle", "symbol", "timeframe", "fetch", "refetch"}
    PROVE  ChartInv'
<1>1. TypeOK'
  <2>1. now \in Nat /\ now' \in 0..MaxTime
    BY FeedType, ChartAssumption DEF ChartInv, ChartAssumption
  <2>2. ASSUME NEW f \in Feeds PROVE DOMAIN table'[f] \subseteq 0..now'
    BY <2>1, <2>2 DEF ChartInv, TypeOK, store
  <2> QED
    BY <2>1, <2>2 DEF ChartInv, TypeOK, store
<1>2. RowsPriced' /\ BandKeepsSymbolsApart'
  BY DEF ChartInv, RowsPriced, BandKeepsSymbolsApart, BandSeparates, store
<1> QED
  BY <1>1, <1>2 DEF ChartInv

LEMMA GetBarsKeeps ==
    ASSUME ChartInv, GetBars
    PROVE  ChartInv'
<1>1. TypeOK
  BY DEF ChartInv
<1>2. /\ UNCHANGED <<now, chart, shown, believed>> /\ now' \in now..MaxTime
      /\ turn' \in 1..Len(Polled) /\ pc' \in {"idle", "refetch"}
  BY <1>1, GetBarsEffect, FeedType DEF tv, TypeOK
<1>3. CASE UNCHANGED store
  BY <1>1, <1>2, <1>3, OthersKeep DEF TypeOK
<1>4. ASSUME NEW rows, Inserted(rows) PROVE ChartInv'
  BY <1>1, <1>2, <1>4, InsertKeeps DEF ChartInv, TypeOK
<1> QED
  BY <1>1, <1>3, <1>4, GetBarsEffect

\* Every step that is not a GetBars leaves the store alone.
LEMMA NextKeeps ==
    ASSUME ChartInv, [Next]_vars
    PROVE  ChartInv' /\ (GetBars \/ UNCHANGED store)
<1>0. /\ now \in 0..MaxTime /\ now \in now..MaxTime /\ 1 \in 1..Len(Polled)
      /\ feed \in Configured /\ Primary \in Configured
      /\ chart \in Charts /\ shown \in Charts /\ believed \in Charts
      /\ turn \in 1..Len(Polled)
      /\ pc \in {"idle", "symbol", "timeframe", "fetch", "refetch"}
  BY FeedType DEF ChartInv, TypeOK, Configured
<1>1. CASE GetBars
  BY <1>1, GetBarsKeeps
<1>2. CASE Tick
  BY <1>0, <1>2, OthersKeep, ChartAssumption DEF Tick, tv, store, ChartAssumption
<1>3. CASE Settle \/ SlowPath
  BY <1>0, <1>3, OthersKeep DEF Settle, SlowPath, tv, store
<1>4. CASE FastPath \/ FetchFails
  BY <1>0, <1>4, OthersKeep, NextFeedType DEF FastPath, FetchFails, tv, store, ChartInv
<1>5. CASE SwitchSymbol \/ SwitchTimeframe
  BY <1>0, <1>5, OthersKeep, ChartTypes DEF SwitchSymbol, SwitchTimeframe, tv, store
<1>6. CASE SwitchFails
  <2>1. chart' \in Charts
    BY <1>0, <1>6, ChartTypes, ZenonT(30) DEF SwitchFails
  <2> QED
    BY <1>0, <1>6, <2>1, OthersKeep, NextFeedType DEF SwitchFails, store, ChartInv
<1>7. CASE Restart
  BY <1>0, <1>7, OthersKeep, ChartTypes DEF Restart, tv, store
<1>8. CASE UNCHANGED vars
  BY <1>0, <1>8, OthersKeep DEF vars, tv, store
<1> QED
  BY <1>1, <1>2, <1>3, <1>4, <1>5, <1>6, <1>7, <1>8 DEF Next, GetBars

LEMMA InitKeeps == Init => ChartInv
<1> SUFFICES ASSUME Init PROVE ChartInv
  OBVIOUS
<1>1. \A f \in Feeds : DOMAIN table[f] = {} /\ table[f] \in [{} -> [close: Nat, from: Charts]]
  BY DEF Init, Cache!EmptyTable
<1>2. TypeOK
  <2>1. /\ now \in 0..MaxTime /\ 1 \in 1..Len(Polled)
    <3> HIDE DEF Feeds
    <3> QED
      BY ChartAssumption DEF Init, ChartAssumption
  <2>2. chart \in Charts /\ shown \in Charts /\ believed \in Charts
    BY ChartTypes DEF Init, Configured
  <2>3. ASSUME NEW f \in Feeds
        PROVE  /\ DOMAIN table[f] \subseteq 0..now
               /\ table[f] \in [DOMAIN table[f] -> [close: Nat, from: Charts]]
               /\ meta[f] \in Cache(f)!MetaRow \cup {NoRow}
    BY <1>1, <2>3 DEF Init
  <2> QED
    BY <2>1, <2>2, <2>3 DEF Init, TypeOK
<1>3. RowsPriced /\ BandKeepsSymbolsApart
  BY <1>1 DEF RowsPriced, BandKeepsSymbolsApart
<1> QED
  BY <1>2, <1>3 DEF ChartInv

\* Every row has the close of the chart it was read from, and the types and
\* the band guard hold with it, in every reachable state.
THEOREM Invariance == Spec => []ChartInv
  BY InitKeeps, NextKeeps, PTL DEF Spec

-----------------------------------------------------------------------------
(* The theorems *)

\* Chart, belief, tables and cache_meta keep their types.
THEOREM TypeCorrect == Spec => []TypeOK
<1>1. ChartInv => TypeOK
  BY DEF ChartInv
<1> QED
  BY <1>1, Invariance, PTL

\* Whatever chart is up when a feed is fetched: if its band excludes the other
\* symbols, it never stores a bar of one of them.
THEOREM BandIsolates == Spec => []BandKeepsSymbolsApart
<1>1. ChartInv => BandKeepsSymbolsApart
  BY DEF ChartInv
<1> QED
  BY <1>1, Invariance, PTL

\* The drift guard: a close that is not more than half away from the newest.
LEMMA DriftGuard ==
    ASSUME NEW f, NEW fresh \in Nat, NEW own \in Nat \ {0}, ~ Cache(f)!Drifted(fresh, own)
    PROVE  WithinHalf(fresh, own)
  BY DEF Cache!Drifted, WithinHalf

\* A feed that holds bars of its own symbol only takes no bar of a symbol
\* whose price is more than half away, with or without a band.
THEOREM DriftIsolates == Spec => DriftKeepsSymbolsApart
<1>1. ASSUME ChartInv, [Next]_vars, NEW f \in Feeds, OwnSymbolOnly(f),
             NEW t \in DOMAIN table'[f]
      PROVE  WithinHalf(Price[table'[f][t].from.sym], Price[Sym[f]])
  <2>0. /\ TypeOK /\ RowsPriced
        /\ Price[Sym[f]] \in Nat \ {0}
        /\ \A u \in DOMAIN table[f] : table[f][u].from.sym = Sym[f]
    BY <1>1, ChartAssumption
    DEF ChartInv, OwnSymbolOnly, Configured, ChartAssumption
  <2>1. WithinHalf(Price[Sym[f]], Price[Sym[f]])
    BY <2>0 DEF WithinHalf
  <2>2. CASE t \in DOMAIN table[f] /\ table'[f][t] = table[f][t]
    BY <2>0, <2>1, <2>2
  <2>3. CASE GetBars /\ ~ (t \in DOMAIN table[f] /\ table'[f][t] = table[f][t])
    <3>1. CASE UNCHANGED store
      BY <1>1, <2>3, <3>1 DEF store
    <3>2. ASSUME NEW rows, Inserted(rows)
          PROVE  WithinHalf(Price[table'[f][t].from.sym], Price[Sym[f]])
      <4>1. f = feed /\ t \in DOMAIN rows /\ table'[f][t].from = shown
        <5>1. /\ feed \in Feeds /\ DOMAIN table' = Feeds
              /\ \A g \in Feeds \ {feed} : table'[g] = table[g]
              /\ DOMAIN table'[feed] = DOMAIN table[feed] \cup DOMAIN rows
              /\ \A u \in DOMAIN rows :
                   table'[feed][u] = [close |-> Price[shown.sym], from |-> shown]
              /\ \A u \in DOMAIN table[feed] \ DOMAIN rows :
                   table'[feed][u] = table[feed][u]
          BY <2>0, <3>2, InsertedRows, FeedType
        <5>2. f = feed
          BY <1>1, <2>3, <5>1
        <5>3. t \in DOMAIN rows
          BY <1>1, <2>3, <5>1, <5>2
        <5> QED
          BY <5>1, <5>2, <5>3
      <4>2. DOMAIN table[f] # {}
        <5>1. SUFFICES ASSUME DOMAIN table[f] = {} PROVE table[f] = Cache(f)!EmptyTable
          BY <1>1 DEF OwnSymbolOnly
        <5>2. table[f] = [u \in DOMAIN table[f] |-> table[f][u]]
          BY <2>0 DEF TypeOK
        <5> QED
          BY <5>1, <5>2 DEF Cache!EmptyTable
      <4>3. PICK u \in DOMAIN table[f] :
              ~ Cache(f)!Drifted(Price[shown.sym], table[f][u].close)
        BY <3>2, <4>1, <4>2 DEF Inserted
      <4>4. table[f][u].close = Price[Sym[f]]
        BY <2>0, <4>3 DEF RowsPriced
      <4>5. Price[shown.sym] \in Nat
        BY <2>0, ChartTypes DEF TypeOK
      <4> QED
        BY <2>0, <4>1, <4>3, <4>4, <4>5, DriftGuard
    <3> QED
      BY <2>0, <2>3, <3>1, <3>2, GetBarsEffect
  <2>4. CASE UNCHANGED store
    BY <1>1, <2>2, <2>4 DEF store
  <2> QED
    BY <1>1, <2>2, <2>3, <2>4, NextKeeps
<1>2. ChartInv /\ [Next]_vars =>
        [\A f \in Feeds : OwnSymbolOnly(f) =>
           \A t \in DOMAIN table'[f] :
              WithinHalf(Price[table'[f][t].from.sym], Price[Sym[f]])]_vars
  BY <1>1
<1> QED
  BY <1>2, Invariance, PTL DEF Spec, DriftKeepsSymbolsApart
=============================================================================
