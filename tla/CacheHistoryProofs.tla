------------------------- MODULE CacheHistoryProofs -------------------------
(***************************************************************************)
(* The theorem of CacheHistory: overlap validation keeps wrong closes out  *)
(* of the past of the cache.  WriterInv says what the writer's data frame  *)
(* is; HistoryInv adds where its closes come from and that the newest      *)
(* cached bar is compared, or replaced, before a newer one is stored.      *)
(***************************************************************************)
EXTENDS CacheHistory, CacheWriterProofs

-----------------------------------------------------------------------------
(* The steps that move the data frame *)

LEMMA StateFacts ==
    ASSUME WriterInv
    PROVE  /\ now \in Nat
           /\ \A t \in DOMAIN bars : t \in Nat /\ t < now /\ meta # NoRow /\ t <= meta.last
           /\ meta # NoRow => meta.last \in DOMAIN bars /\ meta.last \in Nat
           /\ pc \in Holding => \A t \in DOMAIN batch : t \in 0..now
           /\ pc \in InCycle \ {"get"} => seen = meta
<1>1. now \in Nat
  BY WriterAssumption DEF WriterInv, TypeOK, Times, WriterAssumption
<1>2. pc \in Holding => \A t \in DOMAIN batch : t \in 0..now
  BY <1>1 DEF WriterInv, WindowInv, Window
<1> QED
  BY <1>1, <1>2, WriterAssumption
  DEF WriterInv, TypeOK, Times, WriterAssumption, MetaSummarisesRows, OnlyClosedBars,
      CycleInv, MetaRow

\* Only the answer to a fetch can change what the history records.
LEMMA TrackKeeps ==
    ASSUME missed \in BOOLEAN, Track
    PROVE  /\ ~ missed' => ~ missed
           /\ ~ (pc \in {"fetch", "refetch"} /\ pc' \in {"check", "insert"})
                => missed' = missed
           /\ missed' \in BOOLEAN
  BY Zenon DEF Track

\* A market step moves no close that had become final.
LEMMA MarketMoves ==
    ASSUME WriterInv, Tick \/ Trade
    PROVE  /\ \A t \in 0..now : t < now => market'[t] = market[t]
           /\ UNCHANGED <<store, pc, local>>
  BY StateFacts DEF Tick, Trade, WriterInv, TypeOK

LEMMA MarketKeeps ==
    ASSUME WriterInv, HistoryInv, Tick \/ Trade, missed' = missed
    PROVE  HistoryInv'
<1>1. TradedInv'
  BY MarketMoves DEF HistoryInv, TradedInv, store, local
<1>2. BatchInv'
  BY MarketMoves, StateFacts DEF HistoryInv, BatchInv, store, local, Holding
<1>3. OverlapInv'
  BY MarketMoves, StateFacts DEF HistoryInv, OverlapInv, OldClosesAreFinal, store, local
<1> QED
  BY <1>1, <1>2, <1>3 DEF HistoryInv

\* The cycle ends and the tables are left alone.
LEMMA EndKeeps ==
    ASSUME HistoryInv, EndCycle, UNCHANGED <<env, store, missed>>
    PROVE  HistoryInv'
<1>1. pc' = "idle" /\ DOMAIN batch' = {}
  BY DEF EndCycle, EmptyTable
<1> QED
  BY <1>1
  DEF HistoryInv, TradedInv, BatchInv, OverlapInv, OldClosesAreFinal, Holding, env, store

\* Nothing but the place in the cycle changes.
LEMMA IdleKeeps ==
    ASSUME HistoryInv, UNCHANGED <<env, store, batch, missed>>,
           pc' \in {"get", "fetch", "refetch"}
    PROVE  HistoryInv'
  BY DEF HistoryInv, TradedInv, BatchInv, OverlapInv, OldClosesAreFinal, Holding, env, store

\* A fetch shows the market as it is; only its last row may be forming.  One
\* that misses the newest cached bar is recorded.
LEMMA FetchKeeps ==
    ASSUME WriterInv, HistoryInv, Track, NEW n \in Nat, Fetched(n, pc'),
           pc \in {"fetch", "refetch"}, pc' \in {"check", "insert"},
           pc' = "check" => meta # NoRow
    PROVE  HistoryInv'
<1>1. /\ DOMAIN batch' = Oldest(n)..now /\ UNCHANGED <<env, store>>
      /\ \A t \in Oldest(n)..now : batch'[t].close = market[t]
      /\ \A t \in Oldest(n)..now : IsPlausible(market[t])
  BY DEF Fetched, Snapshot
<1>2. Oldest(n) \in 0..now + 1 /\ now \in Nat /\ \A t \in 0..now : market[t] \in Closes
  BY SnapshotWindow, StateFacts DEF WriterInv, TypeOK
<1>3. TradedInv' /\ BatchInv'
  BY <1>1, <1>2 DEF HistoryInv, TradedInv, BatchInv, Traded, env, store
<1>4. seen = meta
  BY StateFacts DEF InCycle
<1>5. ~ missed' => ~ missed /\ (meta # NoRow => meta.last \in DOMAIN batch')
  BY <1>4 DEF Track
<1>6. OverlapInv'
  BY <1>1, <1>5 DEF HistoryInv, OverlapInv, OldClosesAreFinal, env, store
<1>7. missed' \in BOOLEAN
  BY TrackKeeps DEF HistoryInv
<1> QED
  BY <1>3, <1>6, <1>7 DEF HistoryInv

\* Rows behind the newest cached bar are dropped from the batch only when the
\* comparison has passed: the newest cached close is the one on the market.
LEMMA MatchKeeps ==
    ASSUME WriterInv, HistoryInv, OverlapMatch, missed' = missed
    PROVE  HistoryInv'
<1>1. CASE EndCycle
  BY <1>1, EndKeeps DEF OverlapMatch
<1>2. CASE batch' = Rows(batch, NewBars) /\ pc' = "insert"
  <2>1. /\ DOMAIN batch' \subseteq DOMAIN batch
        /\ \A t \in DOMAIN batch' : batch'[t] = batch[t]
    BY <1>2, RowsDomain, ZenonT(30)
  <2>2. TradedInv' /\ BatchInv'
    BY <1>2, <2>1
    DEF OverlapMatch, HistoryInv, TradedInv, BatchInv, Holding, env, store
  <2>3. ASSUME ~ missed
        PROVE  bars[meta.last].close = market[meta.last]
    <3>1. /\ pc = "check" /\ seen = meta /\ meta # NoRow
          /\ meta.last \in DOMAIN bars /\ meta.last \in DOMAIN batch
      BY <2>3, StateFacts
      DEF OverlapMatch, HistoryInv, OverlapInv, InCycle, WriterInv, CycleInv
    <3>2. batch[meta.last].close = market[meta.last]
      <4>1. PICK lo \in 0..now, hi \in 0..now : Window(lo, hi)
        BY <3>1 DEF WriterInv, WindowInv, Holding
      <4> QED
        BY <3>1, <4>1, StateFacts DEF Window
    <3>3. bars[meta.last].close \in {0, batch[meta.last].close}
      BY <3>1 DEF OverlapMatch, OverlapValid
    <3>4. bars[meta.last].close # 0
      BY <3>1, PriceAssumption DEF HistoryInv, TradedInv, Traded, PriceAssumption
    <3> QED
      BY <3>2, <3>3, <3>4
  <2>4. OverlapInv'
    BY <1>2, <2>3
    DEF OverlapMatch, HistoryInv, OverlapInv, OldClosesAreFinal, env, store
  <2> QED
    BY <2>2, <2>4 DEF HistoryInv
<1> QED
  BY <1>1, <1>2 DEF OverlapMatch

\* The closed-bar filter drops no bar that is in the cache.
LEMMA GuardKeeps ==
    ASSUME WriterInv, HistoryInv, Guard, missed' = missed
    PROVE  HistoryInv'
<1>1. CASE EndCycle
  BY <1>1, EndKeeps DEF Guard
<1>2. CASE batch' = Closed /\ pc' = "commit"
  <2>1. /\ DOMAIN batch' = {t \in DOMAIN batch : t + 1 <= now}
        /\ \A t \in DOMAIN batch' : batch'[t] = batch[t]
    BY <1>2, RowsDomain, ZenonT(30) DEF Closed, ClosedRows
  <2>2. TradedInv' /\ BatchInv'
    BY <1>2, <2>1 DEF Guard, HistoryInv, TradedInv, BatchInv, Holding, env, store
  <2>3. meta # NoRow /\ meta.last \in DOMAIN batch => meta.last \in DOMAIN batch'
    BY <2>1, StateFacts
  <2>4. OverlapInv'
    BY <1>2, <2>3 DEF Guard, HistoryInv, OverlapInv, OldClosesAreFinal, env, store
  <2> QED
    BY <2>2, <2>4 DEF HistoryInv
<1> QED
  BY <1>1, <1>2 DEF Guard

\* A newer bar is stored; the one that was newest so far has its final close.
LEMMA CommitKeeps ==
    ASSUME WriterInv, HistoryInv, Commit, missed' = missed
    PROVE  HistoryInv'
<1>1. PICK lo \in 0..now, hi \in 0..now :
        /\ Window(lo, hi) /\ hi < now
        /\ DOMAIN bars' = DOMAIN bars \cup lo..hi
        /\ \A t \in lo..hi : bars'[t] = batch[t]
        /\ \A t \in DOMAIN bars \ lo..hi : bars'[t] = bars[t]
        /\ meta' = [last |-> hi, count |-> Cardinality(DOMAIN bars')]
  BY CommitPublishes
<1>2. DOMAIN batch = lo..hi /\ lo <= hi /\ pc = "commit"
  BY <1>1 DEF Window, Commit
<1>3. pc' = "idle" /\ DOMAIN batch' = {} /\ UNCHANGED env
  BY DEF Commit, EndCycle, EmptyTable
<1>4. TradedInv' /\ BatchInv'
  BY <1>1, <1>2, <1>3 DEF HistoryInv, TradedInv, BatchInv, Holding
<1>5. ASSUME ~ missed, NEW t \in DOMAIN bars', t < hi
      PROVE  bars'[t].close = market[t]
  <2>1. CASE t \in lo..hi
    BY <1>1, <1>2, <1>5, <2>1 DEF HistoryInv, BatchInv, Holding
  <2>2. CASE t \notin lo..hi
    <3>1. t \in DOMAIN bars /\ bars'[t] = bars[t] /\ meta # NoRow
      BY <1>1, <2>2, StateFacts
    <3>2. CASE t < meta.last
      BY <1>5, <3>1, <3>2 DEF HistoryInv, OverlapInv, OldClosesAreFinal
    <3>3. CASE t = meta.last
      BY <1>2, <1>5, <2>2, <3>1, <3>3 DEF HistoryInv, OverlapInv
    <3> QED
      BY <3>1, <3>2, <3>3, StateFacts
  <2> QED
    BY <2>1, <2>2
<1>6. OverlapInv'
  <2>1. meta'.last = hi /\ market' = market
    BY <1>1, <1>3 DEF env
  <2> QED
    BY <1>3, <1>5, <2>1 DEF OverlapInv, OldClosesAreFinal
<1> QED
  BY <1>4, <1>6 DEF HistoryInv

-----------------------------------------------------------------------------
(* The invariant is inductive *)

LEMMA HistoryInitInv == HistoryInit => WriterInv /\ HistoryInv
<1> SUFFICES ASSUME HistoryInit PROVE HistoryInv
  BY InitInv DEF HistoryInit
<1>1. DOMAIN bars = {} /\ DOMAIN batch = {} /\ pc = "idle" /\ missed \in BOOLEAN
  BY DEF HistoryInit, Init, EmptyTable
<1> QED
  BY <1>1 DEF HistoryInv, TradedInv, BatchInv, OverlapInv, OldClosesAreFinal, Holding

LEMMA HistoryNextInv ==
    ASSUME WriterInv, HistoryInv, [Next /\ Track]_historyVars
    PROVE  HistoryInv'
<1>2. CASE UNCHANGED historyVars
  <2>1. UNCHANGED vars /\ missed' = missed
    BY <1>2 DEF historyVars
  <2> QED
    BY <2>1
    DEF vars, Holding, HistoryInv, TradedInv, BatchInv, OverlapInv, OldClosesAreFinal
<1>3. CASE Next /\ Track
  <2>0. ~ (pc \in {"fetch", "refetch"} /\ pc' \in {"check", "insert"}) => missed' = missed
    <3>1. missed \in BOOLEAN
      BY DEF HistoryInv
    <3> QED
      BY <1>3, <3>1, TrackKeeps
  <2>1. CASE Tick \/ Trade
    <3>1. pc' = pc
      BY <2>1, MarketMoves
    <3>2. missed' = missed
      BY <2>0, <3>1
    <3> QED
      BY <2>1, <3>2, MarketKeeps
  <2>2. CASE Begin \/ ReadMeta \/ OverlapMismatch
    BY <2>0, <2>2, IdleKeeps DEF Begin, ReadMeta, OverlapMismatch, store, local
  <2>3. CASE Fetch
    <3>1. want \in Nat /\ seen = meta
      BY <2>3, StateFacts DEF Fetch, InCycle, WriterInv, TypeOK
    <3>2. pc' = (IF seen = NoRow THEN "insert" ELSE "check") /\ Fetched(want, pc')
      BY <2>3 DEF Fetch, Fetched
    <3> QED
      BY <1>3, <2>3, <3>1, <3>2, FetchKeeps DEF Fetch
  <2>4. CASE Refetch
    <3>1. Count \in Nat /\ pc' = "insert" /\ Fetched(Count, pc')
      BY <2>4, WriterAssumption DEF Refetch, Fetched, WriterAssumption
    <3> QED
      BY <1>3, <2>4, <3>1, FetchKeeps DEF Refetch
  <2>5. CASE FetchFails \/ Crash
    BY <2>0, <2>5, EndKeeps DEF FetchFails, Crash, EndCycle
  <2>6. CASE OverlapMatch
    BY <2>0, <2>6, MatchKeeps DEF OverlapMatch
  <2>7. CASE Guard
    BY <2>0, <2>7, GuardKeeps DEF Guard
  <2>8. CASE Commit
    BY <2>0, <2>8, CommitKeeps DEF Commit
  <2> QED
    BY <1>3, <2>1, <2>2, <2>3, <2>4, <2>5, <2>6, <2>7, <2>8 DEF Next, WriterStep
<1> QED
  BY <1>2, <1>3

-----------------------------------------------------------------------------
(* The theorem *)

\* Overlap validation does its job: as long as every fetch brought the newest
\* cached bar with it, each row older than the newest has the close its bar
\* closed with, whatever snapshots slipped in and whatever failed or crashed.
THEOREM OldClosesFinal == HistorySpec => []OldClosesUnlessMissed
<1>1. WriterInv /\ HistoryInv /\ [Next /\ Track]_historyVars
        => (WriterInv /\ HistoryInv)'
  BY HistoryNextInv, NextInv DEF historyVars
<1>2. HistoryInv => OldClosesUnlessMissed
  BY DEF HistoryInv, OverlapInv, OldClosesUnlessMissed
<1> QED
  BY <1>1, <1>2, HistoryInitInv, PTL DEF HistorySpec
=============================================================================
