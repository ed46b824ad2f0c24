-------------------------- MODULE CacheWriterProofs --------------------------
(***************************************************************************)
(* Theorems about CacheWriter, for every band, window size, market and     *)
(* horizon.  All of them follow from the inductive invariant WriterInv.    *)
(***************************************************************************)
EXTENDS CacheWriter, FiniteSetTheorems, TLAPS

-----------------------------------------------------------------------------
(* Lemmas about the operators of BarCache *)

\* The newest row of a window of consecutive bars is its upper end.
LEMMA NewestOfWindow ==
    ASSUME NEW lo \in Int, NEW hi \in Int, lo <= hi,
           NEW table, DOMAIN table = lo..hi
    PROVE  Newest(table) = hi
<1>1. hi \in lo..hi /\ \A t \in lo..hi : hi >= t
  OBVIOUS
<1>2. ASSUME NEW x \in lo..hi, \A t \in lo..hi : x >= t
      PROVE  x = hi
  BY <1>1, <1>2
<1>3. hi = CHOOSE x \in lo..hi : \A t \in lo..hi : x >= t
  BY <1>1, <1>2
<1> QED
  BY <1>3, Zenon DEF Newest, Max

\* A selection of rows keeps their times and contents.
LEMMA RowsDomain ==
    ASSUME NEW table, NEW S
    PROVE  /\ DOMAIN Rows(table, S) = (DOMAIN table) \cap S
           /\ \A t \in (DOMAIN table) \cap S : Rows(table, S)[t] = table[t]
  BY DEF Rows

LEMMA RowsType ==
    ASSUME NEW table, NEW S, NEW T, DOMAIN table \subseteq T,
           table \in [DOMAIN table -> Bar]
    PROVE  /\ DOMAIN Rows(table, S) \subseteq T
           /\ Rows(table, S) \in [DOMAIN Rows(table, S) -> Bar]
  BY DEF Rows

\* An upsert adds the times of the batch, takes its rows from the batch
\* first, and removes nothing.
LEMMA UpsertRows ==
    ASSUME NEW stored, NEW rows
    PROVE  /\ DOMAIN Upsert(stored, rows) = (DOMAIN stored) \cup (DOMAIN rows)
           /\ \A t \in DOMAIN rows : Upsert(stored, rows)[t] = rows[t]
           /\ \A t \in (DOMAIN stored) \ (DOMAIN rows) :
                  Upsert(stored, rows)[t] = stored[t]
  BY DEF Upsert

LEMMA UpsertType ==
    ASSUME NEW stored, NEW rows, NEW T,
           DOMAIN stored \subseteq T, stored \in [DOMAIN stored -> Bar],
           DOMAIN rows \subseteq T, rows \in [DOMAIN rows -> Bar]
    PROVE  /\ DOMAIN Upsert(stored, rows) \subseteq T
           /\ Upsert(stored, rows) \in [DOMAIN Upsert(stored, rows) -> Bar]
  BY DEF Upsert

\* COUNT(*) of a table of bars is a natural number.
LEMMA CountType ==
    ASSUME NEW S, S \subseteq Times
    PROVE  Cardinality(S) \in Nat
<1>1. 0 \in Int /\ MaxTime \in Int
  BY WriterAssumption DEF WriterAssumption
<1>2. IsFiniteSet(0..MaxTime)
  BY <1>1, FS_Interval
<1>3. IsFiniteSet(S)
  BY <1>2, FS_Subset DEF Times
<1> QED
  BY <1>3, FS_CardinalityType

\* The window a tv call returns.
LEMMA SnapshotWindow ==
    ASSUME TypeOK, NEW n \in Nat
    PROVE  /\ Oldest(n) \in 0..now + 1
           /\ n # 0 => Oldest(n) \in 0..now
           /\ DOMAIN Snapshot(n) = Oldest(n)..now
           /\ Snapshot(n) \in [DOMAIN Snapshot(n) -> Bar]
           /\ DOMAIN Snapshot(n) \subseteq Times
           /\ \A t \in Oldest(n)..now :
                t < now => Snapshot(n)[t] = [close |-> market[t], final |-> TRUE]
<1>1. now \in Nat /\ now <= MaxTime /\ MaxTime \in Nat
  BY WriterAssumption DEF TypeOK, Times, WriterAssumption
<1>2. Oldest(n) \in 0..now + 1 /\ (n # 0 => Oldest(n) \in 0..now)
  BY <1>1, WriterAssumption DEF Oldest, Larger, Smaller, WriterAssumption
<1>3. \A t \in Oldest(n)..now : market[t] \in Nat
  BY <1>1, <1>2, WriterAssumption DEF TypeOK, WriterAssumption
<1>4. DOMAIN Snapshot(n) = Oldest(n)..now
  BY DEF Snapshot
<1>5. Oldest(n)..now \subseteq Times
  BY <1>1, <1>2 DEF Times
<1>6. \A t \in Oldest(n)..now :
        Snapshot(n)[t] = [close |-> market[t], final |-> t < now]
  BY DEF Snapshot
<1>7. Snapshot(n) \in [Oldest(n)..now -> Bar]
  BY <1>3 DEF Snapshot, Bar
<1>8. ASSUME NEW t \in Oldest(n)..now, t < now
      PROVE  Snapshot(n)[t] = [close |-> market[t], final |-> TRUE]
  <2>1. (t < now) = TRUE
    BY <1>8
  <2> QED
    BY <1>6, <2>1
<1> QED
  BY <1>2, <1>4, <1>5, <1>7, <1>8

-----------------------------------------------------------------------------
(* The invariant is inductive *)

LEMMA InitInv == Init => WriterInv
<1> SUFFICES ASSUME Init PROVE WriterInv
  OBVIOUS
<1>1. DOMAIN EmptyTable = {} /\ EmptyTable \in [DOMAIN EmptyTable -> Bar]
  BY DEF EmptyTable, Bar
<1>2. TypeOK
  BY <1>1, WriterAssumption DEF Init, TypeOK, Times, WriterAssumption, Larger
<1>3. MetaSummarisesRows /\ OnlyClosedBars
  BY <1>1 DEF Init, MetaSummarisesRows, OnlyClosedBars
<1>4. CycleInv /\ WantInv /\ WindowInv
  BY DEF Init, CycleInv, WantInv, WindowInv, InCycle, Holding
<1> QED
  BY <1>2, <1>3, <1>4 DEF WriterInv

\* A cycle that ends without a transaction keeps it.
LEMMA EndCycleInv ==
    ASSUME WriterInv, EndCycle, UNCHANGED <<env, store>>
    PROVE  WriterInv'
<1> USE DEF EndCycle, env, store
<1>1. DOMAIN EmptyTable = {} /\ EmptyTable \in [DOMAIN EmptyTable -> Bar]
  BY DEF EmptyTable, Bar
<1>2. TypeOK'
  BY <1>1, WriterAssumption DEF WriterInv, TypeOK, Times, WriterAssumption, Larger
<1>3. MetaSummarisesRows' /\ OnlyClosedBars'
  BY DEF WriterInv, MetaSummarisesRows, OnlyClosedBars
<1>4. CycleInv' /\ WantInv' /\ WindowInv'
  BY DEF CycleInv, WantInv, WindowInv, InCycle, Holding
<1> QED
  BY <1>2, <1>3, <1>4 DEF WriterInv

LEMMA TickInv == WriterInv /\ Tick => WriterInv'
<1> SUFFICES ASSUME WriterInv, Tick PROVE WriterInv'
  OBVIOUS
<1> USE DEF Tick, store, local
<1>0. /\ now \in Nat /\ MaxTime \in Nat /\ FetchLag \in 0..1 /\ StepLag \in Nat
      /\ lag \in Nat /\ lag <= Larger(FetchLag, StepLag)
  BY WriterAssumption DEF WriterInv, TypeOK, Times, WriterAssumption, Larger
<1>1. TypeOK'
  <2>1. now' \in Times'
    BY <1>0 DEF Times
  <2>2. market' \in [0..now' -> Closes]
    BY <1>0 DEF WriterInv, TypeOK
  <2>3. lag' \in 0..Larger(FetchLag, StepLag)
    BY <1>0 DEF Larger, LagBound
  <2> QED
    BY <2>1, <2>2, <2>3 DEF WriterInv, TypeOK, Times
<1>2. MetaSummarisesRows' /\ OnlyClosedBars'
  BY <1>0 DEF WriterInv, TypeOK, Times, MetaSummarisesRows, OnlyClosedBars
<1>3. CycleInv' /\ WantInv'
  <2>1. meta # NoRow => meta.last \in Nat
    BY DEF WriterInv, TypeOK, MetaRow
  <2>2. pc = "fetch" => lag' = lag + 1 /\ lag' <= FetchLag
    BY <1>0 DEF LagBound
  <2> QED
    BY <1>0, <2>1, <2>2 DEF WriterInv, CycleInv, WantInv, InCycle
<1>4. WindowInv'
  <2>1. SUFFICES ASSUME pc \in Holding PROVE \E lo, hi \in (0..now)' : Window(lo, hi)'
    BY DEF WindowInv
  <2>2. PICK lo \in 0..now, hi \in 0..now : Window(lo, hi)
    BY <2>1 DEF WriterInv, WindowInv
  <2>3. lo \in 0..now' /\ hi \in 0..now' /\ \A t \in lo..hi : market'[t] = market[t]
    BY <1>0, <2>2
  <2>4. meta # NoRow => meta.last \in Nat
    BY DEF WriterInv, TypeOK, MetaRow
  <2>5. Smaller(Count, TvCap) \in Nat
    BY WriterAssumption DEF WriterAssumption, Smaller
  <2>6. Window(lo, hi)'
    BY <1>0, <2>2, <2>3, <2>4, <2>5 DEF Window
  <2> QED
    BY <2>3, <2>6
<1> QED
  BY <1>1, <1>2, <1>3, <1>4 DEF WriterInv

LEMMA TradeInv == WriterInv /\ Trade => WriterInv'
<1> SUFFICES ASSUME WriterInv, Trade PROVE WriterInv'
  OBVIOUS
<1> USE DEF Trade, store, local
<1>0. now \in Nat
  BY WriterAssumption DEF WriterInv, TypeOK, Times, WriterAssumption
<1>1. market' \in [0..now -> Closes] /\ \A t \in 0..now - 1 : market'[t] = market[t]
  BY <1>0 DEF WriterInv, TypeOK
<1>2. TypeOK' /\ MetaSummarisesRows' /\ OnlyClosedBars' /\ CycleInv' /\ WantInv'
  BY <1>1 DEF WriterInv, TypeOK, Times, MetaSummarisesRows, OnlyClosedBars,
              CycleInv, WantInv
<1>3. WindowInv'
  <2>1. SUFFICES ASSUME pc \in Holding PROVE \E lo, hi \in (0..now)' : Window(lo, hi)'
    BY DEF WindowInv
  <2>2. PICK lo \in 0..now, hi \in 0..now : Window(lo, hi)
    BY <2>1 DEF WriterInv, WindowInv
  <2>3. meta # NoRow => meta.last \in Nat /\ meta.last < now
    BY <2>1 DEF WriterInv, TypeOK, MetaRow, MetaSummarisesRows, OnlyClosedBars
  <2>4. ASSUME meta # NoRow, NEW t \in lo..hi, t <= meta.last
        PROVE  batch[t] = [close |-> market'[t], final |-> TRUE]
    <3>1. t \in 0..now - 1
      BY <1>0, <2>2, <2>3, <2>4
    <3> QED
      BY <1>1, <2>2, <2>4, <3>1 DEF Window
  <2>5. Window(lo, hi)'
    BY <2>2, <2>4 DEF Window
  <2> QED
    BY <2>2, <2>5
<1> QED
  BY <1>2, <1>3 DEF WriterInv

LEMMA BeginInv == WriterInv /\ Begin => WriterInv'
<1> SUFFICES ASSUME WriterInv, Begin PROVE WriterInv'
  OBVIOUS
<1> USE DEF Begin, env, store, local
<1>1. TypeOK'
  BY WriterAssumption DEF WriterInv, TypeOK, Times, WriterAssumption, Larger
<1>2. MetaSummarisesRows' /\ OnlyClosedBars'
  BY DEF WriterInv, MetaSummarisesRows, OnlyClosedBars
<1>3. CycleInv'
  <2>1. meta # NoRow => meta.last + 2 <= now
    BY DEF WriterInv, TypeOK, MetaRow, Times
  <2> QED
    BY <2>1 DEF CycleInv, InCycle
<1>4. WantInv' /\ WindowInv'
  BY DEF WantInv, WindowInv, Holding
<1> QED
  BY <1>1, <1>2, <1>3, <1>4 DEF WriterInv

LEMMA ReadMetaInv == WriterInv /\ ReadMeta => WriterInv'
<1> SUFFICES ASSUME WriterInv, ReadMeta PROVE WriterInv'
  OBVIOUS
<1> USE DEF ReadMeta, env, store
<1>0. /\ now \in Nat /\ Count \in Nat \ {0}
      /\ meta # NoRow => meta.last \in Nat /\ meta.last + 2 <= now
  BY WriterAssumption DEF WriterInv, TypeOK, Times, MetaRow, CycleInv, InCycle, WriterAssumption
<1>1. want' \in Nat /\ WantInv'
  BY <1>0, WriterAssumption DEF WantInv, Smaller, Larger, WriterAssumption
<1>2. TypeOK'
  BY <1>1, WriterAssumption DEF WriterInv, TypeOK, Times, WriterAssumption, Larger
<1>3. MetaSummarisesRows' /\ OnlyClosedBars'
  BY DEF WriterInv, MetaSummarisesRows, OnlyClosedBars
<1>4. CycleInv' /\ WindowInv'
  BY DEF WriterInv, CycleInv, InCycle, WindowInv, Holding
<1> QED
  BY <1>1, <1>2, <1>3, <1>4 DEF WriterInv

\* A window just fetched starts right behind the cache, or the outage
\* outlasted it: at most one bar boundary passed since it was sized.
LEMMA FetchReaches ==
    ASSUME WriterInv, pc = "fetch", meta # NoRow,
           now - meta.last <= Smaller(Count, TvCap)
    PROVE  Oldest(want) <= meta.last + 1
<1>1. /\ now \in Nat /\ meta.last \in Nat /\ meta.last + 2 <= now
      /\ Count \in Nat \ {0} /\ TvCap \in Nat \ {0} /\ want \in Nat
      /\ lag \in 0..1
  <2>1. lag \in 0..1
    BY WriterAssumption DEF WriterInv, TypeOK, WantInv, WriterAssumption, Larger
  <2> QED
    BY <2>1, WriterAssumption
    DEF WriterInv, TypeOK, Times, MetaRow, CycleInv, InCycle, WriterAssumption
<1>2. want = Count \/ want = now - lag - meta.last + 1
  BY DEF WriterInv, WantInv
<1> QED
  BY <1>1, <1>2 DEF Oldest, Smaller, Larger

\* A fetched data frame satisfies the window conditions.
LEMMA FetchedWindow ==
    ASSUME WriterInv, NEW n \in Nat \ {0}, pc \in InCycle \ {"get"},
           batch' = Snapshot(n), pc' \in {"check", "insert"},
           UNCHANGED <<env, store>>,
           meta # NoRow /\ now - meta.last <= Smaller(Count, TvCap)
               => Oldest(n) <= meta.last + 1
    PROVE  WindowInv'
<1> USE DEF env, store
<1>1. TypeOK /\ now \in Nat
  BY WriterAssumption DEF WriterInv, TypeOK, Times, WriterAssumption
<1>2. /\ Oldest(n) \in 0..now
      /\ DOMAIN batch' = Oldest(n)..now
      /\ \A t \in Oldest(n)..now :
            t < now => batch'[t] = [close |-> market[t], final |-> TRUE]
  BY <1>1, SnapshotWindow
<1>3. meta # NoRow => meta.last \in Nat /\ meta.last + 2 <= now
  BY DEF WriterInv, TypeOK, MetaRow, CycleInv
<1>4. PICK lo \in 0..now, hi \in 0..now : lo = Oldest(n) /\ hi = now
  BY <1>1, <1>2
<1>5. Window(lo, hi)'
  <2>1. lo <= hi /\ hi <= now' /\ DOMAIN batch' = lo..hi /\ pc' # "commit"
    BY <1>2, <1>4
  <2>2. ASSUME meta' # NoRow
        PROVE  /\ hi > meta'.last /\ hi > meta'.last + 1
               /\ \A t \in lo..hi : t <= meta'.last =>
                    batch'[t] = [close |-> market'[t], final |-> TRUE]
               /\ now' - meta'.last <= Smaller(Count, TvCap) => lo <= meta'.last + 1
    BY <1>1, <1>2, <1>3, <1>4, <2>2
  <2> QED
    BY <2>1, <2>2 DEF Window
<1> QED
  BY <1>4, <1>5 DEF WindowInv

LEMMA FetchInv == WriterInv /\ Fetch => WriterInv'
<1> SUFFICES ASSUME WriterInv, Fetch PROVE WriterInv'
  OBVIOUS
<1> USE DEF Fetch, Fetched, env, store
<1>1. want \in Nat \ {0}
  BY WriterAssumption
  DEF WriterInv, TypeOK, Times, MetaRow, CycleInv, InCycle, WantInv, WriterAssumption
<1>2. pc' = IF meta = NoRow THEN "insert" ELSE "check"
  BY DEF WriterInv, CycleInv, InCycle
<1>3. WindowInv'
  BY <1>1, <1>2, FetchReaches, FetchedWindow DEF InCycle
<1>4. TypeOK'
  BY <1>1, <1>2, SnapshotWindow, WriterAssumption
  DEF WriterInv, TypeOK, Times, WriterAssumption, Larger
<1>5. MetaSummarisesRows' /\ OnlyClosedBars' /\ CycleInv' /\ WantInv'
  BY <1>2 DEF WriterInv, MetaSummarisesRows, OnlyClosedBars, CycleInv, InCycle, WantInv
<1> QED
  BY <1>3, <1>4, <1>5 DEF WriterInv

LEMMA RefetchInv == WriterInv /\ Refetch => WriterInv'
<1> SUFFICES ASSUME WriterInv, Refetch PROVE WriterInv'
  OBVIOUS
<1> USE DEF Refetch, Fetched, env, store
<1>1. Count \in Nat \ {0} /\ TvCap \in Nat \ {0} /\ now \in Nat
  BY WriterAssumption DEF WriterAssumption, WriterInv, TypeOK, Times
<1>2. meta # NoRow /\ now - meta.last <= Smaller(Count, TvCap)
        => Oldest(Count) <= meta.last + 1
  BY <1>1 DEF WriterInv, TypeOK, MetaRow, Oldest, Smaller, Larger
<1>3. WindowInv'
  BY <1>1, <1>2, FetchedWindow DEF InCycle
<1>4. TypeOK'
  BY <1>1, SnapshotWindow, WriterAssumption
  DEF WriterInv, TypeOK, Times, WriterAssumption, Larger
<1>5. MetaSummarisesRows' /\ OnlyClosedBars' /\ CycleInv' /\ WantInv'
  BY DEF WriterInv, MetaSummarisesRows, OnlyClosedBars, CycleInv, InCycle, WantInv
<1> QED
  BY <1>3, <1>4, <1>5 DEF WriterInv

LEMMA OverlapMismatchInv == WriterInv /\ OverlapMismatch => WriterInv'
<1> SUFFICES ASSUME WriterInv, OverlapMismatch PROVE WriterInv'
  OBVIOUS
<1> USE DEF OverlapMismatch, env, store, local
<1>1. TypeOK'
  BY WriterAssumption DEF WriterInv, TypeOK, Times, WriterAssumption, Larger
<1>2. MetaSummarisesRows' /\ OnlyClosedBars' /\ CycleInv' /\ WantInv' /\ WindowInv'
  BY DEF WriterInv, MetaSummarisesRows, OnlyClosedBars, CycleInv, InCycle,
         WantInv, WindowInv, Holding
<1> QED
  BY <1>1, <1>2 DEF WriterInv

\* Dropping the bars that are not new leaves a window right behind the cache.
LEMMA OverlapMatchInv == WriterInv /\ OverlapMatch => WriterInv'
<1> SUFFICES ASSUME WriterInv, OverlapMatch PROVE WriterInv'
  OBVIOUS
<1> USE DEF OverlapMatch, env, store
<1>1. CASE EndCycle
  BY <1>1, EndCycleInv
<1>2. CASE /\ NewBars # {} /\ batch' = Rows(batch, NewBars)
           /\ pc' = "insert" /\ lag' = 0 /\ UNCHANGED <<seen, want>>
  <2>1. TypeOK'
    <3>1. /\ DOMAIN batch' \subseteq Times /\ batch' \in [DOMAIN batch' -> Bar]
      BY <1>2, RowsType DEF WriterInv, TypeOK
    <3> QED
      BY <1>2, <3>1, WriterAssumption
      DEF WriterInv, TypeOK, Times, WriterAssumption, Larger
  <2>2. MetaSummarisesRows' /\ OnlyClosedBars' /\ CycleInv' /\ WantInv'
    BY <1>2 DEF WriterInv, MetaSummarisesRows, OnlyClosedBars, CycleInv, InCycle, WantInv
  <2>3. WindowInv'
    <3>1. PICK lo \in 0..now, hi \in 0..now : Window(lo, hi)
      BY DEF WriterInv, WindowInv, Holding
    <3>2. meta # NoRow /\ seen = meta /\ meta.last \in Nat /\ now \in Nat
      BY WriterAssumption
      DEF WriterInv, CycleInv, InCycle, TypeOK, MetaRow, Times, WriterAssumption
    <3>3. hi > meta.last + 1
      BY <3>1, <3>2 DEF Window
    <3>4. PICK first \in 0..now : first = Larger(lo, meta.last + 1)
      BY <3>1, <3>2, <3>3 DEF Larger
    <3>5. DOMAIN batch' = first..hi /\ \A t \in first..hi : t > meta.last
      <4>1. DOMAIN batch' = {t \in lo..hi : t > meta.last}
        <5>1. DOMAIN batch' = DOMAIN batch \cap NewBars
          BY <1>2, RowsDomain
        <5> QED
          BY <3>1, <3>2, <5>1 DEF NewBars, Window
      <4> QED
        BY <3>1, <3>2, <3>4, <4>1 DEF Larger
    <3>6. Window(first, hi)'
      <4>1. first <= hi /\ hi <= now' /\ DOMAIN batch' = first..hi /\ pc' # "commit"
        BY <1>2, <3>1, <3>2, <3>3, <3>4, <3>5 DEF Larger, Window
      <4>2. /\ hi > meta'.last /\ hi > meta'.last + 1
            /\ \A t \in first..hi : ~ (t <= meta'.last)
            /\ now' - meta'.last <= Smaller(Count, TvCap) => first <= meta'.last + 1
        BY <3>1, <3>2, <3>3, <3>4, <3>5 DEF Larger, Window
      <4> QED
        BY <4>1, <4>2 DEF Window
    <3> QED
      BY <3>4, <3>6 DEF WindowInv
  <2> QED
    BY <2>1, <2>2, <2>3 DEF WriterInv
<1> QED
  BY <1>1, <1>2

\* Dropping the forming bar leaves a window of closed bars that still ends
\* past the newest cached one.
LEMMA GuardInv == WriterInv /\ Guard => WriterInv'
<1> SUFFICES ASSUME WriterInv, Guard PROVE WriterInv'
  OBVIOUS
<1> USE DEF Guard, env, store
<1>1. CASE EndCycle
  BY <1>1, EndCycleInv
<1>2. CASE /\ Insertable(Closed, bars, 1, 0) /\ batch' = Closed
           /\ pc' = "commit" /\ lag' = 0 /\ UNCHANGED <<seen, want>>
  <2>0. /\ DOMAIN Closed = {t \in DOMAIN batch : t + 1 <= now}
        /\ \A t \in DOMAIN Closed : Closed[t] = batch[t]
        /\ DOMAIN Closed # {}
    <3>1. Closed = ClosedRows(batch, 1, now)
      BY DEF Closed
    <3>2. /\ DOMAIN Closed = {t \in DOMAIN batch : t + 1 <= now}
          /\ \A t \in DOMAIN Closed : Closed[t] = batch[t]
      BY <3>1, RowsDomain, ZenonT(30) DEF ClosedRows
    <3>3. DOMAIN Closed # {}
      BY <1>2, RowsDomain DEF Insertable
    <3> QED
      BY <3>2, <3>3
  <2>1. TypeOK'
    <3>1. /\ DOMAIN batch' \subseteq Times /\ batch' \in [DOMAIN batch' -> Bar]
      BY <1>2, RowsType DEF WriterInv, TypeOK, Closed, ClosedRows
    <3> QED
      BY <1>2, <3>1, WriterAssumption
      DEF WriterInv, TypeOK, Times, WriterAssumption, Larger
  <2>2. MetaSummarisesRows' /\ OnlyClosedBars' /\ CycleInv' /\ WantInv'
    BY <1>2 DEF WriterInv, MetaSummarisesRows, OnlyClosedBars, CycleInv, InCycle, WantInv
  <2>3. WindowInv'
    <3>1. PICK lo \in 0..now, hi \in 0..now : Window(lo, hi)
      BY DEF WriterInv, WindowInv, Holding
    <3>2. now \in Nat /\ (meta # NoRow => meta.last \in Nat /\ meta.last + 2 <= now)
      BY WriterAssumption
      DEF WriterInv, CycleInv, InCycle, TypeOK, MetaRow, Times, WriterAssumption
    <3>3. now # 0 /\ lo <= now - 1
      BY <2>0, <3>1, <3>2 DEF Window
    <3>4. PICK top \in 0..now : top = Smaller(hi, now - 1)
      BY <3>1, <3>2, <3>3 DEF Smaller
    <3>5. DOMAIN batch' = lo..top
      BY <1>2, <2>0, <3>1, <3>2, <3>4 DEF Smaller, Window
    <3>6. Window(lo, top)'
      <4>1. lo <= top /\ top < now' /\ top <= hi
        BY <3>1, <3>2, <3>3, <3>4 DEF Smaller, Window
      <4>2. ASSUME meta # NoRow
            PROVE  /\ top > meta.last
                   /\ \A t \in lo..top : t <= meta.last =>
                        batch'[t] = [close |-> market[t], final |-> TRUE]
                   /\ now - meta.last <= Smaller(Count, TvCap) => lo <= meta.last + 1
        <5>1. top > meta.last
          BY <3>1, <3>2, <3>4, <4>2 DEF Smaller, Window
        <5>2. \A t \in lo..top : batch'[t] = batch[t] /\ t \in lo..hi
          BY <1>2, <2>0, <3>1, <3>5, <4>1
        <5> QED
          BY <3>1, <4>2, <5>1, <5>2 DEF Window
      <4> QED
        BY <1>2, <3>5, <4>1, <4>2 DEF Window
    <3> QED
      BY <3>4, <3>6 DEF WindowInv
  <2> QED
    BY <2>1, <2>2, <2>3 DEF WriterInv
<1> QED
  BY <1>1, <1>2

\* What the transaction publishes: the window of closed bars it holds, which
\* reaches past the newest cached bar.
LEMMA CommitPublishes ==
    ASSUME WriterInv, Commit
    PROVE  \E lo, hi \in 0..now :
             /\ Window(lo, hi) /\ hi < now
             /\ DOMAIN bars' = DOMAIN bars \cup lo..hi
             /\ \A t \in lo..hi : bars'[t] = batch[t]
             /\ \A t \in DOMAIN bars \ lo..hi : bars'[t] = bars[t]
             /\ meta' = [last |-> hi, count |-> Cardinality(DOMAIN bars')]
<1>1. PICK lo \in 0..now, hi \in 0..now : Window(lo, hi)
  BY DEF WriterInv, WindowInv, Holding, Commit
<1>2. lo <= hi /\ hi < now /\ DOMAIN batch = lo..hi
  BY <1>1 DEF Window, Commit
<1>3. Newest(batch) = hi
  BY <1>2, NewestOfWindow
<1>4. meta' = [last |-> hi, count |-> Cardinality(DOMAIN bars')]
  BY <1>3 DEF Commit, MetaAfter
<1>5. /\ DOMAIN bars' = DOMAIN bars \cup lo..hi
      /\ \A t \in lo..hi : bars'[t] = batch[t]
      /\ \A t \in DOMAIN bars \ lo..hi : bars'[t] = bars[t]
  <2>1. bars' = Upsert(bars, batch)
    BY DEF Commit
  <2>2. /\ DOMAIN bars' = DOMAIN bars \cup DOMAIN batch
        /\ \A t \in DOMAIN batch : bars'[t] = batch[t]
        /\ \A t \in DOMAIN bars \ DOMAIN batch : bars'[t] = bars[t]
    <3> HIDE DEF Upsert
    <3> QED
      BY <2>1, UpsertRows
  <2> QED
    BY <1>2, <2>2, Zenon
<1> QED
  BY <1>1, <1>2, <1>4, <1>5

LEMMA CommitInv == WriterInv /\ Commit => WriterInv'
<1> SUFFICES ASSUME WriterInv, Commit PROVE WriterInv'
  OBVIOUS
<1>1. PICK lo \in 0..now, hi \in 0..now :
        /\ Window(lo, hi) /\ hi < now
        /\ DOMAIN bars' = DOMAIN bars \cup lo..hi
        /\ meta' = [last |-> hi, count |-> Cardinality(DOMAIN bars')]
  BY CommitPublishes
<1>2. UNCHANGED env /\ EndCycle
  BY DEF Commit
<1>3. DOMAIN EmptyTable = {} /\ EmptyTable \in [DOMAIN EmptyTable -> Bar]
  BY DEF EmptyTable, Bar
<1>4. DOMAIN bars' \subseteq Times /\ bars' \in [DOMAIN bars' -> Bar]
  BY UpsertType DEF Commit, WriterInv, TypeOK
<1>5. now \in Nat /\ hi \in Nat /\ lo <= hi
  BY <1>1, WriterAssumption DEF WriterInv, TypeOK, Times, WriterAssumption, Window
<1>6. meta' \in MetaRow
  BY <1>1, <1>4, <1>5, CountType DEF MetaRow
<1>7. TypeOK'
  BY <1>2, <1>3, <1>4, <1>6, WriterAssumption
  DEF WriterInv, TypeOK, Times, EndCycle, env, WriterAssumption, Larger
<1>8. MetaSummarisesRows'
  <2>1. meta' # NoRow
    BY <1>6, NoRowAssumption
  <2>2. hi \in DOMAIN bars'
    BY <1>1, <1>5
  <2>3. \A t \in DOMAIN bars' : t <= hi
    <3>1. ASSUME NEW t \in DOMAIN bars PROVE t <= hi
      <4>1. meta # NoRow /\ t <= meta.last /\ meta.last \in Nat /\ t \in Nat
        BY WriterAssumption
        DEF WriterInv, MetaSummarisesRows, TypeOK, MetaRow, Times, WriterAssumption
      <4>2. hi > meta.last
        BY <1>1, <4>1 DEF Window
      <4> QED
        BY <1>5, <4>1, <4>2
    <3> QED
      BY <1>1, <1>5, <3>1
  <2> QED
    BY <1>1, <2>1, <2>2, <2>3 DEF MetaSummarisesRows
<1>9. OnlyClosedBars'
  BY <1>1, <1>2, <1>5 DEF WriterInv, OnlyClosedBars, env
<1>10. CycleInv' /\ WantInv' /\ WindowInv'
  BY <1>2 DEF EndCycle, CycleInv, WantInv, WindowInv, InCycle, Holding
<1> QED
  BY <1>7, <1>8, <1>9, <1>10 DEF WriterInv

LEMMA StutterInv == WriterInv /\ UNCHANGED vars => WriterInv'
<1> SUFFICES ASSUME WriterInv, UNCHANGED vars PROVE WriterInv'
  OBVIOUS
<1> USE DEF vars
<1>1. TypeOK' /\ MetaSummarisesRows' /\ OnlyClosedBars' /\ CycleInv' /\ WantInv'
  BY DEF WriterInv, TypeOK, MetaSummarisesRows, OnlyClosedBars, CycleInv, WantInv
<1>2. WindowInv'
  BY DEF WriterInv, WindowInv, Window
<1> QED
  BY <1>1, <1>2 DEF WriterInv

LEMMA NextInv == WriterInv /\ [Next]_vars => WriterInv'
<1>1. WriterInv /\ FetchFails => WriterInv'
  BY EndCycleInv DEF FetchFails
<1>2. WriterInv /\ Crash => WriterInv'
  BY EndCycleInv DEF Crash
<1> QED
  BY <1>1, <1>2, TickInv, TradeInv, BeginInv, ReadMetaInv, FetchInv, RefetchInv,
     OverlapMismatchInv, OverlapMatchInv, GuardInv, CommitInv, StutterInv
  DEF Next, WriterStep

\* Between two statements of a cycle, what it has read still describes the
\* tables and the clock; so do the tables, in every reachable state.
THEOREM Invariance == Spec => []WriterInv
  BY InitInv, NextInv, PTL DEF Spec

-----------------------------------------------------------------------------
(* The theorems *)

\* The state always has its type: no table, row or data frame is ever
\* malformed, whatever the interleaving of clock, trades, failures, crashes.
THEOREM TypeCorrect == Spec => []TypeOK
<1>1. WriterInv => TypeOK
  BY DEF WriterInv
<1> QED
  BY <1>1, Invariance, PTL

\* last_bar_ts and bar_count always describe the rows of the series.
THEOREM MetaCorrect == Spec => []MetaSummarisesRows
<1>1. WriterInv => MetaSummarisesRows
  BY DEF WriterInv
<1> QED
  BY <1>1, Invariance, PTL

\* No forming bar is ever stored.
THEOREM ClosedOnly == Spec => []OnlyClosedBars
<1>1. WriterInv => OnlyClosedBars
  BY DEF WriterInv
<1> QED
  BY <1>1, Invariance, PTL

\* Only Commit changes the tables.
LEMMA StoreChanges == [Next]_vars => Commit \/ UNCHANGED store
  BY DEF Next, WriterStep, vars, store, Tick, Trade, Begin, ReadMeta, Fetch,
         Refetch, Fetched, FetchFails, OverlapMismatch, OverlapMatch, Guard, Crash

\* The bar count never drops: no step, failure or crash removes a row.
THEOREM RowsNeverLost == Spec => NothingForgotten
<1>1. WriterInv /\ [Next]_vars => [DOMAIN bars \subseteq DOMAIN bars']_vars
  <2>1. WriterInv /\ Commit => DOMAIN bars \subseteq DOMAIN bars'
    BY CommitPublishes
  <2> QED
    BY <2>1, StoreChanges DEF store
<1> QED
  BY <1>1, Invariance, PTL DEF Spec, NothingForgotten

\* A row that already holds the bar as it closed is never overwritten by a
\* snapshot of the bar while it formed.
THEOREM SettledRowsKept == Spec => SettledRowsStay
<1>1. ASSUME WriterInv, [Next]_vars, NEW t \in DOMAIN bars, Settled(t)
      PROVE  bars'[t] = bars[t]
  <2>1. CASE UNCHANGED store
    BY <2>1 DEF store
  <2>2. CASE Commit
    <3>1. PICK lo \in 0..now, hi \in 0..now :
            /\ Window(lo, hi)
            /\ \A u \in lo..hi : bars'[u] = batch[u]
            /\ \A u \in DOMAIN bars \ lo..hi : bars'[u] = bars[u]
      BY <1>1, <2>2, CommitPublishes
    <3>2. meta # NoRow /\ t <= meta.last /\ bars[t] \in Bar
      BY <1>1 DEF WriterInv, TypeOK, MetaSummarisesRows
    <3>3. bars[t] = [close |-> market[t], final |-> TRUE]
      BY <1>1, <3>2 DEF Settled, Bar
    <3> QED
      BY <3>1, <3>2, <3>3 DEF Window
  <2> QED
    BY <1>1, <2>1, <2>2, StoreChanges
<1>2. WriterInv /\ [Next]_vars =>
        [\A t \in DOMAIN bars : Settled(t) => bars'[t] = bars[t]]_vars
  BY <1>1
<1> QED
  BY <1>2, Invariance, PTL DEF Spec, SettledRowsStay

\* A snapshot of a forming bar that slipped into the cache is caught: no
\* append starts while the fetch showed a newest cached close other than the
\* one the bar closed with.
THEOREM SnapshotCaught == Spec => OverlapCatchesSnapshot
<1>1. ASSUME WriterInv, [Next]_vars, pc = "check", pc' = "insert",
             seen.last \in DOMAIN batch
      PROVE  bars[seen.last].close \in {0, market[seen.last]}
  <2>1. OverlapMatch
    BY <1>1 DEF Next, WriterStep, vars, store, local, env, Tick, Trade, Begin, ReadMeta,
                Fetch, Refetch, FetchFails, OverlapMismatch, Guard, Commit, Crash, EndCycle
  <2>2. meta # NoRow /\ seen = meta /\ seen.last \in DOMAIN bars
    BY <1>1 DEF WriterInv, CycleInv, InCycle, MetaSummarisesRows
  <2>3. PICK lo \in 0..now, hi \in 0..now : Window(lo, hi)
    BY <1>1 DEF WriterInv, WindowInv, Holding
  <2>4. seen.last \in lo..hi /\ seen.last <= meta.last
    BY <1>1, <2>2, <2>3 DEF Window, WriterInv, TypeOK, MetaRow
  <2>5. batch[seen.last].close = market[seen.last]
    BY <2>2, <2>3, <2>4 DEF Window
  <2> QED
    BY <1>1, <2>1, <2>2, <2>5 DEF OverlapMatch, OverlapValid
<1>2. WriterInv /\ [Next]_vars =>
        [pc = "check" /\ pc' = "insert" /\ seen.last \in DOMAIN batch
           => bars[seen.last].close \in {0, market[seen.last]}]_vars
  BY <1>1
<1> QED
  BY <1>2, Invariance, PTL DEF Spec, OverlapCatchesSnapshot

\* Appending leaves no hole unless the feed was out for more bars than one
\* fetch brings.
THEOREM NoHole == Spec => NoSkippedBar
<1>1. ASSUME WriterInv, [Next]_vars, meta # NoRow, meta' # meta,
             now - meta.last <= Smaller(Count, TvCap)
      PROVE  meta.last..meta'.last \subseteq DOMAIN bars'
  <2>1. Commit
    BY <1>1, StoreChanges DEF store
  <2>2. PICK lo \in 0..now, hi \in 0..now :
          /\ Window(lo, hi)
          /\ DOMAIN bars' = DOMAIN bars \cup lo..hi
          /\ meta' = [last |-> hi, count |-> Cardinality(DOMAIN bars')]
    BY <1>1, <2>1, CommitPublishes
  <2>3. lo <= meta.last + 1 /\ meta'.last = hi
    BY <1>1, <2>2 DEF Window
  <2>4. meta.last \in DOMAIN bars /\ meta.last \in Nat /\ now \in Nat
    BY <1>1, WriterAssumption
    DEF WriterInv, MetaSummarisesRows, TypeOK, MetaRow, Times, WriterAssumption
  <2>5. \A t \in meta.last..hi : t = meta.last \/ t \in lo..hi
    BY <2>2, <2>3, <2>4
  <2> QED
    BY <2>2, <2>3, <2>4, <2>5
<1>2. WriterInv /\ [Next]_vars =>
        [(/\ meta # NoRow /\ meta' # meta
          /\ now - meta.last <= Smaller(Count, TvCap))
           => meta.last..meta'.last \subseteq DOMAIN bars']_vars
  BY <1>1
<1> QED
  BY <1>2, Invariance, PTL DEF Spec, NoSkippedBar

\* The writer implements the ledger its readers rely on.
THEOREM Refinement == Spec => ImplementsLedger
<1>1. Init => Ledger!Init
  BY DEF Init, Ledger!Init, EmptyTable
<1>2. WriterInv /\ [Next]_vars
        => [Ledger!Next]_<<now, DOMAIN bars, IF meta = NoRow THEN -1 ELSE meta.last>>
  <2> SUFFICES ASSUME WriterInv, [Next]_vars
               PROVE  [Ledger!Next]_<<now, DOMAIN bars,
                                      IF meta = NoRow THEN -1 ELSE meta.last>>
    OBVIOUS
  <2>1. CASE Tick
    BY <2>1 DEF Tick, store, Ledger!Next, Ledger!Pass
  <2>2. CASE Commit
    <3>1. PICK lo \in 0..now, hi \in 0..now :
            /\ Window(lo, hi) /\ hi < now
            /\ DOMAIN bars' = DOMAIN bars \cup lo..hi
            /\ meta' = [last |-> hi, count |-> Cardinality(DOMAIN bars')]
      BY <2>2, CommitPublishes
    <3>2. now \in Nat /\ lo <= hi /\ meta' \in MetaRow /\ now' = now
      <4>1. WriterInv'
        BY <2>2, CommitInv
      <4>2. meta' # NoRow
        <5>1. lo \in DOMAIN bars'
          BY <2>2, <3>1 DEF Window
        <5> QED
          BY <4>1, <5>1 DEF WriterInv, MetaSummarisesRows
      <4> QED
        BY <2>2, <3>1, <4>1, <4>2, WriterAssumption
        DEF WriterInv, TypeOK, Times, WriterAssumption, Commit, env, Window
    <3>3. meta' # NoRow
      BY <3>2, NoRowAssumption
    <3>4. hi >= IF meta = NoRow THEN -1 ELSE meta.last
      BY <3>1, <3>2 DEF Window, WriterInv, TypeOK, MetaRow
    <3>5. hi \in 0..now - 1 /\ lo \in 0..hi
      BY <3>1, <3>2
    <3>6. Ledger!Publish
      BY <3>1, <3>2, <3>3, <3>4, <3>5 DEF Ledger!Publish
    <3> QED
      BY <3>6 DEF Ledger!Next
  <2>3. CASE UNCHANGED <<now, store>>
    BY <2>3 DEF store
  <2>4. Tick \/ Commit \/ UNCHANGED <<now, store>>
    BY DEF Next, WriterStep, vars, store, env, Tick, Trade, Begin, ReadMeta, Fetch,
           Refetch, Fetched, FetchFails, OverlapMismatch, OverlapMatch, Guard, Crash
  <2> QED
    BY <2>1, <2>2, <2>3, <2>4
<1> QED
  BY <1>1, <1>2, Invariance, PTL DEF Spec, ImplementsLedger, Ledger!Spec
=============================================================================
