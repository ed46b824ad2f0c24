-------------------------- MODULE SharedCacheProofs --------------------------
(***************************************************************************)
(* Theorems about SharedCache: writer and backfill, transaction by         *)
(* transaction, for every band, window, market, horizon and number of       *)
(* backfills.  They follow from the inductive invariant SharedInv.          *)
(***************************************************************************)
EXTENDS SharedCache, CacheWriterProofs, SetLemmas

LEMMA Constants ==
    /\ Count \in Nat \ {0} /\ TvCap \in Nat \ {0} /\ Closes \subseteq Nat
    /\ FetchLag \in 0..1 /\ StepLag \in Nat /\ MaxTime \in Nat
    /\ 0 \in 0..Larger(FetchLag, StepLag)
  BY WriterAssumption DEF WriterAssumption, Larger

LEMMA EmptyTableType ==
    DOMAIN EmptyTable = {} /\ EmptyTable \in [DOMAIN EmptyTable -> Bar]
  BY DEF EmptyTable, Bar

\* The type invariant of CacheWriter does not need its writer to be alone.
LEMMA WriterAloneType == TypeOK /\ WriterAlone => TypeOK'
<1> SUFFICES ASSUME TypeOK, WriterAlone PROVE TypeOK'
  OBVIOUS
<1>0. now \in Nat /\ now <= MaxTime
  BY Constants DEF TypeOK, Times
<1>1. CASE Tick
  <2>1. now' \in Times /\ market' \in [0..now' -> Closes]
    BY <1>0, <1>1, Constants DEF Tick, TypeOK, Times
  <2>2. lag' \in 0..Larger(FetchLag, StepLag)
    BY <1>1, Constants DEF Tick, TypeOK, LagBound, Larger
  <2> QED
    BY <1>1, <2>1, <2>2 DEF Tick, TypeOK, store, local, Times
<1>2. CASE Trade
  BY <1>0, <1>2 DEF Trade, TypeOK, store, local, Times
<1>3. CASE EndCycle /\ UNCHANGED <<env, store>>
  BY <1>3, Constants, EmptyTableType DEF EndCycle, TypeOK, env, store, Times
<1>4. CASE Begin \/ OverlapMismatch
  BY <1>4, Constants DEF Begin, OverlapMismatch, TypeOK, env, store, local, Times
<1>5. CASE ReadMeta
  <2>1. meta # NoRow => meta.last \in Nat
    BY DEF TypeOK, MetaRow
  <2>2. want' \in Nat
    BY <1>0, <1>5, <2>1, Constants DEF ReadMeta, Smaller, Larger
  <2> QED
    BY <1>5, <2>2, Constants DEF ReadMeta, TypeOK, env, store, Times
<1>6. ASSUME NEW n \in Nat, NEW next \in {"insert", "check"}, Fetched(n, next)
      PROVE  TypeOK'
  <2>1. /\ DOMAIN batch' \subseteq Times /\ batch' \in [DOMAIN batch' -> Bar]
    BY <1>6, SnapshotWindow DEF Fetched
  <2> QED
    BY <1>6, <2>1, Constants DEF Fetched, TypeOK, env, store, Times
<1>7. CASE Fetch \/ Refetch
  <2>1. want \in Nat /\ Count \in Nat
    BY Constants DEF TypeOK
  <2>2. CASE Fetch
    BY <1>6, <2>1, <2>2 DEF Fetch
  <2>3. CASE Refetch
    BY <1>6, <2>1, <2>3 DEF Refetch
  <2> QED
    BY <1>7, <2>2, <2>3
<1>8. ASSUME NEW S, batch' = Rows(batch, S), pc' \in {"insert", "commit"},
             lag' = 0, UNCHANGED <<env, store, seen, want>>
      PROVE  TypeOK'
  <2>1. /\ DOMAIN batch' \subseteq Times /\ batch' \in [DOMAIN batch' -> Bar]
    BY <1>8, RowsType DEF TypeOK
  <2> QED
    BY <1>8, <2>1, Constants DEF TypeOK, env, store, Times
<1>9. CASE OverlapMatch
  BY <1>3, <1>8, <1>9 DEF OverlapMatch
<1>10. CASE Guard
  BY <1>3, <1>8, <1>10 DEF Guard, Closed, ClosedRows
<1>11. CASE FetchFails
  BY <1>3, <1>11 DEF FetchFails
<1> QED
  BY <1>1, <1>2, <1>4, <1>5, <1>7, <1>9, <1>10, <1>11 DEF WriterAlone

\* The writer's own steps leave the tables alone, do not turn the clock back,
\* and reach the transaction only with closed rows in hand.
LEMMA WriterAloneHolds ==
    ASSUME TypeOK, HoldInv, WriterAlone
    PROVE  UNCHANGED store /\ now' \in Nat /\ now' >= now /\ HoldInv'
<1>1. now \in Nat
  BY Constants DEF TypeOK, Times
<1>2. UNCHANGED store /\ now' \in Nat /\ now' >= now
  BY <1>1 DEF WriterAlone, Tick, Trade, Begin, ReadMeta, Fetch, Refetch, Fetched,
     FetchFails, EndCycle, OverlapMismatch, OverlapMatch, Guard, store, env
<1>3. CASE Guard
  <2>1. CASE Insertable(Closed, bars, 1, 0) /\ batch' = Closed /\ pc' = "commit"
    <3>1. /\ DOMAIN Closed = {t \in DOMAIN batch : t + 1 <= now}
          /\ DOMAIN Closed # {}
      BY <2>1, RowsDomain, ZenonT(30) DEF Closed, ClosedRows, Insertable
    <3>2. \A t \in DOMAIN Closed : t < now
      BY <1>1, <3>1 DEF TypeOK, Times
    <3>3. now' = now
      BY <1>3 DEF Guard, env
    <3> QED
      BY <1>2, <2>1, <3>1, <3>2, <3>3 DEF HoldInv, ClosedBy
  <2>2. CASE pc' = "idle"
    BY <1>2, <2>2 DEF HoldInv
  <2> QED
    BY <1>3, <2>1, <2>2 DEF Guard, EndCycle
<1>4. CASE Tick \/ Trade
  <2>1. pc' = pc /\ batch' = batch
    BY <1>4 DEF Tick, Trade, local
  <2> QED
    BY <1>1, <1>2, <2>1 DEF HoldInv, ClosedBy, TypeOK, Times
<1>5. ASSUME pc' # "commit" PROVE HoldInv'
  BY <1>5 DEF HoldInv
<1> QED
  BY <1>2, <1>3, <1>4, <1>5 DEF WriterAlone, Begin, ReadMeta, Fetch, Refetch, Fetched,
     FetchFails, EndCycle, OverlapMismatch, OverlapMatch

-----------------------------------------------------------------------------
(* The invariant is inductive *)

LEMMA SharedInitInv == SharedInit => SharedInv
<1> SUFFICES ASSUME SharedInit PROVE SharedInv
  OBVIOUS
<1>1. TypeOK
  BY Constants, EmptyTableType DEF SharedInit, Init, TypeOK, Times
<1>2. TxShape /\ \A p \in Writers : tx[p].step = "none" /\ tx[p].count = 0
  BY DEF SharedInit, TxShape, NoTx
<1>3. \A p \in Writers : tx[p].rows = EmptyTable
  BY DEF SharedInit, NoTx
<1>4. DOMAIN EmptyTable \subseteq Times
  BY EmptyTableType
<1>5. /\ DOMAIN history \subseteq Times /\ history \in [DOMAIN history -> Bar]
      /\ \A p \in Writers : /\ DOMAIN tx[p].rows \subseteq Times
                            /\ tx[p].rows \in [DOMAIN tx[p].rows -> Bar]
  BY <1>3, <1>4, EmptyTableType, Zenon DEF SharedInit
<1>6. SharedTypeOK
  BY <1>1, <1>2, <1>5, SharedAssumption DEF SharedAssumption, SharedInit, SharedTypeOK
<1>7. HoldInv /\ BackfillHoldInv /\ TxInv /\ OnlyClosedBars /\ MetaNeverOverstates
  BY <1>2, EmptyTableType
  DEF SharedInit, Init, HoldInv, BackfillHoldInv, TxInv, OnlyClosedBars, MetaNeverOverstates
<1> QED
  BY <1>2, <1>6, <1>7 DEF SharedInv

\* While the tables and the transactions stay as they are, time may pass.
LEMMA TimePasses ==
    ASSUME SharedInv, UNCHANGED <<store, tx>>, now' \in Nat, now' >= now
    PROVE  TxShape' /\ TxInv' /\ OnlyClosedBars' /\ MetaNeverOverstates'
<1>1. now \in Nat
  BY Constants DEF SharedInv, SharedTypeOK, TypeOK, Times
<1>2. OnlyClosedBars' /\ MetaNeverOverstates' /\ TxShape'
  BY <1>1 DEF SharedInv, SharedTypeOK, TypeOK, Times, OnlyClosedBars, MetaNeverOverstates,
     TxShape, store
<1>3. \A p \in Writers : DOMAIN tx[p].rows \subseteq Nat
  BY Constants DEF SharedInv, SharedTypeOK, Times
<1>4. ASSUME NEW p \in Writers, NEW t \in DOMAIN tx[p].rows, t < now
      PROVE  t < now'
  BY <1>1, <1>3, <1>4
<1>5. TxInv'
  <2>1. bars' = bars /\ tx' = tx
    BY DEF store
  <2> QED
    BY <1>4, <2>1 DEF SharedInv, TxInv
<1> QED
  BY <1>2, <1>5

\* Rows that the backfill has filtered stay closed while it waits to write them.
LEMMA HeldRowsStay ==
    ASSUME SharedInv, now' \in Nat, now' >= now,
           UNCHANGED <<bpc, history>> \/ bpc' # "commit"
    PROVE  BackfillHoldInv'
<1> SUFFICES ASSUME bpc' = "commit" PROVE ClosedBy(history', now')
  BY DEF BackfillHoldInv
<1>1. ClosedBy(history, now) /\ history' = history
  BY DEF SharedInv, BackfillHoldInv
<1>2. DOMAIN history \subseteq Nat /\ now \in Nat
  BY Constants DEF SharedInv, SharedTypeOK, TypeOK, Times
<1> QED
  BY <1>1, <1>2 DEF ClosedBy

LEMMA WriterAloneInv == SharedInv /\ WriterAlone /\ UNCHANGED <<backfill, tx>> => SharedInv'
<1> SUFFICES ASSUME SharedInv, WriterAlone, UNCHANGED <<backfill, tx>> PROVE SharedInv'
  OBVIOUS
<1>1. UNCHANGED store /\ now' \in Nat /\ now' >= now /\ HoldInv'
  BY WriterAloneHolds DEF SharedInv, SharedTypeOK
<1>2. TypeOK'
  BY WriterAloneType DEF SharedInv, SharedTypeOK
<1>3. SharedTypeOK'
  BY <1>2 DEF SharedInv, SharedTypeOK, backfill, Times
<1> QED
  BY <1>1, <1>3, TimePasses, HeldRowsStay DEF SharedInv, backfill

\* Everything of the invariant that is about the tables alone.
LEMMA StoreStays ==
    ASSUME SharedInv, UNCHANGED <<now, store>>
    PROVE  OnlyClosedBars' /\ MetaNeverOverstates'
  BY DEF SharedInv, OnlyClosedBars, MetaNeverOverstates, store

\* Types after a transaction has ended, by commit or rollback, and with it
\* perhaps the cycle of the writer or the process of the backfill.
LEMMA TxEndsType ==
    ASSUME SharedInv, NEW p \in Writers, UNCHANGED env,
           tx' = [tx EXCEPT ![p] = NoTx],
           DOMAIN bars' \subseteq Times, bars' \in [DOMAIN bars' -> Bar],
           meta' \in MetaRow \cup {NoRow},
           UNCHANGED <<pc, local, lag>> \/ EndCycle,
           UNCHANGED backfill \/ BackfillEnd
    PROVE  SharedTypeOK' /\ TxShape' /\ HoldInv' /\ BackfillHoldInv'
<1>0. /\ bpc' \in {"off", "write", "commit", "tx"} /\ runs' = runs
      /\ history' = history \/ history' = EmptyTable
      /\ UNCHANGED <<bpc, history>> \/ bpc' # "commit"
  BY DEF SharedInv, SharedTypeOK, backfill, BackfillEnd
<1>1. TypeOK' /\ HoldInv'
  <2>1. CASE UNCHANGED <<pc, local, lag>>
    BY <2>1 DEF SharedInv, SharedTypeOK, TypeOK, HoldInv, env, local, Times
  <2>2. CASE EndCycle
    BY <2>2, Constants, EmptyTableType
    DEF SharedInv, SharedTypeOK, TypeOK, HoldInv, env, EndCycle, Times
  <2> QED
    BY <2>1, <2>2
<1>2. DOMAIN history' \subseteq Times /\ history' \in [DOMAIN history' -> Bar]
  <2>1. CASE history' = history
    BY <2>1 DEF SharedInv, SharedTypeOK
  <2>2. CASE history' = EmptyTable
    BY <2>2, EmptyTableType
  <2> QED
    BY <1>0, <2>1, <2>2
<1>3. \A q \in Writers : tx'[q] = IF q = p THEN NoTx ELSE tx[q]
  BY DEF SharedInv, TxShape
<1>4. TxShape'
  BY <1>3 DEF SharedInv, TxShape, NoTx
<1>5. ASSUME NEW q \in Writers
      PROVE  /\ tx'[q].step \in {"none", "rows", "counted"} /\ tx'[q].count \in Nat
             /\ DOMAIN tx'[q].rows \subseteq Times
             /\ tx'[q].rows \in [DOMAIN tx'[q].rows -> Bar]
  <2>1. CASE q = p
    <3>1. tx'[q].step = "none" /\ tx'[q].count = 0 /\ tx'[q].rows = EmptyTable
      BY <1>3, <2>1 DEF NoTx
    <3>2. DOMAIN EmptyTable \subseteq Times
      BY EmptyTableType
    <3>3. DOMAIN tx'[q].rows \subseteq Times /\ tx'[q].rows \in [DOMAIN tx'[q].rows -> Bar]
      BY <3>1, <3>2, EmptyTableType, Zenon
    <3> QED
      BY <3>1, <3>3
  <2>2. CASE q # p
    BY <1>3, <2>2 DEF SharedInv, SharedTypeOK
  <2> QED
    BY <2>1, <2>2
<1>6. bpc' \in {"off", "write", "commit", "tx"} /\ runs' \in 0..Runs
  BY <1>0 DEF SharedInv, SharedTypeOK
<1>7. SharedTypeOK'
  BY <1>1, <1>2, <1>5, <1>6 DEF SharedTypeOK, Times
<1>8. BackfillHoldInv'
  BY <1>0, HeldRowsStay DEF env, SharedInv, SharedTypeOK, TypeOK, Times, WriterAssumption
<1> QED
  BY <1>1, <1>4, <1>7, <1>8

\* A transaction takes closed rows.
LEMMA TxUpsertInv ==
    ASSUME SharedInv, NEW p \in Writers, NEW rows, TxUpsert(p, rows),
           DOMAIN rows # {}, \A t \in DOMAIN rows : t < now,
           DOMAIN rows \subseteq Times, rows \in [DOMAIN rows -> Bar],
           UNCHANGED <<vars, history, runs>>, bpc' \in {bpc, "tx"}
    PROVE  SharedInv'
<1>1. \A q \in Writers : tx'[q] = IF q = p THEN [step |-> "rows", rows |-> rows, count |-> 0]
                                          ELSE tx[q]
  BY DEF TxUpsert, SharedInv, TxShape
<1>2. UNCHANGED <<now, store>>
  BY DEF vars, store
<1>3. TxShape' /\ TxInv'
  BY <1>1, <1>2 DEF TxUpsert, SharedInv, TxShape, TxInv, store
<1>4. TypeOK'
  BY DEF SharedInv, SharedTypeOK, TypeOK, vars, Times
<1>5. SharedTypeOK'
  BY <1>1, <1>4 DEF SharedInv, SharedTypeOK, Times
<1>6. HoldInv' /\ BackfillHoldInv'
  BY DEF SharedInv, HoldInv, BackfillHoldInv, vars
<1> QED
  BY <1>2, <1>3, <1>5, <1>6, StoreStays DEF SharedInv

LEMMA TxCountInv ==
    ASSUME SharedInv, NEW p \in Writers, TxCount(p), UNCHANGED <<vars, backfill>>
    PROVE  SharedInv'
<1> DEFINE c == Cardinality(DOMAIN bars \cup DOMAIN tx[p].rows)
<1>1. c \in Nat /\ Cardinality(DOMAIN tx[p].rows) <= c
  BY Constants, CountBounded DEF SharedInv, SharedTypeOK, TypeOK, Times
<1>2. /\ \A q \in Writers \ {p} : tx'[q] = tx[q]
      /\ tx'[p].step = "counted" /\ tx'[p].count = c /\ tx'[p].rows = tx[p].rows
      /\ DOMAIN tx' = Writers /\ DOMAIN tx'[p] = {"step", "rows", "count"}
  BY DEF TxCount, SharedInv, TxShape
<1>3. UNCHANGED <<now, store>> /\ HoldInv' /\ TypeOK'
  BY DEF SharedInv, SharedTypeOK, TypeOK, HoldInv, vars, store, Times
<1>4. TxShape'
  BY <1>2 DEF SharedInv, TxShape
<1>5. TxInv'
  <2>1. ASSUME NEW q \in Writers
        PROVE  /\ tx'[q].step # "none" =>
                    DOMAIN tx'[q].rows # {} /\ \A t \in DOMAIN tx'[q].rows : t < now'
               /\ tx'[q].step = "counted" =>
                    /\ Cardinality(DOMAIN tx'[q].rows) <= tx'[q].count
                    /\ tx'[q].count <= Cardinality(DOMAIN bars' \cup DOMAIN tx'[q].rows)
    <3>1. CASE q = p
      BY <1>1, <1>2, <1>3, <3>1 DEF TxCount, SharedInv, TxInv, store
    <3>2. CASE q # p
      BY <1>2, <1>3, <3>2 DEF SharedInv, TxInv, store
    <3> QED
      BY <3>1, <3>2
  <2> QED
    BY <2>1 DEF TxInv
<1>6. SharedTypeOK'
  BY <1>1, <1>2, <1>3 DEF SharedInv, SharedTypeOK, backfill, Times
<1>7. BackfillHoldInv'
  BY DEF SharedInv, BackfillHoldInv, vars, backfill
<1> QED
  BY <1>3, <1>4, <1>5, <1>6, <1>7, StoreStays DEF SharedInv

\* What a transaction publishes.
LEMMA TxPublishes ==
    ASSUME SharedInv, NEW p \in Writers, TxCommit(p)
    PROVE  LET S == DOMAIN tx[p].rows
           IN  /\ S # {} /\ S \subseteq Times /\ \A t \in S : t < now
               /\ DOMAIN bars' = DOMAIN bars \cup S
               /\ bars' \in [DOMAIN bars' -> Bar]
               /\ Max(S) \in S
               /\ meta' = [last |-> Max(S), count |-> tx[p].count]
               /\ tx[p].count \in Nat
               /\ Cardinality(S) <= tx[p].count
               /\ tx[p].count <= Cardinality(DOMAIN bars')
<1> DEFINE S == DOMAIN tx[p].rows
<1>1. /\ S # {} /\ S \subseteq Times /\ \A t \in S : t < now
      /\ tx[p].rows \in [S -> Bar] /\ tx[p].count \in Nat
      /\ Cardinality(S) <= tx[p].count
      /\ tx[p].count <= Cardinality(DOMAIN bars \cup S)
  BY DEF TxCommit, SharedInv, SharedTypeOK, TxInv
<1>2. DOMAIN bars' = DOMAIN bars \cup S /\ bars' \in [DOMAIN bars' -> Bar]
  <2>1. bars' = Upsert(bars, tx[p].rows) /\ DOMAIN bars \subseteq Times
        /\ bars \in [DOMAIN bars -> Bar]
    BY DEF TxCommit, SharedInv, SharedTypeOK, TypeOK
  <2> QED
    BY <1>1, <2>1, UpsertRows, UpsertType
<1>3. Max(S) \in S
  BY <1>1, Constants, MaxExists DEF Times
<1>4. meta' = [last |-> Max(S), count |-> tx[p].count]
  BY DEF TxCommit, Newest
<1> QED
  BY <1>1, <1>2, <1>3, <1>4

\* A commit keeps what the other transaction counted true: rows are only added.
LEMMA TxCommitInv ==
    ASSUME SharedInv, NEW p \in Writers, TxCommit(p), UNCHANGED env,
           UNCHANGED <<pc, local, lag>> \/ EndCycle,
           UNCHANGED backfill \/ BackfillEnd
    PROVE  SharedInv'
<1> DEFINE S == DOMAIN tx[p].rows
<1>1. /\ S # {} /\ S \subseteq Times /\ \A t \in S : t < now
      /\ DOMAIN bars' = DOMAIN bars \cup S
      /\ bars' \in [DOMAIN bars' -> Bar]
      /\ Max(S) \in S
      /\ meta' = [last |-> Max(S), count |-> tx[p].count]
      /\ tx[p].count \in Nat
      /\ tx[p].count <= Cardinality(DOMAIN bars')
  BY TxPublishes
<1>2. now' = now /\ DOMAIN bars \subseteq Times
  BY DEF env, SharedInv, SharedTypeOK, TypeOK
<1>3. OnlyClosedBars'
  BY <1>1, <1>2 DEF SharedInv, OnlyClosedBars
<1>4. MetaNeverOverstates'
  BY <1>1 DEF MetaNeverOverstates
<1>5. \A q \in Writers : tx'[q] = IF q = p THEN NoTx ELSE tx[q]
  BY DEF TxCommit, SharedInv, TxShape
<1>6. meta' \in MetaRow /\ DOMAIN bars' \subseteq Times
  BY <1>1, <1>2 DEF MetaRow, Times
<1>7. TxInv'
  <2>1. ASSUME NEW q \in Writers, q # p
        PROVE  Cardinality(DOMAIN bars \cup DOMAIN tx[q].rows)
                 <= Cardinality(DOMAIN bars' \cup DOMAIN tx[q].rows)
    <3>1. DOMAIN bars' \cup DOMAIN tx[q].rows \subseteq 0..MaxTime
      BY <1>1, <1>2 DEF SharedInv, SharedTypeOK, Times
    <3> QED
      BY <1>1, <3>1, Constants, CountBounded
  <2>2. ASSUME NEW q \in Writers, q # p
        PROVE  tx[q].count <= Cardinality(DOMAIN bars \cup DOMAIN tx[q].rows)
               => tx[q].count <= Cardinality(DOMAIN bars' \cup DOMAIN tx[q].rows)
    <3>1. /\ DOMAIN bars' \cup DOMAIN tx[q].rows \subseteq 0..MaxTime
          /\ DOMAIN bars \cup DOMAIN tx[q].rows \subseteq 0..MaxTime
          /\ tx[q].count \in Nat
      BY <1>1, <1>2, <2>2 DEF SharedInv, SharedTypeOK, Times
    <3>2. /\ Cardinality(DOMAIN bars' \cup DOMAIN tx[q].rows) \in Nat
          /\ Cardinality(DOMAIN bars \cup DOMAIN tx[q].rows) \in Nat
      BY <3>1, Constants, CountBounded
    <3>3. Cardinality(DOMAIN bars \cup DOMAIN tx[q].rows)
            <= Cardinality(DOMAIN bars' \cup DOMAIN tx[q].rows)
      BY <2>1, <2>2
    <3>4. \A a, b, c \in Nat : a <= b /\ b <= c => a <= c
      OBVIOUS
    <3> QED
      BY <3>1, <3>2, <3>3, <3>4, Zenon
  <2>3. ASSUME NEW q \in Writers
        PROVE  /\ tx'[q].step # "none" =>
                    DOMAIN tx'[q].rows # {} /\ \A t \in DOMAIN tx'[q].rows : t < now'
               /\ tx'[q].step = "counted" =>
                    /\ Cardinality(DOMAIN tx'[q].rows) <= tx'[q].count
                    /\ tx'[q].count <= Cardinality(DOMAIN bars' \cup DOMAIN tx'[q].rows)
    <3>1. CASE q = p
      BY <1>5, <3>1 DEF NoTx
    <3>2. CASE q # p
      BY <1>2, <1>5, <2>2, <3>2 DEF SharedInv, TxInv
    <3> QED
      BY <3>1, <3>2
  <2> QED
    BY <2>3 DEF TxInv
<1>8. SharedTypeOK' /\ TxShape' /\ HoldInv' /\ BackfillHoldInv'
  BY <1>1, <1>6, TxEndsType DEF TxCommit
<1> QED
  BY <1>3, <1>4, <1>7, <1>8 DEF SharedInv

\* A crash or a failure rolls the transaction back.
LEMMA RollbackInv ==
    ASSUME SharedInv, NEW p \in Writers, tx' = [tx EXCEPT ![p] = NoTx],
           UNCHANGED <<env, store>>,
           UNCHANGED <<pc, local, lag>> \/ EndCycle,
           UNCHANGED backfill \/ BackfillEnd
    PROVE  SharedInv'
<1>1. \A q \in Writers : tx'[q] = IF q = p THEN NoTx ELSE tx[q]
  BY DEF SharedInv, TxShape
<1>2. TxInv'
  BY <1>1 DEF SharedInv, TxShape, TxInv, NoTx, env, store
<1>3. /\ DOMAIN bars' \subseteq Times /\ bars' \in [DOMAIN bars' -> Bar]
      /\ meta' \in MetaRow \cup {NoRow}
  BY DEF SharedInv, SharedTypeOK, TypeOK, store
<1>4. SharedTypeOK' /\ TxShape' /\ HoldInv' /\ BackfillHoldInv'
  BY <1>3, TxEndsType
<1>5. UNCHANGED <<now, store>>
  BY DEF env
<1> QED
  BY <1>2, <1>4, <1>5, StoreStays DEF SharedInv

LEMMA BackfillFetchInv == SharedInv /\ BackfillFetch => SharedInv'
<1> SUFFICES ASSUME SharedInv, BackfillFetch PROVE SharedInv'
  OBVIOUS
<1>1. now \in Nat /\ now <= MaxTime /\ Total \in Nat \ {0}
  BY Constants, SharedAssumption DEF SharedAssumption, SharedInv, SharedTypeOK, TypeOK, Times
<1>2. Larger(0, now - Total + 1)..now \subseteq 0..now
  BY <1>1 DEF Larger
<1>3. \A t \in 0..now : market[t] \in Nat
  BY Constants DEF SharedInv, SharedTypeOK, TypeOK
<1>4. /\ DOMAIN history' = Larger(0, now - Total + 1)..now
      /\ history' \in [DOMAIN history' -> Bar]
  BY <1>2, <1>3 DEF BackfillFetch, Bar
<1>5. DOMAIN history' \subseteq Times
  BY <1>1, <1>2, <1>4, Constants DEF Times
<1>6. TypeOK' /\ HoldInv' /\ TxShape' /\ TxInv' /\ UNCHANGED <<now, store>>
  BY DEF BackfillFetch, SharedInv, SharedTypeOK, TypeOK, HoldInv, TxShape, TxInv, vars, store, Times
<1>7. runs' \in 0..Runs /\ BackfillHoldInv'
  BY SharedAssumption DEF SharedAssumption, BackfillHoldInv, BackfillFetch, SharedInv, SharedTypeOK
<1>8. SharedTypeOK'
  BY <1>4, <1>5, <1>6, <1>7 DEF BackfillFetch, SharedInv, SharedTypeOK, Times
<1> QED
  BY <1>6, <1>7, <1>8, StoreStays DEF SharedInv

LEMMA BackfillGuardInv == SharedInv /\ BackfillGuard => SharedInv'
<1> SUFFICES ASSUME SharedInv, BackfillGuard PROVE SharedInv'
  OBVIOUS
<1> DEFINE sane == Rows(history, {t \in DOMAIN history : IsPlausible(history[t].close)})
<1>1. DOMAIN sane \subseteq Times /\ sane \in [DOMAIN sane -> Bar]
  BY RowsType DEF SharedInv, SharedTypeOK
<1>2. BackfillRows = Rows(sane, {t \in DOMAIN sane : t + 1 <= now})
  BY DEF BackfillRows, ClosedRows
<1>3. DOMAIN BackfillRows \subseteq Times /\ BackfillRows \in [DOMAIN BackfillRows -> Bar]
  <2> HIDE DEF sane
  <2> QED
    BY <1>1, <1>2, RowsType
<1>4. \A t \in DOMAIN BackfillRows : t < now
  <2> HIDE DEF sane
  <2>0. DOMAIN BackfillRows = DOMAIN sane \cap {t \in DOMAIN sane : t + 1 <= now}
    BY <1>2, RowsDomain
  <2>1. \A t \in DOMAIN BackfillRows : t \in Times /\ t + 1 <= now
    BY <1>1, <2>0
  <2>2. now \in Nat
    BY Constants DEF SharedInv, SharedTypeOK, TypeOK, Times
  <2> QED
    BY <2>1, <2>2 DEF Times
<1>5. DOMAIN BackfillRows # {}
  BY DEF BackfillGuard, Insertable
<1> HIDE DEF sane
<1>6. history' = BackfillRows /\ bpc' = "commit" /\ UNCHANGED <<vars, runs, tx>>
  BY DEF BackfillGuard
<1>7. BackfillHoldInv'
  <2>1. now' = now
    BY <1>6 DEF vars
  <2> QED
    BY <1>4, <1>5, <1>6, <2>1 DEF BackfillHoldInv, ClosedBy
<1>8. TypeOK' /\ HoldInv' /\ TxShape' /\ TxInv' /\ UNCHANGED <<now, store>>
  BY <1>6 DEF SharedInv, SharedTypeOK, TypeOK, HoldInv, TxShape, TxInv, vars, store, Times
<1>9. SharedTypeOK'
  BY <1>3, <1>6, <1>8 DEF SharedInv, SharedTypeOK, Times
<1> QED
  BY <1>7, <1>8, <1>9, StoreStays DEF SharedInv

LEMMA BackfillUpsertInv == SharedInv /\ BackfillUpsert => SharedInv'
<1> SUFFICES ASSUME SharedInv, BackfillUpsert PROVE SharedInv'
  OBVIOUS
<1>1. DOMAIN history # {} /\ \A t \in DOMAIN history : t < now
  BY DEF BackfillUpsert, SharedInv, BackfillHoldInv, ClosedBy
<1>2. DOMAIN history \subseteq Times /\ history \in [DOMAIN history -> Bar]
  BY DEF SharedInv, SharedTypeOK
<1>3. TxUpsert("backfill", history) /\ UNCHANGED <<vars, history, runs>> /\ bpc' = "tx"
  BY DEF BackfillUpsert
<1> QED
  BY <1>1, <1>2, <1>3, TxUpsertInv DEF Writers

LEMMA WriterUpsertInv == SharedInv /\ WriterUpsert => SharedInv'
<1> SUFFICES ASSUME SharedInv, WriterUpsert PROVE SharedInv'
  OBVIOUS
<1>1. /\ DOMAIN batch # {} /\ \A t \in DOMAIN batch : t < now
      /\ DOMAIN batch \subseteq Times /\ batch \in [DOMAIN batch -> Bar]
  BY DEF WriterUpsert, SharedInv, SharedTypeOK, TypeOK, HoldInv, ClosedBy
<1>2. "writer" \in Writers /\ bpc' = bpc /\ UNCHANGED <<history, runs>>
  BY DEF Writers, WriterUpsert, backfill
<1> QED
  BY <1>1, <1>2, TxUpsertInv DEF WriterUpsert

LEMMA SharedNextInv == SharedInv /\ [SharedNext]_sharedVars => SharedInv'
<1> SUFFICES ASSUME SharedInv, [SharedNext]_sharedVars PROVE SharedInv'
  OBVIOUS
<1> USE DEF Writers
<1>1. CASE WriterCount \/ BackfillCount
  BY <1>1, TxCountInv DEF WriterCount, BackfillCount
<1>2. CASE WriterCommit
  BY <1>2, TxCommitInv DEF WriterCommit
<1>3. CASE BackfillCommit
  BY <1>3, TxCommitInv DEF BackfillCommit
<1>4. CASE WriterCrash
  BY <1>4, RollbackInv DEF WriterCrash, Crash
<1>5. CASE BackfillStops
  BY <1>5, RollbackInv DEF BackfillStops, vars, env, store, local
<1>6. CASE UNCHANGED sharedVars
  BY <1>6 DEF SharedInv, SharedTypeOK, TypeOK, HoldInv, BackfillHoldInv, TxShape, TxInv,
     OnlyClosedBars, MetaNeverOverstates, sharedVars, backfill, vars, Times
<1> QED
  BY <1>1, <1>2, <1>3, <1>4, <1>5, <1>6, WriterAloneInv, WriterUpsertInv,
     BackfillFetchInv, BackfillGuardInv, BackfillUpsertInv
  DEF SharedNext

\* Both writers hold closed bars only and count rows that are there, in every
\* reachable state of the two processes and their transactions.
THEOREM SharedInvariance == SharedSpec => []SharedInv
  BY SharedInitInv, SharedNextInv, PTL DEF SharedSpec

-----------------------------------------------------------------------------
(* The theorems *)

\* The state of both processes and their transactions always has its type.
THEOREM SharedTypeCorrect == SharedSpec => []SharedTypeOK
<1>1. SharedInv => SharedTypeOK
  BY DEF SharedInv
<1> QED
  BY <1>1, SharedInvariance, PTL

\* No forming bar is stored by either writer, although each of them fetches
\* it and reads the clock again before it filters.
THEOREM SharedClosedOnly == SharedSpec => []OnlyClosedBars
<1>1. SharedInv => OnlyClosedBars
  BY DEF SharedInv
<1> QED
  BY <1>1, SharedInvariance, PTL

\* cache_meta names a stored bar and never counts more bars than are stored,
\* however the two transactions overlap.
THEOREM MetaSound == SharedSpec => []MetaNeverOverstates
<1>1. SharedInv => MetaNeverOverstates
  BY DEF SharedInv
<1> QED
  BY <1>1, SharedInvariance, PTL

\* Only the commit of a transaction changes the tables.
LEMMA SharedStoreChanges ==
    [SharedNext]_sharedVars => (\E p \in Writers : TxCommit(p)) \/ UNCHANGED store
<1>1. WriterAlone => UNCHANGED store
  BY DEF WriterAlone, Tick, Trade, Begin, ReadMeta, Fetch, Refetch, Fetched,
     FetchFails, OverlapMismatch, OverlapMatch, Guard, store
<1>2. (WriterCommit \/ BackfillCommit) => \E p \in Writers : TxCommit(p)
  BY DEF Writers, WriterCommit, BackfillCommit
<1>3. (\/ WriterUpsert \/ WriterCount \/ WriterCrash \/ BackfillFetch \/ BackfillGuard \/ BackfillUpsert
       \/ BackfillCount \/ BackfillStops \/ UNCHANGED sharedVars) => UNCHANGED store
  BY DEF WriterUpsert, WriterCount, WriterCrash, Crash, BackfillFetch, BackfillGuard, BackfillUpsert,
     BackfillCount, BackfillStops, sharedVars, vars, store
<1> QED
  BY <1>1, <1>2, <1>3 DEF SharedNext

\* Writer and backfill together are the bar store that the readers rely on:
\* every step is one transaction on the series, or changes nothing of it.
THEOREM SharedRefinement == SharedSpec => ImplementsSeries
<1> DEFINE rowsMap == [k \in {"series"} |-> DOMAIN bars]
           metaMap == [k \in {"series"} |-> meta]
<1>1. SharedInit => Store!SeriesInit
  BY EmptyTableType DEF SharedInit, Init, Store!SeriesInit
<1>2. SharedInv /\ [SharedNext]_sharedVars => [Store!SeriesNext]_<<rowsMap, metaMap>>
  <2> SUFFICES ASSUME SharedInv, [SharedNext]_sharedVars
               PROVE  [Store!SeriesNext]_<<rowsMap, metaMap>>
    OBVIOUS
  <2>1. CASE UNCHANGED store
    BY <2>1 DEF store
  <2>2. ASSUME NEW p \in Writers, TxCommit(p) PROVE Store!SeriesNext
    <3> DEFINE S == DOMAIN tx[p].rows
    <3>1. /\ S # {} /\ S \subseteq Times
          /\ DOMAIN bars' = DOMAIN bars \cup S
          /\ meta' = [last |-> Max(S), count |-> tx[p].count]
          /\ tx[p].count \in Nat
          /\ Cardinality(S) <= tx[p].count
          /\ tx[p].count <= Cardinality(DOMAIN bars')
      BY <2>2, TxPublishes
    <3>2. Cardinality(S) \in Nat /\ Cardinality(DOMAIN bars \cup S) \in Nat
      BY <3>1, CountType DEF SharedInv, SharedTypeOK, TypeOK
    <3>3. tx[p].count \in Cardinality(S)..Cardinality(DOMAIN bars \cup S)
      BY <3>1, <3>2
    <3>4. rowsMap' = [rowsMap EXCEPT !["series"] = @ \cup S]
      BY <3>1
    <3>5. metaMap' = [metaMap EXCEPT !["series"] = [last |-> Max(S), count |-> tx[p].count]]
      BY <3>1
    <3>6. rowsMap["series"] = DOMAIN bars
      OBVIOUS
    <3>7. Store!Publish("series", S)
      <4> HIDE DEF S
      <4>1. Store!Cardinality(S) = Cardinality(S)
        BY Zenon DEF Store!Cardinality, Cardinality
      <4>2. Store!Cardinality(DOMAIN bars \cup S) = Cardinality(DOMAIN bars \cup S)
        BY Zenon DEF Store!Cardinality, Cardinality
      <4>3. Store!Max(S) = Max(S)
        BY DEF Store!Max, Max
      <4>4. tx[p].count \in Store!Cardinality(S)..Store!Cardinality(rowsMap["series"] \cup S)
        BY <4>1, <4>2, <3>3, <3>6
      <4>5. metaMap' = [metaMap EXCEPT !["series"] =
                           [last |-> Store!Max(S), count |-> tx[p].count]]
        BY <4>3, <3>5
      <4> QED
        BY <3>4, <4>4, <4>5 DEF Store!Publish
    <3> QED
      BY <3>1, <3>7 DEF Store!SeriesNext
  <2> QED
    BY <2>1, <2>2, SharedStoreChanges
<1> QED
  BY <1>1, <1>2, SharedInvariance, PTL DEF SharedSpec, ImplementsSeries, Store!SeriesSpec
=============================================================================
