----------------------------- MODULE SharedCache -----------------------------
(***************************************************************************)
(* The series of CacheWriter while an operator runs the one-shot backfill  *)
(* (data_svc/backfill.py) beside the writer.  Both write through           *)
(* BarCache._insert_bars, each in its own Postgres transaction under READ  *)
(* COMMITTED, so the transaction of CacheWriter!Commit is taken apart into *)
(* its statements here.                                                    *)
(***************************************************************************)
EXTENDS CacheWriter

CONSTANTS
    Total,      \* --bars of the backfill command
    Runs        \* bound: times the operator runs it

ASSUME SharedAssumption == Total \in Nat \ {0} /\ Runs \in Nat

VARIABLES
    bpc,        \* where the backfill process is
    history,    \* the data frame it holds
    runs,       \* backfills started
    tx          \* tx[p]: the open transaction of p

backfill == <<bpc, history, runs>>
sharedVars == <<vars, backfill, tx>>

Writers == {"writer", "backfill"}

\* The rows a transaction has upserted but not committed, and the COUNT(*)
\* its second statement took.
NoTx == [step |-> "none", rows |-> EmptyTable, count |-> 0]

Other(p) == IF p = "writer" THEN "backfill" ELSE "writer"

SharedInit ==
    /\ Init
    /\ bpc = "off" /\ history = EmptyTable /\ runs = 0
    /\ tx = [p \in Writers |-> NoTx]

-----------------------------------------------------------------------------
(* Transactions of _insert_bars *)

\* The upserts; a row the other transaction has upserted is locked until it
\* commits.  Both go through their rows oldest first, so they never deadlock.
TxUpsert(p, rows) ==
    /\ tx[p].step = "none"
    /\ DOMAIN rows \cap DOMAIN tx[Other(p)].rows = {}
    /\ tx' = [tx EXCEPT ![p] = [step |-> "rows", rows |-> rows, count |-> 0]]

\* Mutant: rows that replace stored ones are counted twice.
TxCountTwice(p) ==
    /\ tx[p].step = "rows"
    /\ tx' = [tx EXCEPT ![p].step = "counted",
                        ![p].count = Cardinality(DOMAIN bars) + Cardinality(DOMAIN tx[p].rows)]

\* The cache_meta statement takes its snapshot: own rows and committed rows.
TxCount(p) ==
    /\ tx[p].step = "rows"
    /\ tx' = [tx EXCEPT ![p].step = "counted",
                        ![p].count = Cardinality(DOMAIN bars \cup DOMAIN tx[p].rows)]

\* Mutant: the transaction replaces the series by its own rows.
TxCommitReplaces(p) ==
    /\ tx[p].step = "counted"
    /\ bars' = tx[p].rows
    /\ meta' = [last |-> Newest(tx[p].rows), count |-> tx[p].count]
    /\ tx' = [tx EXCEPT ![p] = NoTx]

\* It gets the row lock of cache_meta (the other transaction does not hold
\* it, or has committed) and the transaction commits.
TxCommit(p) ==
    /\ tx[p].step = "counted"
    /\ bars' = Upsert(bars, tx[p].rows)
    /\ meta' = [last |-> Newest(tx[p].rows), count |-> tx[p].count]
    /\ tx' = [tx EXCEPT ![p] = NoTx]

WriterUpsert ==
    /\ pc = "commit" /\ TxUpsert("writer", batch)
    /\ UNCHANGED <<vars, backfill>>

WriterCount == TxCount("writer") /\ UNCHANGED <<vars, backfill>>

WriterCommit == TxCommit("writer") /\ EndCycle /\ UNCHANGED <<env, backfill>>

\* A crash rolls the open transaction back.
WriterCrash ==
    /\ Crash
    /\ tx' = [tx EXCEPT !["writer"] = NoTx]
    /\ UNCHANGED backfill

-----------------------------------------------------------------------------
(* The backfill process *)

\* fetch_history: the newest page comes first and holds the forming bar; the
\* older pages that follow are history.  All closes are of the same market.
BackfillFetch ==
    /\ bpc = "off" /\ runs < Runs
    /\ history' = [t \in Larger(0, now - Total + 1)..now |->
                      [close |-> market[t], final |-> t < now]]
    /\ bpc' = "write" /\ runs' = runs + 1
    /\ UNCHANGED <<vars, tx>>

\* Mutant: the forming bar of the newest page is written too.
BackfillRowsForming == Rows(history, {t \in DOMAIN history : IsPlausible(history[t].close)})

\* write_bars drops implausible bars, then _insert_bars reads the clock and
\* applies its guards.
BackfillRows ==
    ClosedRows(Rows(history, {t \in DOMAIN history : IsPlausible(history[t].close)}),
               1, now)

BackfillGuard ==
    /\ bpc = "write"
    /\ Insertable(BackfillRows, bars, 1, 0)
    /\ history' = BackfillRows
    /\ bpc' = "commit"
    /\ UNCHANGED <<vars, runs, tx>>

\* The statements come later; nothing is checked again.
BackfillUpsert ==
    /\ bpc = "commit" /\ TxUpsert("backfill", history)
    /\ bpc' = "tx"
    /\ UNCHANGED <<vars, history, runs>>

BackfillCount == TxCount("backfill") /\ UNCHANGED <<vars, backfill>>

BackfillEnd == bpc' = "off" /\ history' = EmptyTable /\ UNCHANGED runs

BackfillCommit ==
    /\ TxCommit("backfill") /\ BackfillEnd
    /\ UNCHANGED <<env, pc, local, lag>>

\* A page failed, the guards rejected the rows, or the process was killed.
BackfillStops ==
    /\ bpc # "off" /\ BackfillEnd
    /\ tx' = [tx EXCEPT !["backfill"] = NoTx]
    /\ UNCHANGED vars

-----------------------------------------------------------------------------
\* Every step of CacheWriter but its atomic Commit and its Crash.
WriterAlone ==
    \/ Tick \/ Trade \/ FetchFails
    \/ Begin \/ ReadMeta \/ Fetch \/ Refetch \/ OverlapMismatch \/ OverlapMatch \/ Guard

SharedNext ==
    \/ WriterAlone /\ UNCHANGED <<backfill, tx>>
    \/ WriterUpsert \/ WriterCount \/ WriterCommit \/ WriterCrash
    \/ BackfillFetch \/ BackfillGuard \/ BackfillUpsert
    \/ BackfillCount \/ BackfillCommit \/ BackfillStops

SharedSpec == SharedInit /\ [][SharedNext]_sharedVars

Shared(A) == A /\ UNCHANGED <<backfill, tx>>

\* As in CacheWriter; a started backfill ends, one way or another, because
\* every request it makes has a timeout.
SharedFairness ==
    /\ WF_sharedVars(Shared(Tick)) /\ WF_sharedVars(Shared(Begin))
    /\ SF_sharedVars(Shared(ReadMeta)) /\ SF_sharedVars(Shared(Fetch))
    /\ SF_sharedVars(Shared(Refetch)) /\ SF_sharedVars(Shared(OverlapMismatch))
    /\ SF_sharedVars(Shared(OverlapMatch)) /\ SF_sharedVars(Shared(Guard))
    /\ SF_sharedVars(WriterUpsert) /\ SF_sharedVars(WriterCount)
    /\ SF_sharedVars(WriterCommit)
    /\ WF_sharedVars(\/ BackfillGuard \/ BackfillUpsert
                     \/ BackfillCount \/ BackfillCommit \/ BackfillStops)

SharedFairSpec == SharedSpec /\ SharedFairness

-----------------------------------------------------------------------------
(* Properties *)

SharedTypeOK ==
    /\ TypeOK
    /\ bpc \in {"off", "write", "commit", "tx"} /\ runs \in 0..Runs
    /\ DOMAIN history \subseteq Times /\ history \in [DOMAIN history -> Bar]
    /\ \A p \in Writers :
        /\ tx[p].step \in {"none", "rows", "counted"} /\ tx[p].count \in Nat
        /\ DOMAIN tx[p].rows \subseteq Times /\ tx[p].rows \in [DOMAIN tx[p].rows -> Bar]

\* Whatever the two writers do, cache_meta names a bar that is stored and
\* never promises more bars than there are: HealthCheck cannot call a series
\* ready too early.
MetaNeverOverstates ==
    meta # NoRow => /\ meta.last \in DOMAIN bars
                    /\ meta.count <= Cardinality(DOMAIN bars)

\* The two writers implement the store its readers rely on: no interleaving
\* of their transactions loses a row of either, tears rows and cache_meta
\* apart, or publishes a cache_meta row that is not of the rows it came with.
Store == INSTANCE Series WITH
    Keys <- {"series"},
    Slots <- Times,
    NoMeta <- NoRow,
    rows <- [k \in {"series"} |-> DOMAIN bars],
    cached <- [k \in {"series"} |-> meta]

ImplementsSeries == Store!SeriesSpec

\* A backfill that commits behind the writer can move last_bar_ts back, but
\* the writer always brings it to the newest bar again (cache.py:8).
LastIsNewest == meta # NoRow => \A t \in DOMAIN bars : t <= meta.last
LastRecovers == <>[](LastIsNewest \/ StuckOnDrift)

-----------------------------------------------------------------------------
(* The inductive invariant behind the theorems of SharedCacheProofs *)

TxShape ==
    /\ DOMAIN tx = Writers
    /\ \A p \in Writers : DOMAIN tx[p] = {"step", "rows", "count"}

\* Rows that have passed the guards had closed, and keep it as time goes on.
ClosedBy(rows, time) == DOMAIN rows # {} /\ \A t \in DOMAIN rows : t < time
HoldInv == pc = "commit" => ClosedBy(batch, now)
BackfillHoldInv == bpc = "commit" => ClosedBy(history, now)

\* An open transaction holds closed bars.  Its count is not below its own
\* rows, nor above what there will be when it commits: rows committed by the
\* other writer after the count only add to it.
TxInv ==
    \A p \in Writers :
        /\ tx[p].step # "none" =>
             DOMAIN tx[p].rows # {} /\ \A t \in DOMAIN tx[p].rows : t < now
        /\ tx[p].step = "counted" =>
             /\ Cardinality(DOMAIN tx[p].rows) <= tx[p].count
             /\ tx[p].count <= Cardinality(DOMAIN bars \cup DOMAIN tx[p].rows)

SharedInv ==
    /\ SharedTypeOK /\ TxShape /\ HoldInv /\ BackfillHoldInv /\ TxInv
    /\ OnlyClosedBars /\ MetaNeverOverstates
=============================================================================
