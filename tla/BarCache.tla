------------------------------ MODULE BarCache ------------------------------
(***************************************************************************)
(* The operators of data_svc/db/cache.py that every process writing a      *)
(* series (one symbol, timeframe, provider) goes through: the closed-bar   *)
(* filter, the three leak guards, the upsert and the cache_meta row.       *)
(*                                                                         *)
(* A table or data frame is a function from bar-open times to rows.  A row *)
(* keeps the close, the only column the code ever compares, and the flag   *)
(* final, which stands for the columns it never compares (open, high, low, *)
(* volume): TRUE when the row was taken after the bar had closed, FALSE    *)
(* when it is a snapshot of a bar that was still forming.  Closes are      *)
(* price classes: two closes within OVERLAP_TOLERANCE are equal.           *)
(***************************************************************************)
EXTENDS Integers, FiniteSets, FiniteSetsExt

CONSTANTS
    BandLo,   \* plausibility band of the symbol; 0 and a huge BandHi
    BandHi,   \* stand for a symbol without an entry in PLAUSIBLE_RANGES
    NoRow     \* "no such row" (None)

Bar == [close: Nat, final: BOOLEAN]

MetaRow == [last: Nat, count: Nat]

ASSUME NoRowAssumption == NoRow \notin MetaRow
ASSUME BandAssumption == BandLo \in Nat /\ BandHi \in Nat

EmptyTable == [t \in {} |-> [close |-> 0, final |-> FALSE]]

\* The rows of a table whose time is in S.
Rows(table, S) == [t \in (DOMAIN table) \cap S |-> table[t]]

Newest(table) == Max(DOMAIN table)

\* Mutant: the lower end of the band is forgotten.
IsPlausibleHighOnly(close) == close <= BandHi

IsPlausible(close) == BandLo <= close /\ close <= BandHi

\* Mutant: a bar counts as closed as soon as it opens.
ClosedRowsEarly(table, secs, clock) == Rows(table, {t \in DOMAIN table : t <= clock})

\* closed_df: a bar is stored only once its whole period is in the past.
ClosedRows(table, secs, clock) ==
    Rows(table, {t \in DOMAIN table : t + secs <= clock})

\* Layer 3: a bar must open on the grid of its timeframe (weekly bars are
\* offset by four days from the epoch).
TsAligned(t, secs, offset) == (t - offset) % secs = 0

\* Mutant: only a fall counts as drift.
DriftedDownOnly(fresh, last) == last > 0 /\ 2 * (last - fresh) > last

\* Layer 2: more than INSERT_DRIFT_REJECT (50%) away from the newest close.
Drifted(fresh, last) ==
    last > 0 /\ (2 * (fresh - last) > last \/ 2 * (last - fresh) > last)

\* The guards of _insert_bars on the closed rows of a batch: one offending
\* row rejects them all.
Insertable(rows, stored, secs, offset) ==
    /\ DOMAIN rows # {}
    /\ \A t \in DOMAIN rows : IsPlausible(rows[t].close)
    /\ DOMAIN stored # {} =>
         ~ Drifted(rows[Newest(rows)].close, stored[Newest(stored)].close)
    /\ \A t \in DOMAIN rows : TsAligned(t, secs, offset)

\* Mutant: ON CONFLICT DO NOTHING.
UpsertKeepsOld(stored, rows) ==
    [t \in (DOMAIN stored) \cup (DOMAIN rows) |->
        IF t \in DOMAIN stored THEN stored[t] ELSE rows[t]]

\* INSERT ... ON CONFLICT DO UPDATE: the new row replaces an old one.
Upsert(stored, rows) ==
    [t \in (DOMAIN stored) \cup (DOMAIN rows) |->
        IF t \in DOMAIN rows THEN rows[t] ELSE stored[t]]

\* Mutants: bar_count of the batch alone; last_bar_ts of its oldest row.
MetaAfterBatchOnly(rows, visible) ==
    [last |-> Newest(rows), count |-> Cardinality(DOMAIN rows)]
MetaAfterOldest(rows, visible) ==
    [last |-> Min(DOMAIN rows), count |-> Cardinality(DOMAIN visible)]

\* The cache_meta row written beside it: last_bar_ts is the newest time of
\* the batch, bar_count a COUNT(*) of the visible rows.
MetaAfter(rows, visible) ==
    [last |-> Newest(rows), count |-> Cardinality(DOMAIN visible)]

\* Mutant: the overlap bar is not compared.
OverlapValidAlways(lastTs, fresh, stored) == TRUE

\* _validate_overlap: no overlap bar in the fresh bars, no cached row or a
\* cached close of zero all count as valid.
OverlapValid(lastTs, fresh, stored) ==
    (lastTs \in DOMAIN fresh /\ lastTs \in DOMAIN stored)
        => stored[lastTs].close \in {0, fresh[lastTs].close}
=============================================================================
