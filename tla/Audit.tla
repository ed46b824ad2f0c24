-------------------------------- MODULE Audit --------------------------------
(***************************************************************************)
(* The two statements of data_svc/db/audit.py as operators on the bars of  *)
(* one (symbol, timeframe): a set of rows <<provider, ts>>.  Neither       *)
(* statement groups by provider.                                           *)
(***************************************************************************)
EXTENDS Integers, FiniteSets, FiniteSetsExt

TimesOf(table) == {row[2] : row \in table}

\* Mutant: the closed interval is counted without its last bar.
ExpectedExclusive(table, secs) ==
    (Max(TimesOf(table)) - Min(TimesOf(table))) \div secs

\* sql_combos: rows that would be there if none were missing.
Expected(table, secs) ==
    (Max(TimesOf(table)) - Min(TimesOf(table))) \div secs + 1

\* sql_off_grid: the grid is anchored at the oldest row, whichever that is.
OffGrid(table, secs) ==
    {row \in table : (row[2] - Min(TimesOf(table))) % secs # 0}

\* What the report says of the combo: nothing when it is "healthy".
GapProblems(table, secs) ==
    IF table = {} THEN {}
    ELSE (IF Expected(table, secs) > Cardinality(table) THEN {"gaps"} ELSE {})
         \cup (IF Expected(table, secs) < Cardinality(table) THEN {"extras"} ELSE {})

OffGridProblems(table, secs) ==
    IF table = {} \/ OffGrid(table, secs) = {} THEN {} ELSE {"off_grid"}

\* Reference: an unbroken run of bars.
Contiguous(T, secs) ==
    T = {} \/ T = {t \in Min(T)..Max(T) : (t - Min(T)) % secs = 0}
=============================================================================
