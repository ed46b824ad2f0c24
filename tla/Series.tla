-------------------------------- MODULE Series --------------------------------
(***************************************************************************)
(* What the bar store promises its readers (bar-grpc, the REST gateway, the *)
(* audit), whoever writes it: series only grow, rows and cache_meta change  *)
(* together, and cache_meta names a stored bar and never counts too many.   *)
(* SharedCache implements it for one series; Serving reads it.              *)
(***************************************************************************)
EXTENDS Integers, FiniteSets, FiniteSetsExt

CONSTANTS
    Keys,     \* series: symbol, timeframe, provider
    Slots,    \* bar-open times
    NoMeta    \* no cache_meta row

VARIABLES
    rows,     \* rows[k]: times of the bars stored for k
    cached    \* cached[k]: its cache_meta row, or NoMeta

SeriesInit ==
    /\ rows = [k \in Keys |-> {}]
    /\ cached = [k \in Keys |-> NoMeta]

\* A transaction upserts the bars S.  Its COUNT(*) saw its own rows, and not
\* necessarily those of a transaction that commits before it does.
Publish(k, S) ==
    /\ rows' = [rows EXCEPT ![k] = @ \cup S]
    /\ \E n \in Cardinality(S)..Cardinality(rows[k] \cup S) :
         cached' = [cached EXCEPT ![k] = [last |-> Max(S), count |-> n]]

SeriesNext == \E k \in Keys : \E S \in (SUBSET Slots) \ {{}} : Publish(k, S)

SeriesSpec == SeriesInit /\ [][SeriesNext]_<<rows, cached>>
=============================================================================
