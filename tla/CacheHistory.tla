----------------------------- MODULE CacheHistory -----------------------------
(***************************************************************************)
(* CacheWriter with one bit of history: whether overlap validation ever    *)
(* had nothing to compare.  It tells which closes of the cache are final.  *)
(***************************************************************************)
EXTENDS CacheWriter

\* Some fetch came back without the newest cached bar, because a bar boundary
\* passed during it or the feed was out for longer than Count bars; overlap
\* validation then counts as passed (cache.py:304-307).
VARIABLE missed

\* A cached close of 0 counts as "nothing cached"; no plausible price is 0.
ASSUME PriceAssumption == \A c \in Closes : IsPlausible(c) => c # 0

Track ==
    missed' = (missed \/ /\ pc \in {"fetch", "refetch"} /\ pc' \in {"check", "insert"}
                         /\ seen # NoRow /\ seen.last \notin DOMAIN batch')

historyVars == <<vars, missed>>

HistoryInit == Init /\ missed = FALSE

HistorySpec == HistoryInit /\ [][Next /\ Track]_historyVars

FairHistorySpec == HistorySpec /\ Fairness

-----------------------------------------------------------------------------
(* Properties *)

\* Unless a fetch missed the overlap bar, every row older than the newest has
\* the close its bar closed with, although snapshots of forming bars do slip
\* in: it is what overlap validation and the refetch are for.
OldClosesUnlessMissed == ~ missed => OldClosesAreFinal

-----------------------------------------------------------------------------
(* The inductive invariant behind the theorem of CacheHistoryProofs *)

\* Every close was traded and passed the plausibility check of the fetcher.
Traded(c) == c \in Closes /\ IsPlausible(c)
TradedInv ==
    /\ \A t \in DOMAIN bars : Traded(bars[t].close)
    /\ \A t \in DOMAIN batch : Traded(batch[t].close)

\* Only the newest row of a data frame can be a snapshot.
BatchInv ==
    pc \in Holding =>
        \A t, u \in DOMAIN batch : t < u => batch[t].close = market[t]

\* The newest cached bar is compared before it is left behind: the batch that
\* is about to be inserted replaces it, or it has the close it closed with.
OverlapInv ==
    ~ missed =>
        /\ OldClosesAreFinal
        /\ pc = "check" => meta.last \in DOMAIN batch
        /\ pc \in {"insert", "commit"} /\ meta # NoRow =>
             \/ meta.last \in DOMAIN batch
             \/ bars[meta.last].close = market[meta.last]

HistoryInv == missed \in BOOLEAN /\ TradedInv /\ BatchInv /\ OverlapInv
=============================================================================
