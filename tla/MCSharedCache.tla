---------------------------- MODULE MCSharedCache ----------------------------
(***************************************************************************)
(* A small instance of SharedCache; price classes as in MCCacheWriter.  The *)
(* price moves at most once, which is enough for a snapshot with an old     *)
(* close to slip in and to be refetched while the backfill writes.          *)
(***************************************************************************)
EXTENDS SharedCache

CalmCloses == {10, 11}

OneMove == market' # market /\ now' = now => market[now] = 10

MCSharedSpec == SharedInit /\ [][SharedNext /\ OneMove]_sharedVars /\ SharedFairness
=============================================================================
