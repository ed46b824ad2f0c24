------------------------------ MODULE Inventory ------------------------------
(***************************************************************************)
(* What the catalog tables promise the read API, whatever the CreateAsset  *)
(* transactions, the loader and the writer go through: an asset appears    *)
(* once and together with its feeds, a feed is promoted only when it has   *)
(* bars, and a disabled feed is never enabled.  Catalog implements it;     *)
(* Serving reads it.                                                       *)
(***************************************************************************)
EXTENDS Sequences

CONSTANTS
    Requests,  \* CreateAsset requests: [symbol, storage, timeframes]
    Yamls,     \* contents of assets.yaml over time: symbol -> storage symbol
    EnvFeeds   \* FEEDS of data-svc: a set of <<storage, timeframe>>

VARIABLES
    assets,    \* symbol -> storage symbol
    feeds,     \* <<storage, timeframe>> -> status
    stored     \* feeds that have bars

KeysOf(r) == {<<r.storage, r.timeframes[i]>> : i \in DOMAIN r.timeframes}

InventoryInit == assets \in Yamls /\ feeds = [k \in {} |-> "pending"] /\ stored = {}

\* The feeds of K that are missing are added, active if they are in A.
WithFeeds(K, A) ==
    [k \in DOMAIN feeds \cup K |->
        IF k \in DOMAIN feeds THEN feeds[k] ELSE IF k \in A THEN "active" ELSE "pending"]

Onboard(r) ==
    /\ r.symbol \notin DOMAIN assets
    /\ assets' = [s \in DOMAIN assets \cup {r.symbol} |->
                    IF s = r.symbol THEN r.storage ELSE assets[s]]
    /\ feeds' = WithFeeds(KeysOf(r), {})
    /\ UNCHANGED stored

Reload(y) ==
    /\ assets' = [s \in DOMAIN assets \cup DOMAIN y |->
                    IF s \in DOMAIN y THEN y[s] ELSE assets[s]]
    /\ UNCHANGED <<feeds, stored>>

SeedFeeds ==
    /\ feeds' = WithFeeds(EnvFeeds, stored)
    /\ UNCHANGED <<assets, stored>>

Fill(k) == stored' = stored \cup {k} /\ UNCHANGED <<assets, feeds>>

Promote(k) ==
    /\ k \in stored /\ feeds[k] = "pending"
    /\ feeds' = [feeds EXCEPT ![k] = "active"]
    /\ UNCHANGED <<assets, stored>>

Disabled(k) ==
    /\ feeds' = [feeds EXCEPT ![k] = "inactive"]
    /\ UNCHANGED <<assets, stored>>

InventoryNext ==
    \/ \E r \in Requests : Onboard(r)
    \/ \E y \in Yamls : Reload(y)
    \/ SeedFeeds
    \/ \E k \in EnvFeeds \cup UNION {KeysOf(r) : r \in Requests} : Fill(k)
    \/ \E k \in DOMAIN feeds : Promote(k) \/ Disabled(k)

InventorySpec == InventoryInit /\ [][InventoryNext]_<<assets, feeds, stored>>
=============================================================================
