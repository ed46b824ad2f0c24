------------------------------- MODULE Catalog -------------------------------
(***************************************************************************)
(* Onboarding: the assets and feeds tables between the CreateAsset handlers*)
(* of bar-grpc (a pool of threads), the assets.yaml loader that runs when  *)
(* bar-grpc starts, the data-svc writer that seeds, polls and promotes the *)
(* feeds, and the operator.                                                *)
(*                                                                         *)
(* CreateAsset is one Postgres transaction under READ COMMITTED.  Its      *)
(* statements are separate steps: a row another transaction has inserted   *)
(* is invisible until that transaction commits, and inserting the same key *)
(* waits for it.                                                           *)
(***************************************************************************)
EXTENDS Naturals, Sequences, FiniteSets

CONSTANTS
    Handlers,     \* threads of the gRPC server
    Requests,     \* valid CreateAsset requests: [symbol, storage, timeframes]
    Yamls,        \* contents of assets.yaml over time: symbol -> storage symbol
    EnvFeeds,     \* FEEDS of data-svc: a set of <<storage, timeframe>>
    KnownFrames,  \* timeframes of _TF_SECONDS
    DbFails,      \* whether Postgres may fail a transaction
    NoRequest

ASSUME CatalogAssumption ==
    /\ DbFails \in BOOLEAN /\ NoRequest \notin Requests
    /\ \A r \in Requests : r.timeframes \in Seq(STRING) /\ r.timeframes # <<>>

VARIABLES
    assets,    \* assets table: committed symbol -> storage symbol
    feeds,     \* feeds table: committed <<storage, timeframe>> -> status
    stored,    \* feeds that have bars (and a cache_meta row)
    req,       \* req[h]: the request handler h works on
    hpc,       \* hpc[h]: the statement it is at
    todo,      \* todo[h]: timeframes it still has to insert
    own,       \* own[h]: feed rows it has inserted but not committed
    answer,    \* answer[h]: its last answer
    created,   \* requests ever answered "created"
    wpc,       \* where the writer is
    targets,   \* rest of the polling targets it read: [key, status]
    marking    \* the feed it is about to promote

tables == <<assets, feeds>>
handlers == <<req, hpc, todo, own, answer, created>>
writer == <<wpc, targets, marking>>
vars == <<assets, feeds, stored, handlers, writer>>

Key(r, tf) == <<r.storage, tf>>
KeysOf(r) == {Key(r, r.timeframes[i]) : i \in DOMAIN r.timeframes}
Keys == EnvFeeds \cup UNION {KeysOf(r) : r \in Requests}
Symbols == {r.symbol : r \in Requests} \cup UNION {DOMAIN y : y \in Yamls}
Polled == {k \in DOMAIN feeds : feeds[k] \in {"active", "pending"}}
NoKey == <<>>

Idle(h) ==
    /\ hpc' = [hpc EXCEPT ![h] = "idle"]
    /\ req' = [req EXCEPT ![h] = NoRequest]
    /\ todo' = [todo EXCEPT ![h] = <<>>]
    /\ own' = [own EXCEPT ![h] = {}]

Answer(h, a) == Idle(h) /\ answer' = [answer EXCEPT ![h] = a]

\* bar-grpc has loaded assets.yaml; data-svc is not up yet.
Init ==
    /\ assets \in Yamls /\ feeds = [k \in {} |-> "pending"] /\ stored = {}
    /\ req = [h \in Handlers |-> NoRequest] /\ hpc = [h \in Handlers |-> "idle"]
    /\ todo = [h \in Handlers |-> <<>>] /\ own = [h \in Handlers |-> {}]
    /\ answer = [h \in Handlers |-> "none"] /\ created = {}
    /\ wpc = "down" /\ targets = {} /\ marking = NoKey

-----------------------------------------------------------------------------
(* CreateAsset *)

\* A request that passed the validation of CreateAsset.
Receive(h) ==
    /\ hpc[h] = "idle"
    /\ \E r \in Requests :
        /\ req' = [req EXCEPT ![h] = r]
        /\ todo' = [todo EXCEPT ![h] = r.timeframes]
    /\ hpc' = [hpc EXCEPT ![h] = "select"]
    /\ answer' = [answer EXCEPT ![h] = "none"]
    /\ UNCHANGED <<tables, stored, own, created, writer>>

\* SELECT ... FOR UPDATE: a row that does not exist yet cannot be locked.
SelectAsset(h) ==
    /\ hpc[h] = "select"
    /\ hpc' = [hpc EXCEPT
         ![h] = IF req[h].symbol \in DOMAIN assets THEN "exists" ELSE "insert"]
    /\ UNCHANGED <<tables, stored, req, todo, own, answer, created, writer>>

\* The transaction of h holds the uncommitted assets row of symbol s.
HoldsSymbol(h, s) == hpc[h] = "feeds" /\ req[h].symbol = s

Others(h) == Handlers \ {h}

\* Mutant: INSERT ... ON CONFLICT DO UPDATE.
InsertAssetUpserts(h) ==
    /\ hpc[h] = "insert"
    /\ \A g \in Others(h) : ~ HoldsSymbol(g, req[h].symbol)
    /\ hpc' = [hpc EXCEPT ![h] = "feeds"]
    /\ UNCHANGED <<tables, stored, req, todo, own, answer, created, writer>>

\* INSERT INTO assets waits for a transaction that holds the same symbol; if
\* that commits, the insert violates the primary key and the handler answers
\* INTERNAL.
InsertAsset(h) ==
    /\ hpc[h] = "insert"
    /\ \A g \in Others(h) : ~ HoldsSymbol(g, req[h].symbol)
    /\ \/ /\ req[h].symbol \in DOMAIN assets
          /\ Answer(h, "internal")
       \/ /\ req[h].symbol \notin DOMAIN assets
          /\ hpc' = [hpc EXCEPT ![h] = "feeds"]
          /\ UNCHANGED <<req, todo, own, answer>>
    /\ UNCHANGED <<tables, stored, created, writer>>

\* Mutant: a feed row of an open transaction is taken for committed.
InsertFeedNoWait(h) ==
    /\ hpc[h] = "feeds" /\ todo[h] # <<>>
    /\ LET k == Key(req[h], Head(todo[h]))
       IN own' = [own EXCEPT ![h] =
                    IF k \in DOMAIN feeds \/ \E g \in Handlers : k \in own[g]
                    THEN @ ELSE @ \cup {k}]
    /\ todo' = [todo EXCEPT ![h] = Tail(@)]
    /\ UNCHANGED <<tables, stored, req, hpc, answer, created, writer>>

\* INSERT INTO feeds ... ON CONFLICT DO NOTHING, one statement per timeframe;
\* it waits for a transaction that holds the same feed.
InsertFeed(h) ==
    /\ hpc[h] = "feeds" /\ todo[h] # <<>>
    /\ LET k == Key(req[h], Head(todo[h]))
       IN /\ \A g \in Others(h) : k \notin own[g]
          /\ own' = [own EXCEPT ![h] = IF k \in DOMAIN feeds THEN @ ELSE @ \cup {k}]
    /\ todo' = [todo EXCEPT ![h] = Tail(@)]
    /\ UNCHANGED <<tables, stored, req, hpc, answer, created, writer>>

\* The transaction commits; the answer says "pending" without looking.
Commit(h) ==
    /\ hpc[h] = "feeds" /\ todo[h] = <<>>
    /\ assets' = [s \in DOMAIN assets \cup {req[h].symbol} |->
                    IF s = req[h].symbol THEN req[h].storage ELSE assets[s]]
    /\ feeds' = [k \in DOMAIN feeds \cup own[h] |->
                    IF k \in own[h] THEN "pending" ELSE feeds[k]]
    /\ created' = created \cup {req[h]}
    /\ Answer(h, "created")
    /\ UNCHANGED <<stored, writer>>

\* get_with_status: the existing row for the 409.
Reread(h) ==
    /\ hpc[h] = "exists"
    /\ Answer(h, IF req[h].symbol \in DOMAIN assets THEN "exists" ELSE "internal")
    /\ UNCHANGED <<tables, stored, created, writer>>

\* h waits for a row that g holds.
WaitsFor(h, g) ==
    \/ hpc[h] = "insert" /\ HoldsSymbol(g, req[h].symbol)
    \/ hpc[h] = "feeds" /\ todo[h] # <<>> /\ Key(req[h], Head(todo[h])) \in own[g]

\* Postgres breaks a deadlock by failing one of the two transactions.
DeadlockVictim(h) ==
    /\ \E g \in Others(h) : WaitsFor(h, g) /\ WaitsFor(g, h)
    /\ Answer(h, "internal")
    /\ UNCHANGED <<tables, stored, created, writer>>

TxFails(h) ==
    /\ DbFails
    /\ hpc[h] \in {"select", "insert", "feeds"}
    /\ Answer(h, "internal")
    /\ UNCHANGED <<tables, stored, created, writer>>

\* bar-grpc restarts: open transactions roll back, no request survives, and
\* the loader upserts assets.yaml, as it is now, before the port opens.
GrpcRestart ==
    /\ req' = [h \in Handlers |-> NoRequest] /\ hpc' = [h \in Handlers |-> "idle"]
    /\ todo' = [h \in Handlers |-> <<>>] /\ own' = [h \in Handlers |-> {}]
    /\ \E y \in Yamls :
        assets' = [s \in DOMAIN assets \cup DOMAIN y |->
                     IF s \in DOMAIN y THEN y[s] ELSE assets[s]]
    /\ answer' = [h \in Handlers |-> "none"]
    /\ UNCHANGED <<feeds, stored, created, writer>>

-----------------------------------------------------------------------------
(* The data-svc writer *)

\* Mutant: every feed of the environment starts out active.
SeedStatusActive(k) == "active"

\* The CASE of seed_from_env.
SeedStatus(k) == IF k \in stored THEN "active" ELSE "pending"

\* Startup: FEEDS is inserted where the feed is missing (after waiting for a
\* transaction that holds one), or the error is logged and ignored.
Seed ==
    /\ wpc = "down"
    /\ \/ /\ \A h \in Handlers : own[h] \cap EnvFeeds = {}
          /\ feeds' = [k \in DOMAIN feeds \cup EnvFeeds |->
                         IF k \in DOMAIN feeds THEN feeds[k] ELSE SeedStatus(k)]
       \/ DbFails /\ UNCHANGED feeds
    /\ wpc' = "boot"
    /\ UNCHANGED <<assets, stored, handlers, targets, marking>>

\* main logs the bar length of every polling target: an unknown timeframe
\* raises there, outside any try.  Otherwise TradingView is looked up.
Boot ==
    /\ wpc = "boot"
    /\ \A k \in Polled : k[2] \in KnownFrames
    /\ wpc' = "loop"
    /\ UNCHANGED <<tables, stored, handlers, targets, marking>>

BootFails ==
    /\ wpc = "boot"
    /\ wpc' = "down"
    /\ UNCHANGED <<tables, stored, handlers, targets, marking>>

\* Mutant: only active feeds are polled.
PollingTargetsActive == {[key |-> k, status |-> feeds[k]] :
                            k \in {j \in DOMAIN feeds : feeds[j] = "active"}}

PollingTargets == {[key |-> k, status |-> feeds[k]] : k \in Polled}

\* The top of a cycle.  The order of the targets does not matter here.
BeginCycle ==
    /\ wpc = "loop" /\ targets = {} /\ PollingTargets # {}
    /\ targets' = PollingTargets
    /\ UNCHANGED <<tables, stored, handlers, wpc, marking>>

\* The fetch of t returned rows: a feed that was pending when the cycle
\* began is promoted next.
Served(t) ==
    /\ targets' = targets \ {t}
    /\ IF t.status = "pending"
       THEN wpc' = "mark" /\ marking' = t.key
       ELSE UNCHANGED <<wpc, marking>>

\* New bars went into the cache, or rows an earlier insert left there are
\* returned although nothing was inserted.
PollInserts(t) ==
    /\ wpc = "loop" /\ t \in targets
    /\ t.key[2] \in KnownFrames
    /\ stored' = stored \cup {t.key}
    /\ Served(t)
    /\ UNCHANGED <<tables, handlers>>

\* Mutant: an empty result is no error.
PollInsertsNothingEmpty(t) ==
    /\ wpc = "loop" /\ t \in targets
    /\ t.key[2] \in KnownFrames
    /\ Served(t)
    /\ UNCHANGED <<tables, stored, handlers>>

PollInsertsNothing(t) ==
    /\ wpc = "loop" /\ t \in targets
    /\ t.key[2] \in KnownFrames /\ t.key \in stored
    /\ Served(t)
    /\ UNCHANGED <<tables, stored, handlers>>

\* The fetch raised, its result was empty, or the timeframe is unknown.
PollFails(t) ==
    /\ wpc = "loop" /\ t \in targets
    /\ targets' = targets \ {t}
    /\ UNCHANGED <<tables, stored, handlers, wpc, marking>>

\* Mutant: the UPDATE forgets AND status = 'pending'.
MarkActiveAlways ==
    /\ wpc = "mark"
    /\ feeds' = [feeds EXCEPT ![marking] = "active"]
    /\ wpc' = "loop" /\ marking' = NoKey
    /\ UNCHANGED <<assets, stored, handlers, targets>>

\* mark_active: UPDATE ... WHERE status = 'pending'.
MarkActive ==
    /\ wpc = "mark"
    /\ feeds' = [feeds EXCEPT ![marking] = IF @ = "pending" THEN "active" ELSE @]
    /\ wpc' = "loop" /\ marking' = NoKey
    /\ UNCHANGED <<assets, stored, handlers, targets>>

MarkFails ==
    /\ DbFails /\ wpc = "mark"
    /\ wpc' = "loop" /\ marking' = NoKey
    /\ UNCHANGED <<tables, stored, handlers, targets>>

\* Mutant: a crash in the middle of a promotion is resumed.
WriterCrashKeepsMark ==
    /\ wpc # "down"
    /\ wpc' = "down" /\ targets' = {}
    /\ UNCHANGED <<tables, stored, handlers, marking>>

WriterCrash ==
    /\ wpc # "down"
    /\ wpc' = "down" /\ targets' = {} /\ marking' = NoKey
    /\ UNCHANGED <<tables, stored, handlers>>

-----------------------------------------------------------------------------
(* The operator *)

\* The backfill command fills a feed.
Backfill(k) ==
    /\ k[2] \in KnownFrames
    /\ stored' = stored \cup {k}
    /\ UNCHANGED <<tables, handlers, writer>>

\* A feed is disabled by hand.
Disable(k) ==
    /\ k \in DOMAIN feeds
    /\ feeds' = [feeds EXCEPT ![k] = "inactive"]
    /\ UNCHANGED <<assets, stored, handlers, writer>>

-----------------------------------------------------------------------------
HandlerStep(h) ==
    \/ Receive(h) \/ SelectAsset(h) \/ InsertAsset(h) \/ InsertFeed(h)
    \/ Commit(h) \/ Reread(h) \/ DeadlockVictim(h) \/ TxFails(h)

WriterStep ==
    \/ Seed \/ Boot \/ BootFails \/ BeginCycle \/ MarkActive \/ MarkFails \/ WriterCrash
    \/ \E t \in targets : PollInserts(t) \/ PollInsertsNothing(t) \/ PollFails(t)

Next ==
    \/ \E h \in Handlers : HandlerStep(h)
    \/ GrpcRestart
    \/ WriterStep
    \/ \E k \in Keys : Backfill(k) \/ Disable(k)

Spec == Init /\ [][Next]_vars

\* Docker restarts the writer, its loop has no end, and neither the startup
\* nor the poll of one feed fails for ever.
Poll == \E t \in targets : PollInserts(t) \/ PollInsertsNothing(t) \/ PollFails(t)
PollOf(k) == \E t \in targets : t.key = k /\ PollInserts(t)
Fairness ==
    /\ WF_vars(Seed) /\ SF_vars(Boot) /\ SF_vars(BeginCycle)
    /\ SF_vars(Poll) /\ SF_vars(MarkActive)
    /\ \A k \in Keys : SF_vars(PollOf(k))

FairSpec == Spec /\ Fairness

-----------------------------------------------------------------------------
(* Properties *)

Statuses == {"pending", "active", "inactive"}

TypeOK ==
    /\ DOMAIN assets \subseteq Symbols
    /\ DOMAIN feeds \subseteq Keys /\ feeds \in [DOMAIN feeds -> Statuses]
    /\ stored \subseteq Keys
    /\ req \in [Handlers -> Requests \cup {NoRequest}]
    /\ \A h \in Handlers : (req[h] = NoRequest) <=> (hpc[h] = "idle")
    /\ hpc \in [Handlers -> {"idle", "select", "exists", "insert", "feeds"}]
    /\ own \in [Handlers -> SUBSET Keys] /\ todo \in [Handlers -> Seq(STRING)]
    /\ answer \in [Handlers -> {"none", "created", "exists", "internal"}]
    /\ created \subseteq Requests
    /\ wpc \in {"down", "boot", "loop", "mark"}
    /\ targets \subseteq [key : Keys, status : Statuses]
    /\ marking \in IF wpc = "mark" THEN Keys ELSE {NoKey}

\* The status GET /v1/assets shows can be trusted: a feed is "active" only if
\* bars of it are stored, whoever stored them and whoever promoted it.
ActiveHasBars == \A k \in DOMAIN feeds : feeds[k] = "active" => k \in stored

\* A feed the operator disables stays disabled, also when the writer read it
\* as pending before and promotes it now, and across restarts.
DisabledStays ==
    [][\A k \in DOMAIN feeds :
         feeds[k] = "inactive" => k \in DOMAIN feeds' /\ feeds'[k] = "inactive"]_vars

\* An asset that was answered "created" is in the catalog with a feed for
\* each timeframe it asked for, although other requests insert the same feeds
\* and may roll back.
CreatedIsWired ==
    \A r \in created : r.symbol \in DOMAIN assets /\ KeysOf(r) \subseteq DOMAIN feeds

\* The statements, crashes and rollbacks implement the tables the read API
\* relies on: whatever the handlers saw when they started, an asset appears
\* once and with all its feeds, and only a pending feed with bars is promoted.
Tables == INSTANCE Inventory
ImplementsInventory == Tables!InventorySpec

\* openapi.yaml:278: "409 Conflict when the symbol already exists": an error
\* is never the answer to a request whose symbol is in the catalog.
DuplicateIsConflict ==
    [][\A h \in Handlers : answer[h] # answer'[h] /\ answer'[h] = "internal"
         => req[h].symbol \notin DOMAIN assets]_vars

\* feeds.py:3-5: a feed POSTed at run time is picked up by the writer: as
\* long as no feed has an unknown timeframe, a pending feed does not stay
\* pending for ever.
AllFramesKnown == \A k \in Polled : k[2] \in KnownFrames
Pending(k) == k \in DOMAIN feeds /\ feeds[k] = "pending"
EventuallyPromoted ==
    \A k \in Keys : [](Pending(k) /\ AllFramesKnown => <>(~ Pending(k) \/ ~ AllFramesKnown))

-----------------------------------------------------------------------------
(* The inductive invariant behind the theorems of CatalogProofs *)

\* Feeds h still has to insert.
Ahead(h) == {Key(req[h], todo[h][i]) : i \in DOMAIN todo[h]}

\* A transaction that has its assets row has inserted only missing feeds, and
\* leaves none out: what it has not inserted is committed or still ahead.
TxOf(h) ==
    /\ hpc[h] # "feeds" => own[h] = {}
    /\ hpc[h] \in {"select", "exists", "insert"} => todo[h] = req[h].timeframes
    /\ hpc[h] = "feeds" =>
         /\ req[h].symbol \notin DOMAIN assets
         /\ own[h] \cap DOMAIN feeds = {}
         /\ own[h] \cup Ahead(h) \subseteq KeysOf(req[h])
         /\ KeysOf(req[h]) \subseteq own[h] \cup Ahead(h) \cup DOMAIN feeds

\* No other transaction has the same symbol or the same feed.
Apart(g, h) ==
    /\ own[g] \cap own[h] = {}
    /\ hpc[g] = "feeds" /\ hpc[h] = "feeds" => req[g].symbol # req[h].symbol

TxInv ==
    /\ \A h \in Handlers : TxOf(h)
    /\ \A g, h \in Handlers : g # h => Apart(g, h)

\* The writer promotes a feed it has just seen bars of.
MarkInv ==
    /\ \A t \in targets : t.key \in DOMAIN feeds
    /\ wpc = "mark" => marking \in stored /\ marking \in DOMAIN feeds

CatalogInv == TypeOK /\ TxInv /\ MarkInv /\ ActiveHasBars /\ CreatedIsWired
=============================================================================
