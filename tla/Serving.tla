------------------------------- MODULE Serving -------------------------------
(***************************************************************************)
(* The read side: the BarService and AssetService handlers of bar-grpc and *)
(* the REST gateway on top of them, against tables that the writer, the    *)
(* loader, POSTs and the operator keep changing.  Every SQL statement runs *)
(* on a connection of its own and is a step of its own.                    *)
(*                                                                         *)
(* Handlers only read (a POST apart) and share nothing, so one client with *)
(* one request in flight shows everything that any number of them can see. *)
(* The tables move by the steps of Series and Inventory, which SharedCache *)
(* and Catalog implement.                                                  *)
(***************************************************************************)
EXTENDS Series, Sequences, Functions, Audit

CONSTANTS
    Symbols,     \* TradingView symbols, as numbers: the order of `ORDER BY symbol`
    Frames,      \* REST timeframes that are asked for
    Ranges,      \* <<from, to>> of range requests
    Filters,     \* sets of symbols that a list or search filter matches
    Posts,       \* valid POST /v1/assets bodies: [symbol, storage, frames]
    Yamls,       \* contents of assets.yaml
    EnvFeeds,    \* FEEDS of data-svc
    KnownFrames, \* timeframes of _TF_SECONDS
    Secs,        \* bar length of the stored timeframe
    Batches,     \* Batches[k]: sets of bars a transaction on series k may hold
    Legacy,      \* rows that may be there from before the grid guard
    MinBars,     \* min_bars of HealthCheck
    Limit,       \* bars one range answer may hold (_MAX_BARS)
    PageLimit    \* assets per page

PROVIDER_PRECEDENCE == <<"tradingview", "yahoo">>
Providers == {"tradingview", "yahoo"}

VARIABLES
    assets,      \* assets table: symbol -> storage symbol
    feeds,       \* feeds table: <<storage, timeframe>> -> status
    call,        \* the request in flight
    answer,      \* the last answer
    late,        \* POSTs whose RPC timed out while their transaction goes on
    posted       \* history: <<symbol, storage, REST timeframe>> of committed POSTs

catalog == <<assets, feeds>>
store == <<rows, cached>>
vars == <<catalog, store, call, answer, late, posted>>

\* rest_to_storage: minute frames lose their "m", the others are identical.
RestToStorage(f) ==
    CASE f = "1m" -> "1" [] f = "3m" -> "3" [] f = "5m" -> "5"
      [] f = "15m" -> "15" [] f = "30m" -> "30" [] OTHER -> f

\* The CreateAsset request of a POST body.
ToRequest(b) ==
    [symbol |-> b.symbol, storage |-> b.storage,
     timeframes |-> [i \in DOMAIN b.frames |-> RestToStorage(b.frames[i])]]

\* Storage symbols an asset may have.
Storages == (UNION {Range(y) : y \in Yamls}) \cup {b.storage : b \in Posts}

\* Rows of a series: <<storage, timeframe>> and provider.
SeriesKey(series, p) == <<series[1], series[2], p>>
RowsOf(series, p) ==
    IF SeriesKey(series, p) \in Keys THEN rows[SeriesKey(series, p)] ELSE {}
MetaOf(series, p) ==
    IF SeriesKey(series, p) \in Keys THEN cached[SeriesKey(series, p)] ELSE NoMeta
AllSeries == {<<k[1], k[2]>> : k \in Keys}
AllRows(series) == UNION {{p} \X RowsOf(series, p) : p \in Providers}
Stored == {k \in AllSeries : RowsOf(k, "tradingview") # {}}

Tables == INSTANCE Inventory WITH
    Requests <- {ToRequest(b) : b \in Posts},
    stored <- Stored

\* The REST enum only has timeframes the store knows; an assets.yaml and an
\* INSERT are finite; times are seconds since 1970.
ASSUME ServingAssumption ==
    /\ \A k \in Keys : k = <<k[1], k[2], k[3]>> /\ k[3] \in Providers
    /\ Slots \subseteq Nat \ {0} /\ NoMeta \notin [last: Nat, count: Nat]
    /\ \A k \in Keys : \A S \in Batches[k] : S \subseteq Slots /\ S # {} /\ IsFiniteSet(S)
    /\ \A S \in Legacy : S \subseteq Nat \ {0} /\ IsFiniteSet(S)
    /\ Symbols \subseteq Nat \ {0} /\ "" \notin Frames
    /\ \A f \in Frames : RestToStorage(f) \in KnownFrames
    /\ \A y \in Yamls : DOMAIN y \subseteq Symbols /\ IsFiniteSet(DOMAIN y)
    /\ \A b \in Posts : b.symbol \in Symbols /\ b.frames \in Seq(STRING)
    /\ IsFiniteSet(EnvFeeds)
    /\ Secs \in Nat \ {0} /\ MinBars \in Nat
    /\ Limit \in Nat \ {0} /\ PageLimit \in Nat \ {0}

Init ==
    /\ assets \in Yamls /\ feeds = [k \in {} |-> "pending"]
    /\ \E S \in Legacy :
        /\ rows = [k \in Keys |-> IF k[3] = "tradingview" THEN S ELSE {}]
        /\ cached = [k \in Keys |->
             IF rows[k] = {} THEN NoMeta ELSE [last |-> Max(S), count |-> Cardinality(S)]]
    /\ call = [op |-> "none"] /\ answer = [op |-> "none"]
    /\ late = {} /\ posted = {}

-----------------------------------------------------------------------------
(* Requests and answers.  An answer is looked at when it is given and then    *)
(* forgotten, by the client or with the next change of the tables.            *)

Idle == call.op = "none" /\ answer.op = "none"
Ask(c) == Idle /\ call' = c /\ UNCHANGED answer
Goes(c) == call' = c /\ UNCHANGED answer
Reply(a) == call' = [op |-> "none"] /\ answer' = a
Forgets == UNCHANGED call /\ answer' = [op |-> "none"]
At(ops, step) == call.op \in ops /\ call.step = step
Reads == UNCHANGED <<catalog, store, late, posted>>

Forget == answer.op # "none" /\ Forgets /\ Reads

BarCall(o, step, symbol, frame, series, asked, range) ==
    [op |-> o, step |-> step, symbol |-> symbol, frame |-> frame, series |-> series,
     asked |-> asked, range |-> range, provider |-> "", before |-> {},
     promised |-> FALSE, count |-> 0]

Failed(code) == [op |-> call.op, code |-> code]

INVALID_ARGUMENT == 3

\* The n newest elements of a set of times: ORDER BY ts DESC LIMIT n.
NewestOf(T, n) == {t \in T : Cardinality({u \in T : u > t}) < n}

-----------------------------------------------------------------------------
(* REST: quote and historical *)

AskQuote == \E s \in Symbols, f \in Frames :
    Ask(BarCall("quote", "profile", s, f, <<>>, "", <<>>)) /\ Reads

AskHistorical == \E s \in Symbols, f \in Frames, r \in Ranges :
    /\ r[1] < r[2]
    /\ Ask(BarCall("historical", "profile", s, f, <<>>, "", r))
    /\ Reads

\* `from` must be less than `to`.
BadRange ==
    /\ Idle /\ \E r \in Ranges : r[1] >= r[2]
    /\ Reply([op |-> "historical", code |-> 400]) /\ Reads

\* History: the asset was POSTed with this frame and every feed it has is active.
Promised(s, f) ==
    /\ <<s, assets[s], f>> \in posted
    /\ \A k \in DOMAIN feeds : k[1] = assets[s] => feeds[k] = "active"

\* Mutant: the route forgets to translate the timeframe.
ProfileUntranslated ==
    /\ At({"quote", "historical"}, "profile")
    /\ call.symbol \in DOMAIN assets
    /\ Goes([call EXCEPT !.step = "resolve", !.series = <<assets[call.symbol], call.frame>>,
                         !.promised = Promised(call.symbol, call.frame)])
    /\ Reads

\* get_asset_profile: TradingView symbol to storage symbol, or 404.
Profile ==
    /\ At({"quote", "historical"}, "profile")
    /\ \/ /\ call.symbol \in DOMAIN assets
          /\ Goes([call EXCEPT !.step = "resolve",
                     !.series = <<assets[call.symbol], RestToStorage(call.frame)>>,
                     !.promised = Promised(call.symbol, call.frame)])
       \/ call.symbol \notin DOMAIN assets /\ Reply(Failed(404))
    /\ Reads

\* Neither route catches an RpcError of GetProfile other than NOT_FOUND.
ProfileFails ==
    At({"quote", "historical"}, "profile") /\ Reply(Failed(500)) /\ Reads

\* An RpcError of the bar call is a 503.
BarRpcFails ==
    /\ \E step \in {"resolve", "read"} : At({"quote", "historical"}, step)
    /\ Reply(Failed(503)) /\ Reads

-----------------------------------------------------------------------------
(* gRPC: BarService *)

AskBars == \E series \in AllSeries, p \in Providers \cup {"", "other"} :
    /\ \/ \E o \in {"recent", "health"} : Ask(BarCall(o, "resolve", 0, "", series, p, <<>>))
       \/ \E r \in Ranges : Ask(BarCall("range", "resolve", 0, "", series, p, r))
    /\ Reads

\* Mutant: the first provider is taken without looking at its inventory.
ResolveProviderFirst(series) == PROVIDER_PRECEDENCE[1]

\* resolve_provider without a requested one: the first in the precedence that
\* has inventory, or the default.
ResolveProvider(series) ==
    LET present == {i \in DOMAIN PROVIDER_PRECEDENCE :
                        MetaOf(series, PROVIDER_PRECEDENCE[i]) # NoMeta}
    IN PROVIDER_PRECEDENCE[IF present = {} THEN 1 ELSE Min(present)]

Resolve ==
    /\ At({"quote", "historical", "recent", "range", "health"}, "resolve")
    /\ \/ call.asked = "other" /\ Reply(Failed(INVALID_ARGUMENT))
       \/ /\ call.asked # "other"
          /\ LET p == IF call.asked = "" THEN ResolveProvider(call.series) ELSE call.asked
             IN Goes([call EXCEPT !.step = "read", !.provider = p,
                                  !.before = AllRows(call.series)])
    /\ Reads

BarsAnswer(code, bars, truncated) ==
    [op |-> call.op, code |-> code, asked |-> call.asked, series |-> call.series,
     provider |-> call.provider, range |-> call.range, before |-> call.before,
     promised |-> call.promised, bars |-> bars, truncated |-> truncated]

\* GetRecentBars; latest_bar asks for one bar, and no bar is a 503 no_data.
ReadRecent ==
    /\ At({"quote", "recent"}, "read")
    /\ LET bars == NewestOf(RowsOf(call.series, call.provider),
                            IF call.op = "quote" THEN 1 ELSE Limit)
       IN Reply(BarsAnswer(IF call.op = "quote" /\ bars = {} THEN 503 ELSE 200, bars, FALSE))
    /\ Reads

\* Mutant: LIMIT without the sentinel row.
ReadRangeNoSentinel ==
    /\ At({"historical", "range"}, "read")
    /\ LET hits == {t \in RowsOf(call.series, call.provider) :
                        call.range[1] <= t /\ t <= call.range[2]}
       IN Reply(BarsAnswer(200, NewestOf(hits, Limit), FALSE))
    /\ Reads

\* GetBarsInRange: LIMIT + 1 rows are read to know whether there are more.
ReadRange ==
    /\ At({"historical", "range"}, "read")
    /\ LET hits == {t \in RowsOf(call.series, call.provider) :
                        call.range[1] <= t /\ t <= call.range[2]}
           fetched == NewestOf(hits, Limit + 1)
       IN Reply(BarsAnswer(200, NewestOf(fetched, Limit), Cardinality(fetched) > Limit))
    /\ Reads

\* Mutant: bar_count is asked of the default provider.
ReadCountDefault ==
    /\ At({"health"}, "read")
    /\ LET meta == MetaOf(call.series, "tradingview")
       IN Goes([call EXCEPT !.step = "last", !.count = IF meta = NoMeta THEN 0 ELSE meta.count])
    /\ Reads

\* HealthCheck reads bar_count and then, on another connection, last_bar_ts.
ReadCount ==
    /\ At({"health"}, "read")
    /\ LET meta == MetaOf(call.series, call.provider)
       IN Goes([call EXCEPT !.step = "last", !.count = IF meta = NoMeta THEN 0 ELSE meta.count])
    /\ Reads

ReadLast ==
    /\ At({"health"}, "last")
    /\ LET meta == MetaOf(call.series, call.provider)
       IN Reply([op |-> "health", code |-> 200, series |-> call.series,
                 provider |-> call.provider, ready |-> call.count >= MinBars,
                 available |-> call.count, last |-> IF meta = NoMeta THEN 0 ELSE meta.last])
    /\ Reads

\* The docker HEALTHCHECK of data-svc: one read of the default provider's row.
Healthcheck == \E series \in AllSeries :
    /\ Idle
    /\ LET meta == MetaOf(series, "tradingview")
           count == IF meta = NoMeta THEN 0 ELSE meta.count
       IN Reply([op |-> "health", code |-> 200, series |-> series,
                 provider |-> "tradingview", ready |-> count >= MinBars,
                 available |-> count, last |-> IF meta = NoMeta THEN 0 ELSE meta.last])
    /\ Reads

-----------------------------------------------------------------------------
(* AssetService and its routes *)

FeedsOf(storage) == {k \in DOMAIN feeds : k[1] = storage}

\* Mutant: the join with feeds forgets the storage symbol.
StatusOfAny(storage) ==
    IF "active" \in {feeds[k] : k \in DOMAIN feeds} THEN "active" ELSE "pending"

\* The CASE of list_with_status and get_with_status.
Status(storage) ==
    LET statuses == {feeds[k] : k \in FeedsOf(storage)}
    IN CASE "active" \in statuses -> "active"
         [] "active" \notin statuses /\ "pending" \in statuses -> "pending"
         [] statuses = {"inactive"} -> "inactive"
         [] OTHER -> "pending"

\* COALESCE(MAX(cm.last_bar_ts), 0) over the asset's feeds, of any provider.
LastBar(storage) ==
    LET filled == {kp \in FeedsOf(storage) \X Providers : MetaOf(kp[1], kp[2]) # NoMeta}
    IN Max({0} \cup {MetaOf(kp[1], kp[2]).last : kp \in filled})

Shown(s) == [symbol |-> s, status |-> Status(assets[s]), last |-> LastBar(assets[s])]

UpTo(seq, n) == SubSeq(seq, 1, IF Len(seq) > n THEN n ELSE Len(seq))

\* ORDER BY symbol.
Ordered(S) ==
    CHOOSE seq \in [1..Cardinality(S) -> S] :
        \A i, j \in DOMAIN seq : i < j => seq[i] < seq[j]

\* Mutant: the sentinel row becomes the cursor.
PageSentinel(filter, cursor) ==
    LET sorted == Ordered({s \in DOMAIN assets \cap filter : s > cursor})
        fetched == UpTo(sorted, PageLimit + 1)
    IN [shown |-> UpTo(fetched, PageLimit),
        next |-> IF Len(fetched) > PageLimit THEN fetched[PageLimit + 1] ELSE 0]

\* list_with_status: one row more than the page shows whether there is a next
\* page, whose cursor is the last symbol shown.  0 stands for no cursor.
Page(filter, cursor) ==
    LET sorted == Ordered({s \in DOMAIN assets \cap filter : s > cursor})
        fetched == UpTo(sorted, PageLimit + 1)
    IN [shown |-> UpTo(fetched, PageLimit),
        next |-> IF Len(fetched) > PageLimit THEN fetched[PageLimit] ELSE 0]

\* A client walks the pages of GET /v1/assets.
AskList == \E filter \in Filters :
    /\ Ask([op |-> "list", step |-> "page", filter |-> filter, cursor |-> 0,
            walked |-> <<>>, present |-> DOMAIN assets \cap filter, page |-> {}])
    /\ Reads

ListPage ==
    /\ At({"list"}, "page")
    /\ LET page == Page(call.filter, call.cursor)
           walked == call.walked \o page.shown
           shown == {Shown(s) : s \in Range(page.shown)}
       IN IF page.next # 0
          THEN Goes([call EXCEPT !.cursor = page.next, !.walked = walked, !.page = shown])
          ELSE Reply([op |-> "list", code |-> 200, walked |-> walked,
                      present |-> call.present, page |-> shown])
    /\ Reads

\* list, search and profile answer 503 to any RpcError.
ListFails == At({"list"}, "page") /\ Reply(Failed(503)) /\ Reads

\* GET /v1/profile and GET /v1/search: one statement each.
GetProfile == \E s \in Symbols, code \in {200, 404, 503} :
    /\ Idle
    /\ code = 200 => s \in DOMAIN assets
    /\ code = 404 => s \notin DOMAIN assets
    /\ Reply([op |-> "profile", code |-> code]) /\ Reads

Search == \E filter \in Filters :
    /\ Idle
    /\ \/ Reply([op |-> "search", code |-> 200,
                 results |-> UpTo(Ordered(DOMAIN assets \cap filter), PageLimit)])
       \/ Reply([op |-> "search", code |-> 503, results |-> <<>>])
    /\ Reads

\* GET /healthz: Ping runs SELECT 1; no answer counts as no database either.
Healthz == \E grpc, db \in BOOLEAN :
    /\ Idle
    /\ Reply([op |-> "healthz", ok |-> grpc /\ db, grpc |-> grpc, db |-> grpc /\ db])
    /\ Reads

-----------------------------------------------------------------------------
(* POST /v1/assets *)

Onboards(b) ==
    /\ UNCHANGED store
    /\ Tables!Onboard(ToRequest(b))
    /\ posted' = posted \cup {<<b.symbol, b.storage, b.frames[i]>> : i \in DOMAIN b.frames}

\* The asset is new: the answer says pending and no bars without looking.
PostCreates == \E b \in Posts :
    /\ Idle
    /\ Onboards(b)
    /\ Reply([op |-> "post", code |-> 201,
              page |-> {[symbol |-> b.symbol, status |-> "pending", last |-> 0]}])
    /\ UNCHANGED late

\* The asset exists; get_with_status reads its row for the 409.
PostExists == \E b \in Posts :
    /\ b.symbol \in DOMAIN assets
    /\ Ask([op |-> "post", step |-> "reread", symbol |-> b.symbol])
    /\ Reads

PostConflict ==
    /\ At({"post"}, "reread")
    /\ Reply([op |-> "post", code |-> 409, page |-> {Shown(call.symbol)}])
    /\ Reads

\* The servicer rejects the body (422), or the RPC fails or its 5 s are over,
\* before or while the transaction runs (503).
PostFails == \E b \in Posts, code \in {422, 503} :
    /\ Idle
    /\ Reply([op |-> "post", code |-> code, page |-> {}])
    /\ late' \in {late} \cup (IF code = 503 THEN {late \cup {b}} ELSE {})
    /\ UNCHANGED <<catalog, store, posted>>

\* ... which commits after the answer unless the symbol is taken by then.
LateCommit == \E b \in late :
    /\ late' = late \ {b}
    /\ \/ Onboards(b)
       \/ b.symbol \in DOMAIN assets /\ UNCHANGED <<catalog, store, posted>>
    /\ Forgets

-----------------------------------------------------------------------------
(* The integrity audit of the writer *)

AskAudit == \E series \in AllSeries :
    Ask([op |-> "audit", step |-> "combos", series |-> series, before |-> {}, problems |-> {}])
    /\ Reads

AuditCombos ==
    /\ At({"audit"}, "combos")
    /\ Goes([call EXCEPT !.step = "off_grid", !.before = AllRows(call.series),
                         !.problems = GapProblems(AllRows(call.series), Secs)])
    /\ Reads

AuditOffGrid ==
    /\ At({"audit"}, "off_grid")
    /\ Reply([op |-> "audit", before |-> call.before, after |-> AllRows(call.series),
              problems |-> call.problems \cup OffGridProblems(AllRows(call.series), Secs)])
    /\ Reads

-----------------------------------------------------------------------------
(* The tables move on *)

BarsArrive == \E k \in Keys : \E S \in Batches[k] :
    Publish(k, S) /\ Forgets /\ UNCHANGED <<catalog, late, posted>>

CatalogMoves ==
    /\ Forgets /\ UNCHANGED <<store, late, posted>>
    /\ \/ \E y \in Yamls : Tables!Reload(y)
       \/ Tables!SeedFeeds
       \/ \E k \in DOMAIN feeds : Tables!Promote(k) \/ Tables!Disabled(k)

Next ==
    \/ AskQuote \/ AskHistorical \/ BadRange \/ Profile \/ ProfileFails \/ BarRpcFails
    \/ AskBars \/ Resolve \/ ReadRecent \/ ReadRange \/ ReadCount \/ ReadLast \/ Healthcheck
    \/ AskList \/ ListPage \/ ListFails \/ GetProfile \/ Search \/ Healthz
    \/ PostCreates \/ PostExists \/ PostConflict \/ PostFails \/ LateCommit
    \/ AskAudit \/ AuditCombos \/ AuditOffGrid
    \/ Forget \/ BarsArrive \/ CatalogMoves

Spec == Init /\ [][Next]_vars

-----------------------------------------------------------------------------
(* Properties *)

AskedSeries == {<<>>} \cup AllSeries \cup (Storages \X KnownFrames)

Statuses == {"pending", "active", "inactive"}

TypeOK ==
    /\ DOMAIN assets \subseteq Symbols
    /\ \A k \in DOMAIN feeds : feeds[k] \in Statuses
    /\ call.op \in {"none", "quote", "historical", "recent", "range", "health",
                    "list", "post", "audit"}
    /\ "provider" \in DOMAIN call => call.provider \in Providers \cup {""}
    /\ "series" \in DOMAIN call =>
         call.series \in AskedSeries
    /\ late \subseteq Posts

IsBars(a) == "bars" \in DOMAIN a

\* HealthCheck gates the bots on bar_count and last_bar_ts, read one after the
\* other: what it calls ready is stored for that very provider, it never
\* counts bars that are not there, and bars come with a time one of them has.
HealthIsStored ==
    answer.op = "health" /\ answer.code = 200 =>
        LET R == RowsOf(answer.series, answer.provider)
        IN /\ answer.available <= Cardinality(R)
           /\ answer.ready => Cardinality(R) >= MinBars
           /\ answer.available > 0 => answer.last \in R

\* A client that names no provider gets "no data" only when no provider had
\* bars as its request was resolved (cache.py:161-162), and never for a
\* timeframe the asset was POSTed with while all its feeds are active.
InventoryServed ==
    IsBars(answer) /\ answer.op \in {"quote", "recent"} /\ answer.asked = "" /\ answer.bars = {}
        => answer.before = {} /\ ~ answer.promised

\* cache.py:237-239: of the bars that were stored when the request was resolved,
\* a range answer misses only older ones than it holds, and says so.
RangeIsHonest ==
    IsBars(answer) /\ answer.op \in {"historical", "range"} =>
        \A row \in answer.before :
            (/\ row[1] = answer.provider
             /\ answer.range[1] <= row[2] /\ row[2] <= answer.range[2]
             /\ row[2] \notin answer.bars)
              => answer.truncated /\ \A t \in answer.bars : row[2] < t

\* Walking the pages shows every asset that was there at the start exactly
\* once, whatever is onboarded or reloaded between two pages.
PagesComplete ==
    answer.op = "list" /\ answer.code = 200 =>
        /\ answer.present \subseteq Range(answer.walked)
        /\ \A i, j \in DOMAIN answer.walked : i < j => answer.walked[i] < answer.walked[j]

\* Every asset row a client sees as active, in a page or in a 409, comes with
\* the time of a bar, also after a reload moved the asset to other feeds.
ActiveShowsBars ==
    \A r \in {answer, call} : "page" \in DOMAIN r =>
        \A shown \in r.page : shown.status = "active" => shown.last > 0

\* A combo the audit calls healthy had no hole and no off-grid bar when the
\* scan began, although its two statements see different tables and gaps are
\* only counted, as long as one provider wrote it.
AuditIsSound ==
    answer.op = "audit" /\ answer.problems = {}
        /\ Cardinality({row[1] : row \in answer.after}) <= 1
        => Contiguous(TimesOf(answer.before), Secs)

-----------------------------------------------------------------------------
(* The inductive invariant behind the theorems of ServingProofs *)

\* A key has a cache_meta row exactly when it has bars; the row names one of
\* them and counts no more than there are.
SeriesInv ==
    /\ DOMAIN rows = Keys /\ DOMAIN cached = Keys
    /\ \A k \in Keys :
        /\ rows[k] \subseteq Nat \ {0} /\ IsFiniteSet(rows[k])
        /\ rows[k] = {} => cached[k] = NoMeta
        /\ rows[k] # {} => cached[k] \in [last: rows[k], count: 0..Cardinality(rows[k])]

\* An active feed has bars, and a POSTed timeframe has its feed.
CatalogInv ==
    /\ DOMAIN assets \subseteq Symbols /\ IsFiniteSet(DOMAIN assets)
    /\ Range(assets) \subseteq Storages
    /\ IsFiniteSet(DOMAIN feeds)
    /\ \A k \in DOMAIN feeds :
        feeds[k] \in Statuses /\ (feeds[k] = "active" => k \in Stored)
    /\ late \subseteq Posts
    /\ \A p \in posted : <<p[2], RestToStorage(p[3])>> \in DOMAIN feeds

BarOps == {"quote", "historical", "recent", "range", "health"}
BarCalls ==
    [op: BarOps, step: {"profile", "resolve", "read", "last"}, symbol: Symbols \cup {0},
     frame: Frames \cup {""}, series: AskedSeries, asked: Providers \cup {"", "other"},
     range: Ranges \cup {<<>>}, provider: Providers \cup {""},
     before: SUBSET (Providers \X Nat), promised: BOOLEAN, count: Nat]
ShownRows == [symbol: Symbols, status: Statuses, last: Nat]
ListCalls ==
    [op: {"list"}, step: {"page"}, filter: Filters, cursor: Nat, walked: Seq(Nat),
     present: SUBSET Symbols, page: SUBSET ShownRows]
PostCalls == [op: {"post"}, step: {"reread"}, symbol: Symbols]
AuditCalls ==
    [op: {"audit"}, step: {"combos", "off_grid"}, series: AllSeries,
     before: SUBSET (Providers \X Nat), problems: SUBSET {"gaps", "extras"}]

CallType ==
    call \in {[op |-> "none"]} \cup BarCalls \cup ListCalls \cup PostCalls \cup AuditCalls

\* What a bar request has seen is still stored, under the provider it was
\* resolved to if it named none.
BarCallInv ==
    call.op \in BarOps =>
        /\ call.step = "profile" => call.frame \in Frames
        /\ call.step = "resolve" /\ call.promised =>
             RowsOf(call.series, "tradingview") # {}
        /\ call.step \in {"read", "last"} =>
             /\ call.provider \in Providers
             /\ call.before \subseteq AllRows(call.series)
             /\ call.promised => call.before # {}
             /\ call.asked = "" /\ call.before # {} =>
                  RowsOf(call.series, call.provider) # {}
        /\ call.step = "last" =>
             /\ call.op = "health"
             /\ call.count <= Cardinality(RowsOf(call.series, call.provider))

\* A walk has shown, in order, every symbol up to its cursor that was there.
ListCallInv ==
    call.op = "list" =>
        /\ \A i, j \in DOMAIN call.walked : i < j => call.walked[i] < call.walked[j]
        /\ \A s \in Range(call.walked) : s <= call.cursor
        /\ call.present \subseteq DOMAIN assets \cap call.filter
        /\ \A s \in call.present : s <= call.cursor => s \in Range(call.walked)

AuditCallInv ==
    call.op = "audit" /\ call.step = "off_grid" =>
        /\ call.before \subseteq AllRows(call.series)
        /\ call.problems = GapProblems(call.before, Secs)

PostCallInv == call.op = "post" => call.symbol \in DOMAIN assets

CallInv == CallType /\ BarCallInv /\ ListCallInv /\ AuditCallInv /\ PostCallInv

AnswerInv ==
    /\ HealthIsStored /\ InventoryServed /\ RangeIsHonest
    /\ PagesComplete /\ ActiveShowsBars /\ AuditIsSound

ServingInv == SeriesInv /\ CatalogInv /\ CallInv /\ AnswerInv
=============================================================================
