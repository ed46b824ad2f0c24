---------------------------- MODULE ServingProofs ----------------------------
(***************************************************************************)
(* Theorems about Serving, for every set of series, assets, requests and   *)
(* limits: what an answer of the read API says of tables that have moved   *)
(* on while it was put together.  They follow from ServingInv.             *)
(***************************************************************************)
EXTENDS Serving, SetLemmas

-----------------------------------------------------------------------------
(* The series *)

\* The cache_meta row of a series against its bars.
LEMMA RowsFacts ==
    ASSUME SeriesInv, NEW series, NEW p
    PROVE  /\ RowsOf(series, p) \subseteq Nat \ {0} /\ IsFiniteSet(RowsOf(series, p))
           /\ Cardinality(RowsOf(series, p)) \in Nat
           /\ MetaOf(series, p) = NoMeta <=> RowsOf(series, p) = {}
           /\ MetaOf(series, p) # NoMeta =>
                /\ MetaOf(series, p).last \in RowsOf(series, p)
                /\ MetaOf(series, p).count \in 0..Cardinality(RowsOf(series, p))
<1>1. CASE SeriesKey(series, p) \notin Keys
  BY <1>1, FS_EmptySet DEF RowsOf, MetaOf
<1>2. CASE SeriesKey(series, p) \in Keys
  <2> DEFINE k == SeriesKey(series, p)
  <2>1. RowsOf(series, p) = rows[k] /\ MetaOf(series, p) = cached[k]
    BY <1>2 DEF RowsOf, MetaOf
  <2>2. /\ rows[k] \subseteq Nat \ {0} /\ IsFiniteSet(rows[k])
        /\ rows[k] = {} => cached[k] = NoMeta
        /\ rows[k] # {} => cached[k] \in [last: rows[k], count: 0..Cardinality(rows[k])]
    BY <1>2 DEF SeriesInv
  <2>3. Cardinality(rows[k]) \in Nat
    BY <2>2, FS_CardinalityType
  <2> HIDE DEF k
  <2>4. rows[k] # {} => cached[k] # NoMeta
    <3>1. 0..Cardinality(rows[k]) \subseteq Nat
      BY <2>3
    <3>2. rows[k] # {} => cached[k] \in [last: Nat, count: Nat]
      BY <2>2, <3>1
    <3> QED
      BY <3>2, ServingAssumption DEF ServingAssumption
  <2> QED
    BY <2>1, <2>2, <2>3, <2>4
<1> QED
  BY <1>1, <1>2

\* Series only grow.
Grown ==
    /\ \A series, p : RowsOf(series, p) \subseteq RowsOf(series, p)'
    /\ \A series : AllRows(series) \subseteq AllRows(series)'
    /\ Stored \subseteq Stored'

\* ... as long as no transaction takes a row away.
LEMMA StoreGrows ==
    ASSUME UNCHANGED store \/ \A k \in Keys : rows[k] \subseteq rows'[k]
    PROVE  Grown
<1>1. \A k \in Keys : rows[k] \subseteq rows'[k]
  BY DEF store
<1>2. \A series, p : RowsOf(series, p) \subseteq RowsOf(series, p)'
  BY <1>1 DEF RowsOf
<1>3. \A series : AllRows(series) \subseteq AllRows(series)'
  BY <1>2 DEF AllRows
<1>4. Stored \subseteq Stored'
  BY <1>2 DEF Stored
<1> QED
  BY <1>2, <1>3, <1>4 DEF Grown

\* A transaction of a writer keeps rows and cache_meta together.
LEMMA PublishKeeps ==
    ASSUME SeriesInv, NEW k \in Keys, NEW S \in Batches[k], Publish(k, S)
    PROVE  SeriesInv' /\ \A l \in Keys : rows[l] \subseteq rows'[l]
<1>1. S \subseteq Nat \ {0} /\ S # {} /\ IsFiniteSet(S)
  BY ServingAssumption DEF ServingAssumption
<1>2. /\ DOMAIN rows = Keys /\ DOMAIN cached = Keys
      /\ rows[k] \subseteq Nat \ {0} /\ IsFiniteSet(rows[k])
  BY DEF SeriesInv
<1>3. PICK n \in Cardinality(S)..Cardinality(rows[k] \cup S) :
        /\ rows' = [rows EXCEPT ![k] = @ \cup S]
        /\ cached' = [cached EXCEPT ![k] = [last |-> Max(S), count |-> n]]
  BY DEF Publish
<1>4. /\ DOMAIN rows' = Keys /\ DOMAIN cached' = Keys
      /\ rows'[k] = rows[k] \cup S
      /\ cached'[k] = [last |-> Max(S), count |-> n]
      /\ \A l \in Keys \ {k} : rows'[l] = rows[l] /\ cached'[l] = cached[l]
  BY <1>2, <1>3
<1>5. IsFiniteSet(rows[k] \cup S)
  BY <1>1, <1>2, FS_Union
<1>6. Max(S) \in S
  BY <1>1, FiniteMax
<1>7. n \in 0..Cardinality(rows'[k])
  <2>1. Cardinality(S) \in Nat /\ Cardinality(rows[k] \cup S) \in Nat
    BY <1>1, <1>5, FS_CardinalityType
  <2> QED
    BY <1>3, <1>4, <2>1
<1>8. /\ rows'[k] \subseteq Nat \ {0} /\ IsFiniteSet(rows'[k]) /\ rows'[k] # {}
      /\ cached'[k] \in [last: rows'[k], count: 0..Cardinality(rows'[k])]
  BY <1>1, <1>2, <1>4, <1>5, <1>6, <1>7
<1>9. SeriesInv'
  <2> SUFFICES ASSUME NEW l \in Keys
      PROVE  /\ rows'[l] \subseteq Nat \ {0} /\ IsFiniteSet(rows'[l])
             /\ rows'[l] = {} => cached'[l] = NoMeta
             /\ rows'[l] # {} =>
                  cached'[l] \in [last: rows'[l], count: 0..Cardinality(rows'[l])]
    BY <1>4 DEF SeriesInv
  <2>1. CASE l = k
    BY <1>8, <2>1
  <2>2. CASE l # k
    BY <1>4, <2>2 DEF SeriesInv
  <2> QED
    BY <2>1, <2>2
<1> QED
  BY <1>4, <1>9

-----------------------------------------------------------------------------
(* The catalog *)

\* What a change of the catalog keeps: assets and feeds are only added.
CatalogGrown ==
    /\ DOMAIN assets \subseteq DOMAIN assets'
    /\ DOMAIN feeds \subseteq DOMAIN feeds'

\* Feeds are inserted with a status their series can have.
LEMMA WithFeedsKeeps ==
    ASSUME CatalogInv, NEW K, NEW A, IsFiniteSet(K), A \subseteq Stored,
           feeds' = Tables!WithFeeds(K, A), Stored' = Stored
    PROVE  /\ DOMAIN feeds' = DOMAIN feeds \cup K /\ IsFiniteSet(DOMAIN feeds')
           /\ \A k \in DOMAIN feeds' :
                feeds'[k] \in Statuses /\ (feeds'[k] = "active" => k \in Stored')
<1>1. DOMAIN feeds' = DOMAIN feeds \cup K
  BY DEF Tables!WithFeeds
<1>2. IsFiniteSet(DOMAIN feeds')
  BY <1>1, FS_Union DEF CatalogInv
<1>3. \A k \in DOMAIN feeds' :
        feeds'[k] = IF k \in DOMAIN feeds THEN feeds[k]
                    ELSE IF k \in A THEN "active" ELSE "pending"
  BY <1>1 DEF Tables!WithFeeds
<1> QED
  BY <1>1, <1>2, <1>3 DEF CatalogInv, Statuses

\* The timeframes of a POST are finitely many.
LEMMA KeysOfFinite ==
    ASSUME NEW b \in Posts
    PROVE  /\ IsFiniteSet(Tables!KeysOf(ToRequest(b)))
           /\ \A i \in DOMAIN b.frames :
                <<b.storage, RestToStorage(b.frames[i])>> \in Tables!KeysOf(ToRequest(b))
<1>1. b.frames \in Seq(STRING)
  BY ServingAssumption DEF ServingAssumption
<1> DEFINE n == Len(b.frames)
           K == Tables!KeysOf(ToRequest(b))
           key == [i \in 1..n |-> <<b.storage, RestToStorage(b.frames[i])>>]
<1>2. n \in Nat /\ DOMAIN b.frames = 1..n
  BY <1>1
<1>3. K = {key[i] : i \in 1..n}
  BY <1>2 DEF Tables!KeysOf, ToRequest
<1>4. IsFiniteSet(1..n)
  <2> HIDE DEF n
  <2> QED
    BY <1>2, FS_Interval
<1>5. key \in Surjection(1..n, K)
  <2>1. DOMAIN key = 1..n /\ key = [i \in 1..n |-> key[i]]
    OBVIOUS
  <2> HIDE DEF K, key
  <2>2. key \in [1..n -> K]
    BY <1>3, <2>1
  <2> QED
    BY <1>3, <2>2 DEF Surjection
<1>6. IsFiniteSet(K)
  <2> HIDE DEF K, key, n
  <2> QED
    BY <1>4, <1>5, FS_Surjection
<1>7. \A i \in DOMAIN b.frames : <<b.storage, RestToStorage(b.frames[i])>> \in K
  BY <1>2, <1>3
<1> QED
  BY <1>6, <1>7

\* A CreateAsset transaction, early or late.
LEMMA OnboardsKeeps ==
    ASSUME CatalogInv, NEW b \in Posts, Onboards(b), late' \subseteq Posts
    PROVE  CatalogInv' /\ CatalogGrown
<1> DEFINE K == Tables!KeysOf(ToRequest(b))
<1>1. /\ UNCHANGED store /\ b.symbol \notin DOMAIN assets
      /\ assets' = [s \in DOMAIN assets \cup {b.symbol} |->
                      IF s = b.symbol THEN b.storage ELSE assets[s]]
      /\ feeds' = Tables!WithFeeds(K, {})
      /\ posted' = posted \cup {<<b.symbol, b.storage, b.frames[i]>> : i \in DOMAIN b.frames}
  BY DEF Onboards, Tables!Onboard, ToRequest
<1>2. b.symbol \in Symbols /\ b.storage \in Storages
  <2>1. b.symbol \in Symbols
    BY ServingAssumption DEF ServingAssumption
  <2> QED
    BY <2>1 DEF Storages
<1>3. Stored' = Stored
  BY <1>1 DEF store, Stored, RowsOf
<1>4. /\ IsFiniteSet(K)
      /\ \A i \in DOMAIN b.frames : <<b.storage, RestToStorage(b.frames[i])>> \in K
  BY KeysOfFinite
<1> HIDE DEF K
<1>5. /\ DOMAIN feeds' = DOMAIN feeds \cup K /\ IsFiniteSet(DOMAIN feeds')
      /\ \A k \in DOMAIN feeds' :
           feeds'[k] \in Statuses /\ (feeds'[k] = "active" => k \in Stored')
  <2>1. {} \subseteq Stored /\ feeds' = Tables!WithFeeds(K, {})
    BY <1>1
  <2> QED
    BY <1>3, <1>4, <2>1, WithFeedsKeeps
<1>6. /\ DOMAIN assets' = DOMAIN assets \cup {b.symbol}
      /\ DOMAIN assets' \subseteq Symbols /\ IsFiniteSet(DOMAIN assets')
  BY <1>1, <1>2, FS_AddElement DEF CatalogInv
<1>7. Range(assets') \subseteq Storages
  BY <1>1, <1>2 DEF CatalogInv, Range
<1>8. \A p \in posted' : <<p[2], RestToStorage(p[3])>> \in DOMAIN feeds'
  BY <1>1, <1>4, <1>5 DEF CatalogInv
<1> QED
  BY <1>5, <1>6, <1>7, <1>8 DEF CatalogInv, CatalogGrown

\* A reload, a seed, a promotion or a disabled feed.
LEMMA CatalogMovesKeeps ==
    ASSUME CatalogInv, CatalogMoves
    PROVE  CatalogInv' /\ CatalogGrown
<1>0. UNCHANGED <<store, late, posted>> /\ Stored' = Stored
  BY DEF CatalogMoves, store, Stored, RowsOf
<1>1. ASSUME NEW y \in Yamls, Tables!Reload(y)
      PROVE  CatalogInv' /\ CatalogGrown
  <2>1. /\ DOMAIN y \subseteq Symbols /\ IsFiniteSet(DOMAIN y)
        /\ Range(y) \subseteq Storages
    BY ServingAssumption DEF ServingAssumption, Storages
  <2>2. /\ assets' = [s \in DOMAIN assets \cup DOMAIN y |->
                        IF s \in DOMAIN y THEN y[s] ELSE assets[s]]
        /\ UNCHANGED feeds
    BY <1>1 DEF Tables!Reload
  <2>3. IsFiniteSet(DOMAIN assets')
    BY <2>1, <2>2, FS_Union DEF CatalogInv
  <2>4. Range(assets') \subseteq Storages /\ DOMAIN assets' \subseteq Symbols
    BY <2>1, <2>2 DEF CatalogInv, Range
  <2> QED
    BY <1>0, <2>2, <2>3, <2>4 DEF CatalogInv, CatalogGrown
<1>2. CASE Tables!SeedFeeds
  <2>1. feeds' = Tables!WithFeeds(EnvFeeds, Stored) /\ UNCHANGED assets
    BY <1>2 DEF Tables!SeedFeeds, Tables!WithFeeds
  <2>2. IsFiniteSet(EnvFeeds)
    BY ServingAssumption DEF ServingAssumption
  <2>3. /\ DOMAIN feeds' = DOMAIN feeds \cup EnvFeeds /\ IsFiniteSet(DOMAIN feeds')
        /\ \A k \in DOMAIN feeds' :
             feeds'[k] \in Statuses /\ (feeds'[k] = "active" => k \in Stored')
    BY <1>0, <2>1, <2>2, WithFeedsKeeps
  <2> QED
    BY <1>0, <2>1, <2>3 DEF CatalogInv, CatalogGrown
<1>3. ASSUME NEW k \in DOMAIN feeds, Tables!Promote(k) \/ Tables!Disabled(k)
      PROVE  CatalogInv' /\ CatalogGrown
  <2>1. /\ UNCHANGED assets /\ DOMAIN feeds' = DOMAIN feeds
        /\ \A l \in DOMAIN feeds : feeds'[l] = feeds[l] \/ feeds'[l] = "inactive"
                                   \/ (l \in Stored /\ feeds'[l] = "active")
    <3>1. CASE Tables!Promote(k)
      BY <3>1 DEF Tables!Promote
    <3>2. CASE Tables!Disabled(k)
      BY <3>2 DEF Tables!Disabled
    <3> QED
      BY <1>3, <3>1, <3>2
  <2> QED
    BY <1>0, <2>1 DEF CatalogInv, CatalogGrown, Statuses
<1> QED
  BY <1>1, <1>2, <1>3 DEF CatalogMoves

\* Requests that only look at the tables.
ReadStep ==
    \/ AskQuote \/ AskHistorical \/ BadRange \/ Profile \/ ProfileFails \/ BarRpcFails
    \/ AskBars \/ Resolve \/ ReadRecent \/ ReadRange \/ ReadCount \/ ReadLast \/ Healthcheck
    \/ AskList \/ ListPage \/ ListFails \/ GetProfile \/ Search \/ Healthz
    \/ PostExists \/ PostConflict \/ AskAudit \/ AuditCombos \/ AuditOffGrid
    \/ Forget \/ UNCHANGED vars

LEMMA ReadStepReads == ReadStep => Reads
<1>1. UNCHANGED vars => Reads
  BY DEF vars, catalog, store, Reads
<1>2. AskQuote \/ AskHistorical \/ BadRange \/ Profile \/ ProfileFails \/ BarRpcFails => Reads
  BY DEF AskQuote, AskHistorical, BadRange, Profile, ProfileFails, BarRpcFails
<1>3. AskBars \/ Resolve \/ ReadRecent \/ ReadRange \/ ReadCount \/ ReadLast \/ Healthcheck
        => Reads
  BY DEF AskBars, Resolve, ReadRecent, ReadRange, ReadCount, ReadLast, Healthcheck
<1>4. AskList \/ ListPage \/ ListFails \/ GetProfile \/ Search \/ Healthz => Reads
  BY DEF AskList, ListPage, ListFails, GetProfile, Search, Healthz
<1>5. PostExists \/ PostConflict \/ AskAudit \/ AuditCombos \/ AuditOffGrid \/ Forget => Reads
  BY DEF PostExists, PostConflict, AskAudit, AuditCombos, AuditOffGrid, Forget
<1> QED
  BY <1>1, <1>2, <1>3, <1>4, <1>5 DEF ReadStep

LEMMA NextCases ==
    ASSUME [Next]_vars
    PROVE  ReadStep \/ PostCreates \/ PostFails \/ LateCommit \/ BarsArrive \/ CatalogMoves
  BY DEF Next, ReadStep

\* The tables stay sound and only grow; only writers and the catalog change
\* them, and then the last answer is forgotten, or it is the 201 of a POST.
LEMMA TablesKeep ==
    ASSUME SeriesInv, CatalogInv, [Next]_vars
    PROVE  /\ SeriesInv' /\ CatalogInv' /\ Grown /\ CatalogGrown
           /\ UNCHANGED store \/ (Forgets /\ UNCHANGED catalog)
<1>1. ASSUME UNCHANGED store
      PROVE  SeriesInv' /\ Grown
  BY <1>1, StoreGrows DEF SeriesInv, store
<1>2. ASSUME UNCHANGED <<catalog, posted>>, Grown, late' \subseteq Posts
      PROVE  CatalogInv' /\ CatalogGrown
  <2>1. Stored \subseteq Stored' /\ assets' = assets /\ feeds' = feeds /\ posted' = posted
    BY <1>2 DEF Grown, catalog
  <2> QED
    BY <1>2, <2>1 DEF CatalogInv, CatalogGrown
<1>3. late \subseteq Posts
  BY DEF CatalogInv
<1>4. CASE ReadStep
  BY <1>1, <1>2, <1>3, <1>4, ReadStepReads DEF Reads
<1>5. CASE PostCreates
  <2>1. PICK b \in Posts : Onboards(b) /\ UNCHANGED late
    BY <1>5 DEF PostCreates
  <2>2. UNCHANGED store
    BY <2>1 DEF Onboards
  <2> QED
    BY <1>1, <1>3, <2>1, <2>2, OnboardsKeeps
<1>6. CASE PostFails
  <2>1. UNCHANGED <<catalog, store, posted>> /\ late' \subseteq Posts
    BY <1>3, <1>6 DEF PostFails
  <2> QED
    BY <1>1, <1>2, <2>1
<1>7. CASE LateCommit
  <2>1. PICK b \in late : /\ late' = late \ {b} /\ Forgets
                          /\ Onboards(b) \/ UNCHANGED <<catalog, store, posted>>
    BY <1>7 DEF LateCommit
  <2>2. b \in Posts /\ late' \subseteq Posts
    BY <1>3, <2>1
  <2>3. UNCHANGED store
    BY <2>1 DEF Onboards
  <2> QED
    BY <1>1, <1>2, <2>1, <2>2, <2>3, OnboardsKeeps
<1>8. CASE BarsArrive
  <2>0. PICK k \in Keys : \E S \in Batches[k] :
          Publish(k, S) /\ Forgets /\ UNCHANGED <<catalog, late, posted>>
    BY <1>8 DEF BarsArrive
  <2>1. PICK S \in Batches[k] :
          Publish(k, S) /\ Forgets /\ UNCHANGED <<catalog, late, posted>>
    BY <2>0
  <2>2. SeriesInv' /\ Grown
    BY <2>1, PublishKeeps, StoreGrows
  <2> QED
    BY <1>2, <1>3, <2>1, <2>2
<1>9. CASE CatalogMoves
  <2>1. UNCHANGED store
    BY <1>9 DEF CatalogMoves
  <2> QED
    BY <1>1, <1>9, <2>1, CatalogMovesKeeps
<1> QED
  BY <1>4, <1>5, <1>6, <1>7, <1>8, <1>9, NextCases

-----------------------------------------------------------------------------
(* Requests in flight *)

\* The kind of a request tells its fields.
LEMMA CallKinds ==
    ASSUME CallType
    PROVE  /\ call.op \in BarOps => call \in BarCalls
           /\ call.op = "list" => call \in ListCalls
           /\ call.op = "post" => call \in PostCalls
           /\ call.op = "audit" => call \in AuditCalls
<1>1. call = [op |-> "none"] => call.op = "none"
  OBVIOUS
<1>2. call \in BarCalls => call.op \in BarOps
  BY DEF BarCalls
<1>3. call \in ListCalls => call.op = "list"
  BY DEF ListCalls
<1>4. call \in PostCalls => call.op = "post"
  BY DEF PostCalls
<1>5. call \in AuditCalls => call.op = "audit"
  BY DEF AuditCalls
<1> QED
  BY <1>1, <1>2, <1>3, <1>4, <1>5 DEF CallType, BarOps

LEMMA CallSets ==
    /\ BarCalls' = BarCalls /\ ListCalls' = ListCalls
    /\ PostCalls' = PostCalls /\ AuditCalls' = AuditCalls
  BY DEF BarCalls, ListCalls, PostCalls, AuditCalls

LEMMA RowsFiniteNext ==
    ASSUME SeriesInv', NEW series, NEW p
    PROVE  IsFiniteSet(RowsOf(series, p)') /\ Cardinality(RowsOf(series, p)') \in Nat
<1>1. IsFiniteSet(RowsOf(series, p)')
  BY FS_EmptySet DEF RowsOf, SeriesInv
<1> QED
  BY <1>1, FS_CardinalityType

\* A request that waits keeps what it has seen, while the tables move on.
LEMMA WaitingKeeps ==
    ASSUME SeriesInv, CallInv, Grown, CatalogGrown, SeriesInv', call' = call
    PROVE  CallInv'
<1>1. CallType'
  BY CallSets DEF CallInv, CallType
<1>2. BarCallInv'
  <2> SUFFICES ASSUME call.op \in BarOps PROVE BarCallInv'
    BY DEF BarCallInv
  <2> DEFINE R(p) == RowsOf(call.series, p)
  <2>1. \A p : /\ R(p) \subseteq R(p)'
               /\ Cardinality(R(p)) <= Cardinality(R(p)')
               /\ Cardinality(R(p)) \in Nat /\ Cardinality(R(p)') \in Nat
    <3> TAKE p
    <3>1. R(p) \subseteq R(p)'
      BY DEF Grown
    <3>2. /\ IsFiniteSet(R(p)') /\ Cardinality(R(p)') \in Nat
          /\ Cardinality(R(p)) \in Nat
      BY RowsFacts, RowsFiniteNext
    <3> QED
      BY <3>1, <3>2, FS_Subset
  <2>2. AllRows(call.series) \subseteq AllRows(call.series)'
    BY DEF Grown
  <2>3. call.step = "last" => call.count \in Nat
    BY CallKinds DEF CallInv, BarCalls
  <2>4. BarCallInv
    BY DEF CallInv
  <2>5. call.step = "last" =>
          call.count <= Cardinality(RowsOf(call.series, call.provider)')
    <3>1. /\ Cardinality(R(call.provider)) <= Cardinality(R(call.provider)')
          /\ Cardinality(R(call.provider)) \in Nat
          /\ Cardinality(R(call.provider)') \in Nat
      BY <2>1
    <3>2. call.step = "last" => call.count <= Cardinality(R(call.provider))
      BY <2>4 DEF BarCallInv
    <3> QED
      BY <2>3, <3>1, <3>2
  <2>6. \A p : RowsOf(call.series, p) # {} => RowsOf(call.series, p)' # {}
    BY <2>1
  <2> HIDE DEF R
  <2> QED
    BY <2>2, <2>4, <2>5, <2>6 DEF BarCallInv
<1>3. ListCallInv'
  BY DEF CallInv, ListCallInv, CatalogGrown
<1>4. AuditCallInv'
  BY DEF CallInv, AuditCallInv, Grown
<1>5. PostCallInv'
  BY DEF CallInv, PostCallInv, CatalogGrown
<1> QED
  BY <1>1, <1>2, <1>3, <1>4, <1>5 DEF CallInv

\* Nothing in flight, nothing to keep.
LEMMA NoCallKeeps ==
    ASSUME call' = [op |-> "none"]
    PROVE  CallInv'
<1>1. call'.op = "none"
  OBVIOUS
<1>2. BarCallInv' /\ ListCallInv' /\ AuditCallInv' /\ PostCallInv'
  BY <1>1 DEF BarCallInv, BarOps, ListCallInv, AuditCallInv, PostCallInv
<1> QED
  BY <1>2 DEF CallInv, CallType

\* While the tables are read, the series that can be asked for stay the same.
LEMMA ReadsKeeps ==
    ASSUME Reads
    PROVE  /\ \A series, p : RowsOf(series, p)' = RowsOf(series, p)
           /\ \A series : AllRows(series)' = AllRows(series)
           /\ AskedSeries' = AskedSeries /\ BarCalls' = BarCalls /\ ListCalls' = ListCalls
           /\ PostCalls' = PostCalls /\ AuditCalls' = AuditCalls /\ assets' = assets
  BY DEF Reads, catalog, store, RowsOf, AllRows, AskedSeries, BarCalls, ListCalls,
         PostCalls, AuditCalls

\* A bar request only has to be a sound bar request.
LEMMA BarCallKeeps ==
    ASSUME call' \in BarCalls', BarCallInv'
    PROVE  CallInv'
<1>1. call'.op \in BarOps
  BY DEF BarCalls
<1>2. ListCallInv' /\ AuditCallInv' /\ PostCallInv'
  BY <1>1 DEF BarOps, ListCallInv, AuditCallInv, PostCallInv
<1> QED
  BY <1>2 DEF CallInv, CallType

LEMMA AsksBars ==
    ASSUME AskQuote \/ AskHistorical \/ AskBars
    PROVE  CallInv' /\ call' \in BarCalls
<1>0. Reads
  BY DEF AskQuote, AskHistorical, AskBars
<1>1. CASE AskQuote
  <2>1. PICK s \in Symbols, f \in Frames :
          call' = BarCall("quote", "profile", s, f, <<>>, "", <<>>)
    BY <1>1 DEF AskQuote, Ask
  <2>2. call' \in BarCalls
    BY <2>1 DEF BarCall, BarCalls, BarOps, AskedSeries
  <2>3. BarCallInv'
    BY <2>1 DEF BarCall, BarCallInv
  <2> QED
    BY <1>0, <2>2, <2>3, ReadsKeeps, BarCallKeeps
<1>2. CASE AskHistorical
  <2>1. PICK s \in Symbols, f \in Frames, r \in Ranges :
          call' = BarCall("historical", "profile", s, f, <<>>, "", r)
    BY <1>2 DEF AskHistorical, Ask
  <2>2. call' \in BarCalls
    BY <2>1 DEF BarCall, BarCalls, BarOps, AskedSeries
  <2>3. BarCallInv'
    BY <2>1 DEF BarCall, BarCallInv
  <2> QED
    BY <1>0, <2>2, <2>3, ReadsKeeps, BarCallKeeps
<1>3. CASE AskBars
  <2>1. PICK series \in AllSeries, p \in Providers \cup {"", "other"} :
          \E o \in {"recent", "health", "range"}, r \in Ranges \cup {<<>>} :
             call' = BarCall(o, "resolve", 0, "", series, p, r)
    BY <1>3 DEF AskBars, Ask
  <2>2. PICK o \in {"recent", "health", "range"}, r \in Ranges \cup {<<>>} :
          call' = BarCall(o, "resolve", 0, "", series, p, r)
    BY <2>1
  <2>3. call' \in BarCalls
    BY <2>2 DEF BarCall, BarCalls, BarOps, AskedSeries
  <2>4. BarCallInv'
    BY <2>2 DEF BarCall, BarCallInv
  <2> QED
    BY <1>0, <2>3, <2>4, ReadsKeeps, BarCallKeeps
<1> QED
  BY <1>1, <1>2, <1>3

LEMMA BarCallTyped ==
    ASSUME CallInv, call.op \in BarOps
    PROVE  call \in BarCalls /\ BarCallInv
  BY CallKinds DEF CallInv

\* What a route promises of a POSTed timeframe, it can promise: the active
\* feed has bars.
LEMMA PromiseHolds ==
    ASSUME CatalogInv, NEW s \in DOMAIN assets, NEW f, Promised(s, f)
    PROVE  RowsOf(<<assets[s], RestToStorage(f)>>, "tradingview") # {}
<1> DEFINE k == <<assets[s], RestToStorage(f)>>
           p == <<s, assets[s], f>>
<1>1. p \in posted /\ p[2] = assets[s] /\ p[3] = f
  BY DEF Promised
<1>2. k \in DOMAIN feeds
  <2> HIDE DEF p
  <2> QED
    BY <1>1 DEF CatalogInv
<1>3. feeds[k] = "active"
  BY <1>2 DEF Promised
<1>4. k \in Stored
  <2> HIDE DEF k
  <2> QED
    BY <1>2, <1>3 DEF CatalogInv
<1> QED
  BY <1>4 DEF Stored

LEMMA ProfileKeeps ==
    ASSUME CatalogInv, CallInv, Profile
    PROVE  CallInv'
<1>0. Reads
  BY DEF Profile
<1>1. CASE call.symbol \in DOMAIN assets /\ Goes([call EXCEPT !.step = "resolve",
                     !.series = <<assets[call.symbol], RestToStorage(call.frame)>>,
                     !.promised = Promised(call.symbol, call.frame)])
  <2>1. call.op \in BarOps /\ call.step = "profile"
    BY DEF Profile, At, BarOps
  <2>2. call \in BarCalls /\ call.frame \in Frames
    BY <2>1, BarCallTyped DEF BarCallInv
  <2> DEFINE series == <<assets[call.symbol], RestToStorage(call.frame)>>
             promised == Promised(call.symbol, call.frame)
  <2>3. series \in AskedSeries
    <3>1. assets[call.symbol] \in Storages
      BY <1>1 DEF CatalogInv, Range
    <3>2. RestToStorage(call.frame) \in KnownFrames
      BY <2>2, ServingAssumption DEF ServingAssumption
    <3> QED
      BY <3>1, <3>2 DEF AskedSeries
  <2>4. promised \in BOOLEAN /\ (promised => RowsOf(series, "tradingview") # {})
    <3>1. promised \in BOOLEAN
      BY DEF Promised
    <3>2. promised => RowsOf(series, "tradingview") # {}
      BY <1>1, PromiseHolds
    <3> QED
      BY <3>1, <3>2
  <2>5. call' = [call EXCEPT !.step = "resolve", !.series = series, !.promised = promised]
    BY <1>1 DEF Goes
  <2> HIDE DEF series, promised
  <2>6. call' \in BarCalls
    BY <2>2, <2>3, <2>4, <2>5 DEF BarCalls
  <2>7. call'.step = "resolve" /\ call'.series = series /\ call'.promised = promised
    BY <2>2, <2>5 DEF BarCalls
  <2>8. BarCallInv'
    BY <1>0, <2>4, <2>7, ReadsKeeps DEF BarCallInv
  <2> QED
    BY <1>0, <2>6, <2>8, ReadsKeeps, BarCallKeeps
<1>2. CASE Reply(Failed(404))
  BY <1>2, NoCallKeeps DEF Reply
<1> QED
  BY <1>1, <1>2 DEF Profile

\* A provider is found whenever one has bars.
LEMMA ResolveFinds ==
    ASSUME SeriesInv, NEW series
    PROVE  /\ ResolveProvider(series) \in Providers
           /\ AllRows(series) # {} => RowsOf(series, ResolveProvider(series)) # {}
<1> DEFINE present == {i \in DOMAIN PROVIDER_PRECEDENCE :
                         MetaOf(series, PROVIDER_PRECEDENCE[i]) # NoMeta}
<1>1. /\ DOMAIN PROVIDER_PRECEDENCE = {1, 2}
      /\ PROVIDER_PRECEDENCE[1] = "tradingview" /\ PROVIDER_PRECEDENCE[2] = "yahoo"
  BY DEF PROVIDER_PRECEDENCE
<1>2. present \subseteq {1, 2}
  BY <1>1
<1>3. ResolveProvider(series) = PROVIDER_PRECEDENCE[IF present = {} THEN 1 ELSE Min(present)]
  BY Zenon DEF ResolveProvider
<1>4. AllRows(series) # {} => present # {}
  <2>1. ASSUME AllRows(series) # {} PROVE \E p \in Providers : RowsOf(series, p) # {}
    BY <2>1 DEF AllRows
  <2>2. \A p \in Providers : RowsOf(series, p) # {} => MetaOf(series, p) # NoMeta
    BY RowsFacts
  <2> QED
    BY <1>1, <2>1, <2>2 DEF Providers
<1>5. present # {} => Min(present) \in present
  <2> HIDE DEF present
  <2>1. present \subseteq Nat
    BY <1>2
  <2> QED
    BY <2>1, MinExists
<1>6. present # {} => MetaOf(series, ResolveProvider(series)) # NoMeta
  BY <1>3, <1>5
<1>7. ResolveProvider(series) \in Providers
  <2> HIDE DEF present
  <2> QED
    BY <1>1, <1>2, <1>3, <1>5 DEF Providers
<1> QED
  BY <1>4, <1>6, <1>7, RowsFacts

\* The rows of a series, provider by provider.
LEMMA AllRowsTyped ==
    ASSUME SeriesInv, NEW series
    PROVE  /\ AllRows(series) \subseteq Providers \X Nat
           /\ \A p \in Providers : RowsOf(series, p) # {} => AllRows(series) # {}
           /\ \A p, t : <<p, t>> \in AllRows(series) => t \in RowsOf(series, p)
<1>1. \A p \in Providers : RowsOf(series, p) \subseteq Nat
  BY RowsFacts
<1>2. \A row : row \in AllRows(series) <=>
                 \E p \in Providers : row \in {p} \X RowsOf(series, p)
  BY DEF AllRows
<1>3. \A p \in Providers : \A t \in RowsOf(series, p) : <<p, t>> \in AllRows(series)
  BY <1>2
<1>4. \A p, t : <<p, t>> \in AllRows(series) => t \in RowsOf(series, p)
  BY <1>2
<1>5. AllRows(series) \subseteq Providers \X Nat
  BY <1>1, <1>2
<1> QED
  BY <1>3, <1>4, <1>5

LEMMA ResolveKeeps ==
    ASSUME SeriesInv, CallInv, Resolve
    PROVE  CallInv'
<1>0. Reads
  BY DEF Resolve
<1>1. CASE Reply(Failed(INVALID_ARGUMENT))
  BY <1>1, NoCallKeeps DEF Reply
<1>2. CASE /\ call.asked # "other"
           /\ LET p == IF call.asked = "" THEN ResolveProvider(call.series) ELSE call.asked
              IN Goes([call EXCEPT !.step = "read", !.provider = p,
                                   !.before = AllRows(call.series)])
  <2>1. call.op \in BarOps /\ call.step = "resolve"
    BY DEF Resolve, At, BarOps
  <2>2. call \in BarCalls /\ BarCallInv
    BY <2>1, BarCallTyped
  <2> DEFINE p == IF call.asked = "" THEN ResolveProvider(call.series) ELSE call.asked
             seen == AllRows(call.series)
  <2>3. p \in Providers /\ (call.asked = "" /\ seen # {} => RowsOf(call.series, p) # {})
    BY <1>2, <2>2, ResolveFinds DEF BarCalls
  <2>4. /\ seen \subseteq Providers \X Nat
        /\ call.promised => seen # {}
    BY <2>1, <2>2, AllRowsTyped DEF BarCallInv, Providers
  <2>5. call' = [call EXCEPT !.step = "read", !.provider = p, !.before = seen]
    BY <1>2 DEF Goes
  <2>6. seen = AllRows(call.series)
    OBVIOUS
  <2> HIDE DEF p, seen
  <2>7. call' \in BarCalls
    BY <2>2, <2>3, <2>4, <2>5 DEF BarCalls
  <2>8. /\ call'.step = "read" /\ call'.provider = p /\ call'.before = seen
        /\ call'.series = call.series /\ call'.promised = call.promised
        /\ call'.asked = call.asked
    BY <2>2, <2>5 DEF BarCalls
  <2>9. BarCallInv'
    BY <1>0, <2>3, <2>4, <2>6, <2>8, ReadsKeeps DEF BarCallInv
  <2> QED
    BY <1>0, <2>7, <2>9, ReadsKeeps, BarCallKeeps
<1> QED
  BY <1>1, <1>2 DEF Resolve

LEMMA ReadCountKeeps ==
    ASSUME SeriesInv, CallInv, ReadCount
    PROVE  CallInv'
<1>0. Reads
  BY DEF ReadCount
<1>1. call.op = "health" /\ call.step = "read" /\ call \in BarCalls /\ BarCallInv
  BY BarCallTyped DEF ReadCount, At, BarOps
<1> DEFINE meta == MetaOf(call.series, call.provider)
           count == IF meta = NoMeta THEN 0 ELSE meta.count
<1>2. count \in Nat /\ count <= Cardinality(RowsOf(call.series, call.provider))
  BY RowsFacts
<1>3. call' = [call EXCEPT !.step = "last", !.count = count]
  BY DEF ReadCount, Goes
<1> HIDE DEF count
<1>4. call' \in BarCalls
  BY <1>1, <1>2, <1>3 DEF BarCalls
<1>5. /\ call'.step = "last" /\ call'.count = count /\ call'.op = "health"
      /\ call'.series = call.series /\ call'.provider = call.provider
      /\ call'.before = call.before /\ call'.promised = call.promised
      /\ call'.asked = call.asked
  BY <1>1, <1>3 DEF BarCalls
<1>6. BarCallInv'
  BY <1>0, <1>1, <1>2, <1>5, ReadsKeeps DEF BarCallInv
<1> QED
  BY <1>0, <1>4, <1>6, ReadsKeeps, BarCallKeeps

-----------------------------------------------------------------------------
(* Pages *)

Ascending(seq) == \A i, j \in DOMAIN seq : i < j => seq[i] < seq[j]

\* Every finite set of symbols can be listed in order: a minimal one that
\* cannot would not be empty, and its greatest symbol could be left for last.
LEMMA OrderedExists ==
    ASSUME NEW S, S \subseteq Nat, IsFiniteSet(S)
    PROVE  \E seq \in [1..Cardinality(S) -> S] : Ascending(seq)
<1> DEFINE Orderable(T) == \E seq \in [1..Cardinality(T) -> T] : Ascending(seq)
           Bad == {T \in FiniteSubsetsOf(S) : ~ Orderable(T)}
<1>1. Bad = {}
  <2> SUFFICES ASSUME Bad # {} PROVE FALSE
    OBVIOUS
  <2>1. Bad \subseteq FiniteSubsetsOf(S)
    OBVIOUS
  <2>2. PICK T \in Bad : \A U \in Bad : ~ (<<U, T>> \in StrictSubsetOrdering(S))
    <3> HIDE DEF Bad
    <3> QED
      BY <2>1, FS_StrictSubsetOrderingWellFounded, WFMin
  <2>3. T \subseteq S /\ T \subseteq Nat /\ IsFiniteSet(T) /\ ~ Orderable(T)
    BY <2>2 DEF FiniteSubsetsOf
  <2>4. T # {}
    <3> SUFFICES ASSUME T = {} PROVE Orderable(T)
      BY <2>3
    <3>1. 1..Cardinality(T) = {}
      BY FS_EmptySet
    <3>2. [i \in {} |-> 0] \in [1..Cardinality(T) -> T] /\ Ascending([i \in {} |-> 0])
      BY <3>1 DEF Ascending
    <3> QED
      BY <3>2
  <2> DEFINE m == Max(T)
             U == T \ {m}
  <2>5. m \in T /\ m \in Nat /\ \A t \in T : m >= t
    BY <2>3, <2>4, FiniteMax
  <2> HIDE DEF m
  <2>6. IsFiniteSet(U) /\ Cardinality(T) = Cardinality(U) + 1 /\ Cardinality(U) \in Nat
    <3>1. IsFiniteSet(U) /\ Cardinality(U) = Cardinality(T) - 1
      BY <2>3, <2>5, FS_RemoveElement
    <3>2. Cardinality(U) \in Nat /\ Cardinality(T) \in Nat
      BY <2>3, <3>1, FS_CardinalityType
    <3> QED
      BY <3>1, <3>2
  <2>7. Orderable(U)
    <3>1. <<U, T>> \in StrictSubsetOrdering(S) /\ U \in FiniteSubsetsOf(S)
      BY <2>3, <2>5, <2>6 DEF FiniteSubsetsOf, StrictSubsetOrdering
    <3>2. U \notin Bad
      <4> HIDE DEF Bad
      <4> QED
        BY <2>2, <3>1
    <3> QED
      BY <3>1, <3>2
  <2>8. PICK seq \in [1..Cardinality(U) -> U] : Ascending(seq)
    BY <2>7
  <2> DEFINE n == Cardinality(U)
             longer == [i \in 1..n + 1 |-> IF i = n + 1 THEN m ELSE seq[i]]
  <2>9. n \in Nat /\ Cardinality(T) = n + 1 /\ seq \in [1..n -> U] /\ Ascending(seq)
    BY <2>6, <2>8
  <2> HIDE DEF n
  <2>0. \A i \in 1..n : longer[i] = seq[i] /\ seq[i] \in U /\ i # n + 1
    <3> SUFFICES ASSUME NEW i \in 1..n PROVE longer[i] = seq[i] /\ seq[i] \in U /\ i # n + 1
      OBVIOUS
    <3>1. i \in 1..n + 1 /\ i # n + 1
      BY <2>9
    <3> QED
      BY <2>9, <3>1
  <2>10. longer \in [1..n + 1 -> T]
    <3> SUFFICES ASSUME NEW i \in 1..n + 1 PROVE (IF i = n + 1 THEN m ELSE seq[i]) \in T
      OBVIOUS
    <3>1. i = n + 1 \/ i \in 1..n
      BY <2>9
    <3> QED
      BY <2>0, <2>5, <3>1
  <2>11. Ascending(longer)
    <3> SUFFICES ASSUME NEW i \in 1..n + 1, NEW j \in 1..n + 1, i < j
                 PROVE  longer[i] < longer[j]
      BY <2>10 DEF Ascending
    <3>0. i \in 1..n
      BY <2>9
    <3>1. i \in 1..n /\ longer[i] = seq[i] /\ seq[i] \in U
      BY <2>0, <3>0
    <3>2. CASE j = n + 1
      <4>1. seq[i] \in Nat /\ seq[i] # m /\ m >= seq[i]
        BY <2>3, <2>5, <3>1
      <4> QED
        BY <2>5, <2>9, <3>1, <3>2, <4>1
    <3>3. CASE j # n + 1
      <4>1. j \in 1..n /\ longer[j] = seq[j]
        BY <2>9, <3>3
      <4> QED
        BY <2>9, <3>1, <4>1 DEF Ascending
    <3> QED
      BY <3>2, <3>3
  <2> HIDE DEF longer
  <2> QED
    BY <2>3, <2>9, <2>10, <2>11
<1>2. S \in FiniteSubsetsOf(S)
  BY DEF FiniteSubsetsOf
<1> HIDE DEF Orderable
<1>3. Orderable(S)
  BY <1>1, <1>2
<1> QED
  BY <1>3 DEF Orderable

\* ORDER BY shows every symbol once, in order.
LEMMA OrderedFacts ==
    ASSUME NEW S, S \subseteq Nat, IsFiniteSet(S)
    PROVE  /\ Cardinality(S) \in Nat
           /\ Ordered(S) \in [1..Cardinality(S) -> S]
           /\ Ascending(Ordered(S))
           /\ \A s \in S : \E i \in 1..Cardinality(S) : Ordered(S)[i] = s
<1> DEFINE n == Cardinality(S)
           seq == Ordered(S)
<1>1. n \in Nat
  BY FS_CardinalityType
<1>2. seq \in [1..n -> S] /\ Ascending(seq)
  <2>1. seq = CHOOSE q \in [1..n -> S] : Ascending(q)
    BY Zenon DEF Ordered, Ascending
  <2> HIDE DEF seq
  <2> QED
    BY <2>1, OrderedExists
<1> HIDE DEF n, seq
<1>3. \A i, j \in 1..n : i # j => seq[i] # seq[j]
  <2> SUFFICES ASSUME NEW i \in 1..n, NEW j \in 1..n, i # j PROVE seq[i] # seq[j]
    OBVIOUS
  <2>1. seq[i] \in Nat /\ seq[j] \in Nat
    BY <1>2
  <2>2. i < j \/ j < i
    BY <1>1
  <2>3. seq[i] < seq[j] \/ seq[j] < seq[i]
    BY <1>2, <2>2 DEF Ascending
  <2> QED
    BY <2>1, <2>3
<1>4. seq \in Injection(1..n, S)
  BY <1>2, <1>3 DEF Injection, IsInjective
<1>5. IsFiniteSet(1..n) /\ Cardinality(1..n) = n
  BY <1>1, FS_Interval
<1>6. seq \in Surjection(1..n, S)
  BY <1>4, <1>5, FS_Injection DEF n
<1>7. \A s \in S : \E i \in 1..n : seq[i] = s
  BY <1>6 DEF Surjection
<1> QED
  BY <1>1, <1>2, <1>7 DEF n, seq

\* A page: its symbols in order, and either all that are left or those up to
\* the cursor it returns.
LEMMA PageFacts ==
    ASSUME CatalogInv, NEW filter, NEW cursor \in Nat,
           NEW S, S = {s \in DOMAIN assets \cap filter : s > cursor},
           NEW page, page = Page(filter, cursor)
    PROVE  /\ page.shown \in Seq(S) /\ Ascending(page.shown)
           /\ page.next = 0 => S \subseteq Range(page.shown)
           /\ page.next # 0 =>
                /\ page.next \in S
                /\ \A s \in Range(page.shown) : s <= page.next
                /\ \A s \in S : s <= page.next => s \in Range(page.shown)
<1>0. S \subseteq Nat \ {0} /\ IsFiniteSet(S) /\ PageLimit \in Nat \ {0}
  BY FS_Subset, ServingAssumption DEF CatalogInv, ServingAssumption
<1> DEFINE sorted == Ordered(S)
           n == Cardinality(S)
           fetched == UpTo(sorted, PageLimit + 1)
<1>1. /\ n \in Nat /\ sorted \in [1..n -> S] /\ Ascending(sorted)
      /\ \A s \in S : \E i \in 1..n : sorted[i] = s
  BY <1>0, OrderedFacts
<1>2. /\ page.shown = UpTo(fetched, PageLimit)
      /\ page.next = IF Len(fetched) > PageLimit THEN fetched[PageLimit] ELSE 0
  BY DEF Page
<1> HIDE DEF sorted, n
<1>3. sorted \in Seq(S) /\ Len(sorted) = n
  BY <1>1
<1>4. \A i, j \in 1..n : i < j => sorted[i] < sorted[j]
  BY <1>1 DEF Ascending
<1>5. \A i \in 1..n : sorted[i] \in S /\ sorted[i] \in Nat /\ sorted[i] # 0
  BY <1>0, <1>1
<1>6. CASE n <= PageLimit
  <2>1. fetched = sorted /\ page.shown = sorted /\ page.next = 0
    BY <1>0, <1>2, <1>3, <1>6, <1>1 DEF UpTo
  <2>2. S \subseteq Range(sorted)
    BY <1>1 DEF Range
  <2> QED
    BY <1>1, <1>3, <2>1, <2>2
<1>7. CASE n > PageLimit
  <2>1. /\ fetched \in Seq(S) /\ Len(fetched) = PageLimit + 1
        /\ \A i \in 1..PageLimit + 1 : fetched[i] = sorted[i]
    BY <1>0, <1>1, <1>3, <1>7 DEF UpTo
  <2>2. page.shown = SubSeq(fetched, 1, PageLimit) /\ page.next = fetched[PageLimit]
    BY <1>0, <1>2, <2>1 DEF UpTo
  <2>3. /\ page.shown \in Seq(S) /\ Len(page.shown) = PageLimit
        /\ \A i \in 1..PageLimit : page.shown[i] = sorted[i]
    <3> HIDE DEF fetched
    <3> QED
      BY <1>0, <2>1, <2>2
  <2>4. page.next = sorted[PageLimit] /\ PageLimit \in 1..n
    BY <1>0, <1>1, <1>7, <2>1, <2>2, SMTT(30)
  <2> HIDE DEF fetched
  <2>5. DOMAIN page.shown = 1..PageLimit
    BY <2>3
  <2>6. Ascending(page.shown)
    <3> SUFFICES ASSUME NEW i \in 1..PageLimit, NEW j \in 1..PageLimit, i < j
                 PROVE  page.shown[i] < page.shown[j]
      BY <2>5 DEF Ascending
    <3>1. i \in 1..n /\ j \in 1..n
      BY <1>0, <1>1, <1>7
    <3> QED
      BY <1>4, <2>3, <3>1
  <2>7. page.next \in S /\ page.next # 0
    BY <1>5, <2>4
  <2>8. \A s \in Range(page.shown) : s <= page.next
    <3> SUFFICES ASSUME NEW i \in 1..PageLimit PROVE page.shown[i] <= page.next
      BY <2>5 DEF Range
    <3>1. i \in 1..n /\ (i = PageLimit \/ i < PageLimit)
      BY <1>0, <1>1, <1>7
    <3> QED
      BY <1>4, <1>5, <2>3, <2>4, <3>1
  <2>9. ASSUME NEW s \in S, s <= page.next PROVE s \in Range(page.shown)
    <3>1. PICK i \in 1..n : sorted[i] = s
      BY <1>1
    <3>2. i <= PageLimit
      <4> SUFFICES ASSUME PageLimit < i PROVE FALSE
        BY <1>0, <1>1
      <4>1. sorted[PageLimit] < sorted[i]
        BY <1>4, <2>4
      <4> QED
        BY <1>5, <2>4, <2>9, <3>1, <4>1
    <3>3. i \in 1..PageLimit /\ page.shown[i] = s
      BY <1>0, <1>1, <2>3, <3>1, <3>2, SMTT(30)
    <3> QED
      BY <2>5, <3>3 DEF Range
  <2> QED
    BY <2>3, <2>6, <2>7, <2>8, <2>9
<1> QED
  BY <1>0, <1>1, <1>6, <1>7

\* MAX(last_bar_ts) over the feeds of an asset.
LEMMA LastBarFacts ==
    ASSUME SeriesInv, CatalogInv, NEW storage
    PROVE  /\ LastBar(storage) \in Nat
           /\ \A k \in FeedsOf(storage) : k \in Stored => LastBar(storage) > 0
<1> DEFINE filled == {kp \in FeedsOf(storage) \X Providers : MetaOf(kp[1], kp[2]) # NoMeta}
           last == [kp \in filled |-> MetaOf(kp[1], kp[2]).last]
           lasts == {MetaOf(kp[1], kp[2]).last : kp \in filled}
<1>1. IsFiniteSet(filled)
  <2>1. IsFiniteSet(Providers)
    <3>1. Providers = {"tradingview"} \cup {"yahoo"}
      BY DEF Providers
    <3>2. IsFiniteSet({"tradingview"})
      BY FS_Singleton
    <3> QED
      BY <3>1, <3>2, FS_AddElement
  <2>2. IsFiniteSet(FeedsOf(storage))
    BY FS_Subset DEF CatalogInv, FeedsOf
  <2>3. IsFiniteSet(FeedsOf(storage) \X Providers)
    BY <2>1, <2>2, FS_Product
  <2>4. filled \in SUBSET (FeedsOf(storage) \X Providers)
    OBVIOUS
  <2> HIDE DEF filled
  <2> QED
    BY <2>3, <2>4, FS_Subset
<1>2. \A kp \in filled : MetaOf(kp[1], kp[2]).last \in Nat \ {0}
  BY RowsFacts
<1>3. last \in Surjection(filled, lasts)
  <2> HIDE DEF filled
  <2> QED
    BY DEF Surjection
<1>4. IsFiniteSet(lasts)
  <2> HIDE DEF filled, last, lasts
  <2> QED
    BY <1>1, <1>3, FS_Surjection
<1>5. lasts \subseteq Nat
  <2> HIDE DEF filled
  <2> QED
    BY <1>2
<1>6. IsFiniteSet({0} \cup lasts)
  <2> HIDE DEF lasts
  <2>1. {0} \cup lasts = lasts \cup {0}
    OBVIOUS
  <2> QED
    BY <1>4, <2>1, FS_AddElement
<1>7. LastBar(storage) = Max({0} \cup lasts)
  BY Zenon DEF LastBar
<1>8. \A t \in {0} \cup lasts : LastBar(storage) >= t
  <2> HIDE DEF lasts
  <2>1. {0} \cup lasts \subseteq Nat /\ {0} \cup lasts # {}
    BY <1>5
  <2> QED
    BY <1>6, <1>7, <2>1, FiniteMax
<1>9. LastBar(storage) \in {0} \cup lasts
  <2> HIDE DEF lasts
  <2>1. {0} \cup lasts \subseteq Nat /\ {0} \cup lasts # {}
    BY <1>5
  <2> QED
    BY <1>6, <1>7, <2>1, FiniteMax
<1>10. LastBar(storage) \in Nat
  <2>1. CASE LastBar(storage) \in lasts
    BY <1>5, <2>1
  <2>2. CASE LastBar(storage) = 0
    BY <2>2
  <2> HIDE DEF lasts
  <2> QED
    BY <1>9, <2>1, <2>2
<1>11. ASSUME NEW k \in FeedsOf(storage), k \in Stored
       PROVE  LastBar(storage) > 0
  <2> DEFINE kp == <<k, "tradingview">>
  <2>1. MetaOf(k, "tradingview") # NoMeta
    BY <1>11, RowsFacts DEF Stored
  <2>2. kp \in filled /\ MetaOf(kp[1], kp[2]).last \in lasts
    BY <2>1 DEF Providers
  <2>3. MetaOf(kp[1], kp[2]).last \in Nat \ {0}
    BY <1>2, <2>2
  <2> HIDE DEF lasts, filled, kp
  <2>4. LastBar(storage) >= MetaOf(kp[1], kp[2]).last
    BY <1>8, <2>2
  <2> QED
    BY <1>10, <2>3, <2>4
<1> QED
  BY <1>10, <1>11

\* A row of a page or of a 409.
LEMMA ShownFacts ==
    ASSUME SeriesInv, CatalogInv, NEW s \in DOMAIN assets
    PROVE  Shown(s) \in ShownRows /\ (Shown(s).status = "active" => Shown(s).last > 0)
<1> DEFINE storage == assets[s]
           statuses == {feeds[k] : k \in FeedsOf(storage)}
<1>1. Status(storage) =
        CASE "active" \in statuses -> "active"
          [] "active" \notin statuses /\ "pending" \in statuses -> "pending"
          [] statuses = {"inactive"} -> "inactive"
          [] OTHER -> "pending"
  BY Zenon DEF Status
<1>2. Status(storage) \in Statuses /\ (Status(storage) = "active" => "active" \in statuses)
  <2> HIDE DEF statuses
  <2>1. CASE "active" \in statuses
    BY <1>1, <2>1 DEF Statuses
  <2>2. CASE "active" \notin statuses /\ "pending" \in statuses
    BY <1>1, <2>2 DEF Statuses
  <2>3. CASE "active" \notin statuses /\ "pending" \notin statuses
    BY <1>1, <2>3 DEF Statuses
  <2> QED
    BY <2>1, <2>2, <2>3
<1>3. Status(storage) = "active" => LastBar(storage) > 0
  <2> SUFFICES ASSUME Status(storage) = "active" PROVE LastBar(storage) > 0
    OBVIOUS
  <2>1. PICK k \in FeedsOf(storage) : feeds[k] = "active"
    BY <1>2
  <2>2. k \in Stored
    BY <2>1 DEF CatalogInv, FeedsOf
  <2> QED
    BY <2>1, <2>2, LastBarFacts
<1>4. LastBar(storage) \in Nat
  BY LastBarFacts
<1>5. s \in Symbols
  BY DEF CatalogInv
<1> HIDE DEF statuses
<1> QED
  BY <1>2, <1>3, <1>4, <1>5 DEF Shown, ShownRows

\* A sequence over a set is one over a larger set.
LEMMA SeqWider ==
    ASSUME NEW S, NEW T, S \subseteq T, NEW q \in Seq(S)
    PROVE  q \in Seq(T)
<1>1. PICK n \in Nat : q \in [1..n -> S]
  OBVIOUS
<1>2. q \in [1..n -> T]
  BY <1>1
<1> QED
  BY <1>2

\* A walk goes on in order when its next page starts behind the cursor.
LEMMA ConcatFacts ==
    ASSUME NEW p \in Seq(Nat), NEW q \in Seq(Nat), NEW w, w = p \o q, NEW c \in Nat,
           Ascending(p), Ascending(q),
           \A s \in Range(p) : s <= c, \A s \in Range(q) : s > c
    PROVE  w \in Seq(Nat) /\ Range(w) = Range(p) \cup Range(q) /\ Ascending(w)
<1> DEFINE a == Len(p)
           b == Len(q)
<1>1. a \in Nat /\ b \in Nat /\ DOMAIN p = 1..a /\ DOMAIN q = 1..b
  OBVIOUS
<1>2. w \in Seq(Nat) /\ DOMAIN w = 1..(a + b)
  OBVIOUS
<1>3. \A i \in 1..a : w[i] = p[i] /\ p[i] \in Nat
  OBVIOUS
<1>4. \A i \in 1..b : w[i + a] = q[i] /\ q[i] \in Nat
  OBVIOUS
<1>5. \A i \in 1..(a + b) : i > a => w[i] = q[i - a] /\ i - a \in 1..b
  OBVIOUS
<1> HIDE DEF a, b
<1>6. Range(w) = {w[i] : i \in 1..(a + b)}
  BY <1>2 DEF Range
<1>7. Range(p) = {p[i] : i \in 1..a} /\ Range(q) = {q[i] : i \in 1..b}
  BY <1>1 DEF Range
<1>8. Range(w) = Range(p) \cup Range(q)
  <2>1. ASSUME NEW i \in 1..(a + b) PROVE w[i] \in Range(p) \cup Range(q)
    <3>1. i \in 1..a \/ i > a
      BY <1>1
    <3> QED
      BY <1>3, <1>5, <1>7, <3>1
  <2>2. ASSUME NEW i \in 1..a PROVE p[i] \in Range(w)
    <3>1. i \in 1..(a + b)
      BY <1>1
    <3> QED
      BY <1>3, <1>6, <3>1
  <2>3. ASSUME NEW i \in 1..b PROVE q[i] \in Range(w)
    <3>1. i + a \in 1..(a + b)
      BY <1>1
    <3> QED
      BY <1>4, <1>6, <3>1
  <2> QED
    BY <1>6, <1>7, <2>1, <2>2, <2>3, ZenonT(30)
<1>9. Ascending(w)
  <2> SUFFICES ASSUME NEW i \in 1..(a + b), NEW j \in 1..(a + b), i < j
               PROVE  w[i] < w[j]
    BY <1>2 DEF Ascending
  <2>0. (i \in 1..a \/ i > a) /\ (j \in 1..a \/ j > a)
    BY <1>1
  <2>1. CASE i \in 1..a /\ j \in 1..a
    BY <1>1, <1>3, <2>1 DEF Ascending
  <2>2. CASE i \in 1..a /\ j > a
    <3>1. w[i] = p[i] /\ p[i] \in Nat /\ p[i] <= c
      BY <1>3, <1>7, <2>2
    <3>2. j - a \in 1..b /\ w[j] = q[j - a]
      BY <1>5, <2>2
    <3>3. q[j - a] > c /\ q[j - a] \in Nat
      BY <1>1, <1>4, <1>7, <3>2
    <3> QED
      BY <3>1, <3>2, <3>3, SMTT(30)
  <2>3. CASE i > a
    <3>0. j > a
      BY <1>1, <2>3
    <3>1. i - a \in 1..b /\ j - a \in 1..b /\ i - a < j - a
      BY <1>1, <2>3, <3>0
    <3>2. w[i] = q[i - a] /\ w[j] = q[j - a]
      BY <1>5, <2>3, <3>0
    <3>3. \A k, l \in 1..b : k < l => q[k] < q[l]
      BY <1>1 DEF Ascending
    <3>4. q[i - a] < q[j - a]
      BY <3>1, <3>3
    <3> QED
      BY <3>2, <3>4
  <2> QED
    BY <1>1, <2>0, <2>1, <2>2, <2>3
<1> QED
  BY <1>2, <1>8, <1>9

\* One more page of a walk.
LEMMA WalkFacts ==
    ASSUME SeriesInv, CatalogInv, CallInv, At({"list"}, "page"),
           NEW page, page = Page(call.filter, call.cursor),
           NEW walked, walked = call.walked \o page.shown,
           NEW shown, shown = {Shown(s) : s \in Range(page.shown)}
    PROVE  /\ call \in ListCalls
           /\ walked \in Seq(Nat) /\ Ascending(walked)
           /\ shown \subseteq ShownRows /\ \A r \in shown : r.status = "active" => r.last > 0
           /\ page.next = 0 => call.present \subseteq Range(walked)
           /\ page.next # 0 =>
                /\ page.next \in Nat
                /\ \A s \in Range(walked) : s <= page.next
                /\ \A s \in call.present : s <= page.next => s \in Range(walked)
<1> DEFINE S == {s \in DOMAIN assets \cap call.filter : s > call.cursor}
<1>1. call \in ListCalls /\ ListCallInv /\ call.op = "list"
  BY CallKinds DEF CallInv, At
<1>2. call.cursor \in Nat /\ call.walked \in Seq(Nat) /\ call.present \subseteq Symbols
  BY <1>1 DEF ListCalls
<1>3. S \subseteq DOMAIN assets /\ \A s \in S : s > call.cursor
  OBVIOUS
<1>4. S \subseteq Nat /\ DOMAIN assets \subseteq Nat
  BY ServingAssumption DEF CatalogInv, ServingAssumption
<1>5. \A s \in DOMAIN assets \cap call.filter : s > call.cursor => s \in S
  OBVIOUS
<1>0. S = {s \in DOMAIN assets \cap call.filter : s > call.cursor}
  OBVIOUS
<1> HIDE DEF S
<1>6. /\ page.shown \in Seq(S) /\ Ascending(page.shown)
      /\ page.next = 0 => S \subseteq Range(page.shown)
      /\ page.next # 0 =>
           /\ page.next \in S
           /\ \A s \in Range(page.shown) : s <= page.next
           /\ \A s \in S : s <= page.next => s \in Range(page.shown)
  BY <1>0, <1>2, PageFacts, ZenonT(30)
<1>7. \A s \in Range(page.shown) : s \in S
  BY <1>6 DEF Range
<1>8. \A s \in Range(call.walked) : s \in Nat /\ s <= call.cursor
  BY <1>1, <1>2 DEF ListCallInv, Range
<1>9. /\ walked \in Seq(Nat) /\ Ascending(walked)
      /\ Range(walked) = Range(call.walked) \cup Range(page.shown)
  <2>1. page.shown \in Seq(Nat)
    BY <1>4, <1>6, SeqWider
  <2>2. Ascending(call.walked)
    BY <1>1 DEF ListCallInv, Ascending
  <2>3. \A s \in Range(page.shown) : s > call.cursor
    BY <1>3, <1>7
  <2>4. \A s \in Range(call.walked) : s <= call.cursor
    BY <1>8
  <2>5. call.walked \in Seq(Nat) /\ call.cursor \in Nat /\ Ascending(page.shown)
    BY <1>2, <1>6
  <2>6. \A p, q \in Seq(Nat) : \A c \in Nat :
          /\ Ascending(p) /\ Ascending(q)
          /\ \A s \in Range(p) : s <= c
          /\ \A s \in Range(q) : s > c
          => p \o q \in Seq(Nat) /\ Range(p \o q) = Range(p) \cup Range(q)
             /\ Ascending(p \o q)
    BY ConcatFacts
  <2>7. walked = call.walked \o page.shown
    OBVIOUS
  <2> QED
    BY ONLY <2>1, <2>2, <2>3, <2>4, <2>5, <2>6, <2>7
<1>10. shown \subseteq ShownRows /\ \A r \in shown : r.status = "active" => r.last > 0
  BY <1>3, <1>7, ShownFacts
<1>11. \A s \in call.present :
         /\ s \in DOMAIN assets \cap call.filter /\ s \in Nat
         /\ s <= call.cursor => s \in Range(call.walked)
  BY <1>1, <1>4 DEF ListCallInv
<1>12. \A s \in call.present : s \in Range(call.walked) \/ s \in S
  BY <1>2, <1>5, <1>11
<1>13. page.next = 0 => call.present \subseteq Range(walked)
  BY <1>6, <1>9, <1>12
<1>14. ASSUME page.next # 0
       PROVE  /\ page.next \in Nat
              /\ \A s \in Range(walked) : s <= page.next
              /\ \A s \in call.present : s <= page.next => s \in Range(walked)
  <2>1. page.next \in Nat /\ page.next > call.cursor
    BY <1>3, <1>4, <1>6, <1>14
  <2>2. \A s \in Range(call.walked) : s <= page.next
    BY <1>2, <1>8, <2>1
  <2> QED
    BY <1>6, <1>7, <1>9, <1>12, <1>14, <2>1, <2>2
<1> QED
  BY <1>1, <1>9, <1>10, <1>13, <1>14
\* The same for a walk ...
LEMMA ListCallKeeps ==
    ASSUME call' \in ListCalls', ListCallInv'
    PROVE  CallInv'
<1>1. call'.op = "list"
  BY DEF ListCalls
<1>2. BarCallInv' /\ AuditCallInv' /\ PostCallInv'
  BY <1>1 DEF BarOps, BarCallInv, AuditCallInv, PostCallInv
<1> QED
  BY <1>2 DEF CallInv, CallType

\* ... and for an audit.
LEMMA AuditCallKeeps ==
    ASSUME call' \in AuditCalls', AuditCallInv'
    PROVE  CallInv'
<1>1. call'.op = "audit"
  BY DEF AuditCalls
<1>2. BarCallInv' /\ ListCallInv' /\ PostCallInv'
  BY <1>1 DEF BarOps, BarCallInv, ListCallInv, PostCallInv
<1> QED
  BY <1>2 DEF CallInv, CallType

LEMMA AskListKeeps ==
    ASSUME CatalogInv, AskList
    PROVE  CallInv'
<1>0. Reads
  BY DEF AskList
<1>1. PICK filter \in Filters :
        call' = [op |-> "list", step |-> "page", filter |-> filter, cursor |-> 0,
                 walked |-> <<>>, present |-> DOMAIN assets \cap filter, page |-> {}]
  BY DEF AskList, Ask
<1>2. DOMAIN assets \subseteq Symbols /\ Symbols \subseteq Nat \ {0}
  BY ServingAssumption DEF CatalogInv, ServingAssumption
<1>3. call' \in ListCalls
  <2>1. <<>> \in Seq(Nat) /\ 0 \in Nat /\ {} \in SUBSET ShownRows
    OBVIOUS
  <2>2. DOMAIN assets \cap filter \in SUBSET Symbols
    BY <1>2
  <2> QED
    BY <1>1, <2>1, <2>2 DEF ListCalls
<1>4. /\ call'.walked = <<>> /\ call'.cursor = 0 /\ call'.filter = filter
      /\ call'.present = DOMAIN assets \cap filter
  BY <1>1
<1>5. ListCallInv'
  BY <1>0, <1>2, <1>4, ReadsKeeps DEF ListCallInv, Range
<1> QED
  BY <1>0, <1>3, <1>5, ReadsKeeps, ListCallKeeps

LEMMA ListPageKeeps ==
    ASSUME SeriesInv, CatalogInv, CallInv, ListPage
    PROVE  CallInv'
<1>0. Reads /\ At({"list"}, "page")
  BY DEF ListPage
<1> DEFINE page == Page(call.filter, call.cursor)
           walked == call.walked \o page.shown
           shown == {Shown(s) : s \in Range(page.shown)}
<1>1. /\ call \in ListCalls
      /\ walked \in Seq(Nat) /\ Ascending(walked)
      /\ shown \subseteq ShownRows /\ \A r \in shown : r.status = "active" => r.last > 0
      /\ page.next = 0 => call.present \subseteq Range(walked)
      /\ page.next # 0 =>
           /\ page.next \in Nat
           /\ \A s \in Range(walked) : s <= page.next
           /\ \A s \in call.present : s <= page.next => s \in Range(walked)
  BY <1>0, WalkFacts, Zenon
<1>2. ListCallInv /\ call.op = "list"
  BY <1>0 DEF CallInv, At
<1>3. CASE page.next = 0
  BY <1>3, NoCallKeeps DEF ListPage, Reply
<1>4. CASE page.next # 0
  <2>1. call' = [call EXCEPT !.cursor = page.next, !.walked = walked, !.page = shown]
    BY <1>4 DEF ListPage, Goes
  <2> HIDE DEF page, walked, shown
  <2>2. call' \in ListCalls
    BY <1>1, <1>4, <2>1 DEF ListCalls
  <2>3. /\ call'.cursor = page.next /\ call'.walked = walked
        /\ call'.present = call.present /\ call'.filter = call.filter
    BY <1>1, <2>1 DEF ListCalls
  <2>4. ListCallInv'
    <3>1. call.present \subseteq DOMAIN assets \cap call.filter
      BY <1>2 DEF ListCallInv
    <3> QED
      BY <1>0, <1>1, <1>4, <2>3, <3>1, ReadsKeeps DEF ListCallInv, Ascending
  <2> QED
    BY <1>0, <2>2, <2>4, ReadsKeeps, ListCallKeeps
<1> QED
  BY <1>3, <1>4

LEMMA PostExistsKeeps ==
    ASSUME CatalogInv, PostExists
    PROVE  CallInv'
<1>0. Reads
  BY DEF PostExists
<1>1. PICK b \in Posts : /\ b.symbol \in DOMAIN assets
                         /\ call' = [op |-> "post", step |-> "reread", symbol |-> b.symbol]
  BY DEF PostExists, Ask
<1>2. call' \in PostCalls /\ call'.op = "post" /\ call'.symbol \in DOMAIN assets
  BY <1>1 DEF PostCalls, CatalogInv
<1>3. BarCallInv' /\ ListCallInv' /\ AuditCallInv'
  BY <1>2 DEF BarOps, BarCallInv, ListCallInv, AuditCallInv
<1>4. PostCallInv'
  BY <1>0, <1>2, ReadsKeeps DEF PostCallInv
<1> QED
  BY <1>0, <1>2, <1>3, <1>4, ReadsKeeps DEF CallInv, CallType

LEMMA AuditsKeep ==
    ASSUME SeriesInv, CallInv, AskAudit \/ AuditCombos
    PROVE  CallInv'
<1>0. Reads
  BY DEF AskAudit, AuditCombos
<1>1. CASE AskAudit
  <2>1. PICK series \in AllSeries :
          call' = [op |-> "audit", step |-> "combos", series |-> series,
                   before |-> {}, problems |-> {}]
    BY <1>1 DEF AskAudit, Ask
  <2>2. call' \in AuditCalls /\ AuditCallInv'
    BY <2>1 DEF AuditCalls, AuditCallInv
  <2> QED
    BY <1>0, <2>2, ReadsKeeps, AuditCallKeeps
<1>2. CASE AuditCombos
  <2> DEFINE seen == AllRows(call.series)
             gaps == GapProblems(seen, Secs)
  <2>1. call.op = "audit" /\ call \in AuditCalls
    BY <1>2, CallKinds DEF AuditCombos, At, CallInv
  <2>2. gaps \subseteq {"gaps", "extras"}
    BY DEF GapProblems
  <2>3. seen \subseteq Providers \X Nat
    BY AllRowsTyped
  <2>4. call' = [call EXCEPT !.step = "off_grid", !.before = seen, !.problems = gaps]
    BY <1>2 DEF AuditCombos, Goes
  <2>5. seen = AllRows(call.series) /\ gaps = GapProblems(seen, Secs)
    OBVIOUS
  <2> HIDE DEF gaps, seen
  <2>6. call' \in AuditCalls
    BY <2>1, <2>2, <2>3, <2>4 DEF AuditCalls
  <2>7. /\ call'.before = seen /\ call'.problems = gaps /\ call'.series = call.series
    BY <2>1, <2>4 DEF AuditCalls
  <2>8. AuditCallInv'
    BY <1>0, <2>5, <2>7, ReadsKeeps DEF AuditCallInv
  <2> QED
    BY <1>0, <2>6, <2>8, ReadsKeeps, AuditCallKeeps
<1> QED
  BY <1>1, <1>2

\* What a request has seen stays sound over every step.
LEMMA CallsKeep ==
    ASSUME SeriesInv, CatalogInv, CallInv, [Next]_vars
    PROVE  CallInv'
<1>0. SeriesInv' /\ Grown /\ CatalogGrown
  BY TablesKeep
<1>1. ASSUME UNCHANGED call PROVE CallInv'
  BY <1>0, <1>1, WaitingKeeps
<1>2. ASSUME call' = [op |-> "none"] PROVE CallInv'
  BY <1>2, NoCallKeeps
<1>3. CASE AskQuote \/ AskHistorical \/ AskBars
  BY <1>3, AsksBars
<1>4. CASE BadRange \/ ProfileFails \/ BarRpcFails \/ ReadRecent \/ ReadRange \/ ReadLast
           \/ Healthcheck
  BY <1>2, <1>4 DEF BadRange, ProfileFails, BarRpcFails, ReadRecent, ReadRange, ReadLast,
                    Healthcheck, Reply
<1>5. CASE ListFails \/ GetProfile \/ Search \/ Healthz \/ PostConflict \/ AuditOffGrid
           \/ PostCreates \/ PostFails
  BY <1>2, <1>5, ZenonT(30) DEF ListFails, GetProfile, Search, Healthz, PostConflict, AuditOffGrid,
                    PostCreates, PostFails, Reply
<1>6. CASE Forget \/ UNCHANGED vars \/ LateCommit \/ BarsArrive \/ CatalogMoves
  <2>1. UNCHANGED call
    BY <1>6 DEF Forget, Forgets, vars, LateCommit, BarsArrive, CatalogMoves
  <2> QED
    BY <1>1, <2>1
<1>7. CASE Profile
  BY <1>7, ProfileKeeps
<1>8. CASE Resolve
  BY <1>8, ResolveKeeps
<1>9. CASE ReadCount
  BY <1>9, ReadCountKeeps
<1>10. CASE AskList
  BY <1>10, AskListKeeps
<1>11. CASE ListPage
  BY <1>11, ListPageKeeps
<1>12. CASE PostExists
  BY <1>12, PostExistsKeeps
<1>13. CASE AskAudit \/ AuditCombos
  BY <1>13, AuditsKeep
<1> QED
  BY <1>3, <1>4, <1>5, <1>6, <1>7, <1>8, <1>9, <1>10, <1>11, <1>12, <1>13 DEF Next
-----------------------------------------------------------------------------
(* Newest bars *)

\* The n newest of a finite set of times are all of them or n, and every other
\* one is older than each of them.
LEMMA NewestFacts ==
    ASSUME NEW T, T \subseteq Nat, IsFiniteSet(T), NEW n \in Nat \ {0},
           NEW top, top = NewestOf(T, n)
    PROVE  /\ top \subseteq T /\ IsFiniteSet(top) /\ Cardinality(top) \in Nat
           /\ T # {} => top # {}
           /\ \A x \in T \ top : \A t \in top : x < t
           /\ T # top => Cardinality(top) >= n
<1> DEFINE newer(t) == {u \in T : u > t}
<1>1. top = {t \in T : Cardinality(newer(t)) < n}
  BY DEF NewestOf
<1>2. \A t \in T : IsFiniteSet(newer(t)) /\ Cardinality(newer(t)) \in Nat
  BY FS_Subset, FS_CardinalityType
<1>3. top \subseteq T /\ IsFiniteSet(top) /\ Cardinality(top) \in Nat
  <2>1. top \in SUBSET T
    BY <1>1
  <2> QED
    BY <2>1, FS_Subset, FS_CardinalityType
<1>4. T # {} => top # {}
  <2> SUFFICES ASSUME T # {} PROVE top # {}
    OBVIOUS
  <2>1. Max(T) \in T /\ \A t \in T : Max(T) >= t
    BY FiniteMax
  <2>2. newer(Max(T)) = {}
    <3> DEFINE m == Max(T)
    <3>1. m \in Nat /\ \A t \in T : t \in Nat /\ m >= t
      BY <2>1
    <3> HIDE DEF m
    <3>2. \A u \in T : ~ (u > m)
      BY <3>1
    <3>3. {u \in T : u > m} = {}
      BY <3>2
    <3> QED
      BY <3>3 DEF m
  <2>3. Cardinality(newer(Max(T))) = 0
    BY <2>2, FS_EmptySet
  <2> HIDE DEF newer
  <2> QED
    BY <1>1, <2>1, <2>3
<1>5. ASSUME NEW x \in T \ top, NEW t \in top
      PROVE  x < t
  <2> SUFFICES ASSUME t <= x PROVE FALSE
    BY <1>3
  <2>1. t \in T /\ t \in Nat /\ x \in Nat
    BY <1>3
  <2>2. newer(x) \in SUBSET newer(t)
    <3> SUFFICES ASSUME NEW u \in T, u > x PROVE u > t
      OBVIOUS
    <3>1. u \in Nat
      OBVIOUS
    <3> QED
      BY <2>1, <3>1
  <2> HIDE DEF newer
  <2>3. Cardinality(newer(x)) <= Cardinality(newer(t))
    BY <1>2, <2>1, <2>2, FS_Subset
  <2> QED
    BY <1>1, <1>2, <2>1, <2>3
<1>6. ASSUME T # top
      PROVE  Cardinality(top) >= n
  <2> DEFINE rest == T \ top
             m == Max(rest)
  <2>1. rest # {} /\ rest \subseteq Nat /\ rest \subseteq T
    BY <1>3, <1>6
  <2>2. IsFiniteSet(rest)
    BY <2>1, FS_Subset
  <2>3. m \in rest /\ \A t \in rest : m >= t
    <3> HIDE DEF rest
    <3> QED
      BY <2>1, <2>2, FiniteMax
  <2>4. newer(m) \in SUBSET top
    <3> SUFFICES ASSUME NEW u \in newer(m), u \notin top PROVE FALSE
      OBVIOUS
    <3>1. u \in rest /\ u > m /\ u \in Nat /\ m \in Nat
      BY <2>1, <2>3
    <3> HIDE DEF m
    <3> QED
      BY <2>3, <3>1
  <2> HIDE DEF newer, m
  <2>5. Cardinality(newer(m)) <= Cardinality(top)
    BY <1>3, <2>4, FS_Subset
  <2>6. m \in T /\ ~ (Cardinality(newer(m)) < n)
    BY <1>1, <2>3
  <2> QED
    BY <1>2, <1>3, <2>5, <2>6
<1> QED
  BY <1>3, <1>4, <1>5, <1>6

\* The sentinel row tells whether older bars were left out.
LEMMA SentinelFacts ==
    ASSUME NEW hits, hits \subseteq Nat, IsFiniteSet(hits),
           NEW fetched, fetched = NewestOf(hits, Limit + 1),
           NEW bars, bars = NewestOf(fetched, Limit),
           NEW x \in hits, x \notin bars
    PROVE  Cardinality(fetched) > Limit /\ \A t \in bars : x < t
<1>0. Limit \in Nat \ {0} /\ Limit + 1 \in Nat \ {0}
  <2>1. Limit \in Nat \ {0}
    BY ServingAssumption DEF ServingAssumption
  <2> QED
    BY <2>1
<1>1. /\ fetched \subseteq hits /\ IsFiniteSet(fetched) /\ Cardinality(fetched) \in Nat
      /\ \A y \in hits \ fetched : \A t \in fetched : y < t
      /\ hits # fetched => Cardinality(fetched) >= Limit + 1
  <2> DEFINE n == Limit + 1
  <2>1. fetched = NewestOf(hits, n) /\ n \in Nat \ {0}
    BY <1>0
  <2> HIDE DEF n
  <2>2. /\ fetched \subseteq hits /\ IsFiniteSet(fetched) /\ Cardinality(fetched) \in Nat
        /\ \A y \in hits \ fetched : \A t \in fetched : y < t
        /\ hits # fetched => Cardinality(fetched) >= n
    BY <2>1, NewestFacts
  <2> QED
    BY <2>2 DEF n
<1>2. fetched \subseteq Nat
  BY <1>1
<1>3. /\ bars \subseteq fetched /\ IsFiniteSet(bars) /\ Cardinality(bars) \in Nat
      /\ \A y \in fetched \ bars : \A t \in bars : y < t
      /\ fetched # bars => Cardinality(bars) >= Limit
  BY <1>0, <1>1, <1>2, NewestFacts
<1>4. CASE x \notin fetched
  BY <1>0, <1>1, <1>3, <1>4
<1>5. CASE x \in fetched
  <2>1. Cardinality(bars) >= Limit
    BY <1>3, <1>5
  <2>2. Cardinality(bars \cup {x}) = Cardinality(bars) + 1
    BY <1>3, FS_AddElement
  <2>3. bars \cup {x} \in SUBSET fetched
    BY <1>3, <1>5
  <2>4. Cardinality(bars \cup {x}) <= Cardinality(fetched)
    BY <1>1, <2>3, FS_Subset
  <2> QED
    BY <1>0, <1>1, <1>3, <1>5, <2>1, <2>2, <2>4
<1> QED
  BY <1>4, <1>5

-----------------------------------------------------------------------------
(* The grid of the audit *)

\* Division with remainder.
LEMMA DivMod ==
    ASSUME NEW x \in Nat, NEW s \in Nat \ {0}
    PROVE  x \div s \in Nat /\ x % s \in 0..(s - 1) /\ x = s * (x \div s) + (x % s)
  OBVIOUS

\* The arithmetic of the grid.
LEMMA Multiples ==
    ASSUME NEW k \in Nat, NEW l \in Nat, NEW s \in Nat \ {0}
    PROVE  /\ (s * k) % s = 0 /\ s * k \in Nat
           /\ s * k <= s * l => k <= l
           /\ k >= l => s * k - s * l = s * (k - l) /\ k - l \in Nat
  OBVIOUS

\* As many times as an unbroken run has, all on one grid, are that run.
LEMMA GridFacts ==
    ASSUME NEW T, T \subseteq Nat, IsFiniteSet(T), T # {}, NEW s \in Nat \ {0},
           NEW a \in Nat, \A t \in T : t >= a /\ (t - a) % s = 0,
           (Max(T) - Min(T)) \div s + 1 <= Cardinality(T)
    PROVE  T = {t \in Min(T)..Max(T) : (t - Min(T)) % s = 0}
<1> DEFINE lo == Min(T)
           hi == Max(T)
           n == (hi - lo) \div s
           Grid == {t \in lo..hi : (t - lo) % s = 0}
           at == [k \in 0..n |-> lo + s * k]
<1>1. lo \in T /\ hi \in T /\ \A t \in T : lo <= t /\ t <= hi
  <2>1. lo \in T /\ \A t \in T : lo <= t
    BY MinExists
  <2>2. hi \in T /\ \A t \in T : hi >= t
    BY FiniteMax
  <2> HIDE DEF lo, hi
  <2> QED
    BY <2>1, <2>2
<1>0. n = (hi - lo) \div s /\ n + 1 <= Cardinality(T)
      /\ Grid = {t \in lo..hi : (t - lo) % s = 0}
      /\ at = [k \in 0..n |-> lo + s * k]
  OBVIOUS
<1> HIDE DEF lo, hi, n, Grid, at
<1>2. lo \in Nat /\ hi \in Nat /\ hi - lo \in Nat
  BY <1>1
<1>3. n \in Nat
  BY <1>0, <1>2, DivMod
<1>4. ASSUME NEW t \in T PROVE t \in Grid
  <2>1. t \in Nat /\ lo <= t /\ t <= hi /\ t \in lo..hi
    BY <1>1, <1>2
  <2>2. t - a \in Nat /\ (t - a) % s = 0 /\ lo - a \in Nat /\ (lo - a) % s = 0
    BY <1>1, <2>1
  <2> DEFINE k == (t - a) \div s
             l == (lo - a) \div s
  <2>3. k \in Nat /\ l \in Nat /\ t - a = s * k /\ lo - a = s * l
    <3>1. k \in Nat /\ t - a = s * k + ((t - a) % s)
      BY <2>2, DivMod
    <3>2. l \in Nat /\ lo - a = s * l + ((lo - a) % s)
      BY <2>2, DivMod
    <3> HIDE DEF k, l
    <3>3. t - a = s * k + 0 /\ lo - a = s * l + 0
      BY <2>2, <3>1, <3>2, Zenon
    <3>4. s * k \in Nat /\ s * l \in Nat
      BY <3>1, <3>2, Multiples
    <3> QED
      BY <3>1, <3>2, <3>3, <3>4
  <2> HIDE DEF k, l
  <2>4. s * k \in Nat /\ s * l \in Nat
    BY <2>3, Multiples
  <2>5. s * l <= s * k /\ t - lo = s * k - s * l
    BY <1>2, <2>1, <2>3, <2>4
  <2>6. l <= k
    BY <2>3, <2>5, Multiples
  <2>7. t - lo = s * (k - l) /\ k - l \in Nat
    BY <2>3, <2>5, <2>6, Multiples
  <2>8. (t - lo) % s = 0
    BY <2>7, Multiples
  <2> QED
    BY <1>0, <2>1, <2>8
<1>5. ASSUME NEW t \in Grid PROVE \E k \in 0..n : t = lo + s * k
  <2>1. t \in lo..hi /\ (t - lo) % s = 0 /\ t - lo \in Nat
    BY <1>0, <1>2
  <2> DEFINE k == (t - lo) \div s
  <2>2. k \in Nat /\ t - lo = s * k + ((t - lo) % s)
    BY <2>1, DivMod
  <2>3. (hi - lo) % s \in 0..(s - 1) /\ hi - lo = s * n + ((hi - lo) % s)
    BY <1>0, <1>2, DivMod
  <2> HIDE DEF k
  <2>4. s * k \in Nat /\ s * (n + 1) = s * n + s /\ s * n \in Nat /\ n + 1 \in Nat
    BY <1>3, <2>2
  <2>5. t - lo = s * k /\ t = lo + s * k
    BY <1>2, <2>1, <2>2, <2>4
  <2>6. k <= n
    <3> SUFFICES ASSUME n + 1 <= k PROVE FALSE
      BY <1>3, <2>2
    <3>1. s * k >= s * (n + 1)
      BY <1>3, <2>2
    <3>2. s * k <= hi - lo
      BY <1>2, <2>1, <2>5
    <3>3. hi - lo < s * n + s
      BY <2>3, <2>4
    <3> QED
      BY <1>2, <2>4, <3>1, <3>2, <3>3
  <2>7. k \in 0..n
    BY <1>3, <2>2, <2>6
  <2> QED
    BY <2>5, <2>7
<1> DEFINE Run == {at[k] : k \in 0..n}
<1>6. at \in Surjection(0..n, Run)
  <2>1. DOMAIN at = 0..n /\ at = [k \in 0..n |-> at[k]]
    BY <1>0
  <2> QED
    BY <2>1 DEF Surjection
<1>7. IsFiniteSet(0..n) /\ Cardinality(0..n) = n + 1
  BY <1>3, FS_Interval
<1>8. T \in SUBSET Run
  <2> SUFFICES ASSUME NEW t \in T PROVE t \in Run
    OBVIOUS
  <2>1. PICK k \in 0..n : t = lo + s * k
    BY <1>4, <1>5
  <2>2. at[k] = t
    BY <1>0, <2>1
  <2> QED
    BY <2>2
<1>8a. Grid \in SUBSET Run
  <2> SUFFICES ASSUME NEW t \in Grid PROVE t \in Run
    OBVIOUS
  <2>1. PICK k \in 0..n : t = lo + s * k
    BY <1>5
  <2>2. at[k] = t
    BY <1>0, <2>1
  <2> QED
    BY <2>2
<1> HIDE DEF Run
<1>9. IsFiniteSet(Run) /\ Cardinality(Run) <= n + 1 /\ Cardinality(Run) \in Nat
  <2>1. IsFiniteSet(Run) /\ Cardinality(Run) <= Cardinality(0..n)
    BY <1>6, <1>7, FS_Surjection
  <2> QED
    BY <1>7, <2>1, FS_CardinalityType
<1>10. T = Run
  <2>1. Cardinality(T) <= Cardinality(Run) /\ (Cardinality(Run) = Cardinality(T) => Run = T)
    BY <1>8, <1>9, FS_Subset
  <2>2. Cardinality(T) \in Nat
    BY FS_CardinalityType
  <2> QED
    BY <1>0, <1>3, <1>9, <2>1, <2>2
<1>11. T = Grid
  BY <1>4, <1>8a, <1>10
<1> QED
  BY <1>11 DEF Grid, lo, hi
-----------------------------------------------------------------------------
(* Answers *)

PageSound(r) ==
    "page" \in DOMAIN r => \A shown \in r.page : shown.status = "active" => shown.last > 0

\* AnswerInv, but for the pages of a walk that goes on.
AnswerSound ==
    /\ HealthIsStored /\ InventoryServed /\ RangeIsHonest
    /\ PagesComplete /\ AuditIsSound /\ PageSound(answer)

LEMMA AnswerParts == AnswerInv <=> AnswerSound /\ PageSound(call)
<1>1. ActiveShowsBars <=> PageSound(answer) /\ PageSound(call)
  BY DEF ActiveShowsBars, PageSound
<1> QED
  BY <1>1 DEF AnswerInv, AnswerSound

LEMMA AnswerPartsNext ==
    ASSUME AnswerSound', PageSound(call)'
    PROVE  AnswerInv'
<1>1. ActiveShowsBars'
  BY DEF AnswerSound, ActiveShowsBars, PageSound
<1> QED
  BY <1>1 DEF AnswerInv, AnswerSound

\* Errors and answers that say nothing of bars, pages or combos.
QuietAnswer(a) ==
    /\ a.op # "audit" /\ "bars" \notin DOMAIN a
    /\ a.op \in {"health", "list"} => a.code # 200
    /\ "page" \in DOMAIN a => a.page = {}

LEMMA QuietIsSound ==
    ASSUME QuietAnswer(answer)'
    PROVE  AnswerSound'
<1>1. HealthIsStored' /\ PagesComplete' /\ AuditIsSound' /\ PageSound(answer)'
  BY DEF QuietAnswer, HealthIsStored, PagesComplete, AuditIsSound, PageSound
<1>2. InventoryServed' /\ RangeIsHonest'
  BY DEF QuietAnswer, InventoryServed, RangeIsHonest, IsBars
<1> QED
  BY <1>1, <1>2 DEF AnswerSound

LEMMA SameIsSound ==
    ASSUME AnswerSound, UNCHANGED <<answer, store>>
    PROVE  AnswerSound'
<1>1. \A series, p : RowsOf(series, p)' = RowsOf(series, p)
  BY DEF store, RowsOf
<1>2. HealthIsStored'
  BY <1>1 DEF AnswerSound, HealthIsStored
<1>3. InventoryServed' /\ RangeIsHonest' /\ PagesComplete' /\ AuditIsSound'
  BY DEF AnswerSound, InventoryServed, RangeIsHonest, IsBars, PagesComplete, AuditIsSound
<1>4. PageSound(answer)'
  BY DEF AnswerSound, PageSound
<1> QED
  BY <1>2, <1>3, <1>4 DEF AnswerSound

\* The health answers: what is counted is stored.
LEMMA HealthAnswer ==
    ASSUME SeriesInv, Reads, NEW series, NEW p, NEW count \in Nat,
           count <= Cardinality(RowsOf(series, p)),
           LET meta == MetaOf(series, p)
           IN answer' = [op |-> "health", code |-> 200, series |-> series, provider |-> p,
                         ready |-> count >= MinBars, available |-> count,
                         last |-> IF meta = NoMeta THEN 0 ELSE meta.last]
    PROVE  AnswerSound'
<1> DEFINE R == RowsOf(series, p)
           meta == MetaOf(series, p)
           last == IF meta = NoMeta THEN 0 ELSE meta.last
           ready == count >= MinBars
<1>1. answer' = [op |-> "health", code |-> 200, series |-> series, provider |-> p,
                 ready |-> ready, available |-> count, last |-> last]
  OBVIOUS
<1>2. count > 0 => last \in R
  <2>1. IsFiniteSet(R) /\ (meta = NoMeta <=> R = {}) /\ (meta # NoMeta => meta.last \in R)
    BY RowsFacts
  <2>2. Cardinality({}) = 0
    BY FS_EmptySet
  <2> HIDE DEF meta
  <2> QED
    BY <2>1, <2>2
<1>3. ready => Cardinality(R) >= MinBars
  <2>1. MinBars \in Nat /\ Cardinality(R) \in Nat
    BY RowsFacts, ServingAssumption DEF ServingAssumption
  <2> QED
    BY <2>1
<1>4. RowsOf(series, p)' = R /\ count <= Cardinality(R)
  BY ReadsKeeps
<1> HIDE DEF R, last, ready
<1>5. HealthIsStored'
  <2>1. answer'.series = series /\ answer'.provider = p /\ answer'.available = count
    BY <1>1
  <2>2. answer'.ready = ready /\ answer'.last = last
    BY <1>1
  <2> QED
    BY <1>2, <1>3, <1>4, <2>1, <2>2 DEF HealthIsStored
<1>6. answer'.op = "health" /\ "bars" \notin DOMAIN answer' /\ "page" \notin DOMAIN answer'
  BY <1>1
<1>7. InventoryServed' /\ RangeIsHonest' /\ PagesComplete' /\ AuditIsSound' /\ PageSound(answer)'
  BY <1>6 DEF InventoryServed, RangeIsHonest, IsBars, PagesComplete, AuditIsSound, PageSound
<1> QED
  BY <1>5, <1>7 DEF AnswerSound

LEMMA HealthIsSound ==
    ASSUME SeriesInv, CallInv, ReadLast \/ Healthcheck
    PROVE  AnswerSound'
<1>1. CASE ReadLast
  <2>1. call.op = "health" /\ call.step = "last" /\ call \in BarCalls /\ BarCallInv
    BY <1>1, BarCallTyped DEF ReadLast, At, BarOps
  <2>2. call.count \in Nat /\ call.count <= Cardinality(RowsOf(call.series, call.provider))
    BY <2>1 DEF BarCallInv, BarCalls
  <2>3. Reads /\ LET meta == MetaOf(call.series, call.provider)
                 IN answer' = [op |-> "health", code |-> 200, series |-> call.series,
                       provider |-> call.provider, ready |-> call.count >= MinBars,
                       available |-> call.count,
                       last |-> IF meta = NoMeta THEN 0 ELSE meta.last]
    BY <1>1 DEF ReadLast, Reply
  <2> QED
    BY <2>2, <2>3, HealthAnswer
<1>2. CASE Healthcheck
  <2>1. PICK series \in AllSeries :
          LET meta == MetaOf(series, "tradingview")
              count == IF meta = NoMeta THEN 0 ELSE meta.count
          IN answer' = [op |-> "health", code |-> 200, series |-> series,
                provider |-> "tradingview", ready |-> count >= MinBars,
                available |-> count, last |-> IF meta = NoMeta THEN 0 ELSE meta.last]
    BY <1>2 DEF Healthcheck, Reply
  <2> DEFINE meta == MetaOf(series, "tradingview")
             count == IF meta = NoMeta THEN 0 ELSE meta.count
  <2>2. count \in Nat /\ count <= Cardinality(RowsOf(series, "tradingview"))
    BY RowsFacts
  <2>3. Reads
    BY <1>2 DEF Healthcheck
  <2> QED
    BY <2>1, <2>2, <2>3, HealthAnswer
<1> QED
  BY <1>1, <1>2

\* The bar answers.
LEMMA RecentIsSound ==
    ASSUME SeriesInv, CallInv, ReadRecent
    PROVE  AnswerSound'
<1> DEFINE R == RowsOf(call.series, call.provider)
           n == IF call.op = "quote" THEN 1 ELSE Limit
           bars == NewestOf(R, n)
           code == IF call.op = "quote" /\ bars = {} THEN 503 ELSE 200
<1>1. call.op \in {"quote", "recent"} /\ call.step = "read" /\ BarCallInv
  BY BarCallTyped DEF ReadRecent, At, BarOps
<1>2. n \in Nat \ {0}
  <2>1. Limit \in Nat \ {0}
    BY ServingAssumption DEF ServingAssumption
  <2> QED
    BY <2>1
<1>3. R \subseteq Nat /\ IsFiniteSet(R)
  BY RowsFacts
<1>4. answer' = BarsAnswer(code, bars, FALSE)
  BY DEF ReadRecent, Reply
<1>5. call.asked = "" /\ call.before # {} => R # {}
  BY <1>1 DEF BarCallInv, BarOps
<1>6. call.promised => call.before # {}
  BY <1>1 DEF BarCallInv, BarOps
<1> HIDE DEF R, n, code
<1>7. R # {} => bars # {}
  BY <1>2, <1>3, NewestFacts
<1> HIDE DEF bars
<1>8. /\ answer'.op = call.op /\ answer'.asked = call.asked /\ answer'.before = call.before
      /\ answer'.promised = call.promised /\ answer'.bars = bars
      /\ "page" \notin DOMAIN answer'
  BY <1>4 DEF BarsAnswer
<1>9. InventoryServed'
  BY <1>5, <1>6, <1>7, <1>8 DEF InventoryServed
<1>10. /\ HealthIsStored' /\ RangeIsHonest' /\ PagesComplete' /\ AuditIsSound'
       /\ PageSound(answer)'
  BY <1>1, <1>8 DEF HealthIsStored, RangeIsHonest, PagesComplete, AuditIsSound, PageSound
<1> QED
  BY <1>9, <1>10 DEF AnswerSound

LEMMA RangeIsSound ==
    ASSUME SeriesInv, CallInv, ReadRange
    PROVE  AnswerSound'
<1> DEFINE hits == {t \in RowsOf(call.series, call.provider) :
                      call.range[1] <= t /\ t <= call.range[2]}
           fetched == NewestOf(hits, Limit + 1)
           bars == NewestOf(fetched, Limit)
           truncated == Cardinality(fetched) > Limit
<1>1. call.op \in {"historical", "range"} /\ call.step = "read" /\ BarCallInv
  BY BarCallTyped DEF ReadRange, At, BarOps
<1>2. hits \subseteq Nat /\ IsFiniteSet(hits)
  <2>1. /\ RowsOf(call.series, call.provider) \subseteq Nat
        /\ IsFiniteSet(RowsOf(call.series, call.provider))
    BY RowsFacts
  <2>2. hits \in SUBSET RowsOf(call.series, call.provider)
    OBVIOUS
  <2> HIDE DEF hits
  <2> QED
    BY <2>1, <2>2, FS_Subset
<1>3. answer' = BarsAnswer(200, bars, truncated)
  BY DEF ReadRange, Reply
<1>4. call.before \subseteq AllRows(call.series)
  BY <1>1 DEF BarCallInv, BarOps
<1>5. \A row \in call.before : /\ row[1] = call.provider
                               /\ call.range[1] <= row[2] /\ row[2] <= call.range[2]
                               => row[2] \in hits
  <2> SUFFICES ASSUME NEW row \in call.before, row[1] = call.provider
               PROVE  row[2] \in RowsOf(call.series, call.provider)
    OBVIOUS
  <2>1. row \in AllRows(call.series) /\ row = <<row[1], row[2]>>
    BY <1>4, AllRowsTyped
  <2> QED
    BY <2>1, AllRowsTyped
<1> HIDE DEF hits
<1>6. \A x \in hits : x \notin bars => truncated /\ \A t \in bars : x < t
  BY <1>2, SentinelFacts
<1> HIDE DEF fetched, bars, truncated
<1>7. /\ answer'.op = call.op /\ answer'.before = call.before /\ answer'.provider = call.provider
      /\ answer'.range = call.range /\ answer'.bars = bars /\ answer'.truncated = truncated
      /\ "page" \notin DOMAIN answer'
  BY <1>3 DEF BarsAnswer
<1>8. RangeIsHonest'
  BY <1>5, <1>6, <1>7 DEF RangeIsHonest
<1>9. /\ HealthIsStored' /\ InventoryServed' /\ PagesComplete' /\ AuditIsSound'
      /\ PageSound(answer)'
  BY <1>1, <1>7 DEF HealthIsStored, InventoryServed, PagesComplete, AuditIsSound, PageSound
<1> QED
  BY <1>8, <1>9 DEF AnswerSound
\* The pages.
LEMMA WalkIsSound ==
    ASSUME SeriesInv, CatalogInv, CallInv, ListPage, UNCHANGED store, AnswerSound
    PROVE  AnswerSound' /\ PageSound(call)'
<1>0. At({"list"}, "page")
  BY DEF ListPage
<1> DEFINE page == Page(call.filter, call.cursor)
           walked == call.walked \o page.shown
           shown == {Shown(s) : s \in Range(page.shown)}
<1>1. /\ call \in ListCalls /\ Ascending(walked)
      /\ \A r \in shown : r.status = "active" => r.last > 0
      /\ page.next = 0 => call.present \subseteq Range(walked)
  BY <1>0, WalkFacts, Zenon
<1>2. CASE page.next # 0
  <2>1. /\ call' = [call EXCEPT !.cursor = page.next, !.walked = walked, !.page = shown]
        /\ UNCHANGED answer
    BY <1>2 DEF ListPage, Goes
  <2> HIDE DEF page, walked, shown
  <2>2. call'.page = shown
    BY <1>1, <2>1 DEF ListCalls
  <2> QED
    BY <1>1, <2>1, <2>2, SameIsSound DEF PageSound
<1>3. CASE page.next = 0
  <2>1. /\ answer' = [op |-> "list", code |-> 200, walked |-> walked,
                      present |-> call.present, page |-> shown]
        /\ call' = [op |-> "none"]
    BY <1>3 DEF ListPage, Reply
  <2>2. Ascending(walked) /\ call.present \subseteq Range(walked)
        /\ \A r \in shown : r.status = "active" => r.last > 0
    BY <1>1, <1>3
  <2> HIDE DEF page, walked, shown
  <2>3. /\ answer'.op = "list" /\ answer'.walked = walked /\ answer'.present = call.present
        /\ answer'.page = shown /\ "bars" \notin DOMAIN answer'
    BY <2>1
  <2>4. PagesComplete' /\ PageSound(answer)'
    BY <2>2, <2>3 DEF PagesComplete, PageSound, Ascending
  <2>5. HealthIsStored' /\ InventoryServed' /\ RangeIsHonest' /\ AuditIsSound'
    BY <2>3 DEF HealthIsStored, InventoryServed, RangeIsHonest, IsBars, AuditIsSound
  <2>6. PageSound(call)'
    BY <2>1 DEF PageSound
  <2> QED
    BY <2>4, <2>5, <2>6 DEF AnswerSound
<1> QED
  BY <1>2, <1>3

\* The 201 and the 409 of a POST.
LEMMA PostIsSound ==
    ASSUME SeriesInv, CatalogInv, CallInv, PostCreates \/ PostConflict
    PROVE  AnswerSound'
<1>1. ASSUME NEW code, NEW page, answer' = [op |-> "post", code |-> code, page |-> page],
             \A shown \in page : shown.status = "active" => shown.last > 0
      PROVE  AnswerSound'
  <2>1. answer'.op = "post" /\ answer'.page = page /\ "bars" \notin DOMAIN answer'
    BY <1>1
  <2>2. /\ HealthIsStored' /\ InventoryServed' /\ RangeIsHonest' /\ PagesComplete'
        /\ AuditIsSound'
    BY <2>1 DEF HealthIsStored, InventoryServed, RangeIsHonest, IsBars, PagesComplete,
                AuditIsSound
  <2>3. PageSound(answer)'
    BY <1>1, <2>1 DEF PageSound
  <2> QED
    BY <2>2, <2>3 DEF AnswerSound
<1>2. CASE PostCreates
  <2>1. PICK b \in Posts :
          answer' = [op |-> "post", code |-> 201,
                     page |-> {[symbol |-> b.symbol, status |-> "pending", last |-> 0]}]
    BY <1>2 DEF PostCreates, Reply
  <2> DEFINE page == {[symbol |-> b.symbol, status |-> "pending", last |-> 0]}
  <2>2. \A shown \in page : shown.status = "active" => shown.last > 0
    OBVIOUS
  <2> HIDE DEF page
  <2>3. answer' = [op |-> "post", code |-> 201, page |-> page]
    BY <2>1 DEF page
  <2> QED
    BY <1>1, <2>2, <2>3
<1>3. CASE PostConflict
  <2>1. /\ answer' = [op |-> "post", code |-> 409, page |-> {Shown(call.symbol)}]
        /\ call.op = "post"
    BY <1>3 DEF PostConflict, Reply, At
  <2>2. call.symbol \in DOMAIN assets
    BY <2>1 DEF CallInv, PostCallInv
  <2>3. \A shown \in {Shown(call.symbol)} : shown.status = "active" => shown.last > 0
    BY <2>2, ShownFacts
  <2> QED
    BY <1>1, <2>1, <2>3
<1> QED
  BY <1>2, <1>3

LEMMA AllRowsFinite ==
    ASSUME SeriesInv, NEW series
    PROVE  IsFiniteSet(AllRows(series))
<1> DEFINE A == {"tradingview"} \X RowsOf(series, "tradingview")
           B == {"yahoo"} \X RowsOf(series, "yahoo")
<1>1. IsFiniteSet(A) /\ IsFiniteSet(B)
  BY RowsFacts, FS_Singleton, FS_Product
<1>2. AllRows(series) = A \cup B
  BY DEF AllRows, Providers
<1> HIDE DEF A, B
<1> QED
  BY <1>1, <1>2, FS_Union

\* When one provider wrote the rows, two rows at the same time are the same.
LEMMA OneWriter ==
    ASSUME NEW table, table \subseteq Providers \X Nat,
           Cardinality({row[1] : row \in table}) <= 1
    PROVE  \A x, y \in table : x[1] = y[1]
<1> DEFINE P == {row[1] : row \in table}
<1>1. IsFiniteSet(P) /\ Cardinality(P) \in Nat
  <2>1. IsFiniteSet({"tradingview"} \cup {"yahoo"})
    BY FS_Singleton, FS_Union
  <2>2. Providers = {"tradingview"} \cup {"yahoo"}
    BY DEF Providers
  <2>3. P \in SUBSET Providers
    OBVIOUS
  <2> HIDE DEF P
  <2> QED
    BY <2>1, <2>2, <2>3, FS_Subset, FS_CardinalityType
<1> SUFFICES ASSUME NEW x \in table, NEW y \in table, x[1] # y[1] PROVE FALSE
  OBVIOUS
<1>2. IsFiniteSet({x[1]}) /\ Cardinality({x[1]}) = 1
  BY FS_Singleton
<1>3. Cardinality({x[1]} \cup {y[1]}) = 2
  BY <1>2, FS_AddElement
<1>4. {x[1]} \cup {y[1]} \in SUBSET P
  OBVIOUS
<1>5. Cardinality(P) <= 1
  OBVIOUS
<1> HIDE DEF P
<1>6. Cardinality({x[1]} \cup {y[1]}) <= Cardinality(P)
  BY <1>1, <1>4, FS_Subset
<1> QED
  BY <1>1, <1>3, <1>5, <1>6

\* Rows without a gap among rows without an off-grid bar are an unbroken run.
LEMMA HealthyIsUnbroken ==
    ASSUME NEW after, after \subseteq Providers \X Nat, IsFiniteSet(after),
           NEW before, before \subseteq after,
           \A x, y \in after : x[1] = y[1],
           GapProblems(before, Secs) = {}, OffGridProblems(after, Secs) = {}
    PROVE  Contiguous(TimesOf(before), Secs)
<1> DEFINE T == TimesOf(before)
           time == [row \in before |-> row[2]]
           A == TimesOf(after)
           a == Min(A)
<1> SUFFICES ASSUME before # {} PROVE Contiguous(T, Secs)
  BY DEF Contiguous, TimesOf
<1>0. Secs \in Nat \ {0}
  BY ServingAssumption DEF ServingAssumption
<1>1. /\ T = {row[2] : row \in before} /\ T \subseteq Nat /\ T # {}
      /\ A = {row[2] : row \in after} /\ A \subseteq Nat /\ A # {} /\ T \subseteq A
  BY DEF TimesOf
<1>2. \A row \in after : row = <<row[1], row[2]>> /\ row[2] \in Nat
  OBVIOUS
<1>3. IsFiniteSet(before) /\ Cardinality(before) \in Nat
  BY FS_Subset, FS_CardinalityType
<1>4. time \in Surjection(before, T) /\ time \in Injection(before, T)
  <2>1. time \in [before -> T] /\ \A row \in before : time[row] = row[2]
    BY <1>1
  <2>2. \A t \in T : \E row \in before : time[row] = t
    BY <1>1
  <2>3. \A x, y \in before : time[x] = time[y] => x = y
    <3> SUFFICES ASSUME NEW x \in before, NEW y \in before, time[x] = time[y]
                 PROVE  x = y
      OBVIOUS
    <3>1. x[2] = y[2] /\ x[1] = y[1]
      BY <2>1
    <3>2. x = <<x[1], x[2]>> /\ y = <<y[1], y[2]>>
      BY <1>2
    <3> QED
      BY <3>1, <3>2
  <2> HIDE DEF time, T
  <2> QED
    BY <2>1, <2>2, <2>3 DEF Surjection, Injection, IsInjective
<1> HIDE DEF T, time, A
<1>5. IsFiniteSet(T) /\ Cardinality(T) = Cardinality(before)
  BY <1>3, <1>4, FS_Surjection
<1>6. a \in Nat /\ \A t \in A : a <= t
  BY <1>1, MinExists
<1>7. \A t \in T : t >= a /\ (t - a) % Secs = 0
  <2>1. after # {} /\ OffGrid(after, Secs) = {}
    <3>1. after # {}
      OBVIOUS
    <3>2. OffGrid(after, Secs) # {} => OffGridProblems(after, Secs) # {}
      BY <3>1 DEF OffGridProblems
    <3> QED
      BY <3>1, <3>2
  <2>2. \A row \in after : (row[2] - a) % Secs = 0
    BY <2>1 DEF OffGrid, A
  <2> SUFFICES ASSUME NEW t \in T PROVE t >= a /\ (t - a) % Secs = 0
    OBVIOUS
  <2>3. PICK row \in before : t = row[2]
    BY <1>1
  <2>4. row \in after /\ t \in A /\ t \in Nat
    BY <1>1, <2>3
  <2>5. (t - a) % Secs = 0
    BY <2>2, <2>3, <2>4
  <2>6. a <= t
    BY <1>6, <2>4
  <2> HIDE DEF a
  <2> QED
    BY <1>6, <2>4, <2>5, <2>6
<1>8. (Max(T) - Min(T)) \div Secs + 1 <= Cardinality(T)
  <2>1. Min(T) \in T /\ Max(T) \in T /\ Min(T) <= Max(T)
    BY <1>1, <1>5, MinExists, FiniteMax
  <2>2. Max(T) - Min(T) \in Nat
    BY <1>1, <2>1
  <2>3. (Max(T) - Min(T)) \div Secs \in Nat
    BY <1>0, <2>2, DivMod
  <2>4. Expected(before, Secs) = (Max(T) - Min(T)) \div Secs + 1
    BY DEF Expected, T
  <2>5. ~ (Expected(before, Secs) > Cardinality(before))
    BY Zenon DEF GapProblems
  <2> QED
    BY <1>3, <1>5, <2>3, <2>4, <2>5
<1> HIDE DEF a
<1>9. T = {t \in Min(T)..Max(T) : (t - Min(T)) % Secs = 0}
  BY <1>0, <1>1, <1>5, <1>6, <1>7, <1>8, GridFacts
<1> QED
  BY <1>9 DEF Contiguous

\* The report of the audit.
LEMMA AuditAnswer ==
    ASSUME SeriesInv, CallInv, AuditOffGrid
    PROVE  AnswerSound'
<1> DEFINE after == AllRows(call.series)
           off == OffGridProblems(after, Secs)
<1>1. call.op = "audit" /\ call.step = "off_grid"
  BY DEF AuditOffGrid, At
<1>2. call.before \subseteq after /\ call.problems = GapProblems(call.before, Secs)
  BY <1>1 DEF CallInv, AuditCallInv
<1>3. after \subseteq Providers \X Nat /\ IsFiniteSet(after)
  BY AllRowsTyped, AllRowsFinite
<1>4. answer' = [op |-> "audit", before |-> call.before, after |-> after,
                 problems |-> call.problems \cup off]
  BY DEF AuditOffGrid, Reply
<1>5. off = OffGridProblems(after, Secs)
  OBVIOUS
<1> HIDE DEF after, off
<1>6. /\ answer'.op = "audit" /\ answer'.before = call.before /\ answer'.after = after
      /\ answer'.problems = call.problems \cup off
      /\ "bars" \notin DOMAIN answer' /\ "page" \notin DOMAIN answer'
  BY <1>4
<1>7. AuditIsSound'
  <2> SUFFICES ASSUME call.problems \cup off = {},
                      Cardinality({row[1] : row \in after}) <= 1
               PROVE  Contiguous(TimesOf(call.before), Secs)
    BY <1>6 DEF AuditIsSound
  <2>1. GapProblems(call.before, Secs) = {} /\ OffGridProblems(after, Secs) = {}
    BY <1>2, <1>5
  <2>2. \A x, y \in after : x[1] = y[1]
    BY <1>3, OneWriter
  <2> QED
    BY <1>2, <1>3, <2>1, <2>2, HealthyIsUnbroken
<1>8. /\ HealthIsStored' /\ InventoryServed' /\ RangeIsHonest' /\ PagesComplete'
      /\ PageSound(answer)'
  BY <1>6 DEF HealthIsStored, InventoryServed, RangeIsHonest, IsBars, PagesComplete, PageSound
<1> QED
  BY <1>7, <1>8 DEF AnswerSound
\* Which requests have the fields that only some have.
LEMMA CallFields ==
    /\ \A c \in BarCalls : "page" \notin DOMAIN c
    /\ \A c \in PostCalls : {"page", "provider", "series"} \cap DOMAIN c = {}
    /\ \A c \in AuditCalls : {"page", "provider"} \cap DOMAIN c = {}
    /\ \A c \in ListCalls : {"provider", "series"} \cap DOMAIN c = {}
<1>1. ASSUME NEW c \in BarCalls PROVE "page" \notin DOMAIN c
  <2>1. DOMAIN c = {"op", "step", "symbol", "frame", "series", "asked", "range", "provider",
                    "before", "promised", "count"}
    BY DEF BarCalls
  <2> QED
    BY <2>1
<1>2. ASSUME NEW c \in PostCalls PROVE {"page", "provider", "series"} \cap DOMAIN c = {}
  <2>1. DOMAIN c = {"op", "step", "symbol"}
    BY DEF PostCalls
  <2> QED
    BY <2>1
<1>3. ASSUME NEW c \in AuditCalls PROVE {"page", "provider"} \cap DOMAIN c = {}
  <2>1. DOMAIN c = {"op", "step", "series", "before", "problems"}
    BY DEF AuditCalls
  <2> QED
    BY <2>1
<1>4. ASSUME NEW c \in ListCalls PROVE {"provider", "series"} \cap DOMAIN c = {}
  <2>1. DOMAIN c = {"op", "step", "filter", "cursor", "walked", "present", "page"}
    BY DEF ListCalls
  <2> QED
    BY <2>1
<1> QED
  BY <1>1, <1>2, <1>3, <1>4

\* A request that has just been made, or is not a walk, shows no page.
LEMMA NoPageYet ==
    ASSUME CallInv',
           call' = [op |-> "none"] \/ call'.op \in BarOps \cup {"post", "audit"}
    PROVE  PageSound(call)'
<1>1. call' = [op |-> "none"] => "page" \notin DOMAIN call'
  OBVIOUS
<1>2. call' \in BarCalls \cup PostCalls \cup AuditCalls => "page" \notin DOMAIN call'
  BY CallFields
<1>3. call' \in ListCalls => call'.op = "list"
  BY DEF ListCalls
<1>4. call' \in {[op |-> "none"]} \cup BarCalls \cup ListCalls \cup PostCalls \cup AuditCalls
  BY CallSets DEF CallInv, CallType
<1>5. "page" \notin DOMAIN call'
  BY <1>1, <1>2, <1>3, <1>4 DEF BarOps
<1> QED
  BY <1>5 DEF PageSound

\* Errors, and what the other routes answer.
LEMMA QuietAnswers ==
    ASSUME \/ BadRange \/ ProfileFails \/ BarRpcFails \/ ListFails \/ GetProfile \/ Search
           \/ Healthz \/ PostFails
    PROVE  AnswerSound' /\ call' = [op |-> "none"]
<1>0. call' = [op |-> "none"]
  BY ZenonT(30) DEF BadRange, ProfileFails, BarRpcFails, ListFails, GetProfile, Search, Healthz,
         PostFails, Reply
<1>1. CASE BadRange
  <2>1. answer' = [op |-> "historical", code |-> 400]
    BY <1>1 DEF BadRange, Reply
  <2> QED
    BY <1>0, <2>1, QuietIsSound DEF QuietAnswer
<1>2. CASE ProfileFails \/ BarRpcFails \/ ListFails
  <2>1. answer' = Failed(500) \/ answer' = Failed(503)
    BY <1>2 DEF ProfileFails, BarRpcFails, ListFails, Reply
  <2>2. call.op \in {"quote", "historical", "list"}
    BY <1>2 DEF ProfileFails, BarRpcFails, ListFails, At
  <2>3. QuietAnswer(answer)'
    BY <2>1, <2>2 DEF Failed, QuietAnswer
  <2> QED
    BY <1>0, <2>3, QuietIsSound
<1>3. CASE GetProfile
  <2>1. PICK code \in {200, 404, 503} : answer' = [op |-> "profile", code |-> code]
    BY <1>3 DEF GetProfile, Reply
  <2> QED
    BY <1>0, <2>1, QuietIsSound DEF QuietAnswer
<1>4. CASE Search
  <2>1. \E results : \/ answer' = [op |-> "search", code |-> 200, results |-> results]
                     \/ answer' = [op |-> "search", code |-> 503, results |-> results]
    BY <1>4 DEF Search, Reply
  <2>2. answer'.op = "search" /\ "bars" \notin DOMAIN answer' /\ "page" \notin DOMAIN answer'
    BY <2>1
  <2> QED
    BY <1>0, <2>2, QuietIsSound DEF QuietAnswer
<1>5. CASE Healthz
  <2>1. PICK grpc \in BOOLEAN, db \in BOOLEAN :
          answer' = [op |-> "healthz", ok |-> grpc /\ db, grpc |-> grpc, db |-> grpc /\ db]
    BY <1>5 DEF Healthz, Reply
  <2>2. answer'.op = "healthz" /\ "bars" \notin DOMAIN answer' /\ "page" \notin DOMAIN answer'
    BY <2>1
  <2> QED
    BY <1>0, <2>2, QuietIsSound DEF QuietAnswer
<1>6. CASE PostFails
  <2>1. PICK code \in {422, 503} : answer' = [op |-> "post", code |-> code, page |-> {}]
    BY <1>6 DEF PostFails, Reply
  <2> QED
    BY <1>0, <2>1, QuietIsSound DEF QuietAnswer
<1> QED
  BY <1>0, <1>1, <1>2, <1>3, <1>4, <1>5, <1>6

\* A bar request is refused or goes on; the answer before it is gone.
LEMMA BarRequestGoesOn ==
    ASSUME CallInv, AnswerSound, Reads, Profile \/ Resolve \/ ReadCount
    PROVE  AnswerSound' /\ (call' = [op |-> "none"] \/ call'.op \in BarOps)
<1>1. call.op \in BarOps
  BY DEF Profile, Resolve, ReadCount, At, BarOps
<1>2. call \in BarCalls
  BY <1>1, BarCallTyped
<1>3. ASSUME NEW code \in {404, INVALID_ARGUMENT}, Reply(Failed(code))
      PROVE  AnswerSound' /\ call' = [op |-> "none"]
  <2>1. call' = [op |-> "none"] /\ answer' = [op |-> call.op, code |-> code] /\ code # 200
    BY <1>3 DEF Reply, Failed, INVALID_ARGUMENT
  <2>2. QuietAnswer(answer)'
    BY <1>1, <2>1 DEF QuietAnswer, BarOps
  <2> QED
    BY <2>1, <2>2, QuietIsSound
<1>4. ASSUME NEW next, Goes(next), next.op = call.op
      PROVE  AnswerSound' /\ call'.op \in BarOps
  BY <1>1, <1>4, SameIsSound DEF Goes, Reads
<1>5. CASE Profile
  <2> DEFINE next == [call EXCEPT !.step = "resolve",
                        !.series = <<assets[call.symbol], RestToStorage(call.frame)>>,
                        !.promised = Promised(call.symbol, call.frame)]
  <2>1. Goes(next) \/ Reply(Failed(404))
    BY <1>5 DEF Profile
  <2>2. next.op = call.op
    BY <1>2 DEF BarCalls
  <2> HIDE DEF next
  <2> QED
    BY <1>3, <1>4, <2>1, <2>2
<1>6. CASE Resolve
  <2> DEFINE p == IF call.asked = "" THEN ResolveProvider(call.series) ELSE call.asked
             next == [call EXCEPT !.step = "read", !.provider = p,
                                  !.before = AllRows(call.series)]
  <2>1. Goes(next) \/ Reply(Failed(INVALID_ARGUMENT))
    BY <1>6 DEF Resolve
  <2>2. next.op = call.op
    BY <1>2 DEF BarCalls
  <2> HIDE DEF next
  <2> QED
    BY <1>3, <1>4, <2>1, <2>2
<1>7. CASE ReadCount
  <2> DEFINE meta == MetaOf(call.series, call.provider)
             next == [call EXCEPT !.step = "last",
                        !.count = IF meta = NoMeta THEN 0 ELSE meta.count]
  <2>1. Goes(next)
    BY <1>7 DEF ReadCount
  <2>2. next.op = call.op
    BY <1>2 DEF BarCalls
  <2> HIDE DEF next
  <2> QED
    BY <1>4, <2>1, <2>2
<1> QED
  BY <1>5, <1>6, <1>7

\* Every answer is sound when it is given, and gone or sound after that.
LEMMA AnswersKeep ==
    ASSUME SeriesInv, CatalogInv, CallInv, AnswerInv, CallInv', [Next]_vars
    PROVE  AnswerInv'
<1>0. AnswerSound /\ PageSound(call)
  BY AnswerParts
<1>1. ASSUME AnswerSound', call' = [op |-> "none"]
      PROVE  AnswerInv'
  BY <1>1, NoPageYet, AnswerPartsNext
<1>2. ASSUME UNCHANGED <<answer, store>>,
             call'.op \in BarOps \cup {"post", "audit"} \/ PageSound(call)'
      PROVE  AnswerInv'
  BY <1>0, <1>2, SameIsSound, NoPageYet, AnswerPartsNext
<1>3. ASSUME Forgets
      PROVE  AnswerInv'
  <2>1. call' = call /\ answer' = [op |-> "none"]
    BY <1>3 DEF Forgets
  <2>2. AnswerSound'
    BY <2>1, QuietIsSound DEF QuietAnswer
  <2>3. PageSound(call)'
    BY <1>0, <2>1 DEF PageSound
  <2> QED
    BY <2>2, <2>3, AnswerPartsNext
<1>4. ReadStep => UNCHANGED store
  BY ReadStepReads DEF Reads
<1>5. CASE AskQuote \/ AskHistorical \/ AskBars \/ PostExists \/ AskAudit
  <2>1. UNCHANGED answer
    BY <1>5 DEF AskQuote, AskHistorical, AskBars, PostExists, AskAudit, Ask
  <2>2. call'.op \in BarOps \cup {"post", "audit"}
    <3>1. CASE AskQuote \/ AskHistorical \/ AskBars
      <4>1. call' \in BarCalls
        BY <3>1, AsksBars
      <4> QED
        BY <4>1 DEF BarCalls
    <3>2. CASE PostExists \/ AskAudit
      BY <3>2 DEF PostExists, AskAudit, Ask
    <3> QED
      BY <1>5, <3>1, <3>2
  <2>3. UNCHANGED store
    BY <1>4, <1>5 DEF ReadStep
  <2> QED
    BY <1>2, <2>1, <2>2, <2>3
<1>6. CASE \/ BadRange \/ ProfileFails \/ BarRpcFails \/ ListFails \/ GetProfile \/ Search
           \/ Healthz \/ PostFails
  BY <1>1, <1>6, QuietAnswers
<1>7. CASE Profile \/ Resolve \/ ReadCount
  <2>1. Reads
    BY <1>7, ReadStepReads DEF ReadStep
  <2>2. AnswerSound' /\ (call' = [op |-> "none"] \/ call'.op \in BarOps)
    BY <1>0, <1>7, <2>1, BarRequestGoesOn
  <2> QED
    BY <2>2, NoPageYet, AnswerPartsNext
<1>8. CASE ReadLast \/ Healthcheck \/ ReadRecent \/ ReadRange \/ AuditOffGrid
           \/ PostCreates \/ PostConflict
  <2>1. AnswerSound'
    BY <1>8, HealthIsSound, RecentIsSound, RangeIsSound, AuditAnswer, PostIsSound
  <2>2. call' = [op |-> "none"]
    BY <1>8 DEF ReadLast, Healthcheck, ReadRecent, ReadRange, AuditOffGrid, PostCreates,
                PostConflict, Reply
  <2> QED
    BY <1>1, <2>1, <2>2
<1>9. CASE AskList
  <2>1. PICK filter \in Filters :
          /\ call' = [op |-> "list", step |-> "page", filter |-> filter, cursor |-> 0,
                      walked |-> <<>>, present |-> DOMAIN assets \cap filter, page |-> {}]
          /\ UNCHANGED answer
    BY <1>9 DEF AskList, Ask
  <2>2. PageSound(call)'
    BY <2>1 DEF PageSound
  <2>3. UNCHANGED store
    BY <1>4, <1>9 DEF ReadStep
  <2> QED
    BY <1>2, <2>1, <2>2, <2>3
<1>10. CASE ListPage
  <2>1. UNCHANGED store
    BY <1>4, <1>10 DEF ReadStep
  <2> QED
    BY <1>0, <1>10, <2>1, WalkIsSound, AnswerPartsNext
<1>11. CASE AuditCombos
  <2>1. call.op = "audit" /\ call \in AuditCalls /\ UNCHANGED answer
    BY <1>11, CallKinds DEF AuditCombos, At, CallInv, Goes
  <2>2. call' = [call EXCEPT !.step = "off_grid", !.before = AllRows(call.series),
                             !.problems = GapProblems(AllRows(call.series), Secs)]
    BY <1>11 DEF AuditCombos, Goes
  <2>3. call'.op = "audit"
    BY <2>1, <2>2 DEF AuditCalls
  <2>4. UNCHANGED store
    BY <1>4, <1>11 DEF ReadStep
  <2> QED
    BY <1>2, <2>1, <2>3, <2>4
<1>12. CASE Forget \/ LateCommit \/ BarsArrive \/ CatalogMoves
  BY <1>3, <1>12 DEF Forget, LateCommit, BarsArrive, CatalogMoves
<1>13. CASE UNCHANGED vars
  <2>1. UNCHANGED <<answer, store>> /\ call' = call
    BY <1>13 DEF vars
  <2>2. PageSound(call)'
    BY <1>0, <2>1 DEF PageSound
  <2> QED
    BY <1>2, <2>1, <2>2
<1> QED
  BY <1>5, <1>6, <1>7, <1>8, <1>9, <1>10, <1>11, <1>12, <1>13 DEF Next

-----------------------------------------------------------------------------
(* The theorems *)

LEMMA InitSound == Init => ServingInv
<1> SUFFICES ASSUME Init PROVE ServingInv
  OBVIOUS
<1>1. SeriesInv
  <2>1. PICK S \in Legacy :
          /\ rows = [k \in Keys |-> IF k[3] = "tradingview" THEN S ELSE {}]
          /\ cached = [k \in Keys |->
               IF rows[k] = {} THEN NoMeta ELSE [last |-> Max(S), count |-> Cardinality(S)]]
    BY DEF Init
  <2>2. S \subseteq Nat \ {0} /\ IsFiniteSet(S)
    BY ServingAssumption DEF ServingAssumption
  <2>3. Cardinality(S) \in 0..Cardinality(S)
    BY <2>2, FS_CardinalityType
  <2>4. S # {} => Max(S) \in S
    BY <2>2, FiniteMax
  <2> SUFFICES ASSUME NEW k \in Keys
               PROVE  /\ rows[k] \subseteq Nat \ {0} /\ IsFiniteSet(rows[k])
                      /\ rows[k] = {} => cached[k] = NoMeta
                      /\ rows[k] # {} =>
                           cached[k] \in [last: rows[k], count: 0..Cardinality(rows[k])]
    BY <2>1 DEF SeriesInv
  <2>5. rows[k] = S \/ rows[k] = {}
    BY <2>1
  <2>6. cached[k] = IF rows[k] = {} THEN NoMeta ELSE [last |-> Max(S), count |-> Cardinality(S)]
    BY <2>1
  <2>7. CASE rows[k] = {}
    BY <2>6, <2>7, FS_EmptySet
  <2>8. CASE rows[k] # {}
    <3>1. rows[k] = S /\ S # {} /\ cached[k] = [last |-> Max(S), count |-> Cardinality(S)]
      BY <2>5, <2>6, <2>8
    <3>2. cached[k] \in [last: S, count: 0..Cardinality(S)]
      BY <2>3, <2>4, <3>1
    <3> QED
      BY <2>2, <3>1, <3>2
  <2> QED
    BY <2>7, <2>8
<1>2. CatalogInv
  <2>1. assets \in Yamls /\ DOMAIN feeds = {} /\ late = {} /\ posted = {}
    BY DEF Init
  <2>2. DOMAIN assets \subseteq Symbols /\ IsFiniteSet(DOMAIN assets)
    BY <2>1, ServingAssumption DEF ServingAssumption
  <2>3. Range(assets) \subseteq Storages
    BY <2>1 DEF Storages
  <2> QED
    BY <2>1, <2>2, <2>3, FS_EmptySet DEF CatalogInv
<1>3. call = [op |-> "none"] /\ answer = [op |-> "none"]
  BY DEF Init
<1>4. CallInv
  BY <1>3 DEF CallInv, CallType, BarCallInv, BarOps, ListCallInv, AuditCallInv, PostCallInv
<1>5. AnswerInv
  BY <1>3 DEF AnswerInv, HealthIsStored, InventoryServed, RangeIsHonest, IsBars,
              PagesComplete, ActiveShowsBars, AuditIsSound
<1> QED
  BY <1>1, <1>2, <1>4, <1>5 DEF ServingInv

\* ServingInv holds whenever the tables, the requests and the answers have come
\* about by the handlers of bar-grpc and the gateway and by the writers.
THEOREM Invariance == Spec => []ServingInv
<1>1. ServingInv /\ [Next]_vars => ServingInv'
  <2> SUFFICES ASSUME ServingInv, [Next]_vars PROVE ServingInv'
    OBVIOUS
  <2>1. SeriesInv /\ CatalogInv /\ CallInv /\ AnswerInv
    BY DEF ServingInv
  <2>2. SeriesInv' /\ CatalogInv'
    BY <2>1, TablesKeep
  <2>3. CallInv'
    BY <2>1, CallsKeep
  <2>4. AnswerInv'
    BY <2>1, <2>3, AnswersKeep
  <2> QED
    BY <2>2, <2>3, <2>4 DEF ServingInv
<1> QED
  BY <1>1, InitSound, PTL DEF Spec

\* Tables, requests and late POSTs keep their types; a request only ever asks
\* for a series that is stored, or that an asset and a known timeframe name.
THEOREM TypeCorrect == Spec => []TypeOK
<1>1. ServingInv => TypeOK
  <2> SUFFICES ASSUME ServingInv PROVE TypeOK
    OBVIOUS
  <2>1. CatalogInv /\ CallType
    BY DEF ServingInv, CallInv
  <2>2. call \in {[op |-> "none"]} \cup BarCalls \cup ListCalls \cup PostCalls \cup AuditCalls
    BY <2>1 DEF CallType
  <2>3. call.op \in {"none", "quote", "historical", "recent", "range", "health",
                     "list", "post", "audit"}
    <3>1. call \in BarCalls => call.op \in BarOps
      BY DEF BarCalls
    <3>2. call \in ListCalls \cup PostCalls \cup AuditCalls => call.op \in {"list", "post", "audit"}
      BY DEF ListCalls, PostCalls, AuditCalls
    <3>3. call = [op |-> "none"] => call.op = "none"
      OBVIOUS
    <3> QED
      BY <2>2, <3>1, <3>2, <3>3 DEF BarOps
  <2>4. call = [op |-> "none"] => {"provider", "series"} \cap DOMAIN call = {}
    OBVIOUS
  <2>5. "provider" \in DOMAIN call => call.provider \in Providers \cup {""}
    <3>1. call \in BarCalls => call.provider \in Providers \cup {""}
      BY DEF BarCalls
    <3> QED
      BY <2>2, <2>4, <3>1, CallFields
  <2>6. "series" \in DOMAIN call => call.series \in AskedSeries
    <3>1. call \in BarCalls => call.series \in AskedSeries
      BY DEF BarCalls
    <3>2. call \in AuditCalls => call.series \in AskedSeries
      BY DEF AuditCalls, AskedSeries
    <3> QED
      BY <2>2, <2>4, <3>1, <3>2, CallFields
  <2> QED
    BY <2>1, <2>3, <2>5, <2>6 DEF TypeOK, CatalogInv
<1> QED
  BY <1>1, Invariance, PTL

\* HealthCheck (bar_service.py) and the docker HEALTHCHECK of data-svc call a
\* series ready only with MIN_BARS bars stored for the provider they name.
THEOREM ReadyIsStored == Spec => []HealthIsStored
<1>1. ServingInv => HealthIsStored
  BY DEF ServingInv, AnswerInv
<1> QED
  BY <1>1, Invariance, PTL

\* GetRecentBars and the quote route are empty only when no provider had bars
\* as the provider was resolved, and never for a promised timeframe.
THEOREM EmptyMeansNone == Spec => []InventoryServed
<1>1. ServingInv => InventoryServed
  BY DEF ServingInv, AnswerInv
<1> QED
  BY <1>1, Invariance, PTL

\* GetBarsInRange leaves out no stored bar of the range but the oldest ones,
\* and then says that the answer is truncated.
THEOREM RangesAreHonest == Spec => []RangeIsHonest
<1>1. ServingInv => RangeIsHonest
  BY DEF ServingInv, AnswerInv
<1> QED
  BY <1>1, Invariance, PTL

\* A client that follows next_cursor of list_with_status to the end has seen
\* every asset that was there when it began, in order and once.
THEOREM WalksAreComplete == Spec => []PagesComplete
<1>1. ServingInv => PagesComplete
  BY DEF ServingInv, AnswerInv
<1> QED
  BY <1>1, Invariance, PTL

\* list_with_status and get_with_status call no asset active without the time
\* of one of its bars.
THEOREM ActiveMeansBars == Spec => []ActiveShowsBars
<1>1. ServingInv => ActiveShowsBars
  BY DEF ServingInv, AnswerInv
<1> QED
  BY <1>1, Invariance, PTL

\* What the audit (db/audit.py) finds healthy was an unbroken run of bars when
\* its first statement looked, if one provider wrote it.
THEOREM HealthyIsContiguous == Spec => []AuditIsSound
<1>1. ServingInv => AuditIsSound
  BY DEF ServingInv, AnswerInv
<1> QED
  BY <1>1, Invariance, PTL
=============================================================================
