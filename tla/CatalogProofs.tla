---------------------------- MODULE CatalogProofs ----------------------------
(***************************************************************************)
(* Theorems about Catalog, for every set of handlers, requests, yaml files *)
(* and environment feeds.  All of them follow from CatalogInv.             *)
(***************************************************************************)
EXTENDS Catalog, TLAPS

-----------------------------------------------------------------------------
(* Lemmas *)

LEMMA TailOfSeq ==
    ASSUME NEW s \in Seq(STRING), s # <<>>
    PROVE  /\ Head(s) \in STRING /\ Tail(s) \in Seq(STRING)
           /\ {s[i] : i \in DOMAIN s} = {Head(s)} \cup {Tail(s)[i] : i \in DOMAIN Tail(s)}
<1>1. /\ Head(s) = s[1] /\ Tail(s) \in Seq(STRING)
      /\ DOMAIN s = 1..Len(s) /\ Len(s) \in Nat \ {0}
      /\ DOMAIN Tail(s) = 1..Len(s) - 1
      /\ \A i \in 1..Len(s) - 1 : Tail(s)[i] = s[i + 1]
  OBVIOUS
<1>2. ASSUME NEW i \in DOMAIN s
      PROVE  s[i] \in {Head(s)} \cup {Tail(s)[j] : j \in DOMAIN Tail(s)}
  <2>1. CASE i = 1
    BY <1>1, <2>1
  <2>2. CASE i # 1
    <3>1. i - 1 \in 1..Len(s) - 1 /\ s[i] = Tail(s)[i - 1]
      BY <1>1, <2>2
    <3> QED
      BY <1>1, <3>1
  <2> QED
    BY <2>1, <2>2
<1>3. ASSUME NEW j \in DOMAIN Tail(s) PROVE \E i \in DOMAIN s : s[i] = Tail(s)[j]
  <2>1. j + 1 \in DOMAIN s /\ s[j + 1] = Tail(s)[j]
    BY <1>1
  <2> QED
    BY <2>1
<1>4. Head(s) \in {s[i] : i \in DOMAIN s} /\ Head(s) \in STRING
  <2>1. 1 \in DOMAIN s /\ s[1] \in STRING
    BY <1>1
  <2> QED
    BY <1>1, <2>1
<1>5. {s[i] : i \in DOMAIN s} \subseteq {Head(s)} \cup {Tail(s)[i] : i \in DOMAIN Tail(s)}
  BY <1>2
<1>6. {Head(s)} \cup {Tail(s)[i] : i \in DOMAIN Tail(s)} \subseteq {s[i] : i \in DOMAIN s}
  BY <1>3, <1>4
<1> QED
  BY <1>1, <1>4, <1>5, <1>6

LEMMA KeysOfRequest ==
    ASSUME NEW r \in Requests
    PROVE  /\ KeysOf(r) \subseteq Keys /\ r.symbol \in Symbols
           /\ r.timeframes \in Seq(STRING) /\ r # NoRequest
  BY CatalogAssumption DEF Keys, Symbols, CatalogAssumption

\* The columns of a handler after it has answered.
LEMMA IdleType ==
    ASSUME TypeOK, NEW h \in Handlers, Idle(h)
    PROVE  /\ req' \in [Handlers -> Requests \cup {NoRequest}]
           /\ hpc' \in [Handlers -> {"idle", "select", "exists", "insert", "feeds"}]
           /\ own' \in [Handlers -> SUBSET Keys] /\ todo' \in [Handlers -> Seq(STRING)]
           /\ req'[h] = NoRequest /\ hpc'[h] = "idle" /\ own'[h] = {} /\ todo'[h] = <<>>
           /\ \A g \in Handlers \ {h} :
                /\ req'[g] = req[g] /\ hpc'[g] = hpc[g]
                /\ own'[g] = own[g] /\ todo'[g] = todo[g]
<1>1. <<>> \in Seq(STRING) /\ {} \in SUBSET Keys
  OBVIOUS
<1> QED
  BY <1>1 DEF Idle, TypeOK

\* A handler that keeps what it has keeps its part of the invariant, as long
\* as the committed tables do not take what it holds.
LEMMA TxOfKept ==
    ASSUME NEW h \in Handlers, TxOf(h),
           req'[h] = req[h], hpc'[h] = hpc[h], own'[h] = own[h], todo'[h] = todo[h],
           DOMAIN feeds \subseteq DOMAIN feeds',
           hpc[h] = "feeds" => /\ req[h].symbol \notin DOMAIN assets'
                               /\ own[h] \cap DOMAIN feeds' = {}
    PROVE  TxOf(h)'
<1>1. Ahead(h)' = Ahead(h)
  BY DEF Ahead, Key
<1> QED
  BY <1>1 DEF TxOf

LEMMA ApartKept ==
    ASSUME NEW g \in Handlers, NEW h \in Handlers, Apart(g, h),
           \A i \in {g, h} : req'[i] = req[i] /\ hpc'[i] = hpc[i] /\ own'[i] = own[i]
    PROVE  Apart(g, h)'
  BY DEF Apart

\* A handler that answers, or has nothing, is no obstacle to any other.
LEMMA IdleTx ==
    ASSUME TypeOK, TxInv, NEW h \in Handlers, Idle(h),
           DOMAIN feeds \subseteq DOMAIN feeds',
           \A g \in Handlers \ {h} : hpc[g] = "feeds" =>
                /\ req[g].symbol \notin DOMAIN assets'
                /\ own[g] \cap DOMAIN feeds' = {}
    PROVE  TxInv'
<1>1. \A g \in Handlers : TxOf(g)'
  <2>1. TxOf(h)'
    BY IdleType DEF TxOf
  <2>2. ASSUME NEW g \in Handlers \ {h} PROVE TxOf(g)'
    BY <2>2, IdleType, TxOfKept DEF TxInv
  <2> QED
    BY <2>1, <2>2
<1>2. ASSUME NEW f \in Handlers, NEW g \in Handlers, f # g PROVE Apart(f, g)'
  <2>1. CASE h \in {f, g}
    BY <1>2, <2>1, IdleType DEF Apart
  <2>2. CASE h \notin {f, g}
    BY <1>2, <2>2, IdleType, ApartKept DEF TxInv
  <2> QED
    BY <2>1, <2>2
<1> QED
  BY <1>1, <1>2 DEF TxInv

\* Steps of the writer, the loader and the operator.
LEMMA TablesTx ==
    ASSUME TxInv, UNCHANGED <<req, hpc, todo, own>>,
           DOMAIN feeds \subseteq DOMAIN feeds',
           \A g \in Handlers : hpc[g] = "feeds" =>
                /\ req[g].symbol \notin DOMAIN assets'
                /\ own[g] \cap DOMAIN feeds' = {}
    PROVE  TxInv'
<1>1. \A g \in Handlers : TxOf(g)'
  BY TxOfKept DEF TxInv
<1>2. \A f, g \in Handlers : f # g => Apart(f, g)'
  BY ApartKept DEF TxInv
<1> QED
  BY <1>1, <1>2 DEF TxInv

-----------------------------------------------------------------------------
(* CreateAsset *)

\* An answer ends the request and changes neither table.
LEMMA AnswerKeeps ==
    ASSUME CatalogInv, NEW h \in Handlers, NEW a \in {"created", "exists", "internal"},
           Answer(h, a), UNCHANGED <<tables, stored, created, writer>>
    PROVE  CatalogInv'
<1> USE DEF tables, writer
<1>1. Idle(h) /\ answer' = [answer EXCEPT ![h] = a] /\ TypeOK /\ TxInv
  BY DEF Answer, CatalogInv
<1>2. TypeOK'
  BY <1>1, IdleType, KeysOfRequest DEF TypeOK
<1>3. TxInv'
  BY <1>1, IdleTx DEF TxInv, TxOf
<1>4. MarkInv' /\ ActiveHasBars' /\ CreatedIsWired'
  BY DEF CatalogInv, MarkInv, ActiveHasBars, CreatedIsWired
<1> QED
  BY <1>2, <1>3, <1>4 DEF CatalogInv

LEMMA ReceiveKeeps ==
    ASSUME CatalogInv, NEW h \in Handlers, Receive(h)
    PROVE  CatalogInv'
<1> USE DEF tables, writer
<1>1. PICK r \in Requests :
        req' = [req EXCEPT ![h] = r] /\ todo' = [todo EXCEPT ![h] = r.timeframes]
  BY DEF Receive
<1>2. /\ hpc[h] = "idle" /\ hpc' = [hpc EXCEPT ![h] = "select"]
      /\ answer' = [answer EXCEPT ![h] = "none"]
      /\ UNCHANGED <<assets, feeds, stored, own, created, wpc, targets, marking>>
  BY DEF Receive
<1>3. TypeOK /\ TxInv
  BY DEF CatalogInv
<1>4. TypeOK'
  BY <1>1, <1>2, <1>3, KeysOfRequest DEF TypeOK
<1>5. /\ req'[h] = r /\ hpc'[h] = "select" /\ todo'[h] = r.timeframes /\ own'[h] = {}
      /\ \A g \in Handlers \ {h} : req'[g] = req[g] /\ hpc'[g] = hpc[g] /\ todo'[g] = todo[g]
  BY <1>1, <1>2, <1>3 DEF TypeOK, TxInv, TxOf
<1>6. \A g \in Handlers : TxOf(g)'
  <2>1. TxOf(h)'
    BY <1>5 DEF TxOf
  <2>2. ASSUME NEW g \in Handlers \ {h} PROVE TxOf(g)'
    BY <1>2, <1>3, <1>5, <2>2, TxOfKept DEF TxInv, TxOf
  <2> QED
    BY <2>1, <2>2
<1>7. \A f, g \in Handlers : f # g => Apart(f, g)'
  BY <1>2, <1>3, <1>5 DEF TxInv, Apart
<1>8. MarkInv' /\ ActiveHasBars' /\ CreatedIsWired'
  BY <1>2 DEF CatalogInv, MarkInv, ActiveHasBars, CreatedIsWired
<1> QED
  BY <1>4, <1>6, <1>7, <1>8 DEF CatalogInv, TxInv

LEMMA SelectAssetKeeps ==
    ASSUME CatalogInv, NEW h \in Handlers, SelectAsset(h)
    PROVE  CatalogInv'
<1> USE DEF tables, writer, SelectAsset
<1>1. /\ TypeOK /\ TxInv /\ hpc'[h] \in {"exists", "insert"}
      /\ \A g \in Handlers \ {h} : hpc'[g] = hpc[g]
  BY DEF CatalogInv, TypeOK
<1>2. TypeOK'
  BY <1>1 DEF TypeOK
<1>3. \A g \in Handlers : TxOf(g)'
  <2>1. TxOf(h)'
    BY <1>1 DEF TxInv, TxOf
  <2>2. ASSUME NEW g \in Handlers \ {h} PROVE TxOf(g)'
    BY <1>1, <2>2, TxOfKept DEF TxInv, TxOf
  <2> QED
    BY <2>1, <2>2
<1>4. \A f, g \in Handlers : f # g => Apart(f, g)'
  BY <1>1 DEF TxInv, Apart
<1>5. MarkInv' /\ ActiveHasBars' /\ CreatedIsWired'
  BY DEF CatalogInv, MarkInv, ActiveHasBars, CreatedIsWired
<1> QED
  BY <1>2, <1>3, <1>4, <1>5 DEF CatalogInv, TxInv

\* It gets the primary key: nobody else has the symbol, committed or not.
LEMMA InsertAssetKeeps ==
    ASSUME CatalogInv, NEW h \in Handlers, InsertAsset(h)
    PROVE  CatalogInv'
<1> USE DEF tables, writer
<1>1. CASE Answer(h, "internal")
  BY <1>1, AnswerKeeps DEF InsertAsset
<1>2. CASE /\ req[h].symbol \notin DOMAIN assets
           /\ hpc' = [hpc EXCEPT ![h] = "feeds"]
           /\ UNCHANGED <<req, todo, own, answer>>
  <2>1. /\ hpc[h] = "insert" /\ UNCHANGED <<assets, feeds, stored, created, wpc, targets, marking>>
        /\ \A g \in Handlers \ {h} : hpc[g] = "feeds" => req[g].symbol # req[h].symbol
    BY DEF InsertAsset, Others, HoldsSymbol
  <2>2. /\ TypeOK /\ TxInv /\ hpc'[h] = "feeds"
        /\ \A g \in Handlers \ {h} : hpc'[g] = hpc[g]
    BY <1>2 DEF CatalogInv, TypeOK
  <2>3. TypeOK'
    BY <1>2, <2>1, <2>2 DEF TypeOK
  <2>4. \A g \in Handlers : TxOf(g)'
    <3>1. own[h] = {} /\ todo[h] = req[h].timeframes
      BY <2>1, <2>2 DEF TxInv, TxOf
    <3>2. Ahead(h)' = KeysOf(req[h])
      BY <1>2, <3>1 DEF Ahead, KeysOf, Key
    <3>3. TxOf(h)'
      BY <1>2, <2>1, <2>2, <3>1, <3>2 DEF TxOf
    <3>4. ASSUME NEW g \in Handlers \ {h} PROVE TxOf(g)'
      BY <1>2, <2>1, <2>2, <3>4, TxOfKept DEF TxInv, TxOf
    <3> QED
      BY <3>3, <3>4
  <2>5. \A f, g \in Handlers : f # g => Apart(f, g)'
    BY <1>2, <2>1, <2>2 DEF TxInv, Apart
  <2>6. MarkInv' /\ ActiveHasBars' /\ CreatedIsWired'
    BY <2>1 DEF CatalogInv, MarkInv, ActiveHasBars, CreatedIsWired
  <2> QED
    BY <2>3, <2>4, <2>5, <2>6 DEF CatalogInv, TxInv
<1> QED
  BY <1>1, <1>2 DEF InsertAsset

\* A feed moves from what is ahead into the transaction, or is there already.
LEMMA InsertFeedKeeps ==
    ASSUME CatalogInv, NEW h \in Handlers, InsertFeed(h)
    PROVE  CatalogInv'
<1> DEFINE k == Key(req[h], Head(todo[h]))
<1> USE DEF tables, writer
<1>1. /\ hpc[h] = "feeds" /\ todo[h] # <<>>
      /\ \A g \in Handlers \ {h} : k \notin own[g]
      /\ own' = [own EXCEPT ![h] = IF k \in DOMAIN feeds THEN @ ELSE @ \cup {k}]
      /\ todo' = [todo EXCEPT ![h] = Tail(@)]
      /\ UNCHANGED <<assets, feeds, stored, req, hpc, answer, created, wpc, targets, marking>>
  BY DEF InsertFeed, Others
<1>2. TypeOK /\ TxInv
  BY DEF CatalogInv
<1>3. todo[h] \in Seq(STRING) /\ todo'[h] = Tail(todo[h]) /\ todo'[h] \in Seq(STRING)
  BY <1>1, <1>2, TailOfSeq DEF TypeOK
<1>4. Ahead(h) = {k} \cup Ahead(h)'
  <2>1. {todo[h][i] : i \in DOMAIN todo[h]} =
          {Head(todo[h])} \cup {todo'[h][i] : i \in DOMAIN todo'[h]}
    BY <1>1, <1>3, TailOfSeq, ZenonT(30)
  <2>2. Ahead(h) = {Key(req[h], x) : x \in {todo[h][i] : i \in DOMAIN todo[h]}}
    BY DEF Ahead
  <2>3. Ahead(h)' = {Key(req[h], x) : x \in {todo'[h][i] : i \in DOMAIN todo'[h]}}
    BY <1>1 DEF Ahead, Key
  <2> QED
    BY <2>1, <2>2, <2>3
<1>5. req[h] \in Requests
  BY <1>1, <1>2 DEF TypeOK
<1>6. k \in Keys /\ k \in KeysOf(req[h])
  BY <1>1, <1>2, <1>4, <1>5, KeysOfRequest DEF TxInv, TxOf
<1> HIDE DEF k
<1>7. /\ own'[h] = (IF k \in DOMAIN feeds THEN own[h] ELSE own[h] \cup {k})
      /\ \A g \in Handlers \ {h} : own'[g] = own[g] /\ todo'[g] = todo[g]
  BY <1>1, <1>2 DEF TypeOK
<1>8. TypeOK'
  <2>1. own' \in [Handlers -> SUBSET Keys]
    BY <1>1, <1>2, <1>6 DEF TypeOK
  <2>2. todo' \in [Handlers -> Seq(STRING)]
    BY <1>1, <1>2, <1>3 DEF TypeOK
  <2> QED
    BY <1>1, <1>2, <2>1, <2>2 DEF TypeOK
<1>9. \A g \in Handlers : TxOf(g)'
  <2>1. TxOf(h)'
    BY <1>1, <1>2, <1>4, <1>6, <1>7 DEF TxInv, TxOf
  <2>2. ASSUME NEW g \in Handlers \ {h} PROVE TxOf(g)'
    BY <1>1, <1>2, <1>7, <2>2, TxOfKept DEF TxInv, TxOf
  <2> QED
    BY <2>1, <2>2
<1>10. \A f, g \in Handlers : f # g => Apart(f, g)'
  BY <1>1, <1>2, <1>7 DEF TxInv, Apart
<1>11. MarkInv' /\ ActiveHasBars' /\ CreatedIsWired'
  BY <1>1 DEF CatalogInv, MarkInv, ActiveHasBars, CreatedIsWired
<1> QED
  BY <1>8, <1>9, <1>10, <1>11 DEF CatalogInv, TxInv

\* What the commit of h adds to the tables: its asset, and exactly the feeds
\* of its request that are missing.
LEMMA CommitAdds ==
    ASSUME CatalogInv, NEW h \in Handlers, Commit(h)
    PROVE  /\ req[h] \in Requests /\ req[h].symbol \notin DOMAIN assets
           /\ DOMAIN assets' = DOMAIN assets \cup {req[h].symbol}
           /\ own[h] \subseteq Keys /\ own[h] \cap DOMAIN feeds = {}
           /\ DOMAIN feeds' = DOMAIN feeds \cup own[h]
           /\ DOMAIN feeds \cup own[h] = DOMAIN feeds \cup KeysOf(req[h])
           /\ \A k \in DOMAIN feeds : feeds'[k] = feeds[k]
           /\ \A k \in own[h] : feeds'[k] = "pending"
<1>1. TypeOK /\ TxOf(h) /\ hpc[h] = "feeds" /\ todo[h] = <<>>
  BY DEF CatalogInv, TxInv, Commit
<1>2. Ahead(h) = {}
  BY <1>1 DEF Ahead
<1>3. req[h] \in Requests /\ own[h] \subseteq Keys
  BY <1>1 DEF TypeOK
<1>4. /\ own[h] \cap DOMAIN feeds = {} /\ req[h].symbol \notin DOMAIN assets
      /\ DOMAIN feeds \cup own[h] = DOMAIN feeds \cup KeysOf(req[h])
  BY <1>1, <1>2 DEF TxOf
<1>5. /\ DOMAIN assets' = DOMAIN assets \cup {req[h].symbol}
      /\ DOMAIN feeds' = DOMAIN feeds \cup own[h]
      /\ \A k \in DOMAIN feeds' : feeds'[k] = IF k \in own[h] THEN "pending" ELSE feeds[k]
  BY DEF Commit
<1> QED
  BY <1>3, <1>4, <1>5

LEMMA CommitKeeps ==
    ASSUME CatalogInv, NEW h \in Handlers, Commit(h)
    PROVE  CatalogInv'
<1> USE DEF writer
<1>1. /\ TypeOK /\ TxInv /\ Idle(h) /\ hpc[h] = "feeds"
      /\ answer' = [answer EXCEPT ![h] = "created"]
      /\ created' = created \cup {req[h]}
      /\ UNCHANGED <<stored, wpc, targets, marking>>
  BY DEF CatalogInv, Commit, Answer
<1>0. /\ req[h] \in Requests /\ own[h] \subseteq Keys /\ req[h].symbol \in Symbols
      /\ DOMAIN assets' = DOMAIN assets \cup {req[h].symbol}
      /\ DOMAIN feeds' = DOMAIN feeds \cup own[h]
      /\ DOMAIN feeds' = DOMAIN feeds \cup KeysOf(req[h])
  BY CommitAdds, KeysOfRequest
<1>2. TypeOK'
  <2>1. DOMAIN assets' \subseteq Symbols
    BY <1>0, <1>1 DEF TypeOK
  <2>2. DOMAIN feeds' \subseteq Keys /\ feeds' \in [DOMAIN feeds' -> Statuses]
    <3>1. \A k \in DOMAIN feeds' : feeds'[k] \in Statuses
      BY <1>1, CommitAdds DEF TypeOK, Statuses
    <3>2. feeds' = [k \in DOMAIN feeds' |-> feeds'[k]]
      BY DEF Commit
    <3>3. feeds' \in [DOMAIN feeds' -> Statuses]
      BY <3>1, <3>2, Zenon
    <3> QED
      BY <1>0, <1>1, <3>3 DEF TypeOK
  <2> QED
    <3>1. answer' \in [Handlers -> {"none", "created", "exists", "internal"}]
      BY <1>1 DEF TypeOK
    <3>2. /\ req' \in [Handlers -> Requests \cup {NoRequest}]
          /\ hpc' \in [Handlers -> {"idle", "select", "exists", "insert", "feeds"}]
          /\ own' \in [Handlers -> SUBSET Keys] /\ todo' \in [Handlers -> Seq(STRING)]
      BY <1>1, IdleType
    <3>3. ASSUME NEW g \in Handlers PROVE (req'[g] = NoRequest) <=> (hpc'[g] = "idle")
      <4>1. (req[g] = NoRequest) <=> (hpc[g] = "idle")
        BY <1>1 DEF TypeOK
      <4>2. \/ g = h /\ req'[g] = NoRequest /\ hpc'[g] = "idle"
            \/ g # h /\ req'[g] = req[g] /\ hpc'[g] = hpc[g]
        BY <1>1, IdleType
      <4> QED
        BY <4>1, <4>2
    <3> QED
      BY <1>0, <1>1, <2>1, <2>2, <3>1, <3>2, <3>3 DEF TypeOK
<1>3. TxInv'
  <2>1. ASSUME NEW g \in Handlers \ {h}, hpc[g] = "feeds"
        PROVE  req[g].symbol \notin DOMAIN assets' /\ own[g] \cap DOMAIN feeds' = {}
    <3>1. Apart(g, h) /\ TxOf(g)
      BY <1>1, <2>1 DEF TxInv
    <3> QED
      BY <1>1, <2>1, <3>1, CommitAdds, ZenonT(30) DEF Apart, TxOf
  <2> QED
    BY <1>1, <2>1, IdleTx, CommitAdds
<1>4. MarkInv' /\ ActiveHasBars' /\ CreatedIsWired'
  <2>1. MarkInv' /\ ActiveHasBars'
    BY <1>1, CommitAdds DEF CatalogInv, MarkInv, ActiveHasBars
  <2>2. CreatedIsWired'
    BY <1>0, <1>1 DEF CatalogInv, CreatedIsWired
  <2> QED
    BY <2>1, <2>2
<1> QED
  BY <1>2, <1>3, <1>4 DEF CatalogInv

LEMMA GrpcRestartKeeps ==
    ASSUME CatalogInv, GrpcRestart
    PROVE  CatalogInv'
<1>1. PICK y \in Yamls : DOMAIN assets' = DOMAIN assets \cup DOMAIN y
  BY DEF GrpcRestart
<1>2. /\ req' = [h \in Handlers |-> NoRequest] /\ hpc' = [h \in Handlers |-> "idle"]
      /\ todo' = [h \in Handlers |-> <<>>] /\ own' = [h \in Handlers |-> {}]
      /\ answer' = [h \in Handlers |-> "none"]
      /\ UNCHANGED <<feeds, stored, created, wpc, targets, marking>>
  BY DEF GrpcRestart, writer
<1>3. TypeOK'
  <2>1. DOMAIN assets' \subseteq Symbols
    BY <1>1, SMTT(30) DEF CatalogInv, TypeOK, Symbols
  <2>2. /\ req' \in [Handlers -> Requests \cup {NoRequest}]
        /\ hpc' \in [Handlers -> {"idle", "select", "exists", "insert", "feeds"}]
        /\ own' \in [Handlers -> SUBSET Keys]
        /\ answer' \in [Handlers -> {"none", "created", "exists", "internal"}]
        /\ \A h \in Handlers : (req'[h] = NoRequest) <=> (hpc'[h] = "idle")
    BY <1>2
  <2>3. todo' \in [Handlers -> Seq(STRING)]
    BY <1>2
  <2> QED
    BY <1>2, <2>1, <2>2, <2>3 DEF CatalogInv, TypeOK
<1>4. TxInv'
  BY <1>2 DEF TxInv, TxOf, Apart
<1>5. MarkInv' /\ ActiveHasBars' /\ CreatedIsWired'
  BY <1>1, <1>2 DEF CatalogInv, MarkInv, ActiveHasBars, CreatedIsWired
<1> QED
  BY <1>3, <1>4, <1>5 DEF CatalogInv

-----------------------------------------------------------------------------
(* The writer and the operator *)

\* Steps that leave both tables and the handlers alone.
LEMMA WriterKeeps ==
    ASSUME CatalogInv, UNCHANGED <<tables, handlers>>, stored \subseteq stored',
           stored' \subseteq Keys, wpc' \in {"down", "boot", "loop", "mark"},
           targets' \subseteq [key : Keys, status : Statuses],
           \A t \in targets' : t.key \in DOMAIN feeds,
           marking' \in IF wpc' = "mark" THEN Keys ELSE {NoKey},
           wpc' = "mark" => marking' \in stored' /\ marking' \in DOMAIN feeds
    PROVE  CatalogInv'
<1> USE DEF tables, handlers
<1>1. TypeOK'
  BY DEF CatalogInv, TypeOK
<1>2. TxInv'
  BY TablesTx DEF CatalogInv, TxInv, TxOf
<1>3. MarkInv' /\ ActiveHasBars' /\ CreatedIsWired'
  BY DEF CatalogInv, MarkInv, ActiveHasBars, CreatedIsWired
<1> QED
  BY <1>1, <1>2, <1>3 DEF CatalogInv

LEMMA SeedKeeps ==
    ASSUME CatalogInv, Seed
    PROVE  CatalogInv'
<1>1. /\ wpc = "down" /\ wpc' = "boot"
      /\ UNCHANGED <<assets, stored, req, hpc, todo, own, answer, created, targets, marking>>
  BY DEF Seed, handlers
<1>2. CASE UNCHANGED feeds
  <2>1. marking = NoKey
    BY <1>1 DEF CatalogInv, TypeOK
  <2> QED
    BY <1>1, <1>2, <2>1, WriterKeeps DEF CatalogInv, TypeOK, MarkInv, tables, handlers
<1>3. CASE /\ \A h \in Handlers : own[h] \cap EnvFeeds = {}
           /\ feeds' = [k \in DOMAIN feeds \cup EnvFeeds |->
                          IF k \in DOMAIN feeds THEN feeds[k] ELSE SeedStatus(k)]
  <2>1. /\ DOMAIN feeds' = DOMAIN feeds \cup EnvFeeds
        /\ \A k \in DOMAIN feeds : feeds'[k] = feeds[k]
        /\ \A k \in EnvFeeds \ DOMAIN feeds : feeds'[k] = SeedStatus(k)
    BY <1>3
  <2>2. TypeOK'
    <3>1. \A k \in DOMAIN feeds' : feeds'[k] \in Statuses
      BY <2>1 DEF CatalogInv, TypeOK, SeedStatus, Statuses
    <3>2. feeds' = [k \in DOMAIN feeds' |-> feeds'[k]]
      BY <1>3
    <3>3. feeds' \in [DOMAIN feeds' -> Statuses]
      BY <3>1, <3>2, Zenon
    <3>4. DOMAIN feeds' \subseteq Keys
      BY <2>1 DEF CatalogInv, TypeOK, Keys
    <3> QED
      BY <1>1, <3>3, <3>4 DEF CatalogInv, TypeOK
  <2>3. TxInv'
    BY <1>1, <1>3, <2>1, TablesTx DEF CatalogInv, TxInv, TxOf
  <2>4. MarkInv' /\ CreatedIsWired'
    BY <1>1, <2>1 DEF CatalogInv, MarkInv, CreatedIsWired
  <2>5. ActiveHasBars'
    BY <1>1, <2>1 DEF CatalogInv, ActiveHasBars, SeedStatus
  <2> QED
    BY <2>2, <2>3, <2>4, <2>5 DEF CatalogInv
<1> QED
  BY <1>2, <1>3 DEF Seed

\* A new status of one feed.
LEMMA StatusKeeps ==
    ASSUME CatalogInv, NEW k \in DOMAIN feeds, NEW status \in Statuses,
           feeds' = [feeds EXCEPT ![k] = status],
           status = "active" => k \in stored,
           UNCHANGED <<assets, stored, handlers, targets>>,
           wpc' \in {"down", "boot", "loop", "mark"},
           marking' \in IF wpc' = "mark" THEN Keys ELSE {NoKey},
           wpc' = "mark" => marking' \in stored /\ marking' \in DOMAIN feeds
    PROVE  CatalogInv'
<1> USE DEF handlers
<1>1. /\ DOMAIN feeds' = DOMAIN feeds /\ feeds'[k] = status
      /\ \A j \in DOMAIN feeds \ {k} : feeds'[j] = feeds[j]
      /\ feeds' \in [DOMAIN feeds -> Statuses]
  BY DEF CatalogInv, TypeOK
<1>2. TypeOK'
  BY <1>1 DEF CatalogInv, TypeOK
<1>3. TxInv'
  BY <1>1, TablesTx DEF CatalogInv, TxInv, TxOf
<1>4. MarkInv' /\ ActiveHasBars' /\ CreatedIsWired'
  BY <1>1 DEF CatalogInv, MarkInv, ActiveHasBars, CreatedIsWired
<1> QED
  BY <1>2, <1>3, <1>4 DEF CatalogInv

LEMMA WriterStepKeeps ==
    ASSUME CatalogInv, WriterStep
    PROVE  CatalogInv'
<1> USE DEF tables
<1>0. /\ stored \subseteq Keys /\ wpc \in {"down", "boot", "loop", "mark"}
      /\ targets \subseteq [key : Keys, status : Statuses]
      /\ \A t \in targets : t.key \in DOMAIN feeds /\ t.key \in Keys
      /\ marking \in IF wpc = "mark" THEN Keys ELSE {NoKey}
      /\ wpc = "mark" => marking \in stored /\ marking \in DOMAIN feeds
  BY DEF CatalogInv, TypeOK, MarkInv
<1>1. CASE Seed
  BY <1>1, SeedKeeps
<1>2. CASE Boot \/ BootFails
  BY <1>0, <1>2, WriterKeeps DEF Boot, BootFails
<1>3. CASE BeginCycle
  <2>1. /\ targets' \subseteq [key : Keys, status : Statuses]
        /\ \A t \in targets' : t.key \in DOMAIN feeds
    BY <1>3 DEF BeginCycle, PollingTargets, Polled, CatalogInv, TypeOK
  <2> QED
    BY <1>0, <1>3, <2>1, WriterKeeps DEF BeginCycle
<1>4. CASE MarkActive
  <2>1. marking \in DOMAIN feeds /\ marking \in stored
    BY <1>0, <1>4 DEF MarkActive
  <2>2. PICK status \in Statuses : status = IF feeds[marking] = "pending" THEN "active"
                                             ELSE feeds[marking]
    BY <2>1 DEF CatalogInv, TypeOK, Statuses
  <2>3. /\ feeds' = [feeds EXCEPT ![marking] = status]
        /\ wpc' = "loop" /\ marking' = NoKey
        /\ UNCHANGED <<assets, stored, handlers, targets>>
    BY <1>4, <2>2 DEF MarkActive
  <2> QED
    BY <2>1, <2>2, <2>3, StatusKeeps
<1>5. CASE MarkFails \/ WriterCrash
  BY <1>0, <1>5, WriterKeeps DEF MarkFails, WriterCrash
<1>6. ASSUME NEW t \in targets, PollInserts(t) PROVE CatalogInv'
  BY <1>0, <1>6, WriterKeeps DEF PollInserts, Served
<1>7. ASSUME NEW t \in targets, PollInsertsNothing(t) PROVE CatalogInv'
  BY <1>0, <1>7, WriterKeeps DEF PollInsertsNothing, Served
<1>8. ASSUME NEW t \in targets, PollFails(t) PROVE CatalogInv'
  BY <1>0, <1>8, WriterKeeps DEF PollFails
<1> QED
  BY <1>1, <1>2, <1>3, <1>4, <1>5, <1>6, <1>7, <1>8 DEF WriterStep

LEMMA OperatorKeeps ==
    ASSUME CatalogInv, NEW k \in Keys, Backfill(k) \/ Disable(k)
    PROVE  CatalogInv'
<1> USE DEF tables, writer
<1>1. CASE Backfill(k)
  BY <1>1, WriterKeeps DEF Backfill, CatalogInv, TypeOK, MarkInv
<1>2. CASE Disable(k)
  BY <1>2, StatusKeeps DEF Disable, CatalogInv, TypeOK, MarkInv, Statuses
<1> QED
  BY <1>1, <1>2

-----------------------------------------------------------------------------
(* The invariant is inductive *)

LEMMA InitKeeps == Init => CatalogInv
<1> SUFFICES ASSUME Init PROVE CatalogInv
  OBVIOUS
<1>1. TypeOK
  <2>1. DOMAIN assets \subseteq Symbols
    BY DEF Init, Symbols
  <2>2. DOMAIN feeds = {} /\ feeds \in [DOMAIN feeds -> Statuses]
    BY DEF Init
  <2>3. todo \in [Handlers -> Seq(STRING)]
    BY DEF Init
  <2> QED
    BY <2>1, <2>2, <2>3 DEF Init, TypeOK
<1>2. TxInv
  BY DEF Init, TxInv, TxOf, Apart
<1>3. MarkInv /\ ActiveHasBars /\ CreatedIsWired
  BY DEF Init, MarkInv, ActiveHasBars, CreatedIsWired
<1> QED
  BY <1>1, <1>2, <1>3 DEF CatalogInv

LEMMA HandlerStepKeeps ==
    ASSUME CatalogInv, NEW h \in Handlers, HandlerStep(h)
    PROVE  CatalogInv'
<1>1. CASE Reread(h) \/ DeadlockVictim(h) \/ TxFails(h)
  BY <1>1, AnswerKeeps DEF Reread, DeadlockVictim, TxFails
<1> QED
  BY <1>1, ReceiveKeeps, SelectAssetKeeps, InsertAssetKeeps, InsertFeedKeeps, CommitKeeps
  DEF HandlerStep

LEMMA NextKeeps == CatalogInv /\ [Next]_vars => CatalogInv'
<1>1. ASSUME CatalogInv, UNCHANGED vars PROVE CatalogInv'
  <2>1. /\ UNCHANGED <<tables, handlers>> /\ UNCHANGED <<stored, wpc, targets, marking>>
    BY <1>1 DEF vars, tables, writer
  <2> QED
    BY <1>1, <2>1, WriterKeeps DEF CatalogInv, TypeOK, MarkInv
<1> QED
  BY <1>1, HandlerStepKeeps, GrpcRestartKeeps, WriterStepKeeps, OperatorKeeps DEF Next

\* Marks, feeds and transactions in flight agree in every reachable state.
THEOREM Invariance == Spec => []CatalogInv
  BY InitKeeps, NextKeeps, PTL DEF Spec

-----------------------------------------------------------------------------
(* The theorems *)

\* Tables, transactions and the writer keep their types.
THEOREM TypeCorrect == Spec => []TypeOK
<1>1. CatalogInv => TypeOK
  BY DEF CatalogInv
<1> QED
  BY <1>1, Invariance, PTL

\* A feed that is shown as active has bars, in every interleaving of writer,
\* backfill, operator and any number of CreateAsset transactions.
THEOREM ActiveFeedsHaveBars == Spec => []ActiveHasBars
<1>1. CatalogInv => ActiveHasBars
  BY DEF CatalogInv
<1> QED
  BY <1>1, Invariance, PTL

\* What was answered "created" is in the catalog with all its feeds, whichever
\* of them other transactions inserted and whether those committed or not.
THEOREM CreatedAssetsAreWired == Spec => []CreatedIsWired
<1>1. CatalogInv => CreatedIsWired
  BY DEF CatalogInv
<1> QED
  BY <1>1, Invariance, PTL

-----------------------------------------------------------------------------
(* The tables as the read API sees them *)

\* Who changes the tables or the bars, and how.
TablesChange ==
    \/ \E h \in Handlers : Commit(h)
    \/ GrpcRestart \/ Seed \/ MarkActive
    \/ \E t \in targets : PollInserts(t)
    \/ \E k \in Keys : Backfill(k) \/ Disable(k)

LEMMA WhoChangesTables ==
    [Next]_vars => TablesChange \/ UNCHANGED <<assets, feeds, stored>>
  BY DEF Next, vars, TablesChange, tables, HandlerStep, WriterStep, Receive, SelectAsset,
         InsertAsset, InsertFeed, Reread, DeadlockVictim, TxFails, Boot, BootFails, BeginCycle,
         PollInsertsNothing, PollFails, MarkFails, WriterCrash

\* A disabled feed stays disabled, also when it is promoted at that moment,
\* seeded again or part of a request that commits.
THEOREM DisabledFeedsStay == Spec => DisabledStays
<1>1. ASSUME CatalogInv, [Next]_vars, NEW k \in DOMAIN feeds, feeds[k] = "inactive"
      PROVE  k \in DOMAIN feeds' /\ feeds'[k] = "inactive"
  <2>1. CASE UNCHANGED feeds
    BY <1>1, <2>1
  <2>2. ASSUME NEW h \in Handlers, Commit(h)
        PROVE  k \in DOMAIN feeds' /\ feeds'[k] = "inactive"
    BY <1>1, <2>2, CommitAdds
  <2>3. CASE Seed
    BY <1>1, <2>3 DEF Seed
  <2>4. CASE MarkActive
    BY <1>1, <2>4 DEF MarkActive, CatalogInv, TypeOK
  <2>5. ASSUME NEW j \in Keys, Disable(j)
        PROVE  k \in DOMAIN feeds' /\ feeds'[k] = "inactive"
    BY <1>1, <2>5 DEF Disable, CatalogInv, TypeOK
  <2> QED
    BY <1>1, <2>1, <2>2, <2>3, <2>4, <2>5, WhoChangesTables
    DEF TablesChange, GrpcRestart, PollInserts, Backfill, tables
<1>2. CatalogInv /\ [Next]_vars =>
        [\A k \in DOMAIN feeds :
           feeds[k] = "inactive" => k \in DOMAIN feeds' /\ feeds'[k] = "inactive"]_vars
  BY <1>1
<1> QED
  BY <1>2, Invariance, PTL DEF Spec, DisabledStays

\* One commit onboards one asset with its feeds, although the transaction
\* inserted them one by one and skipped those of others.
LEMMA CommitOnboards ==
    ASSUME CatalogInv, NEW h \in Handlers, Commit(h)
    PROVE  Tables!Onboard(req[h])
<1>1. req[h].symbol \notin DOMAIN assets /\ UNCHANGED stored
  BY CommitAdds DEF Commit
<1>2. assets' = [s \in DOMAIN assets \cup {req[h].symbol} |->
                   IF s = req[h].symbol THEN req[h].storage ELSE assets[s]]
  BY DEF Commit
<1>3. Tables!KeysOf(req[h]) = KeysOf(req[h])
  BY DEF Tables!KeysOf, KeysOf, Key
<1>4. feeds' = Tables!WithFeeds(KeysOf(req[h]), {})
  <2>1. /\ DOMAIN feeds \cup own[h] = DOMAIN feeds \cup KeysOf(req[h])
        /\ own[h] \cap DOMAIN feeds = {}
    BY CommitAdds
  <2>2. feeds' = [k \in DOMAIN feeds \cup own[h] |->
                    IF k \in own[h] THEN "pending" ELSE feeds[k]]
    BY DEF Commit
  <2>3. feeds' = [k \in DOMAIN feeds \cup KeysOf(req[h]) |->
                    IF k \in DOMAIN feeds THEN feeds[k] ELSE "pending"]
    BY <2>1, <2>2
  <2> QED
    BY <2>3 DEF Tables!WithFeeds
<1> QED
  BY <1>1, <1>2, <1>3, <1>4 DEF Tables!Onboard

LEMMA StepRefines ==
    CatalogInv /\ [Next]_vars => [Tables!InventoryNext]_<<assets, feeds, stored>>
<1> SUFFICES ASSUME CatalogInv, [Next]_vars
             PROVE  [Tables!InventoryNext]_<<assets, feeds, stored>>
  OBVIOUS
<1>1. CASE UNCHANGED <<assets, feeds, stored>>
  BY <1>1
<1>2. ASSUME NEW h \in Handlers, Commit(h) PROVE Tables!InventoryNext
  BY <1>2, CommitOnboards, CommitAdds DEF Tables!InventoryNext
<1>3. CASE GrpcRestart
  <2>1. PICK y \in Yamls : Tables!Reload(y)
    BY <1>3 DEF GrpcRestart, Tables!Reload
  <2> QED
    BY <2>1 DEF Tables!InventoryNext
<1>4. CASE Seed
  <2>1. CASE UNCHANGED feeds
    BY <1>4, <2>1 DEF Seed
  <2>2. CASE feeds' = [k \in DOMAIN feeds \cup EnvFeeds |->
                         IF k \in DOMAIN feeds THEN feeds[k] ELSE SeedStatus(k)]
    <3>1. Tables!SeedFeeds
      BY <1>4, <2>2 DEF Seed, SeedStatus, Tables!SeedFeeds, Tables!WithFeeds
    <3> QED
      BY <3>1 DEF Tables!InventoryNext
  <2> QED
    BY <1>4, <2>1, <2>2 DEF Seed
<1>5. CASE MarkActive
  <2>1. marking \in DOMAIN feeds /\ marking \in stored
    BY <1>5 DEF MarkActive, CatalogInv, MarkInv
  <2>2. CASE feeds[marking] = "pending"
    <3>1. Tables!Promote(marking)
      BY <1>5, <2>1, <2>2 DEF MarkActive, Tables!Promote
    <3> QED
      BY <2>1, <3>1 DEF Tables!InventoryNext
  <2>3. CASE feeds[marking] # "pending"
    <3>1. feeds' = feeds
      BY <1>5, <2>1, <2>3 DEF MarkActive, CatalogInv, TypeOK
    <3> QED
      BY <1>5, <3>1 DEF MarkActive
  <2> QED
    BY <2>2, <2>3
<1>6. ASSUME NEW k \in Keys, stored' = stored \cup {k}, UNCHANGED tables
      PROVE  Tables!InventoryNext
  <2>1. Tables!Fill(k)
    BY <1>6 DEF Tables!Fill, tables
  <2>2. k \in EnvFeeds \cup UNION {Tables!KeysOf(r) : r \in Requests}
    BY <1>6 DEF Keys, KeysOf, Key, Tables!KeysOf
  <2> QED
    BY <2>1, <2>2 DEF Tables!InventoryNext
<1>7. ASSUME NEW t \in targets, PollInserts(t) PROVE Tables!InventoryNext
  <2>1. t.key \in Keys
    BY DEF CatalogInv, TypeOK
  <2> QED
    BY <1>6, <1>7, <2>1 DEF PollInserts
<1>8. ASSUME NEW k \in Keys, Disable(k) PROVE Tables!InventoryNext
  <2>1. Tables!Disabled(k) /\ k \in DOMAIN feeds
    BY <1>8 DEF Disable, Tables!Disabled
  <2> QED
    BY <2>1 DEF Tables!InventoryNext
<1> QED
  BY <1>1, <1>2, <1>3, <1>4, <1>5, <1>6, <1>7, <1>8, WhoChangesTables
  DEF TablesChange, Backfill

\* The transactions, rollbacks, restarts and promotions implement the tables
\* the read API relies on, for any number of handlers.
THEOREM Refinement == Spec => ImplementsInventory
<1>1. Init => Tables!InventoryInit
  BY DEF Init, Tables!InventoryInit
<1> QED
  BY <1>1, StepRefines, Invariance, PTL DEF Spec, ImplementsInventory, Tables!InventorySpec
=============================================================================
