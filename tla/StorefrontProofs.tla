-------------------------- MODULE StorefrontProofs --------------------------
(***************************************************************************)
(* Proofs about Storefront, for any number of requests, products, shops    *)
(* and vendor requests, any limit and any bound.                           *)
(***************************************************************************)
EXTENDS Storefront, TLAPS

-----------------------------------------------------------------------------
(* A read is under way only for a request that the limiter has admitted.    *)
FetchesAreAdmitted ==
    \A r \in Requests : fetch[r].stage # "idle" => call[r].stage = "admitted"

(* A write under way names a product; while it invalidates, something is    *)
(* left to do, and the keys it has found are those it is looking for.       *)
WellFormed(n) ==
    /\ n.stage # "idle" => n.product \in Products
    /\ n.stage = "invalidate" =>
          n.todo # <<>> /\ n.found \subseteq Pattern(Head(n.todo), n.product)

WritesAreWellFormed == \A w \in Writers : WellFormed(write[w])

(* Rows that may stand under key k.                                         *)
Belong(k, rows) ==
    \A s \in rows :
        /\ k.kind = "product" => s.product = k.id
        /\ k.kind = "vendor" => ShopOf[s.product] = k.id

(* A product that is not found is not cached.                               *)
Found(k, rows) == k.kind = "product" => rows # {}

RowsMatchKeys ==
    /\ \A k \in Keys : cache[k] # Absent => Belong(k, cache[k]) /\ Found(k, cache[k])
    /\ \A r \in Requests : /\ Belong(fetch[r].key, fetch[r].rows)
                           /\ fetch[r].stage = "set" => Found(fetch[r].key, fetch[r].rows)

(* The inductive invariant.                                                 *)
StoreIInv ==
    /\ StorefrontTypeOK
    /\ FetchesAreAdmitted
    /\ WritesAreWellFormed
    /\ RowsMatchKeys
    /\ CounterExpires
    /\ BurstIsCountedExactly

-----------------------------------------------------------------------------
(* What the helpers of the catalogue return.                                *)

LEMMA KeysHaveTypes ==
  /\ AllKey \in Keys
  /\ \A p \in Products : ProductKey(p) \in Keys
  /\ \A v \in Shops : VendorKey(v) \in Keys
  BY DEF Keys, AllKey, ProductKey, VendorKey

LEMMA PatternIsOneKey ==
  ASSUME NEW p \in Products, NEW target \in Target
  PROVE  \E k \in Keys : Pattern(target, p) = {k}
  <1>1. CASE target = "product"
    BY <1>1, KeysHaveTypes DEF Pattern
  <1>2. CASE target = "vendor"
    <2>1. ShopOf[p] \in Shops
      BY CatalogueAssumption
    <2>. QED BY <1>2, <2>1, KeysHaveTypes DEF Pattern
  <1>3. CASE target = "all"
    BY <1>3, KeysHaveTypes DEF Pattern
  <1>. QED BY <1>1, <1>2, <1>3 DEF Target

LEMMA QueryReturnsItsRows ==
  ASSUME CatalogueTypeOK, NEW k \in Keys
  PROVE  Query(k) \subseteq Shown /\ Belong(k, Query(k))
  <1>1. \A p \in Products : Row(p) \in Shown /\ Row(p).product = p
    BY DEF CatalogueTypeOK, ProductRow, Shown, Row
  <1>2. CASE k.kind = "product"
    <2>1. Query(k) = {Row(p) : p \in {q \in Products : q = k.id /\ Listed(q)}}
      BY <1>2 DEF Query
    <2>. QED BY <1>1, <1>2, <2>1 DEF Belong
  <1>3. CASE k.kind = "vendor"
    <2>1. Query(k) = {Row(p) : p \in {q \in Products : ShopOf[q] = k.id /\ OnSale(q)}}
      BY <1>3 DEF Query
    <2>. QED BY <1>1, <1>3, <2>1 DEF Belong
  <1>4. CASE k.kind = "all"
    <2>1. Query(k) = {Row(p) : p \in {q \in Products : Listed(q)}}
      BY <1>4 DEF Query
    <2>. QED BY <1>1, <1>4, <2>1 DEF Belong
  <1>. QED BY <1>2, <1>3, <1>4 DEF Keys, AllKey

LEMMA ChangedIsARow ==
  ASSUME NEW op \in Op, NEW row \in ProductRow, NEW a \in BOOLEAN,
         row.version + row.extras < MaxVersion \/ op \in {"create", "delete"}
  PROVE  Changed(op, row, a) \in ProductRow
  <1>. USE CatalogueAssumption DEF ProductRow, Version
  <1>0. op \in {"update", "decorate"} => row.version + 1 \in Version /\ row.extras + 1 \in Version
    OBVIOUS
  <1>1. CASE op = "create"
    BY <1>1 DEF Changed
  <1>2. CASE op = "update"
    <2>1. Changed(op, row, a) = [row EXCEPT !.available = a, !.version = @ + 1]
      BY <1>2 DEF Changed
    <2>. QED BY <1>0, <1>2, <2>1
  <1>3. CASE op = "delete"
    BY <1>3 DEF Changed, Deleted
  <1>4. CASE op = "decorate"
    <2>1. Changed(op, row, a) = [row EXCEPT !.extras = @ + 1]
      BY <1>4 DEF Changed, Decorated
    <2>. QED BY <1>0, <1>4, <2>1
  <1>. QED BY <1>1, <1>2, <1>3, <1>4 DEF Op

LEMMA InvalidationsAreTargets ==
  ASSUME NEW op \in Op
  PROVE  Invalidations(op) \in Seq(Target)
  <1>1. <<"vendor", "all">> \in Seq(Target) /\ <<"product", "vendor">> \in Seq(Target)
        /\ <<>> \in Seq(Target)
    BY DEF Target
  <1>. QED BY <1>1 DEF Invalidations, Op

(* A request that has more to invalidate, or none under way.                *)
LEMMA FinishedIsAWrite ==
  ASSUME NEW w \in Write, NEW todo \in Seq(Target), w.product \in Products,
         w.stage = "invalidate"
  PROVE  /\ Finished(w, todo) \in Write
         /\ WellFormed(Finished(w, todo))
         /\ Finished(w, todo).stage # "idle" =>
              /\ Finished(w, todo).stage = "invalidate"
              /\ Finished(w, todo).product = w.product
              /\ Finished(w, todo).todo = todo
              /\ todo # <<>>
              /\ Finished(w, todo).found = {}
  <1>1. CASE todo = <<>>
    BY <1>1 DEF Finished, NoWrite, Write, Op, WellFormed
  <1>2. CASE todo # <<>>
    BY <1>2 DEF Finished, Write, WellFormed
  <1>. QED BY <1>1, <1>2

-----------------------------------------------------------------------------
(* The rate limiter. Its part of the invariant is inductive by itself.      *)

LimiterInv == LimiterTypeOK /\ CounterExpires /\ BurstIsCountedExactly

LEMMA LimiterInitially == LimiterInit => LimiterInv
  <1>. SUFFICES ASSUME LimiterInit PROVE LimiterInv
    OBVIOUS
  <1>1. At("idle") \in Call /\ ~ At("idle").counted
    BY LimiterAssumption DEF At, Call, Count, Stage
  <1>2. LimiterTypeOK
    <2>1. 0 \in Count /\ 0 \in 0..MaxFaults
      BY LimiterAssumption DEF Count
    <2>. QED BY <1>1, <2>1 DEF LimiterInit, LimiterTypeOK
  <1>3. CounterExpires /\ BurstIsCountedExactly
    BY <1>1 DEF LimiterInit, CounterExpires, BurstIsCountedExactly
  <1>. QED BY <1>2, <1>3 DEF LimiterInv

(* The call of r moves on, and r gives up its count: what counts is that no *)
(* call on its way to EXPIRE is moved.                                      *)
LEMMA MovedCall ==
  ASSUME LimiterInv, NEW r \in Requests, NEW stage \in Stage,
         call[r].stage # "expire",
         call' = [call EXCEPT ![r] = At(stage)],
         blocked' \in BOOLEAN,
         UNCHANGED <<hits, hitsTtl, faults>>
  PROVE  LimiterInv'
  <1>. USE DEF LimiterInv
  <1>1. At(stage) \in Call /\ ~ At(stage).counted
    BY LimiterAssumption DEF At, Call, Count
  <1>2. LimiterTypeOK'
    BY <1>1 DEF LimiterTypeOK
  <1>3. CounterExpires'
    BY DEF CounterExpires, LimiterTypeOK
  <1>4. BurstIsCountedExactly'
    BY <1>1 DEF BurstIsCountedExactly, LimiterTypeOK
  <1>. QED BY <1>2, <1>3, <1>4

LEMMA CountedHit ==
  ASSUME LimiterInv, NEW r \in Requests, CountHit(r)
  PROVE  LimiterInv'
  <1>. USE LimiterAssumption DEF LimiterInv
  <1>. DEFINE n == IF hits <= Limit THEN hits + 1 ELSE hits
              next == [stage |-> IF n = 1 THEN "expire" ELSE "decide", hits |-> n, counted |-> TRUE]
  <1>1. /\ call[r].stage = "count"
        /\ hits' = n
        /\ call' = [call EXCEPT ![r] = next]
        /\ UNCHANGED <<hitsTtl, blocked, faults>>
    BY DEF CountHit, Counted
  <1>2. hits \in Count /\ n \in Count /\ hits <= n /\ (n <= Limit => hits < n)
    BY DEF LimiterTypeOK, Count
  <1>3. next \in Call
    BY <1>2 DEF Call, Stage
  <1>4. LimiterTypeOK'
    BY <1>1, <1>2, <1>3 DEF LimiterTypeOK
  <1>5. CounterExpires'
    <2>1. CASE hits = 0
      <3>1. n = 1
        BY <2>1
      <3>2. call'[r].stage = "expire"
        BY <1>1, <3>1 DEF LimiterTypeOK
      <3>. QED BY <3>2 DEF CounterExpires
    <2>2. CASE hits > 0
      <3>1. \A s \in Requests : call[s].stage = "expire" => call'[s].stage = "expire"
        BY <1>1 DEF LimiterTypeOK
      <3>. QED BY <1>1, <2>2, <3>1 DEF CounterExpires
    <2>. QED BY <1>2, <2>1, <2>2 DEF Count
  <1>6. BurstIsCountedExactly'
    <2>. SUFFICES ASSUME NEW q \in Requests, NEW s \in Requests
                  PROVE  /\ call'[q].counted => call'[q].hits <= hits'
                         /\ q # s /\ call'[q].counted /\ call'[s].counted /\ call'[q].hits <= Limit
                            => call'[q].hits # call'[s].hits
      BY DEF BurstIsCountedExactly
    <2>1. \A t \in Requests : t # r => call'[t] = call[t]
      BY <1>1 DEF LimiterTypeOK
    <2>2. call'[r].hits = n
      BY <1>1 DEF LimiterTypeOK
    <2>3. \A t \in Requests : call[t].hits \in Nat
      BY DEF LimiterTypeOK, Call, Count
    <2>4. \A t \in Requests : t # r /\ call'[t].counted => call'[t].hits <= hits
      BY <2>1 DEF BurstIsCountedExactly
    <2>. HIDE DEF n
    <2>5. call'[q].counted => call'[q].hits <= hits'
      BY <1>1, <1>2, <2>1, <2>2, <2>3, <2>4 DEF Count
    <2>6. ASSUME q # s, call'[q].counted, call'[s].counted, call'[q].hits <= Limit
          PROVE  call'[q].hits # call'[s].hits
      <3>1. CASE q # r /\ s # r
        BY <2>1, <2>6, <3>1 DEF BurstIsCountedExactly
      <3>2. CASE q = r
        BY <1>2, <2>1, <2>2, <2>3, <2>4, <2>6, <3>2 DEF Count
      <3>3. CASE s = r
        BY <1>2, <2>1, <2>2, <2>3, <2>4, <2>6, <3>3 DEF Count
      <3>. QED BY <3>1, <3>2, <3>3
    <2>. QED BY <2>5, <2>6
  <1>. QED BY <1>4, <1>5, <1>6

LEMMA LimiterSteps ==
  ASSUME LimiterInv, NEW r \in Requests, PassBlock(r) \/ Increment(r)
  PROVE  LimiterInv'
  <1>1. CASE PassBlock(r)
    BY <1>1, MovedCall DEF PassBlock, Stage, LimiterInv, LimiterTypeOK
  <1>2. CASE CountHit(r)
    BY <1>2, CountedHit
  <1>3. CASE SetTtl(r)
    <2>. USE <1>3 DEF SetTtl, LimiterInv
    <2>1. LimiterTypeOK'
      BY DEF LimiterTypeOK, Call, Stage
    <2>2. CounterExpires'
      BY DEF CounterExpires, LimiterTypeOK
    <2>3. BurstIsCountedExactly'
      BY DEF BurstIsCountedExactly, LimiterTypeOK, Call
    <2>. QED BY <2>1, <2>2, <2>3
  <1>4. CASE Decide(r)
    <2>1. PICK stage \in {"idle", "admitted"} : call' = [call EXCEPT ![r] = At(stage)]
      BY <1>4 DEF Decide
    <2>2. blocked' \in BOOLEAN
      BY <1>4 DEF Decide
    <2>. QED BY <1>4, <2>1, <2>2, MovedCall DEF Decide, Stage
  <1>. QED BY <1>1, <1>2, <1>3, <1>4 DEF Increment

LEMMA LimiterLapses == LimiterInv /\ (HitsExpire \/ BlockExpires) => LimiterInv'
  <1>. SUFFICES ASSUME LimiterInv, HitsExpire \/ BlockExpires PROVE LimiterInv'
    OBVIOUS
  <1>. USE DEF LimiterInv
  <1>1. CASE HitsExpire
    <2>. USE <1>1 DEF HitsExpire
    <2>1. LimiterTypeOK'
      <3>1. \A r \in Requests : [call[r] EXCEPT !.counted = FALSE] \in Call
        BY DEF LimiterTypeOK, Call
      <3>2. 0 \in Count
        BY LimiterAssumption DEF Count
      <3>. QED BY <3>1, <3>2 DEF LimiterTypeOK
    <2>2. CounterExpires'
      BY DEF CounterExpires
    <2>3. \A r \in Requests : ~ call'[r].counted
      BY DEF LimiterTypeOK, Call
    <2>4. BurstIsCountedExactly'
      BY <2>3 DEF BurstIsCountedExactly
    <2>. QED BY <2>1, <2>2, <2>4
  <1>2. CASE BlockExpires
    BY <1>2 DEF BlockExpires, LimiterTypeOK, CounterExpires, BurstIsCountedExactly
  <1>. QED BY <1>1, <1>2

(* A fault elsewhere.                                                       *)
LEMMA LimiterFaults ==
  ASSUME LimiterInv, Fault, UNCHANGED <<hits, hitsTtl, blocked, call>>
  PROVE  LimiterInv'
  BY LimiterAssumption
     DEF LimiterInv, Fault, LimiterTypeOK, CounterExpires, BurstIsCountedExactly

(* A crash forgets the calls, and with them the counts they hold.           *)
LEMMA LimiterCrashes ==
  ASSUME LimiterInv, Fault, call' = [r \in Requests |-> At("idle")],
         UNCHANGED <<hits, hitsTtl, blocked>>
  PROVE  LimiterInv'
  <1>1. At("idle") \in Call /\ ~ At("idle").counted
    BY LimiterAssumption DEF At, Call, Count, Stage
  <1>. QED BY <1>1, LimiterAssumption
           DEF LimiterInv, Fault, LimiterTypeOK, CounterExpires, BurstIsCountedExactly

-----------------------------------------------------------------------------
(* The catalogue.                                                           *)

CatalogueInv ==
    CatalogueTypeOK /\ FetchesAreAdmitted /\ WritesAreWellFormed /\ RowsMatchKeys

LEMMA CatalogueInitially == CatalogueInit => CatalogueInv
  <1>. SUFFICES ASSUME CatalogueInit PROVE CatalogueInv
    OBVIOUS
  <1>1. NoFetch \in Fetch /\ NoFetch.rows = {} /\ NoFetch.stage = "idle"
    BY KeysHaveTypes DEF NoFetch, Fetch
  <1>2. NoWrite \in Write /\ NoWrite.stage = "idle"
    BY DEF NoWrite, Write, Op
  <1>3. 0 \in Version
    BY CatalogueAssumption DEF Version
  <1>4. product \in [Products -> ProductRow]
    BY <1>3 DEF CatalogueInit, ProductRow
  <1>5. CatalogueTypeOK
    BY <1>1, <1>2, <1>4 DEF CatalogueInit, CatalogueTypeOK, ShopRow
  <1>6. FetchesAreAdmitted /\ WritesAreWellFormed
    BY <1>1, <1>2 DEF CatalogueInit, FetchesAreAdmitted, WritesAreWellFormed, WellFormed
  <1>7. RowsMatchKeys
    BY <1>1 DEF CatalogueInit, RowsMatchKeys, Belong
  <1>. QED BY <1>5, <1>6, <1>7 DEF CatalogueInv

LEMMA CatalogueKept ==
  ASSUME CatalogueInv, UNCHANGED catalogueVars, FetchesAreAdmitted'
  PROVE  CatalogueInv'
  <1>. USE DEF CatalogueInv, catalogueVars
  <1>1. CatalogueTypeOK'
    BY DEF CatalogueTypeOK
  <1>2. WritesAreWellFormed'
    BY DEF WritesAreWellFormed
  <1>3. RowsMatchKeys'
    BY DEF RowsMatchKeys
  <1>. QED BY <1>1, <1>2, <1>3

(* The limiter works on requests that read nothing yet.                     *)
LEMMA CountingReadsNothing ==
  ASSUME LimiterTypeOK, FetchesAreAdmitted, NEW r \in Requests,
         PassBlock(r) \/ Increment(r), UNCHANGED fetch
  PROVE  FetchesAreAdmitted'
  <1>1. call[r].stage # "admitted" /\ fetch[r].stage = "idle"
    BY DEF PassBlock, Increment, CountHit, SetTtl, Decide, FetchesAreAdmitted
  <1>2. \A q \in Requests : q # r => call'[q] = call[q]
    BY DEF PassBlock, Increment, CountHit, Counted, SetTtl, Decide, LimiterTypeOK
  <1>. QED BY <1>1, <1>2 DEF FetchesAreAdmitted

(* A response ends the read of r and touches no other.                      *)
LEMMA Responded ==
  ASSUME LimiterTypeOK, CatalogueInv, NEW r \in Requests, Respond(r),
         UNCHANGED <<route, product, shop, cache, write>>
  PROVE  CatalogueInv'
  <1>. USE DEF CatalogueInv
  <1>1. NoFetch \in Fetch /\ NoFetch.rows = {} /\ NoFetch.stage = "idle"
    BY KeysHaveTypes DEF NoFetch, Fetch
  <1>2. fetch' = [fetch EXCEPT ![r] = NoFetch]
    BY DEF Respond
  <1>3. CatalogueTypeOK'
    BY <1>1, <1>2 DEF CatalogueTypeOK
  <1>4. FetchesAreAdmitted'
    BY <1>1 DEF Respond, FetchesAreAdmitted, CatalogueTypeOK, LimiterTypeOK
  <1>5. WritesAreWellFormed'
    BY DEF WritesAreWellFormed
  <1>6. RowsMatchKeys'
    BY <1>1, <1>2 DEF RowsMatchKeys, Belong, CatalogueTypeOK
  <1>. QED BY <1>3, <1>4, <1>5, <1>6

(* The read of an admitted request goes on.                                 *)
LEMMA ReadsOn ==
  ASSUME CatalogueInv, NEW r \in Requests, NEW f \in Fetch,
         call[r].stage = "admitted", Belong(f.key, f.rows),
         f.stage = "set" => Found(f.key, f.rows),
         fetch' = [fetch EXCEPT ![r] = f],
         UNCHANGED <<route, product, shop, cache, write, call>>
  PROVE  CatalogueInv'
  <1>. USE DEF CatalogueInv
  <1>1. CatalogueTypeOK'
    BY DEF CatalogueTypeOK
  <1>2. FetchesAreAdmitted'
    BY DEF FetchesAreAdmitted, CatalogueTypeOK
  <1>3. WritesAreWellFormed'
    BY DEF WritesAreWellFormed
  <1>4. RowsMatchKeys'
    <2>1. \A q \in Requests : fetch'[q] = IF q = r THEN f ELSE fetch[q]
      BY DEF CatalogueTypeOK
    <2>. QED BY <2>1 DEF RowsMatchKeys
  <1>. QED BY <1>1, <1>2, <1>3, <1>4

LEMMA FetchSteps ==
  ASSUME LimiterTypeOK, CatalogueInv, NEW r \in Requests, FetchStep(r)
  PROVE  CatalogueInv'
  <1>. USE DEF CatalogueInv
  <1>1. CASE Refuse(r)
    BY <1>1, Responded DEF Refuse
  <1>2. ASSUME NEW v \in Shops, CheckVendor(r, v)
        PROVE  CatalogueInv'
    <2>1. CASE IsOpen(v)
      <3>. DEFINE f == [stage |-> "get", key |-> VendorKey(v), rows |-> {}]
      <3>1. f \in Fetch /\ Belong(f.key, f.rows) /\ f.stage # "set"
        BY KeysHaveTypes DEF Fetch, Belong
      <3>2. fetch' = [fetch EXCEPT ![r] = f] /\ call[r].stage = "admitted"
            /\ UNCHANGED <<route, product, shop, cache, write, call>>
        BY <1>2, <2>1 DEF CheckVendor
      <3>. HIDE DEF f
      <3>. QED BY <3>1, <3>2, ReadsOn
    <2>2. CASE ~ IsOpen(v)
      BY <1>2, <2>2, Responded DEF CheckVendor
    <2>. QED BY <2>1, <2>2
  <1>3. ASSUME NEW k \in Keys, GetKey(r, k)
        PROVE  CatalogueInv'
    <2>1. CASE cache[k] # Absent
      BY <1>3, <2>1, Responded DEF GetKey
    <2>2. CASE cache[k] = Absent
      <3>. DEFINE f == [stage |-> "query", key |-> k, rows |-> {}]
      <3>1. f \in Fetch /\ Belong(f.key, f.rows) /\ f.stage # "set"
        BY DEF Fetch, Belong
      <3>2. fetch' = [fetch EXCEPT ![r] = f] /\ call[r].stage = "admitted"
            /\ UNCHANGED <<route, product, shop, cache, write, call>>
        BY <1>3, <2>2 DEF GetKey
      <3>. HIDE DEF f
      <3>. QED BY <3>1, <3>2, ReadsOn
    <2>. QED BY <2>1, <2>2
  <1>4. CASE ReadRows(r)
    <2>. DEFINE k == fetch[r].key
                f == [fetch[r] EXCEPT !.stage = "set", !.rows = Query(k)]
    <2>1. CASE k.kind = "product" /\ Query(k) = {}
      BY <1>4, <2>1, Responded DEF ReadRows
    <2>2. CASE ~ (k.kind = "product" /\ Query(k) = {})
      <3>1. k \in Keys /\ fetch[r] \in Fetch
        BY DEF CatalogueTypeOK, Fetch
      <3>2. f \in Fetch /\ f.key = k /\ f.rows = Query(k)
        BY <3>1, QueryReturnsItsRows DEF Fetch
      <3>3. Belong(f.key, f.rows) /\ Found(f.key, f.rows)
        BY <2>2, <3>1, <3>2, QueryReturnsItsRows DEF Found
      <3>4. fetch' = [fetch EXCEPT ![r] = f]
        BY <1>4, <2>2 DEF ReadRows, CatalogueTypeOK
      <3>5. call[r].stage = "admitted" /\ UNCHANGED <<route, product, shop, cache, write, call>>
        BY <1>4, <2>2 DEF ReadRows, FetchesAreAdmitted
      <3>. HIDE DEF f
      <3>. QED BY <3>2, <3>3, <3>4, <3>5, ReadsOn
    <2>. QED BY <2>1, <2>2
  <1>5. CASE StoreRows(r)
    <2>1. fetch[r].key \in Keys /\ fetch[r].rows \subseteq Shown
      BY DEF CatalogueTypeOK, Fetch
    <2>2. NoFetch \in Fetch /\ NoFetch.rows = {} /\ NoFetch.stage = "idle"
      BY KeysHaveTypes DEF NoFetch, Fetch
    <2>3. /\ cache' = [cache EXCEPT ![fetch[r].key] = fetch[r].rows]
          /\ fetch' = [fetch EXCEPT ![r] = NoFetch]
          /\ call' = [call EXCEPT ![r] = At("idle")]
          /\ UNCHANGED <<route, product, shop, write>>
      BY <1>5 DEF StoreRows, Respond
    <2>4. DOMAIN cache' = Keys
          /\ \A k \in Keys : cache'[k] = IF k = fetch[r].key THEN fetch[r].rows ELSE cache[k]
      BY <2>3 DEF CatalogueTypeOK
    <2>5. CatalogueTypeOK'
      BY <2>1, <2>2, <2>3, <2>4 DEF CatalogueTypeOK
    <2>6. FetchesAreAdmitted'
      BY <2>2, <2>3 DEF FetchesAreAdmitted, CatalogueTypeOK, LimiterTypeOK
    <2>7. WritesAreWellFormed'
      BY <2>3 DEF WritesAreWellFormed
    <2>8. RowsMatchKeys'
      <3>1. \A q \in Requests : fetch'[q] = IF q = r THEN NoFetch ELSE fetch[q]
        BY <2>3 DEF CatalogueTypeOK
      <3>2. \A k : Belong(k, {})
        BY DEF Belong
      <3>3. Belong(fetch[r].key, fetch[r].rows) /\ Found(fetch[r].key, fetch[r].rows)
        BY <1>5 DEF StoreRows, RowsMatchKeys
      <3>. QED BY <2>1, <2>2, <2>4, <3>1, <3>2, <3>3 DEF RowsMatchKeys
    <2>. QED BY <2>5, <2>6, <2>7, <2>8
  <1>. QED BY <1>1, <1>2, <1>3, <1>4, <1>5 DEF FetchStep

(* A write moves on to n: it may have changed rows, and dropped keys.       *)
LEMMA WriteMoves ==
  ASSUME CatalogueInv, NEW w \in Writers, NEW n \in Write, WellFormed(n),
         write' = [write EXCEPT ![w] = n],
         product' \in [Products -> ProductRow],
         DOMAIN cache' = Keys,
         \A k \in Keys : cache'[k] \in {Absent, cache[k]},
         UNCHANGED <<route, shop, fetch, call>>
  PROVE  CatalogueInv'
  <1>. USE DEF CatalogueInv
  <1>1. CatalogueTypeOK'
    BY DEF CatalogueTypeOK
  <1>2. FetchesAreAdmitted'
    BY DEF FetchesAreAdmitted
  <1>3. WritesAreWellFormed'
    <2>1. \A x \in Writers : write'[x] = IF x = w THEN n ELSE write[x]
      BY DEF CatalogueTypeOK
    <2>. QED BY <2>1 DEF WritesAreWellFormed
  <1>4. RowsMatchKeys'
    BY DEF RowsMatchKeys
  <1>. QED BY <1>1, <1>2, <1>3, <1>4

(* What is left to do, once the target at the head is done.                 *)
LEMMA TodoShrinks ==
  ASSUME CatalogueInv, NEW w \in Writers, write[w].stage = "invalidate"
  PROVE  /\ write[w] \in Write
         /\ write[w].product \in Products
         /\ write[w].todo # <<>>
         /\ Head(write[w].todo) \in Target
         /\ Tail(write[w].todo) \in Seq(Target)
         /\ Finished(write[w], Tail(write[w].todo)) \in Write
         /\ WellFormed(Finished(write[w], Tail(write[w].todo)))
  <1>1. /\ write[w] \in Write /\ write[w].product \in Products /\ write[w].todo # <<>>
        /\ write[w].todo \in Seq(Target)
    BY DEF CatalogueInv, CatalogueTypeOK, WritesAreWellFormed, WellFormed, Write
  <1>2. Head(write[w].todo) \in Target /\ Tail(write[w].todo) \in Seq(Target)
    BY <1>1
  <1>. QED BY <1>1, <1>2, FinishedIsAWrite

LEMMA WriteSteps ==
  ASSUME CatalogueInv, NEW w \in Writers,
         \/ \E op \in Op, p \in Products : BeginWrite(w, op, p)
         \/ WriteStep(w)
         \/ InvalidationFails(w)
  PROVE  CatalogueInv'
  <1>. USE DEF limiterVars
  <1>0. /\ product \in [Products -> ProductRow] /\ DOMAIN cache = Keys
        /\ write \in [Writers -> Write]
    BY DEF CatalogueInv, CatalogueTypeOK
  <1>a. NoWrite \in Write /\ WellFormed(NoWrite)
    BY DEF NoWrite, Write, Op, WellFormed
  <1>1. ASSUME NEW op \in Op, NEW p \in Products, BeginWrite(w, op, p)
        PROVE  CatalogueInv'
    <2>. DEFINE n == [NoWrite EXCEPT !.stage = "write", !.op = op, !.product = p]
    <2>1. n \in Write /\ WellFormed(n)
      BY <1>a DEF NoWrite, Write, WellFormed
    <2>2. write' = [write EXCEPT ![w] = n] /\ UNCHANGED <<route, product, shop, cache, fetch, call>>
      BY <1>1 DEF BeginWrite
    <2>. HIDE DEF n
    <2>. QED BY <1>0, <2>1, <2>2, WriteMoves
  <1>2. ASSUME NEW a \in BOOLEAN, WriteRow(w, a)
        PROVE  CatalogueInv'
    <2>. DEFINE p == write[w].product
                op == write[w].op
                x == [write[w] EXCEPT !.stage = "invalidate"]
                n == Finished(x, Invalidations(op))
    <2>1. p \in Products /\ op \in Op /\ write[w] \in Write
      BY <1>0, <1>2 DEF WriteRow, CatalogueInv, WritesAreWellFormed, WellFormed, Write
    <2>2. Changed(op, product[p], a) \in ProductRow
      BY <1>0, <1>2, <2>1, ChangedIsARow DEF WriteRow
    <2>3. product' \in [Products -> ProductRow]
      BY <1>0, <1>2, <2>2 DEF WriteRow
    <2>4. x \in Write /\ x.stage = "invalidate" /\ x.product = p
      BY <2>1 DEF Write
    <2>5. n \in Write /\ WellFormed(n)
      BY <2>1, <2>4, InvalidationsAreTargets, FinishedIsAWrite
    <2>6. write' = [write EXCEPT ![w] = n] /\ UNCHANGED <<route, shop, cache, fetch, call>>
      BY <1>2 DEF WriteRow
    <2>. HIDE DEF n
    <2>. QED BY <1>0, <2>3, <2>5, <2>6, WriteMoves
  <1>3. CASE WriteFails(w)
    BY <1>0, <1>3, <1>a, WriteMoves DEF WriteFails
  <1>4. CASE DeleteProductKey(w)
    <2>1. /\ write' = [write EXCEPT ![w] = Finished(write[w], Tail(write[w].todo))]
          /\ cache' = [cache EXCEPT ![ProductKey(write[w].product)] = Absent]
          /\ UNCHANGED <<route, product, shop, fetch, call>>
      BY <1>4 DEF DeleteProductKey
    <2>2. DOMAIN cache' = Keys /\ \A k \in Keys : cache'[k] \in {Absent, cache[k]}
      BY <1>0, <2>1
    <2>3. write[w].stage = "invalidate"
      BY <1>4 DEF DeleteProductKey
    <2>. QED BY <1>0, <2>1, <2>2, <2>3, TodoShrinks, WriteMoves
  <1>5. CASE ScanKeys(w)
    <2>. DEFINE target == Head(write[w].todo)
                found == KeysByPattern(target, write[w].product)
                n == [write[w] EXCEPT !.found = found]
    <2>1. write[w].stage = "invalidate" /\ UNCHANGED <<route, product, shop, cache, fetch, call>>
      BY <1>5 DEF ScanKeys
    <2>2. CASE found = {}
      <3>1. write' = [write EXCEPT ![w] = Finished(write[w], Tail(write[w].todo))]
        BY <1>5, <2>2 DEF ScanKeys
      <3>. QED BY <1>0, <2>1, <3>1, TodoShrinks, WriteMoves
    <2>3. CASE found # {}
      <3>1. write' = [write EXCEPT ![w] = n]
        BY <1>5, <2>3 DEF ScanKeys
      <3>2. found \subseteq Keys /\ found \subseteq Pattern(target, write[w].product)
        BY <2>1, TodoShrinks, PatternIsOneKey DEF KeysByPattern
      <3>3. n \in Write
        BY <2>1, <3>2, TodoShrinks DEF Write
      <3>4. WellFormed(n)
        BY <2>1, <3>2, TodoShrinks DEF WellFormed, Write
      <3>. HIDE DEF n
      <3>. QED BY <1>0, <2>1, <3>1, <3>3, <3>4, WriteMoves
    <2>. QED BY <2>2, <2>3
  <1>6. ASSUME NEW k \in Keys, DeleteFound(w, k)
        PROVE  CatalogueInv'
    <2>. DEFINE n == [write[w] EXCEPT !.found = write[w].found \ {k}]
    <2>1. /\ write[w].stage = "invalidate"
          /\ cache' = [cache EXCEPT ![k] = Absent]
          /\ UNCHANGED <<route, product, shop, fetch, call>>
      BY <1>6 DEF DeleteFound
    <2>2. DOMAIN cache' = Keys /\ \A l \in Keys : cache'[l] \in {Absent, cache[l]}
      BY <1>0, <2>1
    <2>3. CASE write[w].found = {k}
      <3>1. write' = [write EXCEPT ![w] = Finished(write[w], Tail(write[w].todo))]
        BY <1>6, <2>3 DEF DeleteFound
      <3>. QED BY <1>0, <2>1, <2>2, <3>1, TodoShrinks, WriteMoves
    <2>4. CASE write[w].found # {k}
      <3>1. write' = [write EXCEPT ![w] = n]
        BY <1>6, <2>4 DEF DeleteFound
      <3>2. WellFormed(write[w])
        BY DEF CatalogueInv, WritesAreWellFormed
      <3>3. n \in Write /\ WellFormed(n)
        BY <2>1, <3>2, TodoShrinks DEF Write, WellFormed
      <3>. HIDE DEF n
      <3>. QED BY <1>0, <2>1, <2>2, <3>1, <3>3, WriteMoves
    <2>. QED BY <2>3, <2>4
  <1>7. CASE InvalidationFails(w)
    BY <1>0, <1>7, <1>a, WriteMoves DEF InvalidationFails
  <1>. QED BY <1>1, <1>2, <1>3, <1>4, <1>5, <1>6, <1>7 DEF WriteStep

LEMMA ShopSteps ==
  ASSUME CatalogueInv, NEW v \in Shops, ShopStep(v)
  PROVE  CatalogueInv'
  <1>. USE DEF CatalogueInv
  <1>0. UNCHANGED <<route, cache, fetch, write, limiterVars>>
    BY DEF ShopStep, SuspendVendor, ApproveVendor, ToggleProfile, RequestReactivation, SetShop,
           DeleteProfile
  <1>1. shop' \in [Shops -> ShopRow]
    <2>0. shop \in [Shops -> ShopRow] /\ NoShop \in ShopRow
      BY DEF CatalogueTypeOK, NoShop, ShopRow
    <2>1. ASSUME NEW a \in BOOLEAN, NEW b \in BOOLEAN, SetShop(v, a, b)
          PROVE  shop' \in [Shops -> ShopRow]
      BY <2>0, <2>1 DEF SetShop, ShopRow
    <2>2. shop[v].verified \in BOOLEAN
      BY <2>0 DEF ShopRow
    <2>3. DeleteProfile(v) => shop' \in [Shops -> ShopRow]
      BY <2>0 DEF DeleteProfile
    <2>. QED BY <2>1, <2>2, <2>3
             DEF ShopStep, SuspendVendor, ApproveVendor, ToggleProfile, RequestReactivation
  <1>2. product' \in [Products -> ProductRow]
    <2>1. Deleted \in ProductRow
      BY CatalogueAssumption DEF Deleted, ProductRow, Version
    <2>2. DeleteProfile(v) => product' \in [Products -> ProductRow]
      BY <2>1 DEF DeleteProfile, CatalogueTypeOK
    <2>. QED BY <2>2 DEF ShopStep, SuspendVendor, ApproveVendor, ToggleProfile,
                         RequestReactivation, SetShop, CatalogueTypeOK
  <1>3. CatalogueTypeOK'
    BY <1>0, <1>1, <1>2 DEF CatalogueTypeOK
  <1>4. FetchesAreAdmitted' /\ WritesAreWellFormed' /\ RowsMatchKeys'
    BY <1>0 DEF limiterVars, FetchesAreAdmitted, WritesAreWellFormed, RowsMatchKeys
  <1>. QED BY <1>3, <1>4

LEMMA CatalogueCrashes ==
  ASSUME CatalogueInv, Crash
  PROVE  CatalogueInv'
  <1>. USE DEF CatalogueInv, Crash
  <1>1. NoFetch \in Fetch /\ NoFetch.rows = {} /\ NoFetch.stage = "idle"
    BY KeysHaveTypes DEF NoFetch, Fetch
  <1>2. NoWrite \in Write /\ WellFormed(NoWrite)
    BY DEF NoWrite, Write, Op, WellFormed
  <1>3. CatalogueTypeOK'
    BY <1>1, <1>2 DEF CatalogueTypeOK
  <1>4. FetchesAreAdmitted' /\ WritesAreWellFormed'
    BY <1>1, <1>2 DEF FetchesAreAdmitted, WritesAreWellFormed
  <1>5. RowsMatchKeys'
    BY <1>1 DEF RowsMatchKeys, Belong
  <1>. QED BY <1>3, <1>4, <1>5

LEMMA ExpiryKeepsCatalogue ==
  ASSUME CatalogueInv, NEW k \in Keys, KeyExpires(k)
  PROVE  CatalogueInv'
  <1>. USE DEF CatalogueInv, KeyExpires, limiterVars
  <1>1. DOMAIN cache' = Keys /\ \A l \in Keys : cache'[l] \in {Absent, cache[l]}
    BY DEF CatalogueTypeOK
  <1>2. CatalogueTypeOK'
    BY <1>1 DEF CatalogueTypeOK
  <1>3. FetchesAreAdmitted' /\ WritesAreWellFormed'
    BY DEF FetchesAreAdmitted, WritesAreWellFormed
  <1>4. RowsMatchKeys'
    BY <1>1 DEF RowsMatchKeys
  <1>. QED BY <1>2, <1>3, <1>4

-----------------------------------------------------------------------------
(* Together.                                                                *)

LEMMA StoreIInvParts == StoreIInv <=> LimiterInv /\ CatalogueInv
  BY DEF StoreIInv, LimiterInv, CatalogueInv, StorefrontTypeOK

LEMMA StoreInit == Init => StoreIInv
  BY LimiterInitially, CatalogueInitially, StoreIInvParts DEF Init

(* A read leaves the limiter alone, but for the end of its request.         *)
LEMMA ReadsKeepLimiter ==
  ASSUME LimiterInv, FetchesAreAdmitted, NEW r \in Requests, FetchStep(r)
  PROVE  LimiterInv'
  <1>1. UNCHANGED <<hits, hitsTtl, blocked, faults>>
    BY DEF FetchStep, Refuse, CheckVendor, GetKey, ReadRows, StoreRows
  <1>2. call[r].stage = "admitted"
    BY DEF FetchStep, Refuse, CheckVendor, GetKey, ReadRows, StoreRows, FetchesAreAdmitted
  <1>3. UNCHANGED call \/ call' = [call EXCEPT ![r] = At("idle")]
    BY DEF FetchStep, Refuse, CheckVendor, GetKey, ReadRows, StoreRows, Respond
  <1>4. CASE UNCHANGED call
    BY <1>1, <1>4 DEF LimiterInv, LimiterTypeOK, CounterExpires, BurstIsCountedExactly
  <1>5. CASE call' = [call EXCEPT ![r] = At("idle")]
    <2>1. blocked' \in BOOLEAN
      BY <1>1 DEF LimiterInv, LimiterTypeOK
    <2>. QED BY <1>1, <1>2, <1>5, <2>1, MovedCall DEF Stage
  <1>. QED BY <1>3, <1>4, <1>5

LEMMA LimiterKept == LimiterInv /\ UNCHANGED limiterVars => LimiterInv'
  BY DEF limiterVars, LimiterInv, LimiterTypeOK, CounterExpires, BurstIsCountedExactly

LEMMA StoreNext == StoreIInv /\ [Next]_vars => StoreIInv'
  <1>. SUFFICES ASSUME LimiterInv, CatalogueInv, [Next]_vars
                PROVE  LimiterInv' /\ CatalogueInv'
    BY StoreIInvParts, PTL
  <1>0. LimiterTypeOK /\ FetchesAreAdmitted
    BY DEF LimiterInv, CatalogueInv
  <1>1. ASSUME NEW r \in Requests, Arrival(r) \/ Counting(r)
        PROVE  LimiterInv' /\ CatalogueInv'
    <2>1. (PassBlock(r) \/ Increment(r)) /\ UNCHANGED catalogueVars
      BY <1>1 DEF Arrival, Counting
    <2>2. FetchesAreAdmitted'
      BY <1>0, <2>1, CountingReadsNothing DEF catalogueVars
    <2>. QED BY <2>1, <2>2, LimiterSteps, CatalogueKept
  <1>2. ASSUME NEW r \in Requests, FetchStep(r)
        PROVE  LimiterInv' /\ CatalogueInv'
    BY <1>0, <1>2, ReadsKeepLimiter, FetchSteps
  <1>3. CASE Lapse
    <2>1. (HitsExpire \/ BlockExpires) /\ UNCHANGED catalogueVars
      BY <1>3 DEF Lapse
    <2>2. FetchesAreAdmitted'
      <3>1. \A r \in Requests : call'[r].stage = call[r].stage
        BY <1>0, <2>1 DEF HitsExpire, BlockExpires, LimiterTypeOK, Call
      <3>. QED BY <1>0, <2>1, <3>1 DEF FetchesAreAdmitted, catalogueVars
    <2>. QED BY <2>1, <2>2, LimiterLapses, CatalogueKept
  <1>4. ASSUME NEW k \in Keys, KeyExpires(k)
        PROVE  LimiterInv' /\ CatalogueInv'
    BY <1>4, ExpiryKeepsCatalogue, LimiterKept DEF KeyExpires
  <1>5. ASSUME NEW w \in Writers, \E op \in Op, p \in Products : BeginWrite(w, op, p)
        PROVE  LimiterInv' /\ CatalogueInv'
    <2>1. UNCHANGED limiterVars
      BY <1>5 DEF BeginWrite
    <2>. QED BY <1>5, <2>1, WriteSteps, LimiterKept
  <1>6. ASSUME NEW w \in Writers, WriteStep(w)
        PROVE  LimiterInv' /\ CatalogueInv'
    <2>1. UNCHANGED limiterVars
      BY <1>6 DEF WriteStep, WriteRow, WriteFails, DeleteProductKey, ScanKeys, DeleteFound
    <2>. QED BY <1>6, <2>1, WriteSteps, LimiterKept
  <1>7. ASSUME NEW w \in Writers, InvalidationFails(w)
        PROVE  LimiterInv' /\ CatalogueInv'
    BY <1>7, WriteSteps, LimiterFaults DEF InvalidationFails
  <1>8. ASSUME NEW v \in Shops, ShopStep(v)
        PROVE  LimiterInv' /\ CatalogueInv'
    <2>1. UNCHANGED limiterVars
      BY <1>8 DEF ShopStep, SuspendVendor, ApproveVendor, ToggleProfile, RequestReactivation,
                  SetShop, DeleteProfile
    <2>. QED BY <1>8, <2>1, ShopSteps, LimiterKept
  <1>9. CASE Crash
    BY <1>9, CatalogueCrashes, LimiterCrashes DEF Crash
  <1>10. CASE UNCHANGED vars
    <2>1. UNCHANGED limiterVars /\ UNCHANGED catalogueVars
      BY <1>10 DEF vars
    <2>2. FetchesAreAdmitted'
      BY <1>0, <2>1 DEF FetchesAreAdmitted, limiterVars, catalogueVars
    <2>. QED BY <2>1, <2>2, LimiterKept, CatalogueKept
  <1>. QED BY <1>1, <1>2, <1>3, <1>4, <1>5, <1>6, <1>7, <1>8, <1>9, <1>10 DEF Next

(* The limiter, the reads, the writes and the cache keep the invariant      *)
(* together: reads only for admitted requests, cached rows only under keys  *)
(* they belong to.                                                          *)
THEOREM StoreIInvCorrect == Spec => []StoreIInv
  <1>. QED BY StoreInit, StoreNext, PTL DEF Spec

(* Counters, calls, rows, keys and requests keep their shape.               *)
THEOREM StorefrontTypeCorrect == Spec => []StorefrontTypeOK
  <1>1. StoreIInv => StorefrontTypeOK
    BY DEF StoreIInv
  <1>. QED BY <1>1, StoreIInvCorrect, PTL

(* incrWithExpire: a counter without a time to live exists only between the *)
(* two commands of the request that created it, or after a fault.           *)
THEOREM CountersExpire == Spec => []CounterExpires
  <1>1. StoreIInv => CounterExpires
    BY DEF StoreIInv
  <1>. QED BY <1>1, StoreIInvCorrect, PTL

(* increment: no two requests of a burst hold the same count, whatever the  *)
(* limit and however many there are.                                        *)
THEOREM BurstsAreCounted == Spec => []BurstIsCountedExactly
  <1>1. StoreIInv => BurstIsCountedExactly
    BY DEF StoreIInv
  <1>. QED BY <1>1, StoreIInvCorrect, PTL

-----------------------------------------------------------------------------
(* How an answer goes stale. A key is covered while it shows what its query *)
(* would return, or somebody still has to drop it.                          *)

Covered(k) == Fresh(k) \/ BeingInvalidated(k)

LEMMA DroppedIsFresh ==
  ASSUME NEW k \in Keys, cache'[k] = Absent
  PROVE  Fresh(k)'
  BY DEF Fresh

(* What a query returns depends on the rows its key shows, and on whether   *)
(* their shops are open, unless it is the query of one shop.                *)
LEMMA QueryKept ==
  ASSUME NEW k \in Keys,
         \A q \in Products : ShowsProduct(k, q) => product'[q] = product[q],
         \A q \in Products : ShowsProduct(k, q) /\ k.kind # "vendor" =>
                                shop'[ShopOf[q]] = shop[ShopOf[q]]
  PROVE  Query(k)' = Query(k)
  <1>1. \A q \in Products : product'[q] = product[q] => Row(q)' = Row(q) /\ OnSale(q)' = OnSale(q)
    BY DEF Row, OnSale
  <1>2. \A q \in Products : /\ product'[q] = product[q]
                            /\ shop'[ShopOf[q]] = shop[ShopOf[q]]
                            => Listed(q)' = Listed(q)
    BY DEF Listed, OnSale, IsOpen
  <1>3. CASE k.kind = "product"
    <2>1. \A q \in Products : q = k.id => ShowsProduct(k, q)
      BY <1>3 DEF Keys, AllKey, ProductKey, ShowsProduct
    <2>2. \A q \in Products : q = k.id => Row(q)' = Row(q) /\ Listed(q)' = Listed(q)
      BY <1>1, <1>2, <1>3, <2>1
    <2>3. Query(k) = {Row(q) : q \in {x \in Products : x = k.id /\ Listed(x)}}
      BY <1>3 DEF Query
    <2>4. Query(k)' = {Row(q)' : q \in {x \in Products : x = k.id /\ Listed(x)'}}
      BY <1>3 DEF Query
    <2>. QED BY <2>2, <2>3, <2>4
  <1>4. CASE k.kind = "vendor"
    <2>1. \A q \in Products : ShopOf[q] = k.id => ShowsProduct(k, q)
      BY <1>4 DEF Keys, AllKey, VendorKey, ShowsProduct
    <2>2. \A q \in Products : ShopOf[q] = k.id => Row(q)' = Row(q) /\ OnSale(q)' = OnSale(q)
      BY <1>1, <2>1
    <2>3. Query(k) = {Row(q) : q \in {x \in Products : ShopOf[x] = k.id /\ OnSale(x)}}
      BY <1>4 DEF Query
    <2>4. Query(k)' = {Row(q)' : q \in {x \in Products : ShopOf[x] = k.id /\ OnSale(x)'}}
      BY <1>4 DEF Query
    <2>. QED BY <2>2, <2>3, <2>4
  <1>5. CASE k.kind = "all"
    <2>1. \A q \in Products : ShowsProduct(k, q)
      BY <1>5 DEF Keys, AllKey, ShowsProduct
    <2>2. \A q \in Products : Row(q)' = Row(q) /\ Listed(q)' = Listed(q)
      BY <1>1, <1>2, <1>5, <2>1
    <2>3. Query(k) = {Row(q) : q \in {x \in Products : Listed(x)}}
      BY <1>5 DEF Query
    <2>4. Query(k)' = {Row(q)' : q \in {x \in Products : Listed(x)'}}
      BY <1>5 DEF Query
    <2>. QED BY <2>2, <2>3, <2>4
  <1>. QED BY <1>3, <1>4, <1>5 DEF Keys, AllKey

LEMMA FreshKept ==
  ASSUME NEW k \in Keys, Fresh(k), cache'[k] \in {Absent, cache[k]},
         cache[k] # Absent => Query(k)' = Query(k)
  PROVE  Fresh(k)'
  BY DEF Fresh

(* Steps of others: rows, shops and writes are as they were.                *)
LEMMA CoveredByOthers ==
  ASSUME NEW k \in Keys, Covered(k), UNCHANGED <<product, shop, write>>,
         cache'[k] \in {Absent, cache[k]}
  PROVE  Covered(k)'
  <1>1. Query(k)' = Query(k)
    BY QueryKept
  <1>2. Fresh(k) => Fresh(k)'
    BY <1>1, FreshKept
  <1>3. BeingInvalidated(k) => BeingInvalidated(k)'
    BY DEF BeingInvalidated
  <1>. QED BY <1>2, <1>3 DEF Covered

(* A request that is done with its first target still has the others to do. *)
LEMMA TailInvalidates ==
  ASSUME CatalogueInv, NEW w \in Writers, NEW k \in Keys, Invalidates(write[w], k),
         k \notin write[w].found, k \notin Pattern(Head(write[w].todo), write[w].product)
  PROVE  Invalidates(Finished(write[w], Tail(write[w].todo)), k)
  <1>. DEFINE todo == write[w].todo
              p == write[w].product
              n == Finished(write[w], Tail(todo))
  <1>1. write[w].stage = "invalidate"
    BY DEF Invalidates
  <1>2. todo \in Seq(Target) /\ todo # <<>> /\ Tail(todo) \in Seq(Target)
    BY <1>1, TodoShrinks DEF Write
  <1>3. PICK i \in DOMAIN todo : k \in Pattern(todo[i], p)
    BY DEF Invalidates
  <1>4. i # 1
    BY <1>2, <1>3
  <1>5. i - 1 \in DOMAIN Tail(todo) /\ Tail(todo)[i - 1] = todo[i]
    BY <1>2, <1>4
  <1>6. Tail(todo) # <<>>
    BY <1>2, <1>5
  <1>7. n = [write[w] EXCEPT !.todo = Tail(todo), !.found = {}]
    BY <1>6 DEF Finished
  <1>8. n.stage = "invalidate" /\ n.todo = Tail(todo) /\ n.product = p
    BY <1>1, <1>7, TodoShrinks DEF Write
  <1>. QED BY <1>3, <1>5, <1>8 DEF Invalidates

(* Request w moves on to n. Whatever else covers k goes on doing so.        *)
LEMMA CoveredByWrites ==
  ASSUME CatalogueInv, NEW k \in Keys, Covered(k), NEW w \in Writers, NEW n,
         write' = [write EXCEPT ![w] = n],
         Fresh(k) => Covered(k)',
         Invalidates(write[w], k) => Fresh(k)' \/ Invalidates(n, k)
  PROVE  Covered(k)'
  <1>1. write'[w] = n /\ \A x \in Writers : x # w => write'[x] = write[x]
    BY DEF CatalogueInv, CatalogueTypeOK
  <1>2. CASE Fresh(k)
    BY <1>2
  <1>3. ASSUME NEW x \in Writers, Invalidates(write[x], k)
        PROVE  Covered(k)'
    <2>1. CASE x # w
      <3>1. Invalidates(write'[x], k)
        BY <1>1, <1>3, <2>1
      <3>. QED BY <3>1 DEF Covered, BeingInvalidated
    <2>2. CASE x = w
      BY <1>1, <1>3, <2>2 DEF Covered, BeingInvalidated
    <2>. QED BY <2>1, <2>2
  <1>. QED BY <1>2, <1>3 DEF Covered, BeingInvalidated

(* The statement of a write: what it changes it is going to invalidate,     *)
(* unless it is one of the calls that are missing.                          *)
LEMMA CoveredByStatement ==
  ASSUME CatalogueInv, NEW k \in Keys, Covered(k),
         ~ Written(k, {"decorate"}), ~ (k = AllKey /\ Written(k, {"update", "delete"})),
         NEW w \in Writers, NEW a \in BOOLEAN, WriteRow(w, a)
  PROVE  Covered(k)'
  <1>0. PICK p \in Products : p = write[w].product
    BY DEF WriteRow, CatalogueInv, CatalogueTypeOK, WritesAreWellFormed, WellFormed, Write
  <1>. DEFINE op == write[w].op
              x == [write[w] EXCEPT !.stage = "invalidate"]
              n == Finished(x, Invalidations(op))
  <1>1. op \in Op /\ write[w] \in Write /\ write[w].stage = "write"
    BY DEF WriteRow, CatalogueInv, CatalogueTypeOK, WritesAreWellFormed, WellFormed, Write
  <1>2. /\ write' = [write EXCEPT ![w] = n]
        /\ product' = [product EXCEPT ![p] = Changed(op, product[p], a)]
        /\ UNCHANGED <<shop, cache>>
        /\ product[p].state = IF op = "create" THEN "new" ELSE "live"
    BY <1>0 DEF WriteRow
  <1>3. product \in [Products -> ProductRow] /\ write'[w] = n
    BY <1>2 DEF CatalogueInv, CatalogueTypeOK
  <1>4. \A q \in Products : q # p => product'[q] = product[q]
    BY <1>2, <1>3
  <1>5. ~ Invalidates(write[w], k)
    BY <1>1 DEF Invalidates
  <1>6. CASE product' = product \/ ~ ShowsProduct(k, p)
    <2>1. Query(k)' = Query(k)
      BY <1>2, <1>4, <1>6, QueryKept
    <2>2. Fresh(k) => Covered(k)'
      BY <1>2, <2>1, FreshKept DEF Covered
    <2>. HIDE DEF n
    <2>. QED BY <1>2, <1>5, <2>2, CoveredByWrites
  <1>7. CASE product' # product /\ ShowsProduct(k, p)
    <2>1. \A Ops : op \in Ops => Written(k, Ops)
      BY <1>0, <1>1, <1>7 DEF Written
    <2>2. op # "decorate" /\ (k = AllKey => op = "create")
      BY <1>1, <2>1 DEF Op
    <2>3. CASE op = "create" /\ k = ProductKey(p)
      <3>1. k.kind = "product" /\ k.id = p
        BY <2>3 DEF ProductKey
      <3>2. ~ Listed(p)
        BY <1>2, <2>3 DEF Listed, OnSale
      <3>3. Query(k) = {}
        BY <3>1, <3>2 DEF Query
      <3>4. cache[k] # Absent => cache[k] # {}
        BY <3>1 DEF CatalogueInv, RowsMatchKeys, Found
      <3>5. Fresh(k) => cache'[k] = Absent
        BY <1>2, <3>3, <3>4 DEF Fresh
      <3>6. Fresh(k) => Covered(k)'
        BY <3>5, DroppedIsFresh DEF Covered
      <3>. HIDE DEF n
      <3>. QED BY <1>2, <1>5, <3>6, CoveredByWrites
    <2>4. CASE op = "create" /\ k # ProductKey(p)
      <3>1. n = [x EXCEPT !.todo = <<"vendor", "all">>, !.found = {}]
        BY <2>4 DEF Finished, Invalidations
      <3>2. n.stage = "invalidate" /\ n.todo = <<"vendor", "all">> /\ n.product = p
        BY <1>0, <1>1, <3>1 DEF Write
      <3>3. k \in Pattern(n.todo[1], p) \/ k \in Pattern(n.todo[2], p)
        BY <1>7, <2>4, <3>2 DEF Pattern, ShowsProduct
      <3>4. Invalidates(n, k)
        BY <3>2, <3>3 DEF Invalidates
      <3>. QED BY <1>3, <3>4 DEF Covered, BeingInvalidated
    <2>5. CASE op \in {"update", "delete"}
      <3>1. n = [x EXCEPT !.todo = <<"product", "vendor">>, !.found = {}]
        BY <2>5 DEF Finished, Invalidations
      <3>2. n.stage = "invalidate" /\ n.todo = <<"product", "vendor">> /\ n.product = p
        BY <1>0, <1>1, <3>1 DEF Write
      <3>3. k \in Pattern(n.todo[1], p) \/ k \in Pattern(n.todo[2], p)
        BY <1>7, <2>2, <2>5, <3>2 DEF Pattern, ShowsProduct
      <3>4. Invalidates(n, k)
        BY <3>2, <3>3 DEF Invalidates
      <3>. QED BY <1>3, <3>4 DEF Covered, BeingInvalidated
    <2>. QED BY <1>1, <2>2, <2>3, <2>4, <2>5 DEF Op
  <1>. QED BY <1>6, <1>7

(* An invalidation drops the key it is about, and keeps the others in mind. *)
LEMMA CoveredByInvalidation ==
  ASSUME CatalogueInv, NEW k \in Keys, Covered(k), NEW w \in Writers,
         DeleteProductKey(w) \/ ScanKeys(w) \/ \E l \in Keys : DeleteFound(w, l)
  PROVE  Covered(k)'
  <1>. DEFINE todo == write[w].todo
              n == Finished(write[w], Tail(todo))
  <1>0. PICK p \in Products : p = write[w].product
    BY TodoShrinks DEF DeleteProductKey, ScanKeys, DeleteFound
  <1>1. /\ write[w].stage = "invalidate" /\ write[w] \in Write /\ Head(todo) \in Target
        /\ UNCHANGED <<product, shop>>
    BY TodoShrinks DEF DeleteProductKey, ScanKeys, DeleteFound
  <1>2. DOMAIN cache = Keys
    BY DEF CatalogueInv, CatalogueTypeOK
  <1>3. cache'[k] \in {Absent, cache[k]}
    BY <1>2 DEF DeleteProductKey, ScanKeys, DeleteFound
  <1>4. Fresh(k) => Covered(k)'
    BY <1>1, <1>3, QueryKept, FreshKept DEF Covered
  <1>5. CASE DeleteProductKey(w)
    <2>1. write' = [write EXCEPT ![w] = n] /\ write[w].found = {} /\ Head(todo) = "product"
      BY <1>5 DEF DeleteProductKey
    <2>2. CASE k = ProductKey(p)
      BY <1>0, <1>2, <1>5, <2>2, DroppedIsFresh DEF DeleteProductKey, Covered
    <2>3. CASE k # ProductKey(p)
      <3>1. Invalidates(write[w], k) => Invalidates(n, k)
        BY <1>0, <2>1, <2>3, TailInvalidates DEF Pattern
      <3>. HIDE DEF n
      <3>. QED BY <1>4, <2>1, <3>1, CoveredByWrites
    <2>. QED BY <2>2, <2>3
  <1>6. CASE ScanKeys(w)
    <2>. DEFINE found == KeysByPattern(Head(todo), write[w].product)
                m == [write[w] EXCEPT !.found = found]
    <2>1. /\ write[w].found = {} /\ UNCHANGED cache
          /\ write' = [write EXCEPT ![w] = IF found = {} THEN n ELSE m]
      BY <1>6 DEF ScanKeys
    <2>2. CASE found # {}
      <3>1. write' = [write EXCEPT ![w] = m]
        BY <2>1, <2>2
      <3>2. m.stage = "invalidate" /\ m.todo = todo /\ m.product = write[w].product
        BY <1>1 DEF Write
      <3>3. Invalidates(write[w], k) => Invalidates(m, k)
        BY <2>1, <3>2 DEF Invalidates
      <3>. HIDE DEF m
      <3>. QED BY <1>4, <3>1, <3>3, CoveredByWrites
    <2>3. CASE found = {} /\ k \in Pattern(Head(todo), write[w].product)
      <3>1. cache'[k] = Absent
        BY <2>1, <2>3 DEF KeysByPattern
      <3>. QED BY <3>1, DroppedIsFresh DEF Covered
    <2>4. CASE found = {} /\ k \notin Pattern(Head(todo), write[w].product)
      <3>1. write' = [write EXCEPT ![w] = n]
        BY <2>1, <2>4
      <3>2. Invalidates(write[w], k) => Invalidates(n, k)
        BY <2>1, <2>4, TailInvalidates
      <3>. HIDE DEF n
      <3>. QED BY <1>4, <3>1, <3>2, CoveredByWrites
    <2>. QED BY <2>2, <2>3, <2>4
  <1>7. ASSUME NEW l \in Keys, DeleteFound(w, l)
        PROVE  Covered(k)'
    <2>. DEFINE m == [write[w] EXCEPT !.found = write[w].found \ {l}]
    <2>1. /\ l \in write[w].found /\ cache' = [cache EXCEPT ![l] = Absent]
          /\ write' = [write EXCEPT ![w] = IF write[w].found = {l} THEN n ELSE m]
      BY <1>7 DEF DeleteFound
    <2>2. CASE k = l
      BY <1>2, <2>1, <2>2, DroppedIsFresh DEF Covered
    <2>3. CASE k # l /\ write[w].found = {l}
      <3>1. write' = [write EXCEPT ![w] = n]
        BY <2>1, <2>3
      <3>2. l \in Pattern(Head(todo), p)
        BY <1>0, <1>1, <2>1 DEF CatalogueInv, WritesAreWellFormed, WellFormed
      <3>3. k \notin Pattern(Head(todo), p)
        BY <1>1, <2>3, <3>2, PatternIsOneKey
      <3>4. Invalidates(write[w], k) => Invalidates(n, k)
        BY <1>0, <2>3, <3>3, TailInvalidates
      <3>. HIDE DEF n
      <3>. QED BY <1>4, <3>1, <3>4, CoveredByWrites
    <2>4. CASE k # l /\ write[w].found # {l}
      <3>1. write' = [write EXCEPT ![w] = m]
        BY <2>1, <2>4
      <3>2. /\ m.stage = "invalidate" /\ m.todo = todo /\ m.product = write[w].product
            /\ m.found = write[w].found \ {l}
        BY <1>1 DEF Write
      <3>3. Invalidates(write[w], k) => Invalidates(m, k)
        BY <2>4, <3>2 DEF Invalidates
      <3>. HIDE DEF m
      <3>. QED BY <1>4, <3>1, <3>3, CoveredByWrites
    <2>. QED BY <2>2, <2>3, <2>4
  <1>. QED BY <1>5, <1>6, <1>7

(* A request that has not written yet invalidates nothing.                  *)
LEMMA CoveredBeforeWriting ==
  ASSUME CatalogueInv, NEW k \in Keys, Covered(k), NEW w \in Writers,
         WriteFails(w) \/ \E op \in Op, p \in Products : BeginWrite(w, op, p)
  PROVE  Covered(k)'
  <1>1. UNCHANGED <<product, shop, cache>> /\ ~ Invalidates(write[w], k)
    BY DEF WriteFails, BeginWrite, Invalidates
  <1>2. Fresh(k) => Covered(k)'
    BY <1>1, QueryKept, FreshKept DEF Covered
  <1>3. PICK n : write' = [write EXCEPT ![w] = n]
    BY DEF WriteFails, BeginWrite
  <1>. QED BY <1>1, <1>2, <1>3, CoveredByWrites

(* Reads change no cached answer but by storing theirs.                     *)
LEMMA CoveredByReads ==
  ASSUME CatalogueInv, NEW k \in Keys, Covered(k), NEW r \in Requests, FetchStep(r),
         ~ StoredLate(k)
  PROVE  Covered(k)'
  <1>. USE DEF limiterVars
  <1>1. UNCHANGED <<product, shop, write>>
    BY DEF FetchStep, Refuse, CheckVendor, GetKey, ReadRows, StoreRows
  <1>2. CASE StoreRows(r)
    <2>1. fetch'[r].stage = "idle"
      BY <1>2 DEF StoreRows, Respond, NoFetch, CatalogueInv, CatalogueTypeOK
    <2>2. fetch[r].key # k
      BY <1>2, <2>1 DEF StoredLate, StoreRows
    <2>3. cache'[k] = cache[k]
      BY <1>2, <2>2 DEF StoreRows, CatalogueInv, CatalogueTypeOK
    <2>. QED BY <1>1, <2>3, CoveredByOthers
  <1>3. CASE ~ StoreRows(r)
    <2>1. UNCHANGED cache
      BY <1>3 DEF FetchStep, Refuse, CheckVendor, GetKey, ReadRows
    <2>. QED BY <1>1, <2>1, CoveredByOthers
  <1>. QED BY <1>2, <1>3

(* A step of a shop leaves alone what k shows, unless it is the third cause. *)
LEMMA CoveredByShops ==
  ASSUME CatalogueInv, NEW k \in Keys, Covered(k), ~ ShopWritten(k), NEW v \in Shops, ShopStep(v)
  PROVE  Covered(k)'
  <1>0. shop \in [Shops -> ShopRow]
    BY DEF CatalogueInv, CatalogueTypeOK
  <1>1. UNCHANGED <<cache, write>>
    BY DEF ShopStep, SuspendVendor, ApproveVendor, ToggleProfile, RequestReactivation, SetShop,
           DeleteProfile
  <1>2. \A q \in Products : ShowsProduct(k, q) =>
           \/ shop'[ShopOf[q]] = shop[ShopOf[q]]
           \/ k.kind = "vendor" /\ shop'[ShopOf[q]].exists
    BY DEF ShopWritten
  <1>3. CASE DeleteProfile(v)
    <2>1. /\ shop' = [shop EXCEPT ![v] = NoShop] /\ shop[v].exists
          /\ \A q \in Products : ShopOf[q] # v => product'[q] = product[q]
      BY <1>3 DEF DeleteProfile
    <2>2. shop'[v] # shop[v] /\ ~ shop'[v].exists
      BY <1>0, <2>1 DEF NoShop
    <2>3. \A q \in Products : ShowsProduct(k, q) => ShopOf[q] # v
      BY <1>2, <2>2
    <2>4. \A q \in Products : ShowsProduct(k, q) => /\ product'[q] = product[q]
                                                    /\ shop'[ShopOf[q]] = shop[ShopOf[q]]
      BY <1>0, <2>1, <2>3
    <2>5. Query(k)' = Query(k)
      BY <2>4, QueryKept
    <2>6. Fresh(k) => Fresh(k)'
      BY <1>1, <2>5, FreshKept
    <2>. QED BY <1>1, <2>6 DEF Covered, BeingInvalidated
  <1>4. ASSUME NEW a, NEW b, SetShop(v, a, b)
        PROVE  Covered(k)'
    <2>1. UNCHANGED product
      BY <1>4 DEF SetShop
    <2>2. Query(k)' = Query(k)
      BY <1>2, <2>1, QueryKept
    <2>3. Fresh(k) => Fresh(k)'
      BY <1>1, <2>2, FreshKept
    <2>. QED BY <1>1, <2>3 DEF Covered, BeingInvalidated
  <1>. QED BY <1>3, <1>4
       DEF ShopStep, SuspendVendor, ApproveVendor, ToggleProfile, RequestReactivation

LEMMA CoveredNext ==
  ASSUME StoreIInv, [Next]_vars, NEW k \in Keys, Covered(k),
         ~ Written(k, {"decorate"}), ~ (k = AllKey /\ Written(k, {"update", "delete"})),
         ~ ShopWritten(k), ~ StoredLate(k)
  PROVE  faults' # faults \/ Covered(k)'
  <1>. USE StoreIInvParts
  <1>. SUFFICES ASSUME faults' = faults PROVE Covered(k)'
    OBVIOUS
  <1>0. MaxFaults \in Nat /\ faults \in Nat /\ DOMAIN cache = Keys
    BY LimiterAssumption DEF LimiterInv, LimiterTypeOK, CatalogueInv, CatalogueTypeOK
  <1>1. ~ Fault
    BY <1>0 DEF Fault
  <1>2. ASSUME UNCHANGED catalogueVars
        PROVE  Covered(k)'
    BY <1>2, CoveredByOthers DEF catalogueVars
  <1>3. ASSUME NEW l \in Keys, KeyExpires(l)
        PROVE  Covered(k)'
    BY <1>0, <1>3, CoveredByOthers DEF KeyExpires
  <1>4. ASSUME NEW w \in Writers, WriteStep(w)
        PROVE  Covered(k)'
    BY <1>4, CoveredByStatement, CoveredBeforeWriting, CoveredByInvalidation DEF WriteStep
  <1>5. ASSUME NEW w \in Writers, NEW op \in Op, NEW p \in Products, BeginWrite(w, op, p)
        PROVE  Covered(k)'
    BY <1>5, CoveredBeforeWriting
  <1>6. ASSUME NEW r \in Requests, FetchStep(r)
        PROVE  Covered(k)'
    BY <1>6, CoveredByReads
  <1>7. ASSUME NEW v \in Shops, ShopStep(v)
        PROVE  Covered(k)'
    BY <1>7, CoveredByShops
  <1>8. ~ Crash /\ \A w \in Writers : ~ InvalidationFails(w)
    BY <1>1 DEF Crash, InvalidationFails
  <1>. QED BY <1>2, <1>3, <1>4, <1>5, <1>6, <1>7, <1>8
       DEF Next, vars, Arrival, Counting, Lapse

(* A cached answer goes stale only in one of the five ways that              *)
(* StalenessHasACause lists (getProductById, fetchProductsForVendor and     *)
(* fetchAllProducts against createProduct, updateProduct, deleteProduct,    *)
(* the writes of images and tags, and those of shops), however many reads   *)
(* and writes are under way.                                                *)
THEOREM StalenessIsCaused == Spec => StalenessHasACause
  <1>1. StoreIInv /\ [Next]_vars =>
           [\A k \in Keys :
               /\ Fresh(k) \/ BeingInvalidated(k)
               /\ ~ (Fresh(k) \/ BeingInvalidated(k))'
               => \/ Written(k, {"decorate"})
                  \/ k = AllKey /\ Written(k, {"update", "delete"})
                  \/ ShopWritten(k)
                  \/ StoredLate(k)
                  \/ faults' # faults]_vars
    BY CoveredNext DEF Covered
  <1>. QED BY <1>1, StoreIInvCorrect, PTL DEF Spec, StalenessHasACause
=============================================================================
