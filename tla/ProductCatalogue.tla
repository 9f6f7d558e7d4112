-------------------------- MODULE ProductCatalogue --------------------------
(***************************************************************************)
(* ProductService (src/product/product.service.ts) over the product rows   *)
(* and the Redis cache (src/common/redis/redis.service.ts), with the       *)
(* operations on shops that decide what may be shown                       *)
(* (src/admin/admin.service.ts, src/vendor/vendor.service.ts).             *)
(*                                                                         *)
(* A read is GET, query and SET; a write is the statement and then the     *)
(* invalidations, each a step. A list is one key per set of filters; the   *)
(* filters of a pattern do not interact, and one stands for all of them.   *)
(***************************************************************************)
EXTENDS RateLimiter, Sequences

CONSTANTS
    Readers,    \* requests that pass the guards behind the rate limiter
    Products,   \* product ids
    Shops,      \* vendor profile ids
    ShopOf,     \* ShopOf[p]: the shop that sells p
    Writers,    \* vendor requests that are under way together
    MaxVersion, \* bound on the changes of one product
    Absent      \* a key that is not in the cache

ASSUME CatalogueAssumption ==
    /\ Readers \subseteq Requests
    /\ ShopOf \in [Products -> Shops]
    /\ MaxVersion \in Nat

VARIABLES
    route,    \* the handler behind this rate limit: the kind of key its requests read
    product,  \* product[p]: the row; "new" before it is inserted, "gone" once deleted
    shop,     \* shop[v]: the vendor profile
    cache,    \* cache[k]: the rows stored under key k, or Absent
    fetch,    \* fetch[r]: the read that the admitted request r performs
    write     \* write[w]: the vendor's request w

catalogueVars == <<route, product, shop, cache, fetch, write>>

ProductKey(p) == [kind |-> "product", id |-> p]
VendorKey(v) == [kind |-> "vendor", id |-> v]
AllKey == [kind |-> "all", id |-> Absent]

Keys == [kind: {"product"}, id: Products] \cup [kind: {"vendor"}, id: Shops] \cup {AllKey}

(* A row as a client sees it: version counts what updateProduct wrote,      *)
(* extras the changes of images and tags.                                   *)
Version == 0..MaxVersion
Shown == [product: Products, version: Version, extras: Version]
ProductRow == [state: {"new", "live", "gone"}, available: BOOLEAN,
               version: Version, extras: Version]

ShopRow == [exists: BOOLEAN, active: BOOLEAN, verified: BOOLEAN]

Deleted == [state |-> "gone", available |-> FALSE, version |-> 0, extras |-> 0]
NoShop == [exists |-> FALSE, active |-> FALSE, verified |-> FALSE]

Op == {"create", "update", "delete", "decorate"}
Target == {"product", "vendor", "all"}

Fetch == [stage: {"idle", "get", "query", "set"}, key: Keys, rows: SUBSET Shown]
Write == [stage: {"idle", "write", "invalidate"}, op: Op, product: Products \cup {Absent},
          todo: Seq(Target), found: SUBSET Keys]

NoFetch == [stage |-> "idle", key |-> AllKey, rows |-> {}]
NoWrite == [stage |-> "idle", op |-> "create", product |-> Absent, todo |-> <<>>, found |-> {}]

CatalogueTypeOK ==
    /\ route \in Target
    /\ product \in [Products -> ProductRow]
    /\ shop \in [Shops -> ShopRow]
    /\ DOMAIN cache = Keys
    /\ \A k \in Keys : cache[k] = Absent \/ cache[k] \subseteq Shown
    /\ fetch \in [Requests -> Fetch]
    /\ write \in [Writers -> Write]

(* prisma/seed.ts: verified, active shops with their products available; an *)
(* id that is "new" is still to be given out. The cache is empty.           *)
CatalogueInit ==
    /\ route \in Target
    /\ product \in [Products -> [state: {"new", "live"}, available: {TRUE},
                                 version: {0}, extras: {0}]]
    /\ shop = [v \in Shops |-> [exists |-> TRUE, active |-> TRUE, verified |-> TRUE]]
    /\ cache = [k \in Keys |-> Absent]
    /\ fetch = [r \in Requests |-> NoFetch]
    /\ write = [w \in Writers |-> NoWrite]

-----------------------------------------------------------------------------
(* What a query of the database returns, by the "where" of each read.       *)
Row(p) == [product |-> p, version |-> product[p].version, extras |-> product[p].extras]

OnSale(p) == product[p].state = "live" /\ product[p].available

IsOpen(v) == shop[v].exists /\ shop[v].active /\ shop[v].verified

Listed(p) == OnSale(p) /\ IsOpen(ShopOf[p])

QueryMutant(k) ==
    CASE k.kind = "product" -> {Row(p) : p \in {q \in Products : q = k.id /\ product[q].state = "live"}}
      [] k.kind = "vendor"  -> {Row(p) : p \in {q \in Products : ShopOf[q] = k.id /\ OnSale(q)}}
      [] k.kind = "all"     -> {Row(p) : p \in {q \in Products : Listed(q)}}

Query(k) ==
    CASE k.kind = "product" -> {Row(p) : p \in {q \in Products : q = k.id /\ Listed(q)}}
      [] k.kind = "vendor"  -> {Row(p) : p \in {q \in Products : ShopOf[q] = k.id /\ OnSale(q)}}
      [] k.kind = "all"     -> {Row(p) : p \in {q \in Products : Listed(q)}}

(* The response is sent.                                                    *)
Respond(r) ==
    /\ call' = [call EXCEPT ![r] = At("idle")]
    /\ fetch' = [fetch EXCEPT ![r] = NoFetch]

(* JwtStrategy or a parameter pipe refuses a request that was counted.      *)
Refuse(r) ==
    /\ call[r].stage = "admitted" /\ fetch[r].stage = "idle"
    /\ Respond(r)
    /\ UNCHANGED <<route, product, shop, cache, write, hits, hitsTtl, blocked, faults>>

CheckVendorMutant(r, v) ==
    /\ r \in Readers /\ route = "vendor"
    /\ call[r].stage = "admitted" /\ fetch[r].stage = "idle"
    /\ fetch' = [fetch EXCEPT ![r] = [stage |-> "get", key |-> VendorKey(v), rows |-> {}]]
    /\ UNCHANGED call
    /\ UNCHANGED <<route, product, shop, cache, write, hits, hitsTtl, blocked, faults>>

(* fetchProductsForVendor looks at the shop before it looks in the cache;   *)
(* its query no longer does.                                                *)
CheckVendor(r, v) ==
    /\ r \in Readers /\ route = "vendor"
    /\ call[r].stage = "admitted" /\ fetch[r].stage = "idle"
    /\ IF IsOpen(v)
         THEN /\ fetch' = [fetch EXCEPT ![r] = [stage |-> "get", key |-> VendorKey(v), rows |-> {}]]
              /\ UNCHANGED call
         ELSE Respond(r)
    /\ UNCHANGED <<route, product, shop, cache, write, hits, hitsTtl, blocked, faults>>

(* GET: a hit is the response.                                              *)
GetKey(r, k) ==
    /\ r \in Readers /\ call[r].stage = "admitted"
    /\ \/ fetch[r].stage = "get" /\ fetch[r].key = k
       \/ fetch[r].stage = "idle" /\ route = k.kind /\ route # "vendor"
    /\ IF cache[k] # Absent
         THEN Respond(r)
         ELSE /\ fetch' = [fetch EXCEPT ![r] = [stage |-> "query", key |-> k, rows |-> {}]]
              /\ UNCHANGED call
    /\ UNCHANGED <<route, product, shop, cache, write, hits, hitsTtl, blocked, faults>>

(* The query; a product that may not be shown is a 404 and is not cached.   *)
ReadRows(r) ==
    LET k == fetch[r].key IN
    /\ fetch[r].stage = "query"
    /\ IF k.kind = "product" /\ Query(k) = {}
         THEN Respond(r)
         ELSE /\ fetch' = [fetch EXCEPT ![r].stage = "set", ![r].rows = Query(k)]
              /\ UNCHANGED call
    /\ UNCHANGED <<route, product, shop, cache, write, hits, hitsTtl, blocked, faults>>

(* SET with a time to live, whatever has happened since the query.          *)
StoreRows(r) ==
    /\ fetch[r].stage = "set"
    /\ cache' = [cache EXCEPT ![fetch[r].key] = fetch[r].rows]
    /\ Respond(r)
    /\ UNCHANGED <<route, product, shop, write, hits, hitsTtl, blocked, faults>>

(* Redis drops a key after its 300 or 600 seconds.                          *)
KeyExpires(k) ==
    /\ cache[k] # Absent
    /\ cache' = [cache EXCEPT ![k] = Absent]
    /\ UNCHANGED <<route, product, shop, fetch, write, limiterVars>>

-----------------------------------------------------------------------------
(* createProduct, and validateOwnershipAndGetProduct for everything else.   *)
BeginWrite(w, op, p) ==
    /\ write[w].stage = "idle"
    /\ IsOpen(ShopOf[p])
    /\ product[p].state = IF op = "create" THEN "new" ELSE "live"
    /\ write' = [write EXCEPT ![w] = [NoWrite EXCEPT !.stage = "write", !.op = op, !.product = p]]
    /\ UNCHANGED <<route, product, shop, cache, fetch, limiterVars>>

(* addProductImage, removeProductImage, clearProductImages, attachTags,     *)
(* detachTags, removeAllTags.                                               *)
Decorated(row) == [row EXCEPT !.extras = @ + 1]

(* What each operation does to the row ...                                  *)
Changed(op, row, a) ==
    CASE op = "create"   -> [row EXCEPT !.state = "live", !.available = a]
      [] op = "update"   -> [row EXCEPT !.available = a, !.version = @ + 1]
      [] op = "delete"   -> Deleted
      [] op = "decorate" -> Decorated(row)

InvalidationsMutant(op) ==
    CASE op = "create"             -> <<"vendor", "all">>
      [] op \in {"update", "delete"} -> <<"product">>
      [] op = "decorate"           -> <<>>

(* ... and which keys it invalidates, in this order. Images and tags         *)
(* invalidate nothing, an update or a deletion not the lists of all products. *)
Invalidations(op) ==
    CASE op = "create"             -> <<"vendor", "all">>
      [] op \in {"update", "delete"} -> <<"product", "vendor">>
      [] op = "decorate"           -> <<>>

Finished(w, todo) == IF todo = <<>> THEN NoWrite ELSE [w EXCEPT !.todo = todo, !.found = {}]

(* The statement, or the transaction of a deletion.                         *)
WriteRow(w, a) ==
    LET p == write[w].product
        op == write[w].op
    IN  /\ write[w].stage = "write"
        /\ product[p].state = IF op = "create" THEN "new" ELSE "live"
        /\ shop[ShopOf[p]].exists
        /\ product[p].version + product[p].extras < MaxVersion \/ op \in {"create", "delete"}
        /\ product' = [product EXCEPT ![p] = Changed(op, @, a)]
        /\ write' = [write EXCEPT ![w] =
                        Finished([@ EXCEPT !.stage = "invalidate"], Invalidations(op))]
        /\ UNCHANGED <<route, shop, cache, fetch, limiterVars>>

(* The row has gone meanwhile, or the database refuses.                     *)
WriteFails(w) ==
    /\ write[w].stage = "write"
    /\ write' = [write EXCEPT ![w] = NoWrite]
    /\ UNCHANGED <<route, product, shop, cache, fetch, limiterVars>>

(* The keys of a pattern.                                                   *)
Pattern(target, p) ==
    CASE target = "product" -> {ProductKey(p)}
      [] target = "vendor"  -> {VendorKey(ShopOf[p])}
      [] target = "all"     -> {AllKey}

KeysByPattern(target, p) == {k \in Pattern(target, p) : cache[k] # Absent}

(* DEL of the product's key.                                                *)
DeleteProductKey(w) ==
    /\ write[w].stage = "invalidate" /\ write[w].found = {}
    /\ Head(write[w].todo) = "product"
    /\ cache' = [cache EXCEPT ![ProductKey(write[w].product)] = Absent]
    /\ write' = [write EXCEPT ![w] = Finished(@, Tail(@.todo))]
    /\ UNCHANGED <<route, product, shop, fetch, limiterVars>>

(* invalidateVendorProductsCache, invalidateAllProductsCache: SCAN ...      *)
ScanKeys(w) ==
    LET target == Head(write[w].todo)
        found == KeysByPattern(target, write[w].product)
    IN  /\ write[w].stage = "invalidate" /\ write[w].found = {}
        /\ target # "product"
        /\ write' = [write EXCEPT ![w] = IF found = {} THEN Finished(@, Tail(@.todo))
                                                       ELSE [@ EXCEPT !.found = found]]
        /\ UNCHANGED <<route, product, shop, cache, fetch, limiterVars>>

(* ... and DEL of every key found.                                          *)
DeleteFound(w, k) ==
    /\ write[w].stage = "invalidate" /\ k \in write[w].found
    /\ cache' = [cache EXCEPT ![k] = Absent]
    /\ write' = [write EXCEPT ![w] =
                    IF @.found = {k} THEN Finished(@, Tail(@.todo))
                                     ELSE [@ EXCEPT !.found = write[w].found \ {k}]]
    /\ UNCHANGED <<route, product, shop, fetch, limiterVars>>

(* A call to Redis fails: the request fails, the rest is not invalidated.   *)
InvalidationFails(w) ==
    /\ write[w].stage = "invalidate"
    /\ Fault
    /\ write' = [write EXCEPT ![w] = NoWrite]
    /\ UNCHANGED <<route, product, shop, cache, fetch, hits, hitsTtl, blocked, call>>

-----------------------------------------------------------------------------
(* Shops: nothing below touches the cache.                                  *)
SetShop(v, active, verified) ==
    /\ shop[v].exists
    /\ shop' = [shop EXCEPT ![v].active = active, ![v].verified = verified]
    /\ UNCHANGED <<route, product, cache, fetch, write, limiterVars>>

(* suspendVendor; a rejected promotion and the demotion of a vendor write   *)
(* the same.                                                                *)
SuspendVendor(v) == SetShop(v, FALSE, FALSE)

ApproveVendor(v) == SetShop(v, TRUE, TRUE)

(* toggleProfile.                                                           *)
ToggleProfile(v, active) == SetShop(v, active, shop[v].verified)

(* requestPromotionOrReactivation: a user who is a customer applies again,  *)
(* an inactive vendor comes back.                                           *)
RequestReactivation(v) ==
    \/ SetShop(v, TRUE, FALSE)
    \/ ~ shop[v].active /\ SetShop(v, TRUE, shop[v].verified)

(* deleteProfile: the shop and its products, in one transaction.            *)
DeleteProfile(v) ==
    /\ shop[v].exists
    /\ shop' = [shop EXCEPT ![v] = NoShop]
    /\ product' = [p \in Products |-> IF ShopOf[p] = v /\ product[p].state = "live"
                                        THEN Deleted
                                        ELSE product[p]]
    /\ UNCHANGED <<route, cache, fetch, write, limiterVars>>

FetchStep(r) ==
    \/ Refuse(r)
    \/ \E v \in Shops : CheckVendor(r, v)
    \/ \E k \in Keys : GetKey(r, k)
    \/ ReadRows(r)
    \/ StoreRows(r)

WriteStep(w) ==
    \/ \E a \in BOOLEAN : WriteRow(w, a)
    \/ WriteFails(w)
    \/ DeleteProductKey(w)
    \/ ScanKeys(w)
    \/ \E k \in Keys : DeleteFound(w, k)
=============================================================================
