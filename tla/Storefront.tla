----------------------------- MODULE Storefront -----------------------------
(***************************************************************************)
(* A client who browses: every request passes the rate limiter, and the    *)
(* ones it admits read the catalogue, while vendors and administrators     *)
(* change it. A crash of the process loses every request under way.        *)
(***************************************************************************)
EXTENDS ProductCatalogue

vars == <<limiterVars, catalogueVars>>

Init == LimiterInit /\ CatalogueInit

Arrival(r) == PassBlock(r) /\ UNCHANGED catalogueVars

Counting(r) == Increment(r) /\ UNCHANGED catalogueVars

Lapse == (HitsExpire \/ BlockExpires) /\ UNCHANGED catalogueVars

(* The process restarts; Redis and PostgreSQL keep what they have.          *)
Crash ==
    /\ Fault
    /\ call' = [r \in Requests |-> At("idle")]
    /\ fetch' = [r \in Requests |-> NoFetch]
    /\ write' = [w \in Writers |-> NoWrite]
    /\ UNCHANGED <<hits, hitsTtl, blocked, route, product, shop, cache>>

ShopStep(v) ==
    \/ SuspendVendor(v)
    \/ ApproveVendor(v)
    \/ \E a \in BOOLEAN : ToggleProfile(v, a)
    \/ RequestReactivation(v)
    \/ DeleteProfile(v)

Next ==
    \/ \E r \in Requests : Arrival(r) \/ Counting(r) \/ FetchStep(r)
    \/ Lapse
    \/ \E k \in Keys : KeyExpires(k)
    \/ \E w \in Writers, op \in Op, p \in Products : BeginWrite(w, op, p)
    \/ \E w \in Writers : WriteStep(w) \/ InvalidationFails(w)
    \/ \E v \in Shops : ShopStep(v)
    \/ Crash

(* Requests under way go on, and Redis drops keys whose time has come.      *)
(* Nothing is assumed of clients, vendors or administrators.                *)
Fairness ==
    /\ \A r \in Requests : WF_vars(Counting(r)) /\ WF_vars(FetchStep(r))
    /\ WF_vars(HitsExpire /\ UNCHANGED catalogueVars)
    /\ \A k \in Keys : WF_vars(KeyExpires(k))

Spec == Init /\ [][Next]_vars

FairSpec == Spec /\ Fairness
-----------------------------------------------------------------------------
StorefrontTypeOK == LimiterTypeOK /\ CatalogueTypeOK

(* A request that still has to invalidate key k.                            *)
Invalidates(n, k) ==
    /\ n.stage = "invalidate"
    /\ k \in n.found \/ \E i \in DOMAIN n.todo : k \in Pattern(n.todo[i], n.product)

BeingInvalidated(k) == \E w \in Writers : Invalidates(write[w], k)

(* Key k, if it is cached, shows what its query would return now.           *)
Fresh(k) == cache[k] # Absent => cache[k] = Query(k)

(* The keys under which product p can be shown.                             *)
ShowsProduct(k, p) == k \in {ProductKey(p), VendorKey(ShopOf[p]), AllKey}

(* The statement of an operation of Ops on a product of key k.              *)
Written(k, Ops) ==
    \E w \in Writers :
        /\ write[w].stage = "write" /\ write[w].op \in Ops /\ ShowsProduct(k, write[w].product)
        /\ product' # product

(* A shop that k shows is opened, closed or deleted. Its own list is not    *)
(* looked up while it is closed, and loses its products when it is deleted. *)
ShopWritten(k) ==
    \E p \in Products :
        LET v == ShopOf[p] IN
        ShowsProduct(k, p) /\ shop'[v] # shop[v] /\ (k.kind = "vendor" => ~ shop'[v].exists)

(* A read stores what it has read, whatever was written since.              *)
StoredLate(k) ==
    \E r \in Requests :
        fetch[r].stage = "set" /\ fetch[r].key = k /\ fetch'[r].stage = "idle"

(* The ways in which a cached answer goes stale, or stays so when the last  *)
(* request that was to invalidate it is done. Three are calls that the code *)
(* does not make: for images and tags no key is invalidated, for an update  *)
(* or a deletion the list of all products is not, for a shop nothing is.    *)
(* The others are a late store, and an invalidation that fails. There is no *)
(* sixth: the creation of a product leaves neither list behind, an update   *)
(* or a deletion neither the product nor its shop's list, whatever other    *)
(* writes and reads are under way (for more than one writer this is proved, *)
(* StalenessIsCaused).                                                      *)
StalenessHasACause ==
    [][\A k \in Keys :
          /\ Fresh(k) \/ BeingInvalidated(k)
          /\ ~ (Fresh(k) \/ BeingInvalidated(k))'
          => \/ Written(k, {"decorate"})
             \/ k = AllKey /\ Written(k, {"update", "delete"})
             \/ ShopWritten(k)
             \/ StoredLate(k)
             \/ faults' # faults]_vars

(* Unless a crash hit the gap between INCR and EXPIRE, a client that has    *)
(* used up its limit gets a fresh one, however it goes on asking.           *)
LimitLapses == [](faults = 0) => (hits > Limit ~> hits = 0)

(* A product that is withdrawn for good - deleted, made unavailable, or     *)
(* its shop closed - disappears from every cached answer, although most of  *)
(* these changes invalidate nothing.                                        *)
WithdrawnDisappears ==
    \A p \in Products :
        <>[](~ Listed(p)) =>
            <>[](\A k \in Keys : cache[k] # Absent => \A s \in cache[k] : s.product # p)

(* Once vendors stop writing, the cache shows what they wrote.              *)
CacheCatchesUp ==
    <>[](\A k \in Keys : cache[k] # Absent =>
            \A s \in cache[k] : OnSale(s.product) /\ s = Row(s.product))
=============================================================================
