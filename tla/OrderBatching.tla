--------------------------- MODULE OrderBatching ---------------------------
(***************************************************************************)
(* OrderService (src/order/order.service.ts) and the two vendor decisions  *)
(* that write the same rows (src/vendor/vendor.service.ts): an order is    *)
(* accepted or rejected, marked ready, put in a batch under an advisory    *)
(* lock, and the batch is closed by its size, its timer, the sweep of      *)
(* expired batches or the test endpoint.                                   *)
(*                                                                         *)
(* A transaction is two steps: what it reads while it holds its locks, and *)
(* its commit. What a request does after the commit is a task in post that *)
(* a crash may lose.                                                       *)
(***************************************************************************)
EXTENDS MarketTables

CONSTANTS
    Food,        \* orders with an item of the category "food"
    FoodMax,     \* FOOD_MAX_BATCH
    GroceryMax,  \* GROCERY_MAX_BATCH
    Detour,      \* Detour[o]: sets of orders that delay order o too long
    Reviewed,    \* orders whose vendor accepts or rejects them
    Horizon      \* bound on the age a batch reaches

ASSUME BatchingAssumption ==
    /\ Food \subseteq Orders
    /\ FoodMax \in Nat \ {0}
    /\ GroceryMax \in Nat
    /\ FoodMax <= GroceryMax
    /\ Detour \in [Orders -> SUBSET SUBSET Orders]
    /\ Reviewed \subseteq Orders
    /\ Horizon \in Nat

VARIABLES
    readying,  \* open transactions of vendorMarkReady, past the advisory lock
    decision,  \* accept and reject requests that have checked the status
    timers     \* batches with a delayed job in the batch-timeout queue

orderingVars == <<readying, decision, timers>>

Readying == [order: Orders, batch: Batches, isNew: BOOLEAN, close: BOOLEAN]
Decision == [order: Orders, verdict: {"VENDOR_ACCEPTED", "VENDOR_REJECTED"}]

OrderingTypeOK ==
    /\ readying \subseteq Readying
    /\ decision \subseteq Decision
    /\ timers \subseteq Batches

OrderingInit ==
    /\ readying = {}
    /\ decision = {}
    /\ timers = {}

-----------------------------------------------------------------------------
(* vendorAcceptOrder and vendorRejectOrder: the status is read first ...    *)
DecisionRead(o, verdict) ==
    /\ o \in Reviewed
    /\ order[o].status = "PENDING_VENDOR_CONFIRMATION"
    /\ decision' = decision \cup {[order |-> o, verdict |-> verdict]}
    /\ UNCHANGED <<tables, readying, timers>>

(* ... and written by id alone, after the row lock of an open vendorMarkReady *)
(* transaction has been released.                                           *)
DecisionWrite(c) ==
    /\ \A r \in readying : r.order # c.order
    /\ order' = [order EXCEPT ![c.order].status = c.verdict]
    /\ decision' = decision \ {c}
    /\ UNCHANGED <<batch, job, deliverer, session, queue, post, escalated, faults, readying, timers>>

-----------------------------------------------------------------------------
ReadyableMutant == {"PENDING_VENDOR_CONFIRMATION", "VENDOR_ACCEPTED", "READY_FOR_DELIVERY"}

READYABLE_STATUSES == {"PENDING_VENDOR_CONFIRMATION", "VENDOR_ACCEPTED"}

Open(b) == batch[b].status = "PENDING"

EligibleMutant(o, b) ==
    \/ OrdersOf(b) = {}
    \/ /\ Cardinality(OrdersOf(b)) < IF o \in Food THEN FoodMax ELSE GroceryMax
       /\ OrdersOf(b) \notin Detour[o]

SizeMutant(o, b) ==
    \/ OrdersOf(b) = {}
    \/ /\ \A m \in OrdersOf(b) : Shop[m] = Shop[o]
       /\ Cardinality(OrdersOf(b)) <= IF o \in Food THEN FoodMax ELSE GroceryMax
       /\ OrdersOf(b) \notin Detour[o]

(* checkBatchEligibility: the limit is that of the new order's own type.    *)
Eligible(o, b) ==
    \/ OrdersOf(b) = {}
    \/ /\ \A m \in OrdersOf(b) : Shop[m] = Shop[o]
       /\ Cardinality(OrdersOf(b)) < IF o \in Food THEN FoodMax ELSE GroceryMax
       /\ OrdersOf(b) \notin Detour[o]

ShouldCloseMutant(o, b) ==
    LET hasFood == \E m \in OrdersOf(b) : m \in Food
    IN  \/ batch[b].age >= AgeWindow
        \/ Cardinality(OrdersOf(b)) + 1 >= IF hasFood THEN FoodMax ELSE GroceryMax

(* shouldCloseBatch for [...batch.orders, order]: here the limit is that of *)
(* the whole batch.                                                         *)
ShouldClose(o, b) ==
    LET hasFood == \E m \in OrdersOf(b) \cup {o} : m \in Food
    IN  \/ batch[b].age >= AgeWindow
        \/ Cardinality(OrdersOf(b)) + 1 >= IF hasFood THEN FoodMax ELSE GroceryMax

(* The row that the next INSERT creates.                                    *)
NextRow(b) ==
    LET taken(c) == \/ batch[c].status # "NONE"
                    \/ \E r \in readying : r.isNew /\ r.batch = c
    IN  ~ taken(b) /\ \A c \in Batches : c < b => taken(c)

AdvisoryLockFreeMutant(o) == \A r \in readying : r.order # o

(* pg_advisory_xact_lock(BATCH_LOCK_KEY); it subsumes the row lock of o.    *)
AdvisoryLockFree(o) == readying = {}

(* vendorMarkReady up to the end of assignToBatch: the order is claimed, the *)
(* earliest open batch that fits is chosen, or a row is created.            *)
ReadyBegin(o, b) ==
    /\ AdvisoryLockFree(o)
    /\ order[o].status \in READYABLE_STATUSES
    /\ \/ /\ Open(b) /\ Eligible(o, b)
          /\ \A c \in Batches : c < b /\ Open(c) => ~ Eligible(o, c)
          /\ readying' = readying \cup
                {[order |-> o, batch |-> b, isNew |-> FALSE, close |-> ShouldClose(o, b)]}
       \/ /\ NextRow(b)
          /\ \A c \in Batches : Open(c) => ~ Eligible(o, c)
          /\ readying' = readying \cup
                {[order |-> o, batch |-> b, isNew |-> TRUE, close |-> FALSE]}
    /\ UNCHANGED <<tables, decision, timers>>

(* The commit makes the status, the batch and the link visible together;    *)
(* afterBatching is left to do.                                             *)
ReadyCommit(r) ==
    /\ order' = [order EXCEPT ![r.order].status = "READY_FOR_DELIVERY",
                              ![r.order].batch = r.batch]
    /\ batch' = IF r.isNew THEN [batch EXCEPT ![r.batch].status = "PENDING"] ELSE batch
    /\ post' = post \cup {t \in {[step |-> "schedule", batch |-> r.batch]} : r.isNew}
                    \cup {t \in {[step |-> "close", batch |-> r.batch]} : r.close}
    /\ readying' = readying \ {r}
    /\ UNCHANGED <<job, deliverer, session, queue, escalated, faults, decision, timers>>

(* The transaction is rolled back: a crash or a database error.             *)
ReadyAbort(r) ==
    /\ Fault
    /\ readying' = readying \ {r}
    /\ UNCHANGED <<order, batch, job, deliverer, session, queue, post, escalated, decision, timers>>

-----------------------------------------------------------------------------
(* scheduleBatchTimeout                                                     *)
Schedule(t) ==
    /\ t.step = "schedule"
    /\ timers' = timers \cup {t.batch}
    /\ post' = post \ {t}
    /\ UNCHANGED <<order, batch, job, deliverer, session, queue, escalated, faults, readying, decision>>

CloseBatchMutant(b, rest) ==
    /\ batch' = [batch EXCEPT ![b].status = "ASSIGNED"]
    /\ post' = rest \cup {[step |-> "enqueue", batch |-> b]}

(* closeBatch: a conditional update; whoever changes the row then queues the *)
(* assignment.                                                              *)
CloseBatch(b, rest) ==
    IF Open(b)
      THEN /\ batch' = [batch EXCEPT ![b].status = "IN_PROGRESS"]
           /\ post' = rest \cup {[step |-> "enqueue", batch |-> b]}
      ELSE batch' = batch /\ post' = rest

CloseFull(t) ==
    /\ t.step = "close"
    /\ CloseBatch(t.batch, post \ {t})
    /\ UNCHANGED <<order, job, deliverer, session, queue, escalated, faults, orderingVars>>

Enqueue(t) ==
    /\ t.step = "enqueue"
    /\ queue' = queue \cup {NewTicket(t.batch)}
    /\ post' = post \ {t}
    /\ UNCHANGED <<order, batch, job, deliverer, session, escalated, faults, orderingVars>>

(* The delayed job of WINDOW_MIN reaches BatchTimeoutProcessor.             *)
TimeoutFires(b) ==
    /\ b \in timers
    /\ batch[b].age >= AgeWindow
    /\ CloseBatch(b, post)
    /\ timers' = timers \ {b}
    /\ UNCHANGED <<order, job, deliverer, session, queue, escalated, faults, readying, decision>>

ExpiredMutant(b) == Open(b) /\ b \in timers /\ batch[b].age >= AgeExpired

(* What closeExpiredBatches looks for, WINDOW_MIN + 1 minutes after createdAt. *)
Expired(b) == Open(b) /\ batch[b].age >= AgeExpired

CloseExpired(b) ==
    /\ Expired(b)
    /\ CloseBatch(b, post)
    /\ UNCHANGED <<order, job, deliverer, session, queue, escalated, faults, orderingVars>>

(* GET test-batch/:batchId closes any open batch.                           *)
TestBatch(b) ==
    /\ Open(b)
    /\ CloseBatch(b, post)
    /\ UNCHANGED <<order, job, deliverer, session, queue, escalated, faults, orderingVars>>

(* Time passes for every batch; an earlier row is never the younger one.    *)
Tick(b) ==
    /\ batch[b].status \in {"PENDING", "IN_PROGRESS"}
    /\ batch[b].age < Horizon
    /\ batch[b].age < IF Open(b) THEN AgeExpired ELSE AgeStuck
    /\ \A c \in Batches : c < b => \/ batch[c].age > batch[b].age
                                   \/ ~ Open(c) /\ batch[c].age >= AgeStuck
    /\ batch' = [batch EXCEPT ![b].age = @ + 1]
    /\ UNCHANGED <<order, job, deliverer, session, queue, post, escalated, faults, orderingVars>>

(* A crash or a Redis failure between a commit and the step that follows it. *)
LoseTask(t) ==
    /\ Fault
    /\ post' = post \ {t}
    /\ UNCHANGED <<order, batch, job, deliverer, session, queue, escalated, orderingVars>>

(* Redis loses a delayed job.                                               *)
LoseTimer(b) ==
    /\ Fault
    /\ timers' = timers \ {b}
    /\ UNCHANGED <<order, batch, job, deliverer, session, queue, post, escalated, readying, decision>>
-----------------------------------------------------------------------------
OrderingNext ==
    \/ \E o \in Orders, v \in {"VENDOR_ACCEPTED", "VENDOR_REJECTED"} : DecisionRead(o, v)
    \/ \E c \in decision : DecisionWrite(c)
    \/ \E o \in Orders, b \in Batches : ReadyBegin(o, b)
    \/ \E r \in readying : ReadyCommit(r)
    \/ \E r \in readying : ReadyAbort(r)
    \/ \E t \in post : Schedule(t)
    \/ \E t \in post : CloseFull(t)
    \/ \E t \in post : Enqueue(t)
    \/ \E b \in timers : TimeoutFires(b)
    \/ \E b \in Batches : CloseExpired(b)
    \/ \E b \in Batches : TestBatch(b)
    \/ \E b \in Batches : Tick(b)
    \/ \E t \in post : LoseTask(t)
    \/ \E b \in timers : LoseTimer(b)

allOrderingVars == <<tables, orderingVars>>

OrdersPlaced == TablesInit /\ OrderingInit

OrderingSpec == OrdersPlaced /\ [][OrderingNext]_allOrderingVars

(***************************************************************************)
(* Time passes and the cron job that closes expired batches runs every     *)
(* minute. Nothing is assumed of timers, of continuations or of vendors.   *)
(***************************************************************************)
OrderingFairSpec ==
    /\ OrderingSpec
    /\ \A b \in Batches : WF_allOrderingVars(Tick(b)) /\ WF_allOrderingVars(CloseExpired(b))
-----------------------------------------------------------------------------
(* The shape of the rows and of the open transactions.                      *)
OrderBatchingTypeOK == TablesTypeOK /\ OrderingTypeOK

(* No batch holds more orders than the largest limit, whatever the order in *)
(* which shops mark orders ready and even if every close that should follow *)
(* a full batch is lost (README: maximum batch size).                       *)
BatchSizeBounded == \A b \in Batches : Cardinality(OrdersOf(b)) <= GroceryMax

(* The two limits of checkBatchEligibility and shouldCloseBatch disagree    *)
(* (that of the new order's type against that of the whole batch), so that  *)
(* an order may still join a batch that is full. No full batch is left      *)
(* waiting for its timer all the same: while one is open, the close that    *)
(* follows the commit is on its way, unless a fault has swallowed it.       *)
FullBatchIsClosing ==
    \A b \in Batches :
        LET hasFood == \E m \in OrdersOf(b) : m \in Food
        IN  Open(b) /\ Cardinality(OrdersOf(b)) >= (IF hasFood THEN FoodMax ELSE GroceryMax)
            => faults > 0 \/ [step |-> "close", batch |-> b] \in post

(* With multi-vendor batching off, a batch collects the orders of one shop, *)
(* so that one pickup serves it.                                            *)
OneVendorPerBatch ==
    \A a, o \in Orders : order[a].batch = order[o].batch /\ order[a].batch # None
                         => Shop[a] = Shop[o]

(* The advisory lock at work (README: concurrent ready orders cannot create *)
(* duplicate batches): when a new batch appears, no batch open at that very *)
(* moment would have taken the order it was opened for.                     *)
NewBatchOnlyWhenNoneFits ==
    [][\A b \in Batches, o \in Orders :
          batch[b].status = "NONE" /\ batch'[b].status # "NONE" /\ order'[o].batch = b
          => \A c \in Batches : Open(c) => ~ Eligible(o, c)]_allOrderingVars

(* A second click never moves an order (README: a double click gets a 409): *)
(* once an order has joined a batch, it stays in that batch.                *)
BatchOfReadyOrderIsFinal ==
    [][\A o \in Orders : order[o].batch # None
                         => order'[o].batch = order[o].batch]_allOrderingVars

(* An open batch is closed in the end, although its timer, the close that   *)
(* follows a full batch and any transaction may be lost (README: every queue *)
(* step has a sweep behind it).                                             *)
OpenBatchCloses == \A b \in Batches : Open(b) ~> ~ Open(b)
=============================================================================
