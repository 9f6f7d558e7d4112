---------------------------- MODULE MarketTables ----------------------------
(***************************************************************************)
(* The state that the order, batching and delivery services share: the     *)
(* PostgreSQL tables they write (prisma/schema.prisma), the BullMQ         *)
(* assignment queue, and the work a request still has to do after its      *)
(* transaction has committed.                                              *)
(*                                                                         *)
(* A batch is named by its rank in the order of creation, so that          *)
(* "orderBy createdAt asc" is the order of the natural numbers.            *)
(* DeliveryJob.batchId is unique, so a job is named by its batch.          *)
(***************************************************************************)
EXTENDS Naturals, FiniteSets

CONSTANTS
    Orders,      \* orders the customers place
    Shops,       \* vendors
    Shop,        \* Shop[o]: the vendor of order o
    Unmapped,    \* shops without coordinates
    Deliverers,  \* deliverer profiles that ever exist
    Batches,     \* DeliveryBatch rows, in order of creation
    None,        \* the SQL NULL
    Attempts,    \* "attempts" of a queued assignment job
    MaxFaults    \* bound on the crashes and lost calls of one behaviour

ASSUME TablesAssumption ==
    /\ Shop \in [Orders -> Shops]
    /\ Unmapped \subseteq Shops
    /\ Batches \subseteq Nat
    /\ None \notin Orders \cup Deliverers \cup Batches
    /\ Attempts \in Nat \ {0}
    /\ MaxFaults \in Nat

VARIABLES
    order,      \* order[o]: status, deliveryBatchId and deliveryJobId
    batch,      \* batch[b]: status, delivererId and age
    job,        \* job[b]: status, delivererId, its drop-offs and those done
    deliverer,  \* deliverer[d]: whether the row exists, availability, activeJobId
    session,    \* session[d]: isOnline, and whether lastSeenAt is recent
    queue,      \* jobs waiting in the deliverer-assignment queue
    post,       \* steps that follow a commit, in memory of the process
    escalated,  \* jobs with an ESCALATED event newer than their deliverer's lastSeenAt
    faults      \* how many crashes and lost calls have happened

tables == <<order, batch, job, deliverer, session, queue, post, escalated, faults>>

(***************************************************************************)
(* Ages of a batch, as the code tells them apart: younger than             *)
(* STUCK_BATCH_MIN_AGE_MS, older, older than WINDOW_MIN, and older than    *)
(* WINDOW_MIN + 1 minutes.                                                 *)
(***************************************************************************)
AgeStuck == 1
AgeWindow == 2
AgeExpired == 3

OrderStatus == {"PENDING_VENDOR_CONFIRMATION", "VENDOR_ACCEPTED", "VENDOR_REJECTED",
                "READY_FOR_DELIVERY", "WAITING_FOR_DELIVERER", "IN_PROGRESS", "COMPLETED"}
JobStatus == {"NONE", "PENDING", "ASSIGNED", "IN_PROGRESS", "COMPLETED"}
Held == {"ASSIGNED", "IN_PROGRESS"}

OrderRow == [status: OrderStatus, batch: Batches \cup {None}, job: Batches \cup {None}]
BatchRow == [status: JobStatus \ {"ASSIGNED"}, deliverer: Deliverers \cup {None},
             age: 0..AgeExpired]
JobRow == [status: JobStatus, deliverer: Deliverers \cup {None},
           stops: SUBSET Orders, done: SUBSET Orders]
DelivererRow == [exists: BOOLEAN, available: BOOLEAN, activeJob: Batches \cup {None}]
Session == [online: BOOLEAN, fresh: BOOLEAN]
Ticket == [batch: Batches, left: 1..Attempts]
Task == [step: {"schedule", "close", "enqueue"}, batch: Batches]
        \cup [step: {"requeue"}, batch: {None}]

TablesTypeOK ==
    /\ order \in [Orders -> OrderRow]
    /\ batch \in [Batches -> BatchRow]
    /\ job \in [Batches -> JobRow]
    /\ deliverer \in [Deliverers -> DelivererRow]
    /\ session \in [Deliverers -> Session]
    /\ queue \subseteq Ticket
    /\ post \subseteq Task
    /\ escalated \subseteq Batches
    /\ faults \in 0..MaxFaults

NoBatch == [status |-> "NONE", deliverer |-> None, age |-> 0]
NoJob == [status |-> "NONE", deliverer |-> None, stops |-> {}, done |-> {}]

(* Every order has just been placed, nobody is connected, nothing is        *)
(* batched.                                                                 *)
TablesInit ==
    /\ order = [o \in Orders |-> [status |-> "PENDING_VENDOR_CONFIRMATION",
                                  batch |-> None, job |-> None]]
    /\ batch = [b \in Batches |-> NoBatch]
    /\ job = [b \in Batches |-> NoJob]
    /\ deliverer = [d \in Deliverers |->
                       [exists |-> TRUE, available |-> TRUE, activeJob |-> None]]
    /\ session = [d \in Deliverers |-> [online |-> FALSE, fresh |-> FALSE]]
    /\ queue = {}
    /\ post = {}
    /\ escalated = {}
    /\ faults = 0

-----------------------------------------------------------------------------
OrdersOf(b) == {o \in Orders : order[o].batch = b}

(* Closed batches that no deliverer has: what the recovery sweep and the    *)
(* end of a job look for.                                                   *)
Stuck(b) == batch[b].status = "IN_PROGRESS" /\ batch[b].deliverer = None

(* A deliverer row that a claim can take.                                   *)
Idle(d) ==
    /\ deliverer[d].exists
    /\ deliverer[d].available
    /\ deliverer[d].activeJob = None

Present(d) == session[d].online /\ session[d].fresh

NewTicket(b) == [batch |-> b, left |-> Attempts]

(* A crash, or a call that failed: at most MaxFaults of them.               *)
Fault == faults < MaxFaults /\ faults' = faults + 1
=============================================================================
