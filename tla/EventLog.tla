------------------------------ MODULE EventLog ------------------------------
(***************************************************************************)
(* EventLogService (src/common/events/event-log.service.ts) with its two   *)
(* projections, and the requests that record events: one order of one job, *)
(* from its creation to its delivery.                                      *)
(*                                                                         *)
(* An event that is recorded in the transaction of its change appears with *)
(* it. Otherwise the event row, its timeline row and the message to the    *)
(* clients are steps of the request in work, which a crash or a database   *)
(* error cuts off. OrderBatching and DelivererJob model the concurrency of *)
(* the transactions; here each of them is one step, but an acceptance or a *)
(* rejection, which has no transaction, is a check and a later write.      *)
(***************************************************************************)
EXTENDS Naturals, Sequences, FiniteSets

CONSTANTS
    Followed,   \* whose client is followed: one of these roles
    MaxRounds,  \* bound on how often the job returns to the pool; one escalation in each round
    MaxWork,    \* MaxWork[r]: bound on the requests under way together when client r is followed;
                \* at most one of them is an acceptance and one a rejection yet to be written
    MaxFaults   \* MaxFaults[r]: bound on the crashes and failed calls of one behaviour

Role == {"CUSTOMER", "VENDOR", "DELIVERER"}

ASSUME EventLogAssumption ==
    /\ Followed \subseteq Role
    /\ MaxRounds \in Nat
    /\ MaxWork \in [Role -> Nat]
    /\ MaxFaults \in [Role -> Nat]

VARIABLES
    role,      \* the client who is followed: the customer, the vendor or the deliverer
    status,    \* Order.status, "NONE" before the order exists
    job,       \* DeliveryJob.status, "NONE" before the job exists
    round,     \* how often the job has returned to the pool
    log,       \* rows of EventLog
    timeline,  \* events projected to OrderTimeline or JobTimeline
    deciding,  \* acceptance and rejection that have checked the status and not yet written it
    work,      \* what requests still have to do after the change is visible
    cut,       \* ghost: events whose request was cut off
    faults     \* how many crashes and failed calls have happened

eventVars == <<role, status, job, round, deciding, log, timeline, work, cut, faults>>

OrderKinds == {"order.created", "order.accepted", "order.rejected", "order.ready",
               "order.completed", "order.delivery_issue"}
DecisionKinds == {"order.accepted", "order.rejected"}
JobKinds == {"job.assigned", "job.started", "job.completed", "job.recovered", "job.escalated"}

Event == [kind: OrderKinds \cup JobKinds, round: 0..MaxRounds]
Steps == [do: {"record", "project", "send"}, event: Event]

EventLogTypeOK ==
    /\ role \in Role
    /\ status \in {"NONE", "PENDING_VENDOR_CONFIRMATION", "VENDOR_ACCEPTED", "VENDOR_REJECTED",
                   "READY_FOR_DELIVERY", "WAITING_FOR_DELIVERER", "IN_PROGRESS", "COMPLETED"}
    /\ job \in {"NONE", "PENDING", "ASSIGNED", "IN_PROGRESS", "COMPLETED"}
    /\ round \in 0..MaxRounds
    /\ log \subseteq Event
    /\ timeline \subseteq Event
    /\ deciding \subseteq DecisionKinds
    /\ work \subseteq Seq(Steps)
    /\ cut \subseteq Event
    /\ faults \in 0..MaxFaults[role]

EventLogInit ==
    /\ role \in Followed
    /\ status = "NONE"
    /\ job = "NONE"
    /\ round = 0
    /\ log = {}
    /\ timeline = {}
    /\ deciding = {}
    /\ work = {}
    /\ cut = {}
    /\ faults = 0

-----------------------------------------------------------------------------
OrderEvent(kind) == [kind |-> kind, round |-> 0]
JobEventMutant(kind) == [kind |-> kind, round |-> round + 1]

JobEvent(kind) == [kind |-> kind, round |-> round]

Do(step, e) == [do |-> step, event |-> e]

EventsOf(w) == {w[i].event : i \in DOMAIN w}

InWork == UNION {EventsOf(w) : w \in work}

(* What has happened and is recorded, or is about to be.                    *)
Known == log \cup InWork

(* recordEvent with the client of an open transaction: both rows are        *)
(* committed with the change.                                               *)
RecordInTx(E) ==
    /\ log' = log \cup E
    /\ timeline' = timeline \cup E

NoRecord == UNCHANGED <<log, timeline>>

(* Who a message is for: sendNewOrder, sendOrderAccepted, sendOrderRejected, *)
(* sendOrderReady, sendDeliveryIssue, sendJobAssigned with                   *)
(* sendDelivererAssigned, and what the room of the job is told. Nobody is    *)
(* told of a recovery, nor the customer as such of the completion.           *)
Addressees(kind) ==
    CASE kind = "order.created" -> {"VENDOR"}
      [] kind = "job.assigned" -> {"CUSTOMER", "DELIVERER"}
      [] kind \in {"order.completed", "job.recovered", "job.escalated"} -> {}
      [] OTHER -> {"CUSTOMER"}

Sending(e) == IF role \in Addressees(e.kind) THEN <<Do("send", e)>> ELSE <<>>

(* recordEvent without a transaction: the event row, then its projection.   *)
Recording(e) == <<Do("record", e), Do("project", e)>>

(* What the request does once its change is visible, without the messages   *)
(* to others than the client who is followed.                               *)
AndThen(steps) ==
    /\ work' = work \cup ({steps} \ {<<>>})
    /\ UNCHANGED <<role, cut, faults>>

(* Bound: requests that have begun and not ended.                           *)
MayBegin == Cardinality(work) + Cardinality(deciding) < MaxWork[role]

(* createOrder                                                              *)
CreateOrder ==
    /\ MayBegin
    /\ status = "NONE"
    /\ status' = "PENDING_VENDOR_CONFIRMATION"
    /\ RecordInTx({OrderEvent("order.created")})
    /\ AndThen(Sending(OrderEvent("order.created")))
    /\ UNCHANGED <<job, round, deciding>>

(* vendorAcceptOrder, vendorRejectOrder: the status is checked by a query ... *)
CheckDecision(kind) ==
    /\ MayBegin
    /\ status = "PENDING_VENDOR_CONFIRMATION"
    /\ kind \notin deciding
    /\ deciding' = deciding \cup {kind}
    /\ NoRecord
    /\ UNCHANGED <<role, status, job, round, work, cut, faults>>

Verdict(kind) == IF kind = "order.accepted" THEN "VENDOR_ACCEPTED" ELSE "VENDOR_REJECTED"

(* ... and overwritten by id, whatever it is by then; the event follows.    *)
WriteDecision(kind) ==
    /\ kind \in deciding
    /\ deciding' = deciding \ {kind}
    /\ status' = Verdict(kind)
    /\ AndThen(Recording(OrderEvent(kind)) \o Sending(OrderEvent(kind)))
    /\ NoRecord
    /\ UNCHANGED <<job, round>>

(* vendorMarkReady: the message follows the batching. Bound: the order is   *)
(* followed in its first batch; how a late decision makes it ready for a    *)
(* second one is shown by OrderBatching.                                    *)
MarkReady ==
    /\ MayBegin
    /\ status \in {"PENDING_VENDOR_CONFIRMATION", "VENDOR_ACCEPTED"}
    /\ OrderEvent("order.ready") \notin log
    /\ status' = "READY_FOR_DELIVERY"
    /\ RecordInTx({OrderEvent("order.ready")})
    /\ AndThen(Sending(OrderEvent("order.ready")))
    /\ UNCHANGED <<job, round, deciding>>

(* assignDelivererToBatch, claimed: the orders of the batch are updated     *)
(* whatever their status.                                                   *)
AssignJob ==
    /\ MayBegin
    /\ OrderEvent("order.ready") \in log
    /\ job \in {"NONE", "PENDING"}
    /\ status' = "WAITING_FOR_DELIVERER"
    /\ job' = "ASSIGNED"
    /\ RecordInTx({JobEvent("job.assigned")})
    /\ AndThen(Sending(JobEvent("job.assigned")))
    /\ UNCHANGED <<round, deciding>>

(* The row that startJob and recoverUnstartedJob want to update.            *)
Unstarted == job = "ASSIGNED"

(* startJob; its caller tells the job's room.                               *)
StartJob ==
    /\ MayBegin
    /\ Unstarted
    /\ job' = "IN_PROGRESS"
    /\ status' = "IN_PROGRESS"
    /\ RecordInTx({JobEvent("job.started")})
    /\ AndThen(Sending(JobEvent("job.started")))
    /\ UNCHANGED <<round, deciding>>

(* completeDropOff of the last drop-off, finishJob included.                *)
CompleteJob ==
    /\ MayBegin
    /\ job = "IN_PROGRESS"
    /\ job' = "COMPLETED"
    /\ status' = "COMPLETED"
    /\ RecordInTx({OrderEvent("order.completed"), JobEvent("job.completed")})
    /\ AndThen(Sending(JobEvent("job.completed")))
    /\ UNCHANGED <<round, deciding>>

(* recoverUnstartedJob: the event follows the transaction.                  *)
RecoverJob ==
    /\ MayBegin
    /\ Unstarted
    /\ round < MaxRounds
    /\ job' = "PENDING"
    /\ status' = "WAITING_FOR_DELIVERER"
    /\ round' = round + 1
    /\ AndThen(Recording(JobEvent("job.recovered")))
    /\ NoRecord
    /\ UNCHANGED deciding

(* escalateStartedJob: the job's event, then the order's, then the message. *)
(* The sweep acts on a snapshot: the job may have been completed since.     *)
(* An escalation that has been recorded is not repeated; one whose first    *)
(* record failed is. Bound: the deliverer is missing once in a round.       *)
EscalateJob ==
    LET j == JobEvent("job.escalated")
        o == OrderEvent("order.delivery_issue")
    IN  /\ job \in {"IN_PROGRESS", "COMPLETED"}
        /\ j \notin Known
        /\ MayBegin
        /\ AndThen(Recording(j) \o Recording(o) \o Sending(o))
        /\ NoRecord
        /\ UNCHANGED <<status, job, round, deciding>>

-----------------------------------------------------------------------------
(* The next step of a request.                                              *)
Proceed(w) == work' = (work \ {w}) \cup {s \in {Tail(w)} : s # <<>>}

(* The event row ...                                                        *)
Record(w) ==
    /\ Head(w).do = "record"
    /\ log' = log \cup {Head(w).event}
    /\ Proceed(w)
    /\ UNCHANGED <<role, status, job, round, deciding, timeline, cut, faults>>

ProjectsMutant(e) == {e} \cap [kind: OrderKinds, round: 0..MaxRounds]

(* The timeline row of an event; one of each is kept (skipDuplicates).      *)
Projects(e) == {e}

(* ... and its projection.                                                  *)
Project(w) ==
    /\ Head(w).do = "project"
    /\ timeline' = timeline \cup Projects(Head(w).event)
    /\ Proceed(w)
    /\ UNCHANGED <<role, status, job, round, deciding, log, cut, faults>>

Fault == faults < MaxFaults[role] /\ faults' = faults + 1

(* A statement fails: the rest of the request is not done.                  *)
RequestFails(w) ==
    /\ Head(w).do # "send"
    /\ Fault
    /\ work' = work \ {w}
    /\ cut' = cut \cup EventsOf(w)
    /\ UNCHANGED <<role, status, job, round, deciding, log, timeline>>

(* So does the update of a decision.                                        *)
DecisionFails(kind) ==
    /\ kind \in deciding
    /\ Fault
    /\ deciding' = deciding \ {kind}
    /\ UNCHANGED <<role, status, job, round, log, timeline, work, cut>>
=============================================================================
