----------------------------- MODULE Fulfilment -----------------------------
(***************************************************************************)
(* The fulfilment of orders: batching, assignment, delivery and recovery   *)
(* over the shared tables, with deliverers that come and go.               *)
(***************************************************************************)
EXTENDS OrderBatching, DelivererJob, DelivererRecovery, DelivererPresence

vars == <<tables, orderingVars, asg, stopTx, sweep>>

(* Row locks: no other transaction writes the order that an open            *)
(* vendorMarkReady has claimed, or the job and the order that an open       *)
(* completeDropOff has.                                                     *)
ReadyLocks == \A r \in readying : order'[r.order] = order[r.order]
StopLocks == \A t \in stopTx : job'[t.job] = job[t.job] /\ order'[t.order] = order[t.order]

OrderingStep == OrderingNext /\ StopLocks /\ UNCHANGED <<asg, stopTx, sweep>>
AssignmentStep == AssignmentNext /\ ReadyLocks /\ StopLocks
                                 /\ UNCHANGED <<orderingVars, stopTx, sweep>>
JobStep == JobNext /\ ReadyLocks /\ UNCHANGED <<orderingVars, asg, sweep>>
RecoveryStep == RecoveryNext /\ ReadyLocks /\ StopLocks /\ UNCHANGED <<orderingVars, stopTx>>
PresenceStep == PresenceNext /\ StopLocks /\ UNCHANGED <<orderingVars, asg, stopTx, sweep>>

LocalInit == OrderingInit /\ AssignmentInit /\ JobInit /\ RecoveryInit

Init == TablesInit /\ LocalInit

Next == OrderingStep \/ AssignmentStep \/ JobStep \/ RecoveryStep \/ PresenceStep

Spec == Init /\ [][Next]_vars

(***************************************************************************)
(* Dispatch alone: every order is ready and in a closed batch whose        *)
(* assignment job has been queued, and deliverers are connected.           *)
(***************************************************************************)
CONSTANT BatchOf  \* the closed batch of each order

ASSUME BatchOfAssumption == BatchOf \in [Orders -> Batches]

DispatchInit ==
    /\ order = [o \in Orders |-> [status |-> "READY_FOR_DELIVERY",
                                  batch |-> BatchOf[o], job |-> None]]
    /\ batch = [b \in Batches |-> [status |-> "IN_PROGRESS", deliverer |-> None,
                                   age |-> AgeStuck]]
    /\ job = [b \in Batches |-> NoJob]
    /\ deliverer = [d \in Deliverers |->
                       [exists |-> TRUE, available |-> TRUE, activeJob |-> None]]
    /\ session = [d \in Deliverers |-> [online |-> TRUE, fresh |-> TRUE]]
    /\ queue = {NewTicket(b) : b \in Batches}
    /\ post = {}
    /\ escalated = {}
    /\ faults = 0
    /\ LocalInit

DispatchSpec == DispatchInit /\ [][Next]_vars

(***************************************************************************)
(* The worker, the cron job and the database make progress. Nothing is     *)
(* assumed of deliverers, vendors, Redis or a crash.                       *)
(***************************************************************************)
WorkerActs ==
    \/ \E t \in queue : WorkerTakes(t)
    \/ NobodyAvailable(Worker) \/ Claim(Worker) \/ ClaimConflict(Worker)
    \/ \E d \in Deliverers : Pick(Worker, d)

SweepActs(s) ==
    \/ SweepReads(s) \/ SweepRequeues(s)
    \/ \E t \in sweep[s].todo : Recover(s, t) \/ Escalate(s, t) \/ SkipSnapshot(s, t)
    \/ SweepLoads(s) \/ NobodyAvailable(s) \/ Claim(s) \/ ClaimConflict(s)
    \/ \E d \in Deliverers : Pick(s, d)

Fairness ==
    /\ WF_vars(AssignmentStep /\ WorkerActs)
    /\ \A s \in Sweeps : WF_vars((AssignmentStep \/ RecoveryStep) /\ SweepActs(s))
    /\ WF_vars(JobStep /\ \E t \in stopTx : CommitDropOff(t))

FairDispatchSpec == DispatchSpec /\ Fairness
-----------------------------------------------------------------------------
(* The shape of every table and of every process.                           *)
TypeOK == TablesTypeOK /\ OrderingTypeOK /\ AssignmentTypeOK /\ JobTypeOK /\ RecoveryTypeOK

(* The three tables agree on who holds what: a deliverer's activeJobId is a *)
(* job that is his and not done, such a job's deliverer and batch point     *)
(* back, and only the batch of such a job or a completed one has a          *)
(* deliverer.                                                               *)
ActiveJobIsHeld ==
    \A d \in Deliverers : \A b \in Batches :
        deliverer[d].activeJob = b => job[b].status \in Held /\ job[b].deliverer = d

HeldJobIsActive ==
    \A b \in Batches :
        job[b].status \in Held =>
            /\ job[b].deliverer \in Deliverers
            /\ deliverer[job[b].deliverer].activeJob = b
            /\ deliverer[job[b].deliverer].exists
            /\ batch[b].deliverer = job[b].deliverer
            /\ batch[b].status = "IN_PROGRESS"

BatchFollowsJob ==
    \A b \in Batches :
        /\ batch[b].deliverer # None => job[b].status \in Held \cup {"COMPLETED"}
        /\ batch[b].status = "COMPLETED" <=> job[b].status = "COMPLETED"
        /\ batch[b].status \in {"NONE", "PENDING"} => job[b].status = "NONE"

Claims == ActiveJobIsHeld /\ HeldJobIsActive /\ BatchFollowsJob

(* A snapshot of the recovery sweep that says ASSIGNED stays true enough to *)
(* be acted upon: the job may have been started since, but it has not been  *)
(* given to anyone else. One sweep takes one snapshot of a job.             *)
SnapshotsHold ==
    \A s \in Sweeps : \A t \in sweep[s].todo :
        /\ t.status = "ASSIGNED" =>
              /\ job[t.job].status \in Held \cup {"COMPLETED"}
              /\ job[t.job].status = "ASSIGNED" => job[t.job].deliverer = t.deliverer
        /\ \A u \in sweep[s].todo : u.job = t.job => u = t

(* An open completeDropOff transaction works on a started job, alone.       *)
DropOffsHoldTheirJob ==
    \A t \in stopTx :
        /\ job[t.job].status = "IN_PROGRESS"
        /\ \A u \in stopTx : u.job = t.job => u = t

(* vendorMarkReady is alone behind the advisory lock, and the row that it   *)
(* inserts is not there before its commit.                                  *)
BatchingIsSerial ==
    \A r \in readying :
        /\ r.isNew => batch[r.batch].status = "NONE"
        /\ \A q \in readying : q = r

(* The inductive invariant of the claims: they are only as good as the      *)
(* snapshots and the locks that the next write relies on.                   *)
IInv == TypeOK /\ Claims /\ SnapshotsHold /\ DropOffsHoldTheirJob /\ BatchingIsSerial

(* What a customer sees of an order agrees with the job that carries it.    *)
OrderFollowsJob ==
    \A o \in Orders : \A b \in Batches : order[o].job = b =>
        /\ order[o].batch = b
        /\ job[b].status # "PENDING"
        /\ job[b].status = "ASSIGNED" => order[o].status = "WAITING_FOR_DELIVERER"
        /\ job[b].status = "IN_PROGRESS" =>
              order[o].status = IF o \in job[b].done THEN "COMPLETED" ELSE "IN_PROGRESS"
        /\ job[b].status = "COMPLETED" => order[o].status = "COMPLETED"

(* A closed batch without a deliverer can be claimed: no deliverer's unique *)
(* activeJobId still names its job (README, Recovery: batches stuck without *)
(* a deliverer are requeued).                                               *)
StuckBatchIsClaimable ==
    \A b \in Batches, d \in Deliverers : Stuck(b) => deliverer[d].activeJob # b

(* A started job always has a drop-off left, so that it can still finish:   *)
(* of two concurrent drop-offs one sees that it is the last (README: row    *)
(* locks on drop-off completion).                                           *)
StartedJobHasOpenDropOff ==
    \A b \in Batches : job[b].status = "IN_PROGRESS" => job[b].stops \ job[b].done # {}

(* An order is completed by its own drop-off, never in passing with the job. *)
DeliveredByDropOff ==
    \A o \in Orders : order[o].status = "COMPLETED" =>
        order[o].batch # None /\ o \in job[order[o].batch].done

(* No order is left behind by a batch that is completed (README: a lost     *)
(* Redis job cannot strand an order).                                       *)
NoOrderStranded ==
    \A o \in Orders : order[o].batch # None => 
        (batch[order[o].batch].status = "COMPLETED" => order[o].status = "COMPLETED")

(* A started job stays with the deliverer who started it until it is        *)
(* completed (README: a started job is never reassigned automatically).     *)
StartedNeverReassigned ==
    [][\A b \in Batches : job[b].status = "IN_PROGRESS" =>
          /\ job'[b].status \in {"IN_PROGRESS", "COMPLETED"}
          /\ job'[b].deliverer \in {job[b].deliverer, None}]_vars

(* A delivered order stays delivered.                                       *)
DeliveredStaysDelivered ==
    [][\A o \in Orders : order[o].status = "COMPLETED" =>
          order'[o].status = "COMPLETED"]_vars

(* Dispatch keeps its promise: the abstract claim of a batch is what the    *)
(* row of its job says.                                                     *)
claim == [b \in Batches |->
    CASE job[b].status = "ASSIGNED" -> [state |-> "claimed", by |-> job[b].deliverer]
      [] job[b].status = "IN_PROGRESS" -> [state |-> "started", by |-> job[b].deliverer]
      [] job[b].status = "COMPLETED" -> [state |-> "done", by |-> None]
      [] OTHER -> [state |-> "free", by |-> None]]

Abstract == INSTANCE CourierClaim
              WITH Couriers <- Deliverers, Nobody <- None, claim <- claim

ClaimsAreExclusive == Abstract!Spec

(* Orders go through the stages that their customers are shown, whatever    *)
(* is lost or released: a job that returns to the pool, a batch that is     *)
(* claimed again, a late order and the orders completed with the last       *)
(* drop-off included.                                                       *)
orderStatus == [o \in Orders |-> order[o].status]

Lifecycle == INSTANCE OrderLifecycle WITH status <- orderStatus

OrdersKeepTheirCourse == Lifecycle!Spec

(* A batch for which assignDelivererToBatch looks for a deliverer.          *)
Assignable(b) ==
    OrdersOf(b) # {} /\ \A o \in OrdersOf(b) : Shop[o] \notin Unmapped

(* A closed batch and a deliverer who is idle, connected and willing do not *)
(* wait for each other for ever, whatever was lost before (README: every    *)
(* queue step has a sweep behind it).                                       *)
StuckBatchMeetsDeliverer ==
    \A b \in Batches, d \in Deliverers :
        ~ <>[](Stuck(b) /\ Assignable(b) /\ Idle(d) /\ Present(d))

(* A started job whose deliverer stays away is escalated in the end (README, *)
(* Recovery).                                                               *)
SilentJobIsEscalated ==
    \A b \in Batches, d \in Deliverers :
        job[b].status = "IN_PROGRESS" /\ job[b].deliverer = d /\ ~ session[d].fresh
        ~> b \in escalated \/ session[d].fresh \/ job[b].status = "COMPLETED"
=============================================================================
