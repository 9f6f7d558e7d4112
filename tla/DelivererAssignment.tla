------------------------ MODULE DelivererAssignment ------------------------
(***************************************************************************)
(* DelivererAssignmentService.assignDelivererToBatch, run by the worker of *)
(* the deliverer-assignment queue (concurrency 1) and, directly, by the    *)
(* recovery sweep. A call loads the batch, picks a deliverer from a second *)
(* query, and claims both in a transaction: three steps of which only the  *)
(* last holds locks.                                                       *)
(***************************************************************************)
EXTENDS MarketTables

CONSTANTS
    Worker,  \* the worker of the deliverer-assignment queue
    Sweeps   \* runs of the recovery cron job that can be under way together

ASSUME AssignmentAssumption == Worker \notin Sweeps

Callers == Sweeps \cup {Worker}

VARIABLE asg  \* asg[p]: the call of assignDelivererToBatch that p is in

NoCall == [pc |-> "idle", batch |-> None, left |-> 0, orders |-> {}, deliverer |-> None]
Searching == [pc: {"load", "pick"}, batch: Batches, left: 0..Attempts,
              orders: SUBSET Orders, deliverer: {None}]
Claiming == [pc: {"claim"}, batch: Batches, left: 0..Attempts,
             orders: SUBSET Orders, deliverer: Deliverers]
Call == {NoCall} \cup Searching \cup Claiming

AssignmentTypeOK == asg \in [Callers -> Call]
AssignmentInit == asg = [p \in Callers |-> NoCall]

-----------------------------------------------------------------------------
RetriedMutant(p) ==
    {t \in {[batch |-> asg[p].batch, left |-> asg[p].left - 1]} : p = Worker}

(* BullMQ retries a job that failed while attempts are left; a sweep only   *)
(* logs the error.                                                          *)
Retried(p) ==
    {t \in {[batch |-> asg[p].batch, left |-> asg[p].left - 1]} :
        p = Worker /\ asg[p].left > 1}

(* The call of p throws.                                                    *)
Throw(p) ==
    /\ asg' = [asg EXCEPT ![p] = NoCall]
    /\ queue' = queue \cup Retried(p)

(* The batch and its orders are read, and kept until the claim. An empty or *)
(* assigned batch, or one without vendor coordinates, ends the call without *)
(* an error.                                                                *)
Loaded(b, left) ==
    IF \/ OrdersOf(b) = {}
       \/ batch[b].deliverer # None
       \/ \E o \in OrdersOf(b) : Shop[o] \in Unmapped
      THEN NoCall
      ELSE [NoCall EXCEPT !.pc = "pick", !.batch = b, !.left = left, !.orders = OrdersOf(b)]

(* The worker takes a job from the queue and loads its batch. (No one else  *)
(* looks at the queue, so taking the job is no step of its own.)            *)
WorkerTakes(t) ==
    /\ asg[Worker].pc = "idle"
    /\ asg' = [asg EXCEPT ![Worker] = Loaded(t.batch, t.left)]
    /\ queue' = queue \ {t}
    /\ UNCHANGED <<order, batch, job, deliverer, session, post, escalated, faults>>

(* The recovery sweep loads the batch of the job that it has released.      *)
SweepLoads(s) ==
    /\ asg[s].pc = "load"
    /\ asg' = [asg EXCEPT ![s] = Loaded(asg[s].batch, 0)]
    /\ UNCHANGED tables

(* The deliverers the second query returns.                                 *)
Candidate(d) == Idle(d) /\ Present(d)

(* findClosestDeliverer: which one it is depends on locations.              *)
Pick(p, d) ==
    /\ asg[p].pc = "pick"
    /\ Candidate(d)
    /\ asg' = [asg EXCEPT ![p].pc = "claim", ![p].deliverer = d]
    /\ UNCHANGED tables

(* NoDelivererAvailableError                                                *)
NobodyAvailable(p) ==
    /\ asg[p].pc = "pick"
    /\ ~ \E d \in Deliverers : Candidate(d)
    /\ Throw(p)
    /\ UNCHANGED <<order, batch, job, deliverer, session, post, escalated, faults>>

-----------------------------------------------------------------------------
DelivererOnlyMutant(b, d) == Idle(d) /\ batch[b].status = "IN_PROGRESS"

BatchOnlyMutant(b, d) == Stuck(b) /\ \A e \in Deliverers : deliverer[e].activeJob # b

(* What the transaction requires: its two conditional updates, the foreign  *)
(* key to the deliverer and the unique activeJobId.                         *)
CanClaim(b, d) ==
    /\ Stuck(b)
    /\ Idle(d)
    /\ \A e \in Deliverers : deliverer[e].activeJob # b

(* The transaction of assignDelivererToBatch. The drop-offs are those of the *)
(* orders loaded before, the orders updated are those of the batch now.     *)
Claim(p) ==
    LET b == asg[p].batch
        d == asg[p].deliverer
    IN  /\ asg[p].pc = "claim"
        /\ CanClaim(b, d)
        /\ job' = [job EXCEPT ![b] = [status |-> "ASSIGNED", deliverer |-> d,
                                      stops |-> asg[p].orders, done |-> {}]]
        /\ batch' = [batch EXCEPT ![b].deliverer = d]
        /\ deliverer' = [deliverer EXCEPT ![d].available = FALSE, ![d].activeJob = b]
        /\ order' = [o \in Orders |->
                        IF order[o].batch = b
                          THEN [order[o] EXCEPT !.status = "WAITING_FOR_DELIVERER", !.job = b]
                          ELSE order[o]]
        /\ asg' = [asg EXCEPT ![p] = NoCall]
        /\ UNCHANGED <<session, queue, post, escalated, faults>>

(* One of the updates changes no row or violates a constraint: rolled back. *)
ClaimConflict(p) ==
    /\ asg[p].pc = "claim"
    /\ ~ CanClaim(asg[p].batch, asg[p].deliverer)
    /\ Throw(p)
    /\ UNCHANGED <<order, batch, job, deliverer, session, post, escalated, faults>>

(* A crash or a database error anywhere in the call.                        *)
CallFails(p) ==
    /\ asg[p].pc # "idle"
    /\ Fault
    /\ Throw(p)
    /\ UNCHANGED <<order, batch, job, deliverer, session, post, escalated>>

(* Redis loses a queued job.                                                *)
LoseTicket(t) ==
    /\ Fault
    /\ queue' = queue \ {t}
    /\ UNCHANGED <<order, batch, job, deliverer, session, post, escalated, asg>>

AssignmentNext ==
    \/ \E t \in queue : WorkerTakes(t) \/ LoseTicket(t)
    \/ \E s \in Sweeps : SweepLoads(s)
    \/ \E p \in Callers :
          \/ \E d \in Deliverers : Pick(p, d)
          \/ NobodyAvailable(p)
          \/ Claim(p)
          \/ ClaimConflict(p)
          \/ CallFails(p)
=============================================================================
