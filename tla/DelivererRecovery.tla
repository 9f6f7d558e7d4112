------------------------- MODULE DelivererRecovery -------------------------
(***************************************************************************)
(* DelivererRecoveryService, run by a cron job every minute: it reads the  *)
(* deliverers that hold a job and have not been seen for DELIVERER_GRACE_MS, *)
(* then handles them one by one from that snapshot, and at last requeues   *)
(* stuck batches. The cron library starts the next run whether or not the  *)
(* previous one has ended: Sweeps are the runs that can overlap.           *)
(***************************************************************************)
EXTENDS DelivererAssignment

VARIABLE sweep  \* sweep[s]: whether s is under way, and its snapshots to handle

Snapshot == [deliverer: Deliverers, job: Batches, status: JobStatus, told: BOOLEAN]
SweepState == [running: BOOLEAN, todo: SUBSET Snapshot]

RecoveryTypeOK == sweep \in [Sweeps -> SweepState]
RecoveryInit == sweep = [s \in Sweeps |-> [running |-> FALSE, todo |-> {}]]

-----------------------------------------------------------------------------
StaleMutant(d) == deliverer[d].activeJob # None /\ session[d] = [online |-> FALSE, fresh |-> FALSE]

(* The WHERE clause of checkStaleDeliverers: the age of lastSeenAt decides, *)
(* isOnline does not.                                                       *)
Stale(d) == deliverer[d].activeJob # None /\ ~ session[d].fresh

SnapshotOf(d) ==
    LET b == deliverer[d].activeJob
    IN  [deliverer |-> d, job |-> b, status |-> job[b].status, told |-> b \in escalated]

SweepReads(s) ==
    /\ ~ sweep[s].running
    /\ sweep' = [sweep EXCEPT ![s] =
                    [running |-> TRUE,
                     todo |-> {SnapshotOf(d) : d \in {d \in Deliverers : Stale(d)}}]]
    /\ UNCHANGED <<tables, asg>>

(* s is free to handle the next snapshot t.                                 *)
Handling(s, t) == asg[s].pc = "idle" /\ t \in sweep[s].todo

Handled(s, t) == sweep' = [sweep EXCEPT ![s].todo = @ \ {t}]

RecoverableMutant(t) ==
    t.status \in Held /\ job[t.job].status \in Held /\ deliverer[t.deliverer].exists

(* The snapshot says ASSIGNED (handleDeliverer), and so does the row when   *)
(* recoverUnstartedJob updates it; the deliverer's row is still there.      *)
Recoverable(t) ==
    /\ t.status = "ASSIGNED"
    /\ job[t.job].status = "ASSIGNED"
    /\ deliverer[t.deliverer].exists

FreedByRecoveryMutant(t) == deliverer

(* The deliverer is updated by id alone.                                    *)
FreedByRecovery(t) ==
    [deliverer EXCEPT ![t.deliverer].available = TRUE, ![t.deliverer].activeJob = None]

ReleasedMutant(b) ==
    [o \in Orders |-> IF order[o].job = b
                        THEN [order[o] EXCEPT !.status = "WAITING_FOR_DELIVERER"]
                        ELSE order[o]]

(* The orders of the job wait again, and no longer point to it.             *)
Released(b) ==
    [o \in Orders |-> IF order[o].job = b
                        THEN [order[o] EXCEPT !.status = "WAITING_FOR_DELIVERER", !.job = None]
                        ELSE order[o]]

(* recoverUnstartedJob: the job goes back to the pool, and the sweep itself *)
(* calls assignDelivererToBatch for the batch.                              *)
Recover(s, t) ==
    LET b == t.job
    IN  /\ Handling(s, t)
        /\ Recoverable(t)
        /\ deliverer' = FreedByRecovery(t)
        /\ job' = [job EXCEPT ![b].status = "PENDING", ![b].deliverer = None]
        /\ batch' = [batch EXCEPT ![b].deliverer = None, ![b].status = "IN_PROGRESS"]
        /\ order' = Released(b)
        /\ asg' = [asg EXCEPT ![s] = [NoCall EXCEPT !.pc = "load", !.batch = b]]
        /\ Handled(s, t)
        /\ UNCHANGED <<session, queue, post, escalated, faults>>

(* escalateStartedJob, at most once while the deliverer stays away.         *)
Escalate(s, t) ==
    /\ Handling(s, t)
    /\ t.status = "IN_PROGRESS"
    /\ escalated' = IF t.told THEN escalated ELSE escalated \cup {t.job}
    /\ Handled(s, t)
    /\ UNCHANGED <<order, batch, job, deliverer, session, queue, post, faults, asg>>

(* Another status, or an update that finds no row: the sweep goes on.       *)
SkipSnapshot(s, t) ==
    /\ Handling(s, t)
    /\ t.status # "IN_PROGRESS"
    /\ ~ Recoverable(t)
    /\ Handled(s, t)
    /\ UNCHANGED <<tables, asg>>

-----------------------------------------------------------------------------
StuckLongMutant(b) == Stuck(b) /\ job[b].status # "PENDING"

(* What requeueStuckBatches looks for.                                      *)
StuckLong(b) == Stuck(b) /\ batch[b].age >= AgeStuck

(* stuck.slice(0, freeDeliverers): the earliest stuck batches, as many as   *)
(* there are idle deliverers, present or not.                               *)
Requeued ==
    {b \in Batches :
        /\ StuckLong(b)
        /\ Cardinality({c \in Batches : c < b /\ StuckLong(c)})
              < Cardinality({d \in Deliverers : Idle(d)})}

SweepRequeues(s) ==
    /\ sweep[s].running
    /\ sweep[s].todo = {}
    /\ asg[s].pc = "idle"
    /\ queue' = queue \cup {NewTicket(b) : b \in Requeued}
    /\ sweep' = [sweep EXCEPT ![s].running = FALSE]
    /\ UNCHANGED <<order, batch, job, deliverer, session, post, escalated, faults, asg>>

(* A crash ends the run; the next minute starts another one.                *)
SweepDies(s) ==
    /\ sweep[s].running
    /\ Fault
    /\ sweep' = [sweep EXCEPT ![s] = [running |-> FALSE, todo |-> {}]]
    /\ asg' = [asg EXCEPT ![s] = NoCall]
    /\ UNCHANGED <<order, batch, job, deliverer, session, queue, post, escalated>>

RecoveryNext ==
    \E s \in Sweeps :
        \/ SweepReads(s)
        \/ \E t \in sweep[s].todo : Recover(s, t) \/ Escalate(s, t) \/ SkipSnapshot(s, t)
        \/ SweepRequeues(s)
        \/ SweepDies(s)
=============================================================================
