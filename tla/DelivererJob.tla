---------------------------- MODULE DelivererJob ----------------------------
(***************************************************************************)
(* DelivererJobService: a deliverer starts the job and completes its       *)
(* drop-offs, each in a transaction that holds the row lock of the job;    *)
(* the last drop-off finishes the job, frees the deliverer and requeues a  *)
(* stuck batch.                                                            *)
(***************************************************************************)
EXTENDS MarketTables

VARIABLE stopTx  \* open transactions of completeDropOff

StopTx == [job: Batches, order: Orders, last: BOOLEAN]

JobTypeOK == stopTx \subseteq StopTx
JobInit == stopTx = {}

-----------------------------------------------------------------------------
StartableMutant(b, d) == job[b].deliverer = d /\ job[b].status # "NONE"

(* The WHERE clause of startJob's updateMany.                               *)
Startable(b, d) == job[b].deliverer = d /\ job[b].status = "ASSIGNED"

StartJob(b, d) ==
    /\ Startable(b, d)
    /\ job' = [job EXCEPT ![b].status = "IN_PROGRESS"]
    /\ order' = [o \in Orders |->
                    IF order[o].job = b THEN [order[o] EXCEPT !.status = "IN_PROGRESS"]
                                        ELSE order[o]]
    /\ UNCHANGED <<batch, deliverer, session, queue, post, escalated, faults, stopTx>>

LockMutant(b, o) == \A t \in stopTx : t.job = b => t.order # o

(* SELECT ... FOR UPDATE on the job; without it only the drop-off's own row *)
(* would be locked.                                                         *)
JobLockFree(b, o) == \A t \in stopTx : t.job # b

LastDropOffMutant(b, o) == Cardinality(job[b].stops \ job[b].done) <= 2

(* After o, no drop-off remains.                                            *)
LastDropOff(b, o) == job[b].stops \ job[b].done = {o}

(* completeDropOff up to its last read: the drop-off is claimed and the     *)
(* remaining ones are counted.                                              *)
BeginDropOff(b, d, o) ==
    /\ JobLockFree(b, o)
    /\ job[b].deliverer = d
    /\ job[b].status = "IN_PROGRESS"
    /\ o \in job[b].stops \ job[b].done
    /\ stopTx' = stopTx \cup
          {[job |-> b, order |-> o, last |-> LastDropOff(b, o)]}
    /\ UNCHANGED tables

(* finishJob frees the deliverer of the job.                                *)
FreeDeliverer(b) ==
    /\ job[b].status = "IN_PROGRESS"
    /\ deliverer' = [deliverer EXCEPT ![job[b].deliverer].available = TRUE,
                                      ![job[b].deliverer].activeJob = None]

(* The commit. With the last drop-off finishJob completes the job, its batch *)
(* and every order that is still linked to the job.                         *)
CommitDropOff(t) ==
    LET b == t.job
    IN  /\ job' = [job EXCEPT ![b].done = @ \cup {t.order},
                              ![b].status = IF t.last THEN "COMPLETED" ELSE @]
        /\ order' = [o \in Orders |->
                        IF o = t.order \/ (t.last /\ order[o].job = b)
                          THEN [order[o] EXCEPT !.status = "COMPLETED"] ELSE order[o]]
        /\ IF t.last
             THEN /\ batch' = [batch EXCEPT ![b].status = "COMPLETED"]
                  /\ FreeDeliverer(b)
                  /\ post' = post \cup {[step |-> "requeue", batch |-> None]}
             ELSE UNCHANGED <<batch, deliverer, post>>
        /\ stopTx' = stopTx \ {t}
        /\ UNCHANGED <<session, queue, escalated, faults>>

(* A crash or a database error rolls the transaction back.                  *)
AbortDropOff(t) ==
    /\ Fault
    /\ stopTx' = stopTx \ {t}
    /\ UNCHANGED <<order, batch, job, deliverer, session, queue, post, escalated>>

(* afterJobCompleted: the earliest stuck batch, if there is one, is queued. *)
Requeue(t) ==
    /\ t.step = "requeue"
    /\ queue' = queue \cup {NewTicket(b) : b \in
                    {b \in Batches : Stuck(b) /\ \A c \in Batches : c < b => ~ Stuck(c)}}
    /\ post' = post \ {t}
    /\ UNCHANGED <<order, batch, job, deliverer, session, escalated, faults, stopTx>>

JobNext ==
    \/ \E b \in Batches, d \in Deliverers :
          StartJob(b, d) \/ \E o \in Orders : BeginDropOff(b, d, o)
    \/ \E t \in stopTx : CommitDropOff(t) \/ AbortDropOff(t)
    \/ \E t \in post : Requeue(t)
=============================================================================
