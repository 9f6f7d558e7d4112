-------------------------- MODULE FulfilmentProofs --------------------------
(***************************************************************************)
(* Proofs about Fulfilment, for every set of orders, shops, deliverers and *)
(* batches, and every bound.                                               *)
(***************************************************************************)
EXTENDS Fulfilment, OrderBatchingProofs

-----------------------------------------------------------------------------
(* Type correctness, one lemma per component.                               *)

LEMMA TypeInit == Init => TypeOK
  <1>. USE DEF OrderRow, BatchRow, JobRow, DelivererRow, Session, OrderStatus, JobStatus
  <1>. SUFFICES ASSUME Init PROVE TypeOK
    OBVIOUS
  <1>1. TablesTypeOK
    BY TablesAssumption DEF Init, TablesInit, TablesTypeOK, NoBatch, NoJob, AgeExpired
  <1>2. OrderingTypeOK /\ JobTypeOK
    BY DEF Init, LocalInit, OrderingInit, OrderingTypeOK, JobInit, JobTypeOK
  <1>3. AssignmentTypeOK
    BY TablesAssumption DEF Init, LocalInit, AssignmentInit, AssignmentTypeOK, NoCall, Call
  <1>4. RecoveryTypeOK
    BY DEF Init, LocalInit, RecoveryInit, RecoveryTypeOK, SweepState
  <1>. QED BY <1>1, <1>2, <1>3, <1>4 DEF TypeOK

LEMMA TypeDispatchInit == DispatchInit => TypeOK
  <1>. USE DEF OrderRow, BatchRow, JobRow, DelivererRow, Session, OrderStatus, JobStatus
  <1>. SUFFICES ASSUME DispatchInit PROVE TypeOK
    OBVIOUS
  <1>1. \A b \in Batches : NewTicket(b) \in Ticket
    BY TablesAssumption DEF NewTicket, Ticket
  <1>2. TablesTypeOK
    BY <1>1, TablesAssumption, BatchOfAssumption
       DEF DispatchInit, TablesTypeOK, NoJob, AgeExpired, AgeStuck
  <1>3. OrderingTypeOK /\ AssignmentTypeOK /\ JobTypeOK /\ RecoveryTypeOK
    BY DEF DispatchInit, LocalInit, OrderingInit, OrderingTypeOK, AssignmentInit,
           AssignmentTypeOK, Call, JobInit, JobTypeOK, RecoveryInit, RecoveryTypeOK, SweepState
  <1>. QED BY <1>2, <1>3 DEF TypeOK

LEMMA TypeOrdering == TypeOK /\ OrderingStep => TypeOK'
  <1>. SUFFICES ASSUME TypeOK, OrderingStep PROVE TypeOK'
    OBVIOUS
  <1>1. UNCHANGED <<asg, stopTx, sweep>> /\ OrderingNext
    BY DEF OrderingStep
  <1>2. (AssignmentTypeOK /\ JobTypeOK /\ RecoveryTypeOK)'
    BY <1>1 DEF TypeOK, AssignmentTypeOK, JobTypeOK, RecoveryTypeOK
  <1>3. OrderBatchingTypeOK'
    BY <1>1, OrderingKeepsTypes DEF TypeOK, OrderBatchingTypeOK
  <1>. QED BY <1>2, <1>3 DEF TypeOK, OrderBatchingTypeOK

LEMMA ThrowKeepsTypes ==
  ASSUME TypeOK, NEW p \in Callers, Throw(p)
  PROVE  asg' \in [Callers -> Call] /\ queue' \subseteq Ticket
  <1>. USE DEF TypeOK, TablesTypeOK, AssignmentTypeOK
  <1>1. NoCall \in Call
    BY DEF Call
  <1>2. Retried(p) \subseteq Ticket
    <2>1. asg[p].left > 1 => asg[p] # NoCall
      BY DEF NoCall
    <2>2. asg[p].left > 1 => asg[p].left \in 0..Attempts /\ asg[p].batch \in Batches
      BY <2>1 DEF Call, Searching, Claiming
    <2>. QED BY <2>2, TablesAssumption DEF Retried, Ticket
  <1>. QED BY <1>1, <1>2 DEF Throw

LEMMA TypeAssignmentNext ==
  ASSUME TypeOK, AssignmentNext
  PROVE  (TablesTypeOK /\ AssignmentTypeOK)'
  <1>. USE DEF TypeOK, TablesTypeOK, AssignmentTypeOK, tables
  <1>0. NoCall \in Call
    BY DEF Call
  <1>l. ASSUME NEW b \in Batches, NEW left \in 0..Attempts
        PROVE  Loaded(b, left) \in Call
    BY <1>0, <1>l DEF Loaded, NoCall, Call, Searching, OrdersOf
  <1>1. ASSUME NEW t \in queue, WorkerTakes(t)
        PROVE  (TablesTypeOK /\ AssignmentTypeOK)'
    <2>1. t.batch \in Batches /\ t.left \in 0..Attempts
      BY DEF Ticket
    <2>2. Loaded(t.batch, t.left) \in Call
      BY <2>1, <1>l
    <2>. QED BY <1>1, <2>2 DEF WorkerTakes
  <1>2. ASSUME NEW t \in queue, LoseTicket(t)
        PROVE  (TablesTypeOK /\ AssignmentTypeOK)'
    BY <1>2, TablesAssumption DEF LoseTicket, Fault
  <1>3. ASSUME NEW s \in Sweeps, SweepLoads(s)
        PROVE  (TablesTypeOK /\ AssignmentTypeOK)'
    <2>1. asg[s].batch \in Batches /\ s \in Callers
      BY <1>3 DEF SweepLoads, Callers, Call, NoCall, Searching, Claiming
    <2>2. 0 \in 0..Attempts
      BY TablesAssumption
    <2>3. Loaded(asg[s].batch, 0) \in Call
      BY <2>1, <2>2, <1>l
    <2>. QED BY <1>3, <2>1, <2>3 DEF SweepLoads
  <1>4. ASSUME NEW p \in Callers, NEW d \in Deliverers, Pick(p, d)
        PROVE  (TablesTypeOK /\ AssignmentTypeOK)'
    <2>1. asg[p] \in Searching
      BY <1>4 DEF Pick, Call, NoCall, Claiming
    <2>2. [asg[p] EXCEPT !.pc = "claim", !.deliverer = d] \in Call
      BY <2>1 DEF Searching, Claiming, Call
    <2>. QED BY <1>4, <2>2 DEF Pick
  <1>5. ASSUME NEW p \in Callers, NobodyAvailable(p)
        PROVE  (TablesTypeOK /\ AssignmentTypeOK)'
    BY <1>5, ThrowKeepsTypes DEF NobodyAvailable
  <1>6. ASSUME NEW p \in Callers, Claim(p)
        PROVE  (TablesTypeOK /\ AssignmentTypeOK)'
    <2>. DEFINE b == asg[p].batch
                d == asg[p].deliverer
    <2>1. b \in Batches /\ d \in Deliverers /\ asg[p].orders \subseteq Orders
      <3>0. asg[p].pc = "claim" /\ asg[p] \in Call
        BY <1>6 DEF Claim
      <3>1. asg[p] \in Claiming
        BY <3>0 DEF Call, NoCall, Searching
      <3>. QED BY <3>1 DEF Claiming
    <2>2. job' \in [Batches -> JobRow]
      BY <1>6, <2>1 DEF Claim, JobRow, JobStatus
    <2>3. batch' \in [Batches -> BatchRow]
      BY <1>6, <2>1 DEF Claim, BatchRow
    <2>4. deliverer' \in [Deliverers -> DelivererRow]
      BY <1>6, <2>1 DEF Claim, DelivererRow
    <2>5. order' \in [Orders -> OrderRow]
      BY <1>6, <2>1 DEF Claim, OrderRow, OrderStatus
    <2>. QED BY <1>6, <1>0, <2>2, <2>3, <2>4, <2>5 DEF Claim
  <1>7. ASSUME NEW p \in Callers, ClaimConflict(p)
        PROVE  (TablesTypeOK /\ AssignmentTypeOK)'
    BY <1>7, ThrowKeepsTypes DEF ClaimConflict
  <1>8. ASSUME NEW p \in Callers, CallFails(p)
        PROVE  (TablesTypeOK /\ AssignmentTypeOK)'
    BY <1>8, ThrowKeepsTypes, TablesAssumption DEF CallFails, Fault
  <1>. QED
    BY <1>1, <1>2, <1>3, <1>4, <1>5, <1>6, <1>7, <1>8 DEF AssignmentNext

LEMMA TypeJobNext ==
  ASSUME TypeOK, JobNext
  PROVE  (TablesTypeOK /\ JobTypeOK)'
  <1>. USE DEF TypeOK, TablesTypeOK, JobTypeOK, tables
  <1>1. ASSUME NEW b \in Batches, NEW d \in Deliverers, StartJob(b, d)
        PROVE  (TablesTypeOK /\ JobTypeOK)'
    <2>1. job' \in [Batches -> JobRow]
      BY <1>1 DEF StartJob, JobRow, JobStatus
    <2>2. order' \in [Orders -> OrderRow]
      BY <1>1 DEF StartJob, OrderRow, OrderStatus
    <2>. QED BY <1>1, <2>1, <2>2 DEF StartJob
  <1>2. ASSUME NEW b \in Batches, NEW d \in Deliverers, NEW o \in Orders,
               BeginDropOff(b, d, o)
        PROVE  (TablesTypeOK /\ JobTypeOK)'
    <2>1. LastDropOff(b, o) \in BOOLEAN
      BY DEF LastDropOff
    <2>2. [job |-> b, order |-> o, last |-> LastDropOff(b, o)] \in StopTx
      BY <2>1 DEF StopTx
    <2>. QED BY <1>2, <2>2 DEF BeginDropOff
  <1>3. ASSUME NEW t \in stopTx, CommitDropOff(t)
        PROVE  (TablesTypeOK /\ JobTypeOK)'
    <2>1. t.job \in Batches /\ t.order \in Orders
      BY DEF StopTx
    <2>2. job' \in [Batches -> JobRow]
      <3>1. job[t.job] \in JobRow
        BY <2>1
      <3>2. job[t.job].done \cup {t.order} \in SUBSET Orders
        BY <2>1, <3>1 DEF JobRow
      <3>3. CASE t.last
        BY <1>3, <2>1, <3>1, <3>2, <3>3 DEF CommitDropOff, JobRow, JobStatus
      <3>4. CASE ~ t.last
        BY <1>3, <2>1, <3>1, <3>2, <3>4 DEF CommitDropOff, JobRow, JobStatus
      <3>. QED BY <3>3, <3>4
    <2>3. order' \in [Orders -> OrderRow]
      BY <1>3, <2>1 DEF CommitDropOff, OrderRow, OrderStatus
    <2>4. batch' \in [Batches -> BatchRow]
      BY <1>3, <2>1 DEF CommitDropOff, BatchRow, JobStatus
    <2>5. deliverer' \in [Deliverers -> DelivererRow]
      <3>1. CASE t.last
        <4>1. CASE job[t.job].deliverer \in Deliverers
          <5>. DEFINE c == job[t.job].deliverer
          <5>2. deliverer' = [deliverer EXCEPT ![c].available = TRUE, ![c].activeJob = None]
            BY <1>3, <3>1 DEF CommitDropOff, FreeDeliverer
          <5>3. [deliverer[c] EXCEPT !.available = TRUE, !.activeJob = None] \in DelivererRow
            BY <4>1 DEF DelivererRow
          <5>. QED BY <4>1, <5>2, <5>3 DEF DelivererRow
        <4>2. CASE job[t.job].deliverer \notin Deliverers
          BY <1>3, <3>1, <4>2 DEF CommitDropOff, FreeDeliverer
        <4>. QED BY <4>1, <4>2
      <3>2. CASE ~ t.last
        BY <1>3, <3>2 DEF CommitDropOff
      <3>. QED BY <3>1, <3>2
    <2>6. post' \subseteq Task
      BY <1>3 DEF CommitDropOff, Task
    <2>. QED BY <1>3, <2>2, <2>3, <2>4, <2>5, <2>6 DEF CommitDropOff
  <1>4. ASSUME NEW t \in stopTx, AbortDropOff(t)
        PROVE  (TablesTypeOK /\ JobTypeOK)'
    BY <1>4, TablesAssumption DEF AbortDropOff, Fault
  <1>5. ASSUME NEW t \in post, Requeue(t)
        PROVE  (TablesTypeOK /\ JobTypeOK)'
    <2>1. \A b \in Batches : NewTicket(b) \in Ticket
      BY TablesAssumption DEF NewTicket, Ticket
    <2>. QED BY <1>5, <2>1 DEF Requeue
  <1>. QED
    BY <1>1, <1>2, <1>3, <1>4, <1>5 DEF JobNext

LEMMA TypeRecoveryNext ==
  ASSUME TypeOK, RecoveryNext
  PROVE  (TablesTypeOK /\ AssignmentTypeOK /\ RecoveryTypeOK)'
  <1>. USE DEF TypeOK, TablesTypeOK, AssignmentTypeOK, RecoveryTypeOK, tables
  <1>0. NoCall \in Call
    BY DEF Call
  <1>h. ASSUME NEW s \in Sweeps, NEW t, Handled(s, t)
        PROVE  sweep' \in [Sweeps -> SweepState]
    BY <1>h DEF Handled, SweepState
  <1>1. ASSUME NEW s \in Sweeps, SweepReads(s)
        PROVE  (TablesTypeOK /\ AssignmentTypeOK /\ RecoveryTypeOK)'
    <2>1. ASSUME NEW d \in Deliverers, Stale(d) PROVE SnapshotOf(d) \in Snapshot
      <3>1. deliverer[d].activeJob \in Batches
        BY <2>1 DEF Stale, DelivererRow
      <3>2. job[deliverer[d].activeJob].status \in JobStatus
        BY <3>1 DEF JobRow
      <3>3. (deliverer[d].activeJob \in escalated) \in BOOLEAN
        OBVIOUS
      <3>. QED BY <3>1, <3>2, <3>3 DEF SnapshotOf, Snapshot
    <2>2. sweep' \in [Sweeps -> SweepState]
      BY <1>1, <2>1 DEF SweepReads, SweepState
    <2>. QED BY <1>1, <2>2 DEF SweepReads
  <1>2. ASSUME NEW s \in Sweeps, NEW t \in sweep[s].todo, Recover(s, t)
        PROVE  (TablesTypeOK /\ AssignmentTypeOK /\ RecoveryTypeOK)'
    <2>1. t \in Snapshot
      BY DEF SweepState
    <2>2. t.job \in Batches /\ t.deliverer \in Deliverers
      BY <2>1 DEF Snapshot
    <2>3. deliverer' \in [Deliverers -> DelivererRow]
      BY <1>2, <2>2 DEF Recover, FreedByRecovery, DelivererRow
    <2>4. job' \in [Batches -> JobRow]
      <3>1. job[t.job] \in JobRow
        BY <2>2
      <3>2. [job[t.job] EXCEPT !.status = "PENDING", !.deliverer = None] \in JobRow
        BY <3>1 DEF JobRow, JobStatus
      <3>3. job' = [job EXCEPT ![t.job] = [job[t.job] EXCEPT !.status = "PENDING", !.deliverer = None]]
        BY <1>2, <2>2, <3>1 DEF Recover, JobRow
      <3>. QED BY <3>2, <3>3, <2>2
    <2>5. batch' \in [Batches -> BatchRow]
      BY <1>2, <2>2 DEF Recover, BatchRow, JobStatus
    <2>6. order' \in [Orders -> OrderRow]
      <3>1. order' = Released(t.job)
        BY <1>2 DEF Recover
      <3>. QED BY <3>1 DEF Released, OrderRow, OrderStatus
    <2>7. asg' \in [Callers -> Call]
      <3>1. [NoCall EXCEPT !.pc = "load", !.batch = t.job] \in Call
        <4>1. 0 \in 0..Attempts
          BY TablesAssumption
        <4>. QED BY <2>2, <4>1 DEF Call, NoCall, Searching
      <3>. QED BY <1>2, <3>1 DEF Recover
    <2>. QED BY <1>2, <1>h, <2>3, <2>4, <2>5, <2>6, <2>7 DEF Recover
  <1>3. ASSUME NEW s \in Sweeps, NEW t \in sweep[s].todo, Escalate(s, t)
        PROVE  (TablesTypeOK /\ AssignmentTypeOK /\ RecoveryTypeOK)'
    <2>1. t.job \in Batches
      BY DEF SweepState, Snapshot
    <2>. QED BY <1>3, <1>h, <2>1 DEF Escalate
  <1>4. ASSUME NEW s \in Sweeps, NEW t \in sweep[s].todo, SkipSnapshot(s, t)
        PROVE  (TablesTypeOK /\ AssignmentTypeOK /\ RecoveryTypeOK)'
    BY <1>4, <1>h DEF SkipSnapshot
  <1>5. ASSUME NEW s \in Sweeps, SweepRequeues(s)
        PROVE  (TablesTypeOK /\ AssignmentTypeOK /\ RecoveryTypeOK)'
    <2>1. \A b \in Batches : NewTicket(b) \in Ticket
      BY TablesAssumption DEF NewTicket, Ticket
    <2>2. queue' \subseteq Ticket
      BY <1>5, <2>1 DEF SweepRequeues, Requeued
    <2>3. sweep' \in [Sweeps -> SweepState]
      BY <1>5 DEF SweepRequeues, SweepState
    <2>. QED BY <1>5, <2>2, <2>3 DEF SweepRequeues
  <1>6. ASSUME NEW s \in Sweeps, SweepDies(s)
        PROVE  (TablesTypeOK /\ AssignmentTypeOK /\ RecoveryTypeOK)'
    <2>1. [running |-> FALSE, todo |-> {}] \in SweepState
      BY DEF SweepState
    <2>2. faults' \in 0..MaxFaults
      BY <1>6, TablesAssumption DEF SweepDies, Fault
    <2>. QED BY <1>6, <1>0, <2>1, <2>2 DEF SweepDies
  <1>. QED
    BY <1>1, <1>2, <1>3, <1>4, <1>5, <1>6 DEF RecoveryNext

LEMMA TypePresenceNext ==
  ASSUME TypeOK, PresenceNext
  PROVE  TablesTypeOK'
  <1>. USE DEF TypeOK, TablesTypeOK
  <1>s. ASSUME NEW d \in Deliverers, NEW online \in BOOLEAN, Seen(d, online)
        PROVE  TablesTypeOK'
    BY <1>s DEF Seen, Session
  <1>1. ASSUME NEW d \in Deliverers, Connect(d) \/ Disconnect(d) \/ Heartbeat(d)
        PROVE  TablesTypeOK'
    <2>1. session[d].online \in BOOLEAN
      BY DEF Session
    <2>. QED BY <1>1, <1>s, <2>1 DEF Connect, Disconnect, Heartbeat
  <1>2. ASSUME NEW d \in Deliverers, Silence(d)
        PROVE  TablesTypeOK'
    BY <1>2 DEF Silence, Session
  <1>3. ASSUME NEW d \in Deliverers, NEW v \in BOOLEAN, SetAvailability(d, v)
        PROVE  TablesTypeOK'
    BY <1>3 DEF SetAvailability, DelivererRow
  <1>4. ASSUME NEW d \in Deliverers, RemoveDeliverer(d)
        PROVE  TablesTypeOK'
    <2>1. deliverer' \in [Deliverers -> DelivererRow]
      BY <1>4 DEF RemoveDeliverer, DelivererRow
    <2>2. batch' \in [Batches -> BatchRow]
      BY <1>4 DEF RemoveDeliverer, BatchRow
    <2>3. job' \in [Batches -> JobRow]
      BY <1>4 DEF RemoveDeliverer, JobRow
    <2>. QED BY <1>4, <2>1, <2>2, <2>3 DEF RemoveDeliverer
  <1>. QED
    BY <1>1, <1>2, <1>3, <1>4 DEF PresenceNext

LEMMA TypeNext == TypeOK /\ [Next]_vars => TypeOK'
  <1>. SUFFICES ASSUME TypeOK, [Next]_vars PROVE TypeOK'
    OBVIOUS
  <1>. USE DEF TypeOK, orderingVars, OrderingTypeOK, AssignmentTypeOK, JobTypeOK, RecoveryTypeOK
  <1>1. CASE OrderingStep
    BY <1>1, TypeOrdering
  <1>2. CASE AssignmentStep
    BY <1>2, TypeAssignmentNext DEF AssignmentStep
  <1>3. CASE JobStep
    BY <1>3, TypeJobNext DEF JobStep
  <1>4. CASE RecoveryStep
    BY <1>4, TypeRecoveryNext DEF RecoveryStep
  <1>5. CASE PresenceStep
    BY <1>5, TypePresenceNext DEF PresenceStep
  <1>6. CASE UNCHANGED vars
    BY <1>6 DEF vars, tables, TablesTypeOK
  <1>. QED BY <1>1, <1>2, <1>3, <1>4, <1>5, <1>6 DEF Next

(* Every row, every queued job and every call in progress keeps its shape,  *)
(* whatever the components do and whatever is lost: in particular no task,  *)
(* ticket or snapshot ever refers to a row that cannot exist.               *)
THEOREM TypeCorrect == Spec \/ DispatchSpec => []TypeOK
  BY TypeInit, TypeDispatchInit, TypeNext, PTL DEF Spec, DispatchSpec

-----------------------------------------------------------------------------
(* The claims. Two facts about the deployment are assumed: a run of the     *)
(* recovery sweep ends before the next one starts, since a second one would *)
(* release by id what is no longer in its snapshot; and an administrator    *)
(* does not remove a deliverer who holds a job, as in the run removal.      *)

OneSweep == \A s, t \in Sweeps : s = t
KeepsBusy == ~ RemovesBusy

Consistent == Claims /\ SnapshotsHold /\ DropOffsHoldTheirJob /\ BatchingIsSerial

(* What the claims say of one held job.                                     *)
LEMMA HeldJob ==
  ASSUME Claims, NEW b \in Batches, job[b].status \in Held
  PROVE  /\ job[b].deliverer \in Deliverers
         /\ deliverer[job[b].deliverer].activeJob = b
         /\ deliverer[job[b].deliverer].exists
         /\ batch[b].deliverer = job[b].deliverer
         /\ batch[b].status = "IN_PROGRESS"
  BY DEF Claims, HeldJobIsActive

LEMMA ClaimsInit == Init \/ DispatchInit => Consistent
  <1>. SUFFICES ASSUME Init \/ DispatchInit PROVE Consistent
    OBVIOUS
  <1>1. /\ job = [b \in Batches |-> NoJob]
        /\ \A b \in Batches : batch[b].deliverer = None /\ batch[b].status # "COMPLETED"
        /\ \A d \in Deliverers : deliverer[d].activeJob = None
        /\ \A s \in Sweeps : sweep[s].todo = {}
        /\ stopTx = {} /\ readying = {}
    BY DEF Init, DispatchInit, TablesInit, LocalInit, OrderingInit, JobInit, RecoveryInit, NoBatch
  <1>2. Claims
    BY <1>1, TablesAssumption
       DEF Claims, ActiveJobIsHeld, HeldJobIsActive, BatchFollowsJob, NoJob, Held
  <1>. QED
    BY <1>1, <1>2 DEF Consistent, SnapshotsHold, DropOffsHoldTheirJob, BatchingIsSerial

(* A step of batching moves a batch on only while it has no job.            *)
LEMMA BatchingKeepsClaims ==
  ASSUME Claims, SnapshotsHold, DropOffsHoldTheirJob,
         UNCHANGED <<job, deliverer, sweep, stopTx>>,
         \A b \in Batches :
            /\ batch'[b].deliverer = batch[b].deliverer
            /\ \/ batch'[b].status = batch[b].status
               \/ /\ batch[b].status \in {"NONE", "PENDING"}
                  /\ batch'[b].status \in {"PENDING", "IN_PROGRESS"}
  PROVE  (Claims /\ SnapshotsHold /\ DropOffsHoldTheirJob)'
  <1>1. ActiveJobIsHeld'
    BY DEF Claims, ActiveJobIsHeld
  <1>2. HeldJobIsActive'
    BY DEF Claims, HeldJobIsActive, BatchFollowsJob, Held
  <1>3. BatchFollowsJob'
    BY DEF Claims, BatchFollowsJob, HeldJobIsActive, Held
  <1>4. (SnapshotsHold /\ DropOffsHoldTheirJob)'
    BY DEF SnapshotsHold, DropOffsHoldTheirJob
  <1>. QED BY <1>1, <1>2, <1>3, <1>4 DEF Claims

LEMMA ClaimsOrdering ==
  ASSUME TypeOK, Consistent, OrderingStep
  PROVE  Consistent'
  <1>. USE DEF TypeOK, TablesTypeOK, OrderingTypeOK, Consistent
  <1>0. OrderingNext /\ UNCHANGED <<sweep, stopTx>>
    BY DEF OrderingStep
  <1>. DEFINE Moves == \A b \in Batches :
                 /\ batch'[b].deliverer = batch[b].deliverer
                 /\ \/ batch'[b].status = batch[b].status
                    \/ /\ batch[b].status \in {"NONE", "PENDING"}
                       /\ batch'[b].status \in {"PENDING", "IN_PROGRESS"}
  <1>c. ASSUME NEW b \in Batches, NEW rest, CloseBatch(b, rest)
        PROVE  /\ Moves
               /\ \A c \in Batches : batch[c].status = "NONE" => batch'[c].status = "NONE"
    BY <1>c DEF CloseBatch, Open, BatchRow
  <1>k. ASSUME batch' = batch PROVE Moves
    BY <1>k
  <1>s. ASSUME UNCHANGED readying,
               \A c \in Batches : batch[c].status = "NONE" => batch'[c].status = "NONE"
        PROVE  BatchingIsSerial'
    BY <1>s DEF BatchingIsSerial, Readying
  <1>f. ASSUME UNCHANGED <<job, deliverer>>, Moves, BatchingIsSerial'
        PROVE  Consistent'
    BY <1>0, <1>f, BatchingKeepsClaims
  <1>1. ASSUME NEW o \in Orders, NEW v \in {"VENDOR_ACCEPTED", "VENDOR_REJECTED"},
               DecisionRead(o, v)
        PROVE  Consistent'
    BY <1>1, <1>k, <1>s, <1>f DEF DecisionRead, tables
  <1>2. ASSUME NEW c \in decision, DecisionWrite(c)
        PROVE  Consistent'
    BY <1>2, <1>k, <1>s, <1>f DEF DecisionWrite
  <1>3. ASSUME NEW o \in Orders, NEW b \in Batches, ReadyBegin(o, b)
        PROVE  Consistent'
    <2>1. BatchingIsSerial'
      <3>1. PICK new \in BOOLEAN, close \in BOOLEAN :
               /\ readying' = {[order |-> o, batch |-> b, isNew |-> new, close |-> close]}
               /\ new => NextRow(b)
        <4>1. ShouldClose(o, b) \in BOOLEAN
          BY DEF ShouldClose
        <4>. QED BY <1>3, <4>1 DEF ReadyBegin, AdvisoryLockFree
      <3>2. NextRow(b) => batch[b].status = "NONE"
        BY DEF NextRow
      <3>. QED BY <1>3, <3>1, <3>2 DEF ReadyBegin, BatchingIsSerial, tables
    <2>. QED BY <1>3, <2>1, <1>k, <1>f DEF ReadyBegin, tables
  <1>4. ASSUME NEW r \in readying, ReadyCommit(r)
        PROVE  Consistent'
    <2>1. BatchingIsSerial'
      BY <1>4 DEF ReadyCommit, BatchingIsSerial
    <2>2. Moves
      BY <1>4 DEF ReadyCommit, BatchingIsSerial, Readying, BatchRow
    <2>. QED BY <1>4, <2>1, <2>2, <1>f DEF ReadyCommit
  <1>5. ASSUME NEW r \in readying, ReadyAbort(r)
        PROVE  Consistent'
    <2>1. BatchingIsSerial'
      BY <1>5 DEF ReadyAbort, BatchingIsSerial
    <2>. QED BY <1>5, <2>1, <1>k, <1>f DEF ReadyAbort
  <1>6. ASSUME NEW t \in post, Schedule(t) \/ Enqueue(t) \/ LoseTask(t)
        PROVE  Consistent'
    BY <1>6, <1>k, <1>s, <1>f DEF Schedule, Enqueue, LoseTask, orderingVars
  <1>7. ASSUME NEW t \in post, CloseFull(t)
        PROVE  Consistent'
    <2>1. t.batch \in Batches
      BY <1>7 DEF CloseFull, Task
    <2>. QED BY <1>7, <2>1, <1>c, <1>s, <1>f DEF CloseFull, orderingVars
  <1>8. ASSUME NEW b \in Batches, CloseExpired(b) \/ TestBatch(b)
        PROVE  Consistent'
    BY <1>8, <1>c, <1>s, <1>f DEF CloseExpired, TestBatch, orderingVars
  <1>9. ASSUME NEW b \in timers, TimeoutFires(b)
        PROVE  Consistent'
    BY <1>9, <1>c, <1>s, <1>f DEF TimeoutFires
  <1>10. ASSUME NEW b \in Batches, Tick(b)
         PROVE  Consistent'
    <2>1. Moves /\ \A c \in Batches : batch'[c].status = batch[c].status
      BY <1>10 DEF Tick, BatchRow
    <2>. QED BY <1>10, <2>1, <1>s, <1>f DEF Tick, orderingVars
  <1>11. ASSUME NEW b \in timers, LoseTimer(b)
         PROVE  Consistent'
    BY <1>11, <1>k, <1>s, <1>f DEF LoseTimer
  <1>. QED
    BY <1>0, <1>1, <1>2, <1>3, <1>4, <1>5, <1>6, <1>7, <1>8, <1>9, <1>10, <1>11 DEF OrderingNext

LEMMA ClaimsAssignment ==
  ASSUME TypeOK, Consistent, AssignmentStep
  PROVE  Consistent'
  <1>. USE DEF TypeOK, TablesTypeOK, AssignmentTypeOK, Consistent
  <1>0. AssignmentNext /\ StopLocks /\ UNCHANGED <<readying, stopTx, sweep>>
    BY DEF AssignmentStep, orderingVars
  <1>k. ASSUME UNCHANGED <<batch, job, deliverer>>
        PROVE  Consistent'
    BY <1>0, <1>k DEF Claims, ActiveJobIsHeld, HeldJobIsActive, BatchFollowsJob,
                      SnapshotsHold, DropOffsHoldTheirJob, BatchingIsSerial
  <1>1. ASSUME NEW t \in queue, WorkerTakes(t) \/ LoseTicket(t)
        PROVE  Consistent'
    BY <1>1, <1>k DEF WorkerTakes, LoseTicket
  <1>2. ASSUME NEW s \in Sweeps, SweepLoads(s)
        PROVE  Consistent'
    BY <1>2, <1>k DEF SweepLoads, tables
  <1>3. ASSUME NEW p \in Callers, NEW d \in Deliverers, Pick(p, d)
        PROVE  Consistent'
    BY <1>3, <1>k DEF Pick, tables
  <1>4. ASSUME NEW p \in Callers, NobodyAvailable(p) \/ ClaimConflict(p) \/ CallFails(p)
        PROVE  Consistent'
    BY <1>4, <1>k DEF NobodyAvailable, ClaimConflict, CallFails
  <1>5. ASSUME NEW p \in Callers, Claim(p)
        PROVE  Consistent'
    <2>. DEFINE b == asg[p].batch
                d == asg[p].deliverer
    <2>0. asg[p].pc = "claim" /\ asg[p] \in Call
      BY <1>5 DEF Claim
    <2>1. b \in Batches /\ d \in Deliverers
      BY <2>0 DEF Call, NoCall, Searching, Claiming
    <2>2. /\ Stuck(b) /\ Idle(d)
          /\ job' = [job EXCEPT ![b] = [status |-> "ASSIGNED", deliverer |-> d,
                                        stops |-> asg[p].orders, done |-> {}]]
          /\ batch' = [batch EXCEPT ![b].deliverer = d]
          /\ deliverer' = [deliverer EXCEPT ![d].available = FALSE, ![d].activeJob = b]
      BY <1>5 DEF Claim, CanClaim
    <2>. HIDE DEF b, d
    <2>3. job[b].status \notin Held \cup {"COMPLETED"}
      BY <2>1, <2>2, HeldJob, TablesAssumption DEF Claims, BatchFollowsJob, Stuck
    <2>4. /\ job'[b].status = "ASSIGNED" /\ job'[b].deliverer = d
          /\ batch'[b].status = "IN_PROGRESS" /\ batch'[b].deliverer = d
          /\ deliverer'[d].activeJob = b /\ deliverer'[d].exists
          /\ \A c \in Batches \ {b} : job'[c] = job[c] /\ batch'[c] = batch[c]
          /\ \A e \in Deliverers \ {d} : deliverer'[e] = deliverer[e]
      BY <2>1, <2>2 DEF Stuck, Idle, BatchRow, DelivererRow
    <2>5. /\ \A c \in Batches : job[c].status \in Held => c # b /\ job[c].deliverer # d
          /\ \A e \in Deliverers : deliverer[e].activeJob # b
      <3>1. deliverer[d].activeJob = None
        BY <2>2 DEF Idle
      <3>2. \A c \in Batches : job[c].status \in Held => job[c].deliverer # d
        BY <3>1, HeldJob, TablesAssumption
      <3>. QED BY <2>1, <2>3, <3>2 DEF Claims, ActiveJobIsHeld
    <2>6. ActiveJobIsHeld'
      BY <2>1, <2>4, <2>5, TablesAssumption DEF Claims, ActiveJobIsHeld, Held
    <2>7. HeldJobIsActive'
      BY <2>1, <2>4, <2>5 DEF Claims, HeldJobIsActive
    <2>8. BatchFollowsJob'
      BY <2>1, <2>4 DEF Claims, BatchFollowsJob, Held
    <2>9. SnapshotsHold'
      <3>1. \A s \in Sweeps : \A t \in sweep[s].todo : t.status = "ASSIGNED" => t.job # b
        BY <2>3 DEF SnapshotsHold
      <3>2. \A s \in Sweeps : \A t \in sweep[s].todo : t.job \in Batches
        BY DEF RecoveryTypeOK, SweepState, Snapshot
      <3>. QED BY <1>0, <2>4, <3>1, <3>2 DEF SnapshotsHold
    <2>10. DropOffsHoldTheirJob'
      BY <1>0, <2>3, <2>4 DEF DropOffsHoldTheirJob, JobTypeOK, StopTx, Held
    <2>11. BatchingIsSerial'
      <3>1. \A r \in readying : r.batch \in Batches
        BY DEF OrderingTypeOK, Readying
      <3>2. \A c \in Batches : batch'[c].status = batch[c].status
        BY <2>1, <2>2 DEF BatchRow
      <3>. QED BY <1>0, <3>1, <3>2 DEF BatchingIsSerial
    <2>. QED BY <2>6, <2>7, <2>8, <2>9, <2>10, <2>11 DEF Claims
  <1>. QED
    BY <1>0, <1>1, <1>2, <1>3, <1>4, <1>5 DEF AssignmentNext

LEMMA ClaimsJob ==
  ASSUME TypeOK, Consistent, JobStep
  PROVE  Consistent'
  <1>. USE DEF TypeOK, TablesTypeOK, JobTypeOK, Consistent
  <1>0. JobNext /\ UNCHANGED <<readying, sweep>>
    BY DEF JobStep, orderingVars
  <1>r. /\ \A r \in readying : r.batch \in Batches
        /\ \A s \in Sweeps : \A t \in sweep[s].todo : t.job \in Batches
        /\ \A t \in stopTx : t.job \in Batches
    BY DEF OrderingTypeOK, Readying, RecoveryTypeOK, SweepState, Snapshot, StopTx
  <1>1. ASSUME NEW b \in Batches, NEW d \in Deliverers, StartJob(b, d)
        PROVE  Consistent'
    <2>1. /\ job[b].status = "ASSIGNED"
          /\ job'[b].status = "IN_PROGRESS"
          /\ \A c \in Batches : job'[c].deliverer = job[c].deliverer
          /\ \A c \in Batches \ {b} : job'[c].status = job[c].status
          /\ UNCHANGED <<batch, deliverer, stopTx>>
      BY <1>1 DEF StartJob, Startable, JobRow
    <2>2. Claims'
      BY <2>1 DEF Claims, ActiveJobIsHeld, HeldJobIsActive, BatchFollowsJob, Held
    <2>3. SnapshotsHold'
      BY <1>0, <1>r, <2>1 DEF SnapshotsHold, Held
    <2>4. DropOffsHoldTheirJob'
      BY <1>r, <2>1 DEF DropOffsHoldTheirJob
    <2>. QED BY <1>0, <2>1, <2>2, <2>3, <2>4 DEF BatchingIsSerial
  <1>2. ASSUME NEW b \in Batches, NEW d \in Deliverers, NEW o \in Orders,
               BeginDropOff(b, d, o)
        PROVE  Consistent'
    <2>1. /\ UNCHANGED <<job, batch, deliverer>>
          /\ job[b].status = "IN_PROGRESS"
          /\ \A t \in stopTx : t.job # b
          /\ stopTx' = stopTx \cup {[job |-> b, order |-> o, last |-> LastDropOff(b, o)]}
      BY <1>2 DEF BeginDropOff, JobLockFree, tables
    <2>2. DropOffsHoldTheirJob'
      BY <2>1 DEF DropOffsHoldTheirJob
    <2>. QED BY <1>0, <2>1, <2>2 DEF Claims, ActiveJobIsHeld, HeldJobIsActive,
                                     BatchFollowsJob, SnapshotsHold, BatchingIsSerial
  <1>3. ASSUME NEW t \in stopTx, CommitDropOff(t)
        PROVE  Consistent'
    <2>. DEFINE b == t.job
                d == job[b].deliverer
    <2>1. b \in Batches /\ job[b].status = "IN_PROGRESS"
      BY <1>r DEF DropOffsHoldTheirJob
    <2>2. /\ d \in Deliverers /\ deliverer[d].activeJob = b
          /\ batch[b].deliverer = d /\ batch[b].status = "IN_PROGRESS"
      BY <2>1, HeldJob DEF Held
    <2>3. /\ \A c \in Batches : job'[c].deliverer = job[c].deliverer
          /\ \A c \in Batches \ {b} : job'[c].status = job[c].status
          /\ job'[b].status = IF t.last THEN "COMPLETED" ELSE "IN_PROGRESS"
          /\ stopTx' = stopTx \ {t}
      BY <1>3, <2>1 DEF CommitDropOff, JobRow
    <2>4. DropOffsHoldTheirJob'
      BY <1>r, <2>3 DEF DropOffsHoldTheirJob
    <2>5. SnapshotsHold'
      BY <1>0, <1>r, <2>1, <2>3 DEF SnapshotsHold, Held
    <2>6. CASE t.last
      <3>1. /\ job'[b].status = "COMPLETED"
            /\ batch'[b].status = "COMPLETED"
            /\ \A c \in Batches : batch'[c].deliverer = batch[c].deliverer
            /\ \A c \in Batches \ {b} : batch'[c].status = batch[c].status
        BY <1>3, <2>1, <2>3, <2>6 DEF CommitDropOff, BatchRow
      <3>2. /\ deliverer'[d].activeJob = None
            /\ \A e \in Deliverers \ {d} : deliverer'[e] = deliverer[e]
        BY <1>3, <2>2, <2>6 DEF CommitDropOff, FreeDeliverer, DelivererRow
      <3>. HIDE DEF b, d
      <3>3. \A c \in Batches : job[c].status \in Held /\ c # b => job[c].deliverer # d
        BY <2>2, HeldJob
      <3>4. ActiveJobIsHeld'
        BY <2>1, <2>2, <2>3, <3>1, <3>2, TablesAssumption DEF Claims, ActiveJobIsHeld
      <3>5. HeldJobIsActive'
        BY <2>1, <2>3, <3>1, <3>2, <3>3 DEF Claims, HeldJobIsActive, Held
      <3>6. BatchFollowsJob'
        BY <2>1, <2>3, <3>1 DEF Claims, BatchFollowsJob
      <3>7. BatchingIsSerial'
        BY <1>0, <1>r, <2>1, <2>2, <3>1 DEF BatchingIsSerial
      <3>. QED BY <2>4, <2>5, <3>4, <3>5, <3>6, <3>7 DEF Claims
    <2>7. CASE ~ t.last
      <3>1. UNCHANGED <<batch, deliverer>>
        BY <1>3, <2>7 DEF CommitDropOff
      <3>2. \A c \in Batches : job'[c].status = job[c].status
        BY <2>1, <2>3, <2>7
      <3>3. Claims'
        BY <2>3, <3>1, <3>2 DEF Claims, ActiveJobIsHeld, HeldJobIsActive, BatchFollowsJob
      <3>. QED BY <1>0, <2>4, <2>5, <3>1, <3>3 DEF BatchingIsSerial
    <2>. QED BY <2>6, <2>7
  <1>4. ASSUME NEW t \in stopTx, AbortDropOff(t)
        PROVE  Consistent'
    BY <1>0, <1>4 DEF AbortDropOff, Claims, ActiveJobIsHeld, HeldJobIsActive, BatchFollowsJob,
                      SnapshotsHold, DropOffsHoldTheirJob, BatchingIsSerial
  <1>5. ASSUME NEW t \in post, Requeue(t)
        PROVE  Consistent'
    BY <1>0, <1>5 DEF Requeue, Claims, ActiveJobIsHeld, HeldJobIsActive, BatchFollowsJob,
                      SnapshotsHold, DropOffsHoldTheirJob, BatchingIsSerial
  <1>. QED
    BY <1>0, <1>1, <1>2, <1>3, <1>4, <1>5 DEF JobNext

LEMMA ClaimsRecovery ==
  ASSUME OneSweep, TypeOK, Consistent, RecoveryStep
  PROVE  Consistent'
  <1>. USE DEF TypeOK, TablesTypeOK, RecoveryTypeOK, Consistent
  <1>0. RecoveryNext /\ UNCHANGED <<readying, stopTx>>
    BY DEF RecoveryStep, orderingVars
  <1>r. /\ \A r \in readying : r.batch \in Batches
        /\ \A s \in Sweeps : \A t \in sweep[s].todo : t \in Snapshot
        /\ \A t \in stopTx : t.job \in Batches
    BY DEF OrderingTypeOK, Readying, SweepState, JobTypeOK, StopTx
  <1>k. ASSUME UNCHANGED <<batch, job, deliverer>>, SnapshotsHold'
        PROVE  Consistent'
    BY <1>0, <1>k DEF Claims, ActiveJobIsHeld, HeldJobIsActive, BatchFollowsJob,
                      DropOffsHoldTheirJob, BatchingIsSerial
  <1>h. ASSUME NEW s \in Sweeps, NEW t, Handled(s, t)
        PROVE  \A z \in Sweeps : sweep'[z].todo \subseteq sweep[z].todo
    BY <1>h DEF Handled, SweepState
  <1>1. ASSUME NEW s \in Sweeps, SweepReads(s)
        PROVE  Consistent'
    <2>1. /\ UNCHANGED <<batch, job, deliverer>>
          /\ sweep' = [sweep EXCEPT ![s] =
                 [running |-> TRUE,
                  todo |-> {SnapshotOf(d) : d \in {d \in Deliverers : Stale(d)}}]]
      BY <1>1 DEF SweepReads, tables
    <2>2. \A z \in Sweeps : sweep'[z].todo = {SnapshotOf(d) : d \in {d \in Deliverers : Stale(d)}}
      BY <2>1 DEF OneSweep
    <2>3. ASSUME NEW d \in Deliverers, Stale(d)
          PROVE  /\ SnapshotOf(d).deliverer = d
                 /\ SnapshotOf(d).job \in Batches
                 /\ SnapshotOf(d).status = job[SnapshotOf(d).job].status
                 /\ job[SnapshotOf(d).job].status \in Held
                 /\ job[SnapshotOf(d).job].deliverer = d
      <3>1. deliverer[d].activeJob \in Batches
        BY <2>3 DEF Stale, DelivererRow
      <3>. QED BY <3>1 DEF SnapshotOf, Claims, ActiveJobIsHeld
    <2>4. SnapshotsHold'
      BY <2>1, <2>2, <2>3 DEF SnapshotsHold
    <2>. QED BY <2>1, <2>4, <1>k
  <1>2. ASSUME NEW s \in Sweeps, NEW t \in sweep[s].todo, Recover(s, t)
        PROVE  Consistent'
    <2>. DEFINE b == t.job
                d == t.deliverer
    <2>1. b \in Batches /\ d \in Deliverers /\ t.status = "ASSIGNED"
      BY <1>2, <1>r DEF Recover, Recoverable, Snapshot
    <2>2. /\ job[b].status = "ASSIGNED" /\ job[b].deliverer = d
          /\ deliverer[d].activeJob = b
          /\ batch[b].status = "IN_PROGRESS"
      BY <1>2, <2>1, HeldJob DEF Recover, Recoverable, SnapshotsHold, Held
    <2>3. /\ deliverer' = [deliverer EXCEPT ![d].available = TRUE, ![d].activeJob = None]
          /\ job' = [job EXCEPT ![b].status = "PENDING", ![b].deliverer = None]
          /\ batch' = [batch EXCEPT ![b].deliverer = None, ![b].status = "IN_PROGRESS"]
      BY <1>2 DEF Recover, FreedByRecovery
    <2>4. \A u \in sweep'[s].todo : u \in sweep[s].todo /\ u.job # b
      BY <1>2 DEF Recover, Handled, SnapshotsHold, SweepState
    <2>. HIDE DEF b, d
    <2>5. /\ job'[b].status = "PENDING"
          /\ batch'[b].deliverer = None /\ batch'[b].status = "IN_PROGRESS"
          /\ deliverer'[d].activeJob = None
          /\ \A c \in Batches \ {b} : job'[c] = job[c] /\ batch'[c] = batch[c]
          /\ \A e \in Deliverers \ {d} : deliverer'[e] = deliverer[e]
      BY <2>1, <2>3 DEF JobRow, BatchRow, DelivererRow
    <2>6. \A c \in Batches : job[c].status \in Held /\ c # b => job[c].deliverer # d
      BY <2>2, HeldJob
    <2>7. ActiveJobIsHeld'
      <3>1. SUFFICES ASSUME NEW e \in Deliverers, NEW c \in Batches, deliverer'[e].activeJob = c
                     PROVE  job'[c].status \in Held /\ job'[c].deliverer = e
        BY DEF ActiveJobIsHeld
      <3>2. e # d /\ deliverer'[e] = deliverer[e]
        BY <2>1, <2>5, <3>1, TablesAssumption
      <3>3. job[c].status \in Held /\ job[c].deliverer = e
        BY <3>1, <3>2 DEF Claims, ActiveJobIsHeld
      <3>4. c # b
        BY <2>2, <3>2, <3>3
      <3>. QED BY <2>5, <3>3, <3>4
    <2>8. HeldJobIsActive'
      BY <2>1, <2>5, <2>6 DEF Claims, HeldJobIsActive, Held
    <2>9. BatchFollowsJob'
      BY <2>1, <2>5 DEF Claims, BatchFollowsJob
    <2>10. SnapshotsHold'
      <3>1. \A z \in Sweeps : z = s
        BY DEF OneSweep
      <3>. QED BY <1>r, <2>4, <2>5, <3>1 DEF SnapshotsHold, Snapshot
    <2>11. DropOffsHoldTheirJob'
      BY <1>0, <1>r, <2>2, <2>5 DEF DropOffsHoldTheirJob
    <2>12. BatchingIsSerial'
      <3>1. \A c \in Batches : batch'[c].status = batch[c].status
        BY <2>1, <2>2, <2>5
      <3>. QED BY <1>0, <1>r, <3>1 DEF BatchingIsSerial
    <2>. QED BY <2>7, <2>8, <2>9, <2>10, <2>11, <2>12 DEF Claims
  <1>3. ASSUME NEW s \in Sweeps, NEW t \in sweep[s].todo, Escalate(s, t) \/ SkipSnapshot(s, t)
        PROVE  Consistent'
    <2>1. UNCHANGED <<batch, job, deliverer>> /\ Handled(s, t)
      BY <1>3 DEF Escalate, SkipSnapshot, tables
    <2>2. SnapshotsHold'
      BY <1>h, <2>1 DEF SnapshotsHold
    <2>. QED BY <2>1, <2>2, <1>k
  <1>4. ASSUME NEW s \in Sweeps, SweepRequeues(s) \/ SweepDies(s)
        PROVE  Consistent'
    <2>1. /\ UNCHANGED <<batch, job, deliverer>>
          /\ \A z \in Sweeps : sweep'[z].todo \subseteq sweep[z].todo
      BY <1>4 DEF SweepRequeues, SweepDies, SweepState
    <2>2. SnapshotsHold'
      BY <2>1 DEF SnapshotsHold
    <2>. QED BY <2>1, <2>2, <1>k
  <1>. QED
    BY <1>0, <1>1, <1>2, <1>3, <1>4 DEF RecoveryNext

LEMMA ClaimsPresence ==
  ASSUME KeepsBusy, TypeOK, Consistent, PresenceStep
  PROVE  Consistent'
  <1>. USE DEF TypeOK, TablesTypeOK, Consistent
  <1>0. PresenceNext /\ UNCHANGED <<readying, stopTx, sweep>>
    BY DEF PresenceStep, orderingVars
  <1>r. /\ \A r \in readying : r.batch \in Batches
        /\ \A s \in Sweeps : \A t \in sweep[s].todo : t.job \in Batches
        /\ \A t \in stopTx : t.job \in Batches
    BY DEF OrderingTypeOK, Readying, RecoveryTypeOK, SweepState, Snapshot, JobTypeOK, StopTx
  <1>k. ASSUME UNCHANGED <<batch, job>>,
               \A d \in Deliverers : /\ deliverer'[d].activeJob = deliverer[d].activeJob
                                     /\ deliverer'[d].exists = deliverer[d].exists
        PROVE  Consistent'
    BY <1>0, <1>k DEF Claims, ActiveJobIsHeld, HeldJobIsActive, BatchFollowsJob,
                      SnapshotsHold, DropOffsHoldTheirJob, BatchingIsSerial
  <1>1. ASSUME NEW d \in Deliverers,
               Connect(d) \/ Disconnect(d) \/ Heartbeat(d) \/ Silence(d)
        PROVE  Consistent'
    BY <1>1, <1>k DEF Connect, Disconnect, Heartbeat, Seen, Silence
  <1>2. ASSUME NEW d \in Deliverers, NEW v \in BOOLEAN, SetAvailability(d, v)
        PROVE  Consistent'
    <2>1. \A e \in Deliverers : /\ deliverer'[e].activeJob = deliverer[e].activeJob
                                /\ deliverer'[e].exists = deliverer[e].exists
      BY <1>2 DEF SetAvailability, DelivererRow
    <2>. QED BY <1>2, <2>1, <1>k DEF SetAvailability
  <1>3. ASSUME NEW d \in Deliverers, RemoveDeliverer(d)
        PROVE  Consistent'
    <2>1. deliverer[d].activeJob = None
      BY <1>3 DEF RemoveDeliverer, KeepsBusy
    <2>2. \A b \in Batches : job[b].status \in Held =>
              job[b].deliverer # d /\ batch[b].deliverer # d
      BY <2>1, HeldJob, TablesAssumption
    <2>3. /\ deliverer'[d].activeJob = None
          /\ \A e \in Deliverers \ {d} : deliverer'[e] = deliverer[e]
      BY <1>3 DEF RemoveDeliverer
    <2>4. \A b \in Batches :
             /\ job'[b].status = job[b].status
             /\ batch'[b].status = batch[b].status
             /\ job[b].status \in Held => job'[b] = job[b] /\ batch'[b] = batch[b]
             /\ batch'[b].deliverer \in {batch[b].deliverer, None}
      BY <1>3, <2>2 DEF RemoveDeliverer, BatchRow, JobRow
    <2>5. ActiveJobIsHeld'
      <3>1. SUFFICES ASSUME NEW e \in Deliverers, NEW c \in Batches, deliverer'[e].activeJob = c
                     PROVE  job'[c].status \in Held /\ job'[c].deliverer = e
        BY DEF ActiveJobIsHeld
      <3>2. e # d /\ deliverer'[e] = deliverer[e]
        BY <2>3, <3>1, TablesAssumption
      <3>3. job[c].status \in Held /\ job[c].deliverer = e
        BY <3>1, <3>2 DEF Claims, ActiveJobIsHeld
      <3>. QED BY <2>4, <3>3
    <2>6. HeldJobIsActive'
      BY <2>2, <2>3, <2>4 DEF Claims, HeldJobIsActive
    <2>7. BatchFollowsJob'
      BY <2>4 DEF Claims, BatchFollowsJob
    <2>8. (SnapshotsHold /\ DropOffsHoldTheirJob /\ BatchingIsSerial)'
      BY <1>0, <1>r, <2>4 DEF SnapshotsHold, DropOffsHoldTheirJob, BatchingIsSerial, Held
    <2>. QED BY <2>5, <2>6, <2>7, <2>8 DEF Claims
  <1>. QED
    BY <1>0, <1>1, <1>2, <1>3 DEF PresenceNext

LEMMA ClaimsNext ==
  ASSUME OneSweep, KeepsBusy
  PROVE  IInv /\ [Next]_vars => IInv'
  <1>. SUFFICES ASSUME IInv, [Next]_vars PROVE IInv'
    OBVIOUS
  <1>1. TypeOK /\ Consistent
    BY DEF IInv, Consistent
  <1>2. TypeOK'
    BY <1>1, TypeNext
  <1>3. Consistent'
    <2>1. CASE OrderingStep   BY <1>1, <2>1, ClaimsOrdering
    <2>2. CASE AssignmentStep BY <1>1, <2>2, ClaimsAssignment
    <2>3. CASE JobStep        BY <1>1, <2>3, ClaimsJob
    <2>4. CASE RecoveryStep   BY <1>1, <2>4, ClaimsRecovery
    <2>5. CASE PresenceStep   BY <1>1, <2>5, ClaimsPresence
    <2>6. CASE UNCHANGED vars
      BY <1>1, <2>6 DEF vars, tables, orderingVars, Consistent, Claims, ActiveJobIsHeld,
           HeldJobIsActive, BatchFollowsJob, SnapshotsHold, DropOffsHoldTheirJob,
           BatchingIsSerial
    <2>. QED BY <2>1, <2>2, <2>3, <2>4, <2>5, <2>6 DEF Next
  <1>. QED BY <1>2, <1>3 DEF IInv, Consistent

(* The inductive invariant: the claims, the snapshots of the recovery sweep *)
(* that its writes trust, and the locks of the open transactions.           *)
THEOREM IInvCorrect ==
  ASSUME OneSweep, KeepsBusy
  PROVE  Spec \/ DispatchSpec => []IInv
  <1>1. Init \/ DispatchInit => IInv
    BY TypeInit, TypeDispatchInit, ClaimsInit DEF IInv, Consistent
  <1>2. IInv /\ [Next]_vars => IInv'
    BY ClaimsNext
  <1>. QED BY <1>1, <1>2, PTL DEF Spec, DispatchSpec

(* The order, job, batch and deliverer tables never disagree on who holds   *)
(* what, with any number of orders, deliverers and batches, and whatever is *)
(* lost (assignDelivererToBatch, startJob, completeDropOff,                 *)
(* recoverUnstartedJob).                                                    *)
THEOREM ClaimsCorrect ==
  ASSUME OneSweep, KeepsBusy
  PROVE  Spec \/ DispatchSpec => []Claims
  <1>1. IInv => Claims
    BY DEF IInv
  <1>. QED BY <1>1, IInvCorrect, PTL

(* No deliverer's activeJobId blocks the claim of a closed batch that has   *)
(* no deliverer: what requeueStuckBatches and afterJobCompleted put back in *)
(* the queue can be assigned. With two sweeps at once it fails.             *)
THEOREM StuckBatchesAreClaimable ==
  ASSUME OneSweep, KeepsBusy
  PROVE  Spec \/ DispatchSpec => []StuckBatchIsClaimable
  <1>1. Claims => StuckBatchIsClaimable
    <2>1. SUFFICES ASSUME Claims, NEW b \in Batches, NEW d \in Deliverers,
                          Stuck(b), deliverer[d].activeJob = b
                   PROVE  FALSE
      BY DEF StuckBatchIsClaimable
    <2>2. job[b].status \in Held
      BY <2>1 DEF Claims, ActiveJobIsHeld
    <2>. QED BY <2>1, <2>2, HeldJob, TablesAssumption DEF Stuck
  <1>. QED BY <1>1, ClaimsCorrect, PTL

(* The only steps that write the job table.                                 *)
LEMMA JobWriters ==
  ASSUME [Next]_vars
  PROVE  \/ UNCHANGED job
         \/ AssignmentStep /\ \E p \in Callers : Claim(p)
         \/ \E b \in Batches, d \in Deliverers : StartJob(b, d)
         \/ \E t \in stopTx : CommitDropOff(t)
         \/ \E s \in Sweeps : \E t \in sweep[s].todo : Recover(s, t)
         \/ \E d \in Deliverers : RemoveDeliverer(d)
  <1>1. CASE OrderingStep
    BY <1>1 DEF OrderingStep, OrderingNext, DecisionRead, DecisionWrite, ReadyBegin,
         ReadyCommit, ReadyAbort, Schedule, CloseFull, Enqueue, TimeoutFires, CloseExpired,
         TestBatch, Tick, LoseTask, LoseTimer, tables
  <1>2. CASE AssignmentStep
    <2>1. ASSUME NEW p \in Callers,
                 (\E d \in Deliverers : Pick(p, d)) \/ NobodyAvailable(p)
                    \/ ClaimConflict(p) \/ CallFails(p)
          PROVE  UNCHANGED job
      BY <2>1 DEF Pick, NobodyAvailable, ClaimConflict, CallFails, tables
    <2>2. ASSUME NEW t, NEW s, WorkerTakes(t) \/ LoseTicket(t) \/ SweepLoads(s)
          PROVE  UNCHANGED job
      BY <2>2 DEF WorkerTakes, LoseTicket, SweepLoads, tables
    <2>. QED BY <1>2, <2>1, <2>2 DEF AssignmentStep, AssignmentNext
  <1>3. CASE JobStep
    <2>1. ASSUME NEW b \in Batches, NEW d \in Deliverers, NEW o \in Orders, BeginDropOff(b, d, o)
          PROVE  UNCHANGED job
      BY <2>1 DEF BeginDropOff, tables
    <2>2. ASSUME NEW t, AbortDropOff(t) \/ Requeue(t)
          PROVE  UNCHANGED job
      BY <2>2 DEF AbortDropOff, Requeue
    <2>. QED BY <1>3, <2>1, <2>2 DEF JobStep, JobNext
  <1>4. CASE RecoveryStep
    <2>1. ASSUME NEW s \in Sweeps, NEW t, Escalate(s, t) \/ SkipSnapshot(s, t)
          PROVE  UNCHANGED job
      BY <2>1 DEF Escalate, SkipSnapshot, tables
    <2>2. ASSUME NEW s \in Sweeps, SweepReads(s) \/ SweepRequeues(s) \/ SweepDies(s)
          PROVE  UNCHANGED job
      BY <2>2 DEF SweepReads, SweepRequeues, SweepDies, tables
    <2>. QED BY <1>4, <2>1, <2>2 DEF RecoveryStep, RecoveryNext
  <1>5. CASE PresenceStep
    <2>1. ASSUME NEW d \in Deliverers,
                 Connect(d) \/ Disconnect(d) \/ Heartbeat(d) \/ Silence(d)
                    \/ \E v \in BOOLEAN : SetAvailability(d, v)
          PROVE  UNCHANGED job
      BY <2>1 DEF Connect, Disconnect, Heartbeat, Silence, Seen, SetAvailability
    <2>. QED BY <1>5, <2>1 DEF PresenceStep, PresenceNext
  <1>6. CASE UNCHANGED vars
    BY <1>6 DEF vars, tables
  <1>. QED BY <1>1, <1>2, <1>3, <1>4, <1>5, <1>6 DEF Next

(* What each of them does to the one job that it writes.                    *)
LEMMA ClaimWrites ==
  ASSUME IInv, NEW p \in Callers, Claim(p)
  PROVE  \E b \in Batches, d \in Deliverers :
            /\ job[b].status \notin Held \cup {"COMPLETED"}
            /\ job'[b].status = "ASSIGNED" /\ job'[b].deliverer = d
            /\ \A c \in Batches : job[c].status \in Held => job[c].deliverer # d
            /\ \A c \in Batches \ {b} : job'[c] = job[c]
  <1>. USE DEF IInv, TypeOK, TablesTypeOK, AssignmentTypeOK
  <1>. DEFINE b == asg[p].batch
              d == asg[p].deliverer
  <1>1. asg[p].pc = "claim" /\ asg[p] \in Call
    BY DEF Claim
  <1>2. b \in Batches /\ d \in Deliverers
    BY <1>1 DEF Call, NoCall, Searching, Claiming
  <1>3. /\ Stuck(b) /\ Idle(d)
        /\ job' = [job EXCEPT ![b] = [status |-> "ASSIGNED", deliverer |-> d,
                                      stops |-> asg[p].orders, done |-> {}]]
    BY DEF Claim, CanClaim
  <1>. HIDE DEF b, d
  <1>4. job[b].status \notin Held \cup {"COMPLETED"}
    BY <1>2, <1>3, HeldJob, TablesAssumption DEF Claims, BatchFollowsJob, Stuck
  <1>5. \A c \in Batches : job[c].status \in Held => job[c].deliverer # d
    BY <1>3, HeldJob, TablesAssumption DEF Idle
  <1>. QED BY <1>2, <1>3, <1>4, <1>5

LEMMA StartWrites ==
  ASSUME TypeOK, NEW b \in Batches, NEW d \in Deliverers, StartJob(b, d)
  PROVE  /\ job[b].status = "ASSIGNED" /\ job'[b].status = "IN_PROGRESS"
         /\ job'[b].deliverer = job[b].deliverer
         /\ \A c \in Batches \ {b} : job'[c] = job[c]
  BY DEF TypeOK, TablesTypeOK, StartJob, Startable, JobRow

LEMMA CommitWrites ==
  ASSUME IInv, NEW t \in stopTx, CommitDropOff(t)
  PROVE  /\ t.job \in Batches /\ job[t.job].status = "IN_PROGRESS"
         /\ job'[t.job].status = IF t.last THEN "COMPLETED" ELSE "IN_PROGRESS"
         /\ job'[t.job].deliverer = job[t.job].deliverer
         /\ \A c \in Batches \ {t.job} : job'[c] = job[c]
  <1>1. t.job \in Batches /\ job[t.job].status = "IN_PROGRESS"
    BY DEF IInv, TypeOK, JobTypeOK, StopTx, DropOffsHoldTheirJob
  <1>. QED BY <1>1 DEF IInv, TypeOK, TablesTypeOK, CommitDropOff, JobRow

LEMMA RecoverWrites ==
  ASSUME TypeOK, NEW s \in Sweeps, NEW t \in sweep[s].todo, Recover(s, t)
  PROVE  /\ t.job \in Batches /\ job[t.job].status = "ASSIGNED"
         /\ job'[t.job].status = "PENDING"
         /\ \A c \in Batches \ {t.job} : job'[c] = job[c]
  <1>1. t.job \in Batches
    BY DEF TypeOK, RecoveryTypeOK, SweepState, Snapshot
  <1>. QED BY <1>1 DEF TypeOK, TablesTypeOK, Recover, Recoverable, JobRow

LEMMA RemovalWrites ==
  ASSUME KeepsBusy, IInv, NEW d \in Deliverers, RemoveDeliverer(d)
  PROVE  \A c \in Batches : /\ job'[c].status = job[c].status
                            /\ job[c].status \in Held => job'[c] = job[c]
  <1>1. \A c \in Batches : job[c].status \in Held => job[c].deliverer # d
    BY HeldJob, TablesAssumption DEF IInv, KeepsBusy, RemoveDeliverer
  <1>. QED BY <1>1 DEF IInv, TypeOK, TablesTypeOK, RemoveDeliverer, JobRow

LEMMA StartedStaysNext ==
  ASSUME KeepsBusy, IInv, [Next]_vars, NEW b \in Batches, job[b].status = "IN_PROGRESS"
  PROVE  /\ job'[b].status \in {"IN_PROGRESS", "COMPLETED"}
         /\ job'[b].deliverer \in {job[b].deliverer, None}
  <1>. USE DEF Held
  <1>1. ASSUME NEW p \in Callers, Claim(p) PROVE job'[b] = job[b]
    BY <1>1, ClaimWrites
  <1>2. ASSUME NEW c \in Batches, NEW d \in Deliverers, StartJob(c, d) PROVE job'[b] = job[b]
    BY <1>2, StartWrites DEF IInv
  <1>3. ASSUME NEW t \in stopTx, CommitDropOff(t)
        PROVE  /\ job'[b].status \in {"IN_PROGRESS", "COMPLETED"}
               /\ job'[b].deliverer = job[b].deliverer
    BY <1>3, CommitWrites
  <1>4. ASSUME NEW s \in Sweeps, NEW t \in sweep[s].todo, Recover(s, t) PROVE job'[b] = job[b]
    BY <1>4, RecoverWrites DEF IInv
  <1>5. ASSUME NEW d \in Deliverers, RemoveDeliverer(d) PROVE job'[b] = job[b]
    BY <1>5, RemovalWrites
  <1>. QED BY <1>1, <1>2, <1>3, <1>4, <1>5, JobWriters

(* A started job stays with its deliverer until it is completed: neither a  *)
(* second claim nor the recovery sweep can take it (startJob,               *)
(* recoverUnstartedJob). Removing the deliverer can (run removal).          *)
THEOREM StartedStays ==
  ASSUME OneSweep, KeepsBusy
  PROVE  Spec \/ DispatchSpec => StartedNeverReassigned
  <1>1. IInv /\ [Next]_vars =>
           [\A b \in Batches : job[b].status = "IN_PROGRESS" =>
               /\ job'[b].status \in {"IN_PROGRESS", "COMPLETED"}
               /\ job'[b].deliverer \in {job[b].deliverer, None}]_vars
    BY StartedStaysNext
  <1>. QED BY <1>1, IInvCorrect, PTL DEF Spec, DispatchSpec, StartedNeverReassigned

-----------------------------------------------------------------------------
(* Fulfilment implements CourierClaim: the job table, read as claims.       *)

LEMMA ClaimInit == Init \/ DispatchInit => Abstract!Init
  BY DEF Init, DispatchInit, TablesInit, NoJob, claim, Abstract!Init, Abstract!Free

(* A step that writes one job changes one claim.                            *)
LEMMA OneClaimChanges ==
  ASSUME NEW b \in Batches, \A c \in Batches \ {b} : job'[c] = job[c],
         NEW v, claim'[b] = v
  PROVE  claim' = [claim EXCEPT ![b] = v]
  <1>1. \A c \in Batches \ {b} : claim'[c] = claim[c]
    BY DEF claim
  <1>2. claim = [c \in Batches |-> claim[c]]
    BY Zenon DEF claim
  <1>3. claim' = [c \in Batches |-> claim'[c]]
    BY Zenon DEF claim
  <1>. QED BY <1>1, <1>2, <1>3

LEMMA ClaimNext ==
  ASSUME KeepsBusy, IInv, [Next]_vars
  PROVE  [Abstract!Next]_claim
  <1>. USE DEF IInv, Held
  <1>1. ASSUME NEW p \in Callers, Claim(p) PROVE Abstract!Next
    <2>1. PICK b \in Batches, d \in Deliverers :
            /\ job[b].status \notin Held \cup {"COMPLETED"}
            /\ job'[b].status = "ASSIGNED" /\ job'[b].deliverer = d
            /\ \A c \in Batches : job[c].status \in Held => job[c].deliverer # d
            /\ \A c \in Batches \ {b} : job'[c] = job[c]
      BY <1>1, ClaimWrites
    <2>2. claim[b].state = "free"
      BY <2>1 DEF claim
    <2>3. \A x \in Batches : claim[x].by # d
      BY <2>1, TablesAssumption DEF claim
    <2>4. claim'[b] = [state |-> "claimed", by |-> d]
      BY <2>1 DEF claim
    <2>5. claim' = [claim EXCEPT ![b] = [state |-> "claimed", by |-> d]]
      BY <2>1, <2>4, OneClaimChanges
    <2>. QED BY <2>2, <2>3, <2>5 DEF Abstract!Next, Abstract!Claim
  <1>2. ASSUME NEW b \in Batches, NEW d \in Deliverers, StartJob(b, d) PROVE Abstract!Next
    <2>1. claim[b] = [state |-> "claimed", by |-> job[b].deliverer]
      BY <1>2, StartWrites DEF claim
    <2>2. claim'[b] = [claim[b] EXCEPT !.state = "started"]
      BY <1>2, <2>1, StartWrites DEF claim
    <2>3. claim' = [claim EXCEPT ![b] = [claim[b] EXCEPT !.state = "started"]]
      BY <1>2, <2>2, StartWrites, OneClaimChanges
    <2>4. claim[b].state = "claimed"
      BY <2>1
    <2>5. Abstract!Start(b)
      BY <2>3, <2>4 DEF Abstract!Start
    <2>. QED BY <2>5 DEF Abstract!Next
  <1>3. ASSUME NEW t \in stopTx, CommitDropOff(t) PROVE Abstract!Next \/ claim' = claim
    <2>1. claim[t.job] = [state |-> "started", by |-> job[t.job].deliverer]
      BY <1>3, CommitWrites DEF claim
    <2>2. CASE t.last
      <3>1. claim'[t.job] = [state |-> "done", by |-> None]
        BY <1>3, <2>2, CommitWrites DEF claim
      <3>2. claim' = [claim EXCEPT ![t.job] = [state |-> "done", by |-> None]]
        BY <1>3, <3>1, CommitWrites, OneClaimChanges
      <3>3. claim[t.job].state = "started"
        BY <2>1
      <3>4. Abstract!Finish(t.job) /\ t.job \in Batches
        BY <1>3, <3>2, <3>3, CommitWrites DEF Abstract!Finish
      <3>. QED BY <3>4 DEF Abstract!Next
    <2>3. CASE ~ t.last
      BY <1>3, <2>3, CommitWrites DEF claim
    <2>. QED BY <2>2, <2>3
  <1>4. ASSUME NEW s \in Sweeps, NEW t \in sweep[s].todo, Recover(s, t) PROVE Abstract!Next
    <2>1. claim[t.job].state = "claimed"
      BY <1>4, RecoverWrites DEF claim
    <2>2. claim'[t.job] = Abstract!Free
      BY <1>4, RecoverWrites DEF claim, Abstract!Free
    <2>3. claim' = [claim EXCEPT ![t.job] = Abstract!Free]
      BY <1>4, <2>2, RecoverWrites, OneClaimChanges
    <2>. QED BY <1>4, <2>1, <2>3, RecoverWrites DEF Abstract!Next, Abstract!Release
  <1>5. ASSUME NEW d \in Deliverers, RemoveDeliverer(d) PROVE claim' = claim
    BY <1>5, RemovalWrites DEF claim
  <1>6. ASSUME UNCHANGED job PROVE claim' = claim
    BY <1>6 DEF claim
  <1>. QED BY <1>1, <1>2, <1>3, <1>4, <1>5, <1>6, JobWriters

(* Whatever is lost and whoever disappears, dispatch keeps its abstract     *)
(* promise: one courier per batch, one batch per courier, released only     *)
(* before the start, finished once by whoever started it.                   *)
THEOREM DispatchImplementsCourierClaim ==
  ASSUME OneSweep, KeepsBusy
  PROVE  Spec \/ DispatchSpec => ClaimsAreExclusive
  <1>1. IInv /\ [Next]_vars => [Abstract!Next]_claim
    BY ClaimNext
  <1>. QED BY <1>1, ClaimInit, IInvCorrect, PTL
           DEF Spec, DispatchSpec, ClaimsAreExclusive, Abstract!Spec
=============================================================================
