---------------------------- MODULE DeliveryProofs ----------------------------
(***************************************************************************)
(* Proofs about what customers see of Fulfilment: the status of an order    *)
(* agrees with the job that carries it, a started job can finish, and a     *)
(* delivered order stays delivered. Where they need it they assume that no  *)
(* acceptance or rejection is under way (Reviewed = {}): the run            *)
(* decision_race shows what such a request can do.                          *)
(***************************************************************************)
EXTENDS FulfilmentProofs

-----------------------------------------------------------------------------
(* The inductive invariant, which stands on IInv.                           *)

(* A call of assignDelivererToBatch knows orders of its batch.              *)
CallsHoldOrders ==
    \A p \in Callers : asg[p].pc \in {"pick", "claim"} =>
        asg[p].orders # {} /\ \A o \in asg[p].orders : order[o].batch = asg[p].batch

(* So does the job that the call claims.                                    *)
JobsHaveDropOffs ==
    \A b \in Batches : job[b].status \in Held =>
        /\ job[b].stops \ job[b].done # {}
        /\ \A o \in job[b].stops : order[o].batch = b
        /\ job[b].status = "ASSIGNED" => job[b].done = {}

(* What completeDropOff has read under the row lock of the job.             *)
DropOffsAreOpen ==
    \A t \in stopTx :
        /\ t.order \in job[t.job].stops \ job[t.job].done
        /\ t.last <=> job[t.job].stops \ job[t.job].done = {t.order}

DeliveredUnderWay ==
    \A o \in Orders : order[o].status = "COMPLETED" =>
        /\ order[o].batch # None
        /\ job[order[o].batch].status \in {"IN_PROGRESS", "COMPLETED"}

Rows == Settled /\ JobsHaveDropOffs /\ DropOffsAreOpen /\ OrderFollowsJob /\ DeliveredUnderWay

DeliveryIInv == Rows /\ CallsHoldOrders

(* A batched order stays in its batch, a delivered one stays delivered.     *)
Lasting ==
    \A o \in Orders :
        /\ order[o].batch # None => order'[o].batch = order[o].batch
        /\ order[o].status = "COMPLETED" => order'[o].status = "COMPLETED"

LEMMA DeliveryInit == Init \/ DispatchInit => DeliveryIInv
  <1>. SUFFICES ASSUME Init \/ DispatchInit PROVE DeliveryIInv
    OBVIOUS
  <1>1. /\ job = [b \in Batches |-> NoJob]
        /\ \A o \in Orders : /\ order[o].job = None
                             /\ order[o].status # "COMPLETED"
                             /\ order[o].batch # None => order[o].status \notin READYABLE_STATUSES
        /\ stopTx = {} /\ readying = {} /\ decision = {}
        /\ asg = [p \in Callers |-> NoCall]
    BY DEF Init, DispatchInit, TablesInit, LocalInit, OrderingInit, JobInit, AssignmentInit,
           READYABLE_STATUSES
  <1>2. Rows
    BY <1>1, TablesAssumption
       DEF Rows, Settled, JobsHaveDropOffs, DropOffsAreOpen, OrderFollowsJob, DeliveredUnderWay,
           NoJob, Held
  <1>3. CallsHoldOrders
    BY <1>1 DEF CallsHoldOrders, NoCall
  <1>. QED BY <1>2, <1>3 DEF DeliveryIInv

-----------------------------------------------------------------------------
(* Steps that leave the orders and what the invariant says of jobs alone.   *)
Aside ==
    /\ order' = order
    /\ decision' = {}
    /\ readying' \subseteq readying
    /\ stopTx' \subseteq stopTx
    /\ \A b \in Batches : /\ job'[b].status = job[b].status
                          /\ job'[b].stops = job[b].stops
                          /\ job'[b].done = job[b].done

(* All other steps.                                                         *)
LEMMA DeliverySteps ==
  ASSUME Reviewed = {}, TypeOK, decision = {}, [Next]_vars
  PROVE  \/ Aside
         \/ OrderingStep /\ \E o \in Orders, b \in Batches : ReadyBegin(o, b)
         \/ OrderingStep /\ \E r \in readying : ReadyCommit(r)
         \/ AssignmentStep /\ \E p \in Callers : Claim(p)
         \/ JobStep /\ \E b \in Batches, d \in Deliverers : StartJob(b, d)
         \/ JobStep /\ \E b \in Batches, d \in Deliverers, o \in Orders : BeginDropOff(b, d, o)
         \/ JobStep /\ \E t \in stopTx : CommitDropOff(t)
         \/ RecoveryStep /\ \E s \in Sweeps : \E t \in sweep[s].todo : Recover(s, t)
  <1>. USE DEF orderingVars, tables
  <1>1. CASE OrderingStep
    <2>1. ~ \E o \in Orders, v \in {"VENDOR_ACCEPTED", "VENDOR_REJECTED"} : DecisionRead(o, v)
      BY DEF DecisionRead
    <2>2. ASSUME NEW r \in readying, ReadyAbort(r) PROVE Aside
      BY <1>1, <2>2 DEF OrderingStep, ReadyAbort, Aside
    <2>3. ASSUME NEW t, Schedule(t) \/ CloseFull(t) \/ Enqueue(t) \/ LoseTask(t) PROVE Aside
      BY <1>1, <2>3 DEF OrderingStep, Schedule, CloseFull, Enqueue, LoseTask, Aside
    <2>4. ASSUME NEW b, \/ TimeoutFires(b) \/ CloseExpired(b) \/ TestBatch(b) \/ Tick(b)
                        \/ LoseTimer(b)
          PROVE  Aside
      BY <1>1, <2>4 DEF OrderingStep, TimeoutFires, CloseExpired, TestBatch, Tick, LoseTimer, Aside
    <2>. QED BY <1>1, <2>1, <2>2, <2>3, <2>4 DEF OrderingStep, OrderingNext
  <1>2. CASE AssignmentStep
    <2>1. ASSUME NEW p \in Callers,
                 (\E d \in Deliverers : Pick(p, d)) \/ NobodyAvailable(p)
                    \/ ClaimConflict(p) \/ CallFails(p)
          PROVE  Aside
      BY <1>2, <2>1 DEF AssignmentStep, Pick, NobodyAvailable, ClaimConflict, CallFails, Aside
    <2>2. ASSUME NEW t, NEW s, WorkerTakes(t) \/ LoseTicket(t) \/ SweepLoads(s)
          PROVE  Aside
      BY <1>2, <2>2 DEF AssignmentStep, WorkerTakes, LoseTicket, SweepLoads, Aside
    <2>. QED BY <1>2, <2>1, <2>2 DEF AssignmentStep, AssignmentNext
  <1>3. CASE JobStep
    <2>1. ASSUME NEW t, AbortDropOff(t) \/ Requeue(t) PROVE Aside
      BY <1>3, <2>1 DEF JobStep, AbortDropOff, Requeue, Aside
    <2>. QED BY <1>3, <2>1 DEF JobStep, JobNext
  <1>4. CASE RecoveryStep
    <2>1. ASSUME NEW s \in Sweeps, NEW t, Escalate(s, t) \/ SkipSnapshot(s, t) PROVE Aside
      BY <1>4, <2>1 DEF RecoveryStep, Escalate, SkipSnapshot, Aside
    <2>2. ASSUME NEW s \in Sweeps, SweepReads(s) \/ SweepRequeues(s) \/ SweepDies(s)
          PROVE  Aside
      BY <1>4, <2>2 DEF RecoveryStep, SweepReads, SweepRequeues, SweepDies, Aside
    <2>. QED BY <1>4, <2>1, <2>2 DEF RecoveryStep, RecoveryNext
  <1>5. CASE PresenceStep
    <2>1. ASSUME NEW d \in Deliverers,
                 Connect(d) \/ Disconnect(d) \/ Heartbeat(d) \/ Silence(d)
                    \/ \E v \in BOOLEAN : SetAvailability(d, v)
          PROVE  Aside
      BY <1>5, <2>1
         DEF PresenceStep, Connect, Disconnect, Heartbeat, Silence, Seen, SetAvailability, Aside
    <2>2. ASSUME NEW d \in Deliverers, RemoveDeliverer(d) PROVE Aside
      BY <1>5, <2>2 DEF PresenceStep, RemoveDeliverer, TypeOK, TablesTypeOK, JobRow, Aside
    <2>. QED BY <1>5, <2>1, <2>2 DEF PresenceStep, PresenceNext
  <1>6. CASE UNCHANGED vars
    BY <1>6 DEF vars, Aside
  <1>. QED BY <1>1, <1>2, <1>3, <1>4, <1>5, <1>6 DEF Next

(* A call loads the orders of its batch, and keeps what it has loaded.      *)
LEMMA CallsLoadOrders ==
  ASSUME TypeOK, [Next]_vars, NEW p \in Callers, asg'[p].pc \in {"pick", "claim"}
  PROVE  \/ /\ asg[p].pc \in {"pick", "claim"}
            /\ asg'[p].orders = asg[p].orders
            /\ asg'[p].batch = asg[p].batch
         \/ /\ asg'[p].orders = OrdersOf(asg'[p].batch)
            /\ asg'[p].orders # {}
            /\ asg'[p].batch \in Batches
  <1>. DEFINE Kept == /\ asg[p].pc \in {"pick", "claim"}
                      /\ asg'[p].orders = asg[p].orders
                      /\ asg'[p].batch = asg[p].batch
              Fresh == /\ asg'[p].orders = OrdersOf(asg'[p].batch)
                       /\ asg'[p].orders # {}
                       /\ asg'[p].batch \in Batches
  <1>. USE DEF tables
  <1>0. CASE UNCHANGED asg
    BY <1>0
  <1>t. ASSUME asg \in [Callers -> Call]
        PROVE  \A q \in Callers : [asg EXCEPT ![q] = NoCall][p].pc \in {"pick", "claim"}
                  => [asg EXCEPT ![q] = NoCall][p] = asg[p]
    BY <1>t DEF NoCall
  <1>l. ASSUME NEW b \in Batches, NEW left, Loaded(b, left).pc \in {"pick", "claim"}
        PROVE  Loaded(b, left).orders = OrdersOf(b) /\ Loaded(b, left).orders # {}
                  /\ Loaded(b, left).batch = b
    BY <1>l DEF Loaded, NoCall
  <1>y. asg \in [Callers -> Call]
    BY DEF TypeOK, AssignmentTypeOK
  <1>1. CASE AssignmentStep
    <2>1. ASSUME NEW t \in queue, WorkerTakes(t) PROVE Kept \/ Fresh
      <3>1. t.batch \in Batches
        BY DEF TypeOK, TablesTypeOK, Ticket
      <3>2. asg' = [asg EXCEPT ![Worker] = Loaded(t.batch, t.left)]
        BY <2>1 DEF WorkerTakes
      <3>. QED BY <1>y, <1>l, <3>1, <3>2
    <2>2. ASSUME NEW s \in Sweeps, SweepLoads(s) PROVE Kept \/ Fresh
      <3>1. s \in Callers /\ asg[s].pc = "load" /\ asg[s] \in Call
        BY <2>2, <1>y DEF SweepLoads, Callers
      <3>2. asg[s].batch \in Batches
        BY <3>1 DEF Call, NoCall, Searching, Claiming
      <3>3. asg' = [asg EXCEPT ![s] = Loaded(asg[s].batch, 0)]
        BY <2>2 DEF SweepLoads
      <3>. QED BY <1>y, <1>l, <3>2, <3>3
    <2>3. ASSUME NEW q \in Callers, NEW d \in Deliverers, Pick(q, d) PROVE Kept
      <3>1. asg[q].pc = "pick" /\ asg' = [asg EXCEPT ![q].pc = "claim", ![q].deliverer = d]
        BY <2>3 DEF Pick
      <3>2. asg[q] \in Searching
        BY <1>y, <3>1 DEF Call, NoCall, Claiming
      <3>3. CASE p = q
        BY <1>y, <3>1, <3>2, <3>3 DEF Searching
      <3>4. CASE p # q
        BY <1>y, <3>1, <3>4
      <3>. QED BY <3>3, <3>4
    <2>4. ASSUME NEW q \in Callers,
                 NobodyAvailable(q) \/ Claim(q) \/ ClaimConflict(q) \/ CallFails(q)
          PROVE  Kept
      <3>1. asg' = [asg EXCEPT ![q] = NoCall]
        BY <2>4 DEF NobodyAvailable, Claim, ClaimConflict, CallFails, Throw
      <3>. QED BY <1>t, <1>y, <3>1
    <2>5. ASSUME NEW t, LoseTicket(t) PROVE Kept
      BY <2>5 DEF LoseTicket
    <2>. QED BY <1>1, <2>1, <2>2, <2>3, <2>4, <2>5 DEF AssignmentStep, AssignmentNext
  <1>2. CASE RecoveryStep
    <2>1. ASSUME NEW s \in Sweeps, NEW t, Recover(s, t) PROVE Kept
      <3>1. asg' = [asg EXCEPT ![s] = [NoCall EXCEPT !.pc = "load", !.batch = t.job]]
        BY <2>1 DEF Recover
      <3>. QED BY <1>y, <3>1 DEF NoCall
    <2>2. ASSUME NEW s \in Sweeps, SweepDies(s) PROVE Kept
      <3>1. asg' = [asg EXCEPT ![s] = NoCall]
        BY <2>2 DEF SweepDies
      <3>. QED BY <1>y, <3>1 DEF NoCall
    <2>3. ASSUME NEW s \in Sweeps, NEW t, Escalate(s, t) \/ SkipSnapshot(s, t) PROVE Kept
      BY <2>3 DEF Escalate, SkipSnapshot
    <2>4. ASSUME NEW s \in Sweeps, SweepReads(s) \/ SweepRequeues(s) PROVE Kept
      BY <2>4 DEF SweepReads, SweepRequeues
    <2>. QED BY <1>2, <2>1, <2>2, <2>3, <2>4 DEF RecoveryStep, RecoveryNext
  <1>3. CASE OrderingStep \/ JobStep \/ PresenceStep \/ UNCHANGED vars
    BY <1>0, <1>3 DEF OrderingStep, JobStep, PresenceStep, vars
  <1>. QED BY <1>1, <1>2, <1>3 DEF Next

-----------------------------------------------------------------------------
(* One lemma per step that is not Aside.                                    *)

LEMMA RowsAside ==
  ASSUME IInv, Rows, Aside
  PROVE  Rows' /\ Lasting
  <1>. USE DEF Aside, Rows
  <1>1. Settled'
    BY DEF Settled
  <1>2. JobsHaveDropOffs'
    BY DEF JobsHaveDropOffs
  <1>3. DropOffsAreOpen'
    <2>1. \A t \in stopTx : t.job \in Batches
      BY DEF IInv, TypeOK, JobTypeOK, StopTx
    <2>. QED BY <2>1 DEF DropOffsAreOpen
  <1>4. OrderFollowsJob'
    BY DEF OrderFollowsJob
  <1>5. DeliveredUnderWay'
    <2>1. \A o \in Orders : order[o].batch # None => order[o].batch \in Batches
      BY DEF IInv, TypeOK, TablesTypeOK, OrderRow
    <2>. QED BY <2>1 DEF DeliveredUnderWay
  <1>6. Lasting
    BY DEF Lasting
  <1>. QED BY <1>1, <1>2, <1>3, <1>4, <1>5, <1>6

LEMMA RowsReadyBegin ==
  ASSUME IInv, Rows, OrderingStep, NEW o \in Orders, NEW b \in Batches, ReadyBegin(o, b)
  PROVE  Rows' /\ Lasting
  <1>. USE DEF Rows
  <1>1. UNCHANGED <<order, job, stopTx, decision>>
    BY DEF OrderingStep, ReadyBegin, tables
  <1>2. \A r \in readying' : r \in readying \/ r.order = o
    BY DEF ReadyBegin
  <1>3. order[o].batch = None
    BY DEF ReadyBegin, Settled
  <1>4. Settled'
    BY <1>1, <1>2, <1>3 DEF Settled
  <1>5. (JobsHaveDropOffs /\ DropOffsAreOpen /\ OrderFollowsJob /\ DeliveredUnderWay)'
    BY <1>1 DEF JobsHaveDropOffs, DropOffsAreOpen, OrderFollowsJob, DeliveredUnderWay
  <1>. QED BY <1>1, <1>4, <1>5 DEF Lasting

LEMMA RowsReadyCommit ==
  ASSUME IInv, Rows, OrderingStep, NEW r \in readying, ReadyCommit(r)
  PROVE  Rows' /\ Lasting
  <1>. USE DEF Rows
  <1>. DEFINE o == r.order
  <1>1. o \in Orders /\ order \in [Orders -> OrderRow] /\ \A q \in readying : q = r
    BY DEF IInv, TypeOK, TablesTypeOK, OrderingTypeOK, Readying, BatchingIsSerial
  <1>2. UNCHANGED <<job, stopTx, decision>> /\ readying' = {}
    BY <1>1 DEF OrderingStep, ReadyCommit
  <1>3. order[o].batch = None /\ order[o].status # "COMPLETED"
    BY <1>1 DEF Settled, DeliveredUnderWay
  <1>4. /\ order'[o].status = "READY_FOR_DELIVERY"
        /\ order'[o].job = order[o].job
        /\ \A q \in Orders \ {o} : order'[q] = order[q]
    BY <1>1 DEF ReadyCommit, OrderRow
  <1>. HIDE DEF o
  <1>5. Settled'
    BY <1>1, <1>2, <1>4 DEF Settled, READYABLE_STATUSES
  <1>6. JobsHaveDropOffs'
    BY <1>1, <1>2, <1>3, <1>4, TablesAssumption DEF JobsHaveDropOffs, IInv, TypeOK, TablesTypeOK, JobRow
  <1>7. DropOffsAreOpen'
    BY <1>2 DEF DropOffsAreOpen
  <1>8. OrderFollowsJob'
    BY <1>1, <1>2, <1>3, <1>4, TablesAssumption DEF OrderFollowsJob
  <1>9. DeliveredUnderWay'
    BY <1>1, <1>2, <1>4 DEF DeliveredUnderWay
  <1>. QED BY <1>1, <1>3, <1>4, <1>5, <1>6, <1>7, <1>8, <1>9 DEF Lasting

(* The other steps touch batched orders alone, and leave their batch.       *)
LEMMA RowsSettled ==
  ASSUME Settled, UNCHANGED <<readying, decision>>,
         \A o \in Orders : /\ order'[o].batch = order[o].batch
                           /\ order'[o].status \in READYABLE_STATUSES
                                 => order'[o].status = order[o].status
         ,
         \A r \in readying : r.order \in Orders
  PROVE  Settled'
  BY DEF Settled

LEMMA RowsClaim ==
  ASSUME IInv, Rows, CallsHoldOrders, AssignmentStep, NEW p \in Callers, Claim(p)
  PROVE  Rows' /\ Lasting
  <1>. USE DEF Rows
  <1>. DEFINE b == asg[p].batch
              d == asg[p].deliverer
  <1>0. /\ job \in [Batches -> JobRow] /\ order \in [Orders -> OrderRow]
        /\ \A r \in readying : r.order \in Orders
        /\ \A t \in stopTx : t.job \in Batches
    BY DEF IInv, TypeOK, TablesTypeOK, OrderingTypeOK, Readying, JobTypeOK, StopTx
  <1>1. asg[p].pc = "claim" /\ b \in Batches /\ asg[p].orders \subseteq Orders
    <2>1. asg[p].pc = "claim" /\ asg[p] \in Call
      BY DEF Claim, IInv, TypeOK, AssignmentTypeOK
    <2>. QED BY <2>1 DEF Call, NoCall, Searching, Claiming
  <1>2. UNCHANGED <<readying, decision, stopTx>> /\ StopLocks
    BY DEF AssignmentStep, orderingVars
  <1>3. job[b].status \notin Held \cup {"COMPLETED"}
    BY <1>1, HeldJob, TablesAssumption DEF Claim, CanClaim, IInv, Claims, BatchFollowsJob, Stuck
  <1>4. /\ job'[b].status = "ASSIGNED" /\ job'[b].done = {} /\ job'[b].stops = asg[p].orders
        /\ \A c \in Batches \ {b} : job'[c] = job[c]
    BY <1>0, <1>1 DEF Claim
  <1>5. \A o \in Orders :
           /\ order'[o].batch = order[o].batch
           /\ order[o].batch = b => order'[o].status = "WAITING_FOR_DELIVERER" /\ order'[o].job = b
           /\ order[o].batch # b => order'[o] = order[o]
    BY <1>0 DEF Claim, OrderRow
  <1>6. asg[p].orders # {} /\ \A o \in asg[p].orders : order[o].batch = b
    BY <1>1 DEF CallsHoldOrders
  <1>7. \A t \in stopTx : t.job # b
    BY <1>3 DEF IInv, DropOffsHoldTheirJob, Held
  <1>8. \A o \in Orders : order[o].status = "COMPLETED" => order[o].batch # b
    BY <1>3 DEF DeliveredUnderWay, Held
  <1>. HIDE DEF b, d
  <1>9. Settled'
    BY <1>0, <1>2, <1>5, RowsSettled DEF READYABLE_STATUSES
  <1>10. JobsHaveDropOffs'
    <2>1. SUFFICES ASSUME NEW c \in Batches, job'[c].status \in Held
                   PROVE  /\ job'[c].stops \ job'[c].done # {}
                          /\ \A o \in job'[c].stops : order'[o].batch = c
                          /\ job'[c].status = "ASSIGNED" => job'[c].done = {}
      BY DEF JobsHaveDropOffs
    <2>2. CASE c = b
      BY <1>1, <1>4, <1>5, <1>6, <2>2
    <2>3. CASE c # b
      <3>1. job[c].stops \subseteq Orders
        BY <1>0 DEF JobRow
      <3>. QED BY <1>4, <1>5, <2>1, <2>3, <3>1 DEF JobsHaveDropOffs
    <2>. QED BY <2>2, <2>3
  <1>11. DropOffsAreOpen'
    BY <1>0, <1>2, <1>4, <1>7 DEF DropOffsAreOpen
  <1>12. OrderFollowsJob'
    BY <1>1, <1>4, <1>5 DEF OrderFollowsJob
  <1>13. DeliveredUnderWay'
    <2>1. \A o \in Orders : order[o].batch # None => order[o].batch \in Batches
      BY <1>0 DEF OrderRow
    <2>. QED BY <1>4, <1>5, <2>1 DEF DeliveredUnderWay
  <1>. QED BY <1>5, <1>8, <1>9, <1>10, <1>11, <1>12, <1>13 DEF Lasting

LEMMA RowsStart ==
  ASSUME IInv, Rows, JobStep, NEW b \in Batches, NEW d \in Deliverers, StartJob(b, d)
  PROVE  Rows' /\ Lasting
  <1>. USE DEF Rows
  <1>0. /\ job \in [Batches -> JobRow] /\ order \in [Orders -> OrderRow]
        /\ \A r \in readying : r.order \in Orders
        /\ \A t \in stopTx : t.job \in Batches
    BY DEF IInv, TypeOK, TablesTypeOK, OrderingTypeOK, Readying, JobTypeOK, StopTx
  <1>1. UNCHANGED <<readying, decision, stopTx>>
    BY DEF JobStep, orderingVars, StartJob
  <1>2. /\ job[b].status = "ASSIGNED" /\ job'[b].status = "IN_PROGRESS"
        /\ job'[b].stops = job[b].stops /\ job'[b].done = job[b].done
        /\ \A c \in Batches \ {b} : job'[c] = job[c]
    BY <1>0 DEF StartJob, Startable, JobRow
  <1>3. \A o \in Orders :
           /\ order'[o].batch = order[o].batch /\ order'[o].job = order[o].job
           /\ order[o].job = b => order'[o].status = "IN_PROGRESS"
           /\ order[o].job # b => order'[o] = order[o]
    BY <1>0 DEF StartJob, OrderRow
  <1>4. \A t \in stopTx : t.job # b
    BY <1>2 DEF IInv, DropOffsHoldTheirJob
  <1>5. job[b].done = {}
    BY <1>2 DEF JobsHaveDropOffs, Held
  <1>6. Settled'
    BY <1>0, <1>1, <1>3, RowsSettled DEF READYABLE_STATUSES
  <1>7. JobsHaveDropOffs'
    <2>1. \A c \in Batches : job[c].stops \subseteq Orders
      BY <1>0 DEF JobRow
    <2>. QED BY <1>2, <1>3, <2>1 DEF JobsHaveDropOffs, Held
  <1>8. DropOffsAreOpen'
    BY <1>0, <1>1, <1>2, <1>4 DEF DropOffsAreOpen
  <1>9. OrderFollowsJob'
    BY <1>2, <1>3, <1>5 DEF OrderFollowsJob
  <1>10. DeliveredUnderWay'
    <2>1. \A o \in Orders : order[o].batch # None => order[o].batch \in Batches
      BY <1>0 DEF OrderRow
    <2>. QED BY <1>2, <1>3, <2>1 DEF DeliveredUnderWay
  <1>11. \A o \in Orders : order[o].status = "COMPLETED" => order[o].job # b
    BY <1>2 DEF OrderFollowsJob
  <1>. QED BY <1>3, <1>6, <1>7, <1>8, <1>9, <1>10, <1>11 DEF Lasting

LEMMA RowsBeginDropOff ==
  ASSUME IInv, Rows, JobStep, NEW b \in Batches, NEW d \in Deliverers, NEW o \in Orders,
         BeginDropOff(b, d, o)
  PROVE  Rows' /\ Lasting
  <1>. USE DEF Rows
  <1>1. UNCHANGED <<order, job, readying, decision>>
    BY DEF JobStep, orderingVars, BeginDropOff, tables
  <1>2. DropOffsAreOpen'
    <2>1. PICK last \in BOOLEAN : last = LastDropOff(b, o)
      BY DEF LastDropOff
    <2>2. stopTx' = stopTx \cup {[job |-> b, order |-> o, last |-> last]}
      BY <2>1 DEF BeginDropOff
    <2>3. o \in job[b].stops \ job[b].done
      BY DEF BeginDropOff
    <2>4. last <=> job[b].stops \ job[b].done = {o}
      BY <2>1 DEF LastDropOff
    <2>. QED BY <1>1, <2>2, <2>3, <2>4 DEF DropOffsAreOpen
  <1>3. (Settled /\ JobsHaveDropOffs /\ OrderFollowsJob /\ DeliveredUnderWay)'
    BY <1>1 DEF Settled, JobsHaveDropOffs, OrderFollowsJob, DeliveredUnderWay
  <1>. QED BY <1>1, <1>2, <1>3 DEF Lasting

(* What a commit of completeDropOff writes.                                 *)
LEMMA DropOffWrites ==
  ASSUME IInv, Rows, NEW t \in stopTx, CommitDropOff(t)
  PROVE  /\ t.job \in Batches /\ t.order \in Orders
         /\ job'[t.job].stops = job[t.job].stops
         /\ job'[t.job].done = job[t.job].done \cup {t.order}
         /\ t.order \in job[t.job].stops \ job[t.job].done
         /\ order[t.order].batch = t.job
         /\ \A o \in Orders :
               /\ order'[o].batch = order[o].batch /\ order'[o].job = order[o].job
               /\ IF o = t.order \/ (t.last /\ order[o].job = t.job)
                    THEN order'[o].status = "COMPLETED"
                    ELSE order'[o] = order[o]
  <1>1. t.job \in Batches /\ t.order \in Orders /\ job[t.job].status = "IN_PROGRESS"
    BY DEF IInv, TypeOK, JobTypeOK, StopTx, DropOffsHoldTheirJob
  <1>2. job \in [Batches -> JobRow] /\ order \in [Orders -> OrderRow]
    BY DEF IInv, TypeOK, TablesTypeOK
  <1>3. t.order \in job[t.job].stops \ job[t.job].done
    BY DEF Rows, DropOffsAreOpen
  <1>4. order[t.order].batch = t.job
    BY <1>1, <1>3 DEF Rows, JobsHaveDropOffs, Held
  <1>5. job[t.job] \in JobRow
    BY <1>1, <1>2
  <1>6. /\ job'[t.job].stops = job[t.job].stops
        /\ job'[t.job].done = job[t.job].done \cup {t.order}
    BY <1>1, <1>2, <1>5 DEF CommitDropOff, JobRow
  <1>7. order' = [o \in Orders |->
                    IF o = t.order \/ (t.last /\ order[o].job = t.job)
                      THEN [order[o] EXCEPT !.status = "COMPLETED"] ELSE order[o]]
    BY DEF CommitDropOff
  <1>8. \A o \in Orders :
           /\ order'[o].batch = order[o].batch /\ order'[o].job = order[o].job
           /\ IF o = t.order \/ (t.last /\ order[o].job = t.job)
                THEN order'[o].status = "COMPLETED"
                ELSE order'[o] = order[o]
    BY <1>2, <1>7 DEF OrderRow
  <1>. QED BY <1>1, <1>3, <1>4, <1>6, <1>8

LEMMA RowsCommitDropOff ==
  ASSUME IInv, Rows, JobStep, NEW t \in stopTx, CommitDropOff(t)
  PROVE  Rows' /\ Lasting
  <1>. USE DEF Rows
  <1>. DEFINE b == t.job
  <1>0. /\ job \in [Batches -> JobRow] /\ order \in [Orders -> OrderRow]
        /\ \A r \in readying : r.order \in Orders
        /\ \A u \in stopTx : u.job \in Batches
    BY DEF IInv, TypeOK, TablesTypeOK, OrderingTypeOK, Readying, JobTypeOK, StopTx
  <1>1. UNCHANGED <<readying, decision>> /\ stopTx' = stopTx \ {t}
    BY DEF JobStep, orderingVars, CommitDropOff
  <1>2. /\ b \in Batches /\ job[b].status = "IN_PROGRESS"
        /\ job'[b].status = IF t.last THEN "COMPLETED" ELSE "IN_PROGRESS"
        /\ \A c \in Batches \ {b} : job'[c] = job[c]
    BY CommitWrites
  <1>3. /\ t.order \in Orders
        /\ job'[b].stops = job[b].stops
        /\ job'[b].done = job[b].done \cup {t.order}
        /\ t.order \in job[b].stops \ job[b].done
        /\ order[t.order].batch = b
        /\ \A o \in Orders :
              /\ order'[o].batch = order[o].batch /\ order'[o].job = order[o].job
              /\ IF o = t.order \/ (t.last /\ order[o].job = b)
                   THEN order'[o].status = "COMPLETED"
                   ELSE order'[o] = order[o]
    BY DropOffWrites
  <1>4. t.last <=> job[b].stops \ job[b].done = {t.order}
    BY DEF DropOffsAreOpen
  <1>5. \A u \in stopTx \ {t} : u.job # b
    BY DEF IInv, DropOffsHoldTheirJob
  <1>. HIDE DEF b
  <1>6. Settled'
    BY <1>0, <1>1, <1>3, RowsSettled DEF READYABLE_STATUSES
  <1>7. JobsHaveDropOffs'
    <2>1. SUFFICES ASSUME NEW c \in Batches, job'[c].status \in Held
                   PROVE  /\ job'[c].stops \ job'[c].done # {}
                          /\ \A o \in job'[c].stops : order'[o].batch = c
                          /\ job'[c].status = "ASSIGNED" => job'[c].done = {}
      BY DEF JobsHaveDropOffs
    <2>2. job[c].stops \subseteq Orders
      BY <1>0 DEF JobRow
    <2>3. CASE c = b
      <3>1. ~ t.last /\ job'[c].status = "IN_PROGRESS"
        BY <1>2, <2>1, <2>3 DEF Held
      <3>2. job'[c].stops \ job'[c].done # {}
        BY <1>3, <1>4, <2>3, <3>1
      <3>3. \A o \in job'[c].stops : order'[o].batch = c
        BY <1>2, <1>3, <2>2, <2>3 DEF JobsHaveDropOffs, Held
      <3>. QED BY <3>1, <3>2, <3>3
    <2>4. CASE c # b
      BY <1>2, <1>3, <2>1, <2>2, <2>4 DEF JobsHaveDropOffs
    <2>. QED BY <2>3, <2>4
  <1>8. DropOffsAreOpen'
    BY <1>0, <1>1, <1>2, <1>5 DEF DropOffsAreOpen
  <1>9. OrderFollowsJob'
    <2>1. SUFFICES ASSUME NEW o \in Orders, NEW c \in Batches, order'[o].job = c
                   PROVE  /\ order'[o].batch = c
                          /\ job'[c].status # "PENDING"
                          /\ job'[c].status = "ASSIGNED" =>
                                order'[o].status = "WAITING_FOR_DELIVERER"
                          /\ job'[c].status = "IN_PROGRESS" =>
                                order'[o].status = IF o \in job'[c].done THEN "COMPLETED"
                                                                         ELSE "IN_PROGRESS"
                          /\ job'[c].status = "COMPLETED" => order'[o].status = "COMPLETED"
      BY DEF OrderFollowsJob
    <2>2. order[o].job = c /\ order[o].batch = c /\ order'[o].batch = c
      BY <1>3, <2>1 DEF OrderFollowsJob
    <2>3. CASE c = b
      <3>1. order[o].status = IF o \in job[b].done THEN "COMPLETED" ELSE "IN_PROGRESS"
        BY <1>2, <2>2, <2>3 DEF OrderFollowsJob
      <3>2. CASE t.last
        BY <1>2, <1>3, <2>2, <2>3, <3>2
      <3>3. CASE ~ t.last
        BY <1>2, <1>3, <2>2, <2>3, <3>1, <3>3
      <3>. QED BY <3>2, <3>3
    <2>4. CASE c # b
      <3>1. o # t.order /\ order[o].job # b
        BY <1>3, <2>2, <2>4
      <3>2. order'[o] = order[o] /\ job'[c] = job[c]
        BY <1>2, <1>3, <2>4, <3>1
      <3>. QED BY <2>2, <3>2 DEF OrderFollowsJob
    <2>. QED BY <2>3, <2>4
  <1>10. DeliveredUnderWay'
    <2>1. SUFFICES ASSUME NEW o \in Orders, order'[o].status = "COMPLETED"
                   PROVE  /\ order'[o].batch # None
                          /\ job'[order'[o].batch].status \in {"IN_PROGRESS", "COMPLETED"}
      BY DEF DeliveredUnderWay
    <2>2. CASE o = t.order \/ order[o].job = b
      <3>1. order'[o].batch = b
        BY <1>2, <1>3, <2>2 DEF OrderFollowsJob
      <3>. QED BY <1>2, <3>1, TablesAssumption
    <2>3. CASE ~ (o = t.order \/ order[o].job = b)
      <3>1. order'[o] = order[o] /\ order[o].batch \in Batches \cup {None}
        BY <1>0, <1>3, <2>3 DEF OrderRow
      <3>2. order[o].batch # None /\ job[order[o].batch].status \in {"IN_PROGRESS", "COMPLETED"}
        BY <2>1, <3>1 DEF DeliveredUnderWay
      <3>. QED BY <1>2, <3>1, <3>2
    <2>. QED BY <2>2, <2>3
  <1>11. \A o \in Orders : order[o].status = "COMPLETED" => order'[o].status = "COMPLETED"
    BY <1>3
  <1>. QED BY <1>3, <1>6, <1>7, <1>8, <1>9, <1>10, <1>11 DEF Lasting

LEMMA RowsRecover ==
  ASSUME IInv, Rows, RecoveryStep, NEW s \in Sweeps, NEW t \in sweep[s].todo, Recover(s, t)
  PROVE  Rows' /\ Lasting
  <1>. USE DEF Rows
  <1>. DEFINE b == t.job
  <1>0. /\ job \in [Batches -> JobRow] /\ order \in [Orders -> OrderRow]
        /\ \A r \in readying : r.order \in Orders
        /\ \A u \in stopTx : u.job \in Batches
    BY DEF IInv, TypeOK, TablesTypeOK, OrderingTypeOK, Readying, JobTypeOK, StopTx
  <1>1. UNCHANGED <<readying, decision, stopTx>>
    BY DEF RecoveryStep, orderingVars
  <1>2. /\ b \in Batches /\ job[b].status = "ASSIGNED" /\ job'[b].status = "PENDING"
        /\ \A c \in Batches \ {b} : job'[c] = job[c]
    BY RecoverWrites DEF IInv
  <1>3. \A o \in Orders :
           /\ order'[o].batch = order[o].batch
           /\ order[o].job = b => /\ order'[o].job = None
                                  /\ order'[o].status = "WAITING_FOR_DELIVERER"
           /\ order[o].job # b => order'[o] = order[o]
    <2>1. order' = Released(b)
      BY DEF Recover
    <2>. QED BY <1>0, <2>1 DEF Released, OrderRow
  <1>4. \A u \in stopTx : u.job # b
    BY <1>2 DEF IInv, DropOffsHoldTheirJob
  <1>. HIDE DEF b
  <1>5. \A o \in Orders : order[o].status = "COMPLETED" => order[o].job # b
    BY <1>2 DEF OrderFollowsJob
  <1>6. Settled'
    BY <1>0, <1>1, <1>3, RowsSettled DEF READYABLE_STATUSES
  <1>7. JobsHaveDropOffs'
    <2>1. \A c \in Batches : job[c].stops \subseteq Orders
      BY <1>0 DEF JobRow
    <2>. QED BY <1>2, <1>3, <2>1 DEF JobsHaveDropOffs, Held
  <1>8. DropOffsAreOpen'
    BY <1>0, <1>1, <1>2, <1>4 DEF DropOffsAreOpen
  <1>9. OrderFollowsJob'
    BY <1>2, <1>3, TablesAssumption DEF OrderFollowsJob
  <1>10. DeliveredUnderWay'
    <2>1. \A o \in Orders : order[o].batch # None => order[o].batch \in Batches
      BY <1>0 DEF OrderRow
    <2>. QED BY <1>2, <1>3, <2>1 DEF DeliveredUnderWay
  <1>. QED BY <1>3, <1>5, <1>6, <1>7, <1>8, <1>9, <1>10 DEF Lasting

-----------------------------------------------------------------------------
LEMMA RowsNext ==
  ASSUME Reviewed = {}, IInv, DeliveryIInv, [Next]_vars
  PROVE  Rows' /\ Lasting
  <1>1. TypeOK /\ decision = {} /\ Rows /\ CallsHoldOrders
    BY DEF IInv, DeliveryIInv, Rows, Settled
  <1>. QED
    BY <1>1, DeliverySteps, RowsAside, RowsReadyBegin, RowsReadyCommit, RowsClaim, RowsStart,
       RowsBeginDropOff, RowsCommitDropOff, RowsRecover

LEMMA DeliveryNext ==
  ASSUME Reviewed = {}, IInv, DeliveryIInv, [Next]_vars
  PROVE  DeliveryIInv' /\ Lasting
  <1>1. Rows' /\ Lasting
    BY RowsNext
  <1>2. TypeOK /\ CallsHoldOrders
    BY DEF IInv, DeliveryIInv
  <1>3. ASSUME NEW p \in Callers, asg'[p].pc \in {"pick", "claim"}
        PROVE  asg'[p].orders # {} /\ \A o \in asg'[p].orders : order'[o].batch = asg'[p].batch
    <2>1. CASE /\ asg[p].pc \in {"pick", "claim"}
               /\ asg'[p].orders = asg[p].orders
               /\ asg'[p].batch = asg[p].batch
      <3>1. asg[p].orders \subseteq Orders /\ asg[p].batch \in Batches
        <4>1. asg[p] \in Call
          BY <1>2 DEF TypeOK, AssignmentTypeOK
        <4>. QED BY <2>1, <4>1 DEF Call, NoCall, Searching, Claiming
      <3>2. asg[p].orders # {} /\ \A o \in asg[p].orders : order[o].batch = asg[p].batch
        BY <1>2, <2>1 DEF CallsHoldOrders
      <3>. QED BY <1>1, <2>1, <3>1, <3>2, TablesAssumption DEF Lasting
    <2>2. CASE /\ asg'[p].orders = OrdersOf(asg'[p].batch)
               /\ asg'[p].orders # {}
               /\ asg'[p].batch \in Batches
      BY <1>1, <2>2, TablesAssumption DEF Lasting, OrdersOf
    <2>. QED BY <1>2, <1>3, <2>1, <2>2, CallsLoadOrders
  <1>4. CallsHoldOrders'
    BY <1>3 DEF CallsHoldOrders
  <1>. QED BY <1>1, <1>4 DEF DeliveryIInv

(* What a call, a job and an open drop-off know of the orders stays true,   *)
(* for any number of them: the inductive invariant of this module.          *)
THEOREM DeliveryIInvCorrect ==
  ASSUME OneSweep, KeepsBusy, Reviewed = {}
  PROVE  Spec \/ DispatchSpec => []DeliveryIInv
  <1>1. IInv /\ DeliveryIInv /\ [Next]_vars => DeliveryIInv'
    BY DeliveryNext
  <1>. QED BY <1>1, DeliveryInit, IInvCorrect, PTL DEF Spec, DispatchSpec

(* Of two concurrent drop-offs one is the last: a started job never runs    *)
(* out of drop-offs without being finished (completeDropOff, finishJob).    *)
THEOREM StartedJobsCanFinish ==
  ASSUME OneSweep, KeepsBusy, Reviewed = {}
  PROVE  Spec \/ DispatchSpec => []StartedJobHasOpenDropOff
  <1>1. DeliveryIInv => StartedJobHasOpenDropOff
    BY DEF DeliveryIInv, Rows, JobsHaveDropOffs, StartedJobHasOpenDropOff, Held
  <1>. QED BY <1>1, DeliveryIInvCorrect, PTL

(* The status a customer sees is that of the job which carries the order    *)
(* (assignDelivererToBatch, startJob, completeDropOff, recoverUnstartedJob). *)
THEOREM OrdersFollowJobs ==
  ASSUME OneSweep, KeepsBusy, Reviewed = {}
  PROVE  Spec \/ DispatchSpec => []OrderFollowsJob
  <1>1. DeliveryIInv => OrderFollowsJob
    BY DEF DeliveryIInv, Rows
  <1>. QED BY <1>1, DeliveryIInvCorrect, PTL

(* No claim, start or recovery takes a delivered order back.                *)
THEOREM DeliveredIsFinal ==
  ASSUME OneSweep, KeepsBusy, Reviewed = {}
  PROVE  Spec \/ DispatchSpec => DeliveredStaysDelivered
  <1>1. IInv /\ DeliveryIInv /\ [Next]_vars =>
           [\A o \in Orders : order[o].status = "COMPLETED" =>
               order'[o].status = "COMPLETED"]_vars
    BY DeliveryNext DEF Lasting
  <1>. QED BY <1>1, IInvCorrect, DeliveryIInvCorrect, PTL
           DEF Spec, DispatchSpec, DeliveredStaysDelivered

-----------------------------------------------------------------------------
(* Dispatch alone, where no order can join a batch late: a job has all the  *)
(* orders of its batch.                                                     *)
NobodyJoins ==
    /\ readying = {}
    /\ \A o \in Orders : order[o].status \notin READYABLE_STATUSES

CallsHoldAll ==
    \A p \in Callers : asg[p].pc \in {"pick", "claim"} => asg[p].orders = OrdersOf(asg[p].batch)

JobsHaveAll == \A b \in Batches : job[b].status \in Held => job[b].stops = OrdersOf(b)

DispatchIInv == NobodyJoins /\ CallsHoldAll /\ JobsHaveAll /\ DeliveredByDropOff

LEMMA DispatchStarts == DispatchInit => DispatchIInv
  <1>. SUFFICES ASSUME DispatchInit PROVE DispatchIInv
    OBVIOUS
  <1>1. NobodyJoins /\ DeliveredByDropOff
    BY DEF DispatchInit, LocalInit, OrderingInit, NobodyJoins, DeliveredByDropOff,
           READYABLE_STATUSES
  <1>2. CallsHoldAll /\ JobsHaveAll
    BY DEF DispatchInit, LocalInit, AssignmentInit, NoCall, NoJob, CallsHoldAll, JobsHaveAll, Held
  <1>. QED BY <1>1, <1>2 DEF DispatchIInv

(* The jobs and the deliveries of a batch change together, and its orders   *)
(* do not change.                                                           *)
Together ==
    /\ \A o \in Orders : order'[o].batch = order[o].batch
    /\ \A o \in Orders : order'[o].status \in READYABLE_STATUSES
                            => order'[o].status = order[o].status
    /\ readying' = {}
    /\ JobsHaveAll'
    /\ DeliveredByDropOff'

LEMMA TogetherNext ==
  ASSUME Reviewed = {}, IInv, DeliveryIInv, DispatchIInv, [Next]_vars
  PROVE  Together
  <1>. USE DEF DispatchIInv, DeliveryIInv, Rows
  <1>0. /\ job \in [Batches -> JobRow] /\ order \in [Orders -> OrderRow] /\ TypeOK
        /\ \A o \in Orders : order[o].batch # None => order[o].batch \in Batches
        /\ decision = {}
    BY DEF IInv, TypeOK, TablesTypeOK, OrderRow, Settled
  <1>f. ASSUME \A o \in Orders : order'[o].batch = order[o].batch,
               NEW b \in Batches,
               \A c \in Batches \ {b} : job'[c] = job[c],
               \A o \in Orders : order[o].batch # b /\ order'[o].status = "COMPLETED"
                                    => order[o].status = "COMPLETED",
               job'[b].status \in Held => job'[b].stops = OrdersOf(b),
               \A o \in OrdersOf(b) : order'[o].status = "COMPLETED" => o \in job'[b].done
        PROVE  JobsHaveAll' /\ DeliveredByDropOff'
    <2>1. \A c : OrdersOf(c)' = OrdersOf(c)
      BY <1>f DEF OrdersOf
    <2>2. JobsHaveAll'
      BY <1>f, <2>1 DEF JobsHaveAll
    <2>3. ASSUME NEW o \in Orders, order'[o].status = "COMPLETED"
          PROVE  order'[o].batch # None /\ o \in job'[order'[o].batch].done
      <3>1. CASE order[o].batch = b
        BY <1>f, <2>3, <3>1, TablesAssumption DEF OrdersOf
      <3>2. CASE order[o].batch # b
        BY <1>f, <1>0, <2>3, <3>2 DEF DeliveredByDropOff
      <3>. QED BY <3>1, <3>2
    <2>. QED BY <2>2, <2>3 DEF DeliveredByDropOff
  <1>1. CASE Aside
    <2>1. \A c : OrdersOf(c)' = OrdersOf(c)
      BY <1>1 DEF Aside, OrdersOf
    <2>2. JobsHaveAll'
      BY <1>1, <2>1 DEF Aside, JobsHaveAll
    <2>3. DeliveredByDropOff'
      BY <1>0, <1>1 DEF Aside, DeliveredByDropOff
    <2>. QED BY <1>1, <2>2, <2>3 DEF Aside, Together, NobodyJoins
  <1>2. ASSUME NEW o \in Orders, NEW b \in Batches, ReadyBegin(o, b) PROVE FALSE
    BY <1>2 DEF ReadyBegin, NobodyJoins
  <1>3. ASSUME NEW r \in readying, ReadyCommit(r) PROVE FALSE
    BY DEF NobodyJoins
  <1>4. ASSUME NEW p \in Callers, AssignmentStep, Claim(p) PROVE Together
    <2>. DEFINE b == asg[p].batch
    <2>1. asg[p].pc = "claim" /\ asg[p] \in Call
      BY <1>0, <1>4 DEF Claim, TypeOK, AssignmentTypeOK
    <2>2. b \in Batches
      BY <2>1 DEF Call, NoCall, Searching, Claiming
    <2>3. /\ job'[b].stops = asg[p].orders
          /\ \A c \in Batches \ {b} : job'[c] = job[c]
      BY <1>0, <1>4, <2>2 DEF Claim
    <2>4. \A o \in Orders :
             /\ order'[o].batch = order[o].batch
             /\ order[o].batch = b => order'[o].status = "WAITING_FOR_DELIVERER"
             /\ order[o].batch # b => order'[o] = order[o]
      BY <1>0, <1>4 DEF Claim, OrderRow
    <2>5. asg[p].orders = OrdersOf(b)
      BY <2>1 DEF CallsHoldAll
    <2>. HIDE DEF b
    <2>6. JobsHaveAll' /\ DeliveredByDropOff'
      BY <1>f, <2>2, <2>3, <2>4, <2>5 DEF OrdersOf
    <2>. QED BY <1>4, <2>4, <2>6
             DEF Together, AssignmentStep, orderingVars, NobodyJoins, READYABLE_STATUSES
  <1>5. ASSUME NEW b \in Batches, NEW d \in Deliverers, JobStep, StartJob(b, d) PROVE Together
    <2>1. /\ job[b].status = "ASSIGNED" /\ job'[b].stops = job[b].stops
          /\ job'[b].done = job[b].done
          /\ \A c \in Batches \ {b} : job'[c] = job[c]
      BY <1>0, <1>5 DEF StartJob, Startable, JobRow
    <2>2. \A o \in Orders :
             /\ order'[o].batch = order[o].batch
             /\ \/ order'[o] = order[o]
                \/ order'[o].status = "IN_PROGRESS"
      BY <1>0, <1>5 DEF StartJob, OrderRow
    <2>3. job[b].stops = OrdersOf(b)
      BY <2>1 DEF JobsHaveAll, Held
    <2>4. JobsHaveAll' /\ DeliveredByDropOff'
      BY <1>f, <2>1, <2>2, <2>3 DEF OrdersOf, DeliveredByDropOff
    <2>. QED BY <1>5, <2>2, <2>4
             DEF Together, JobStep, orderingVars, NobodyJoins, READYABLE_STATUSES
  <1>6. ASSUME NEW b \in Batches, NEW d \in Deliverers, NEW o \in Orders,
               JobStep, BeginDropOff(b, d, o)
        PROVE  Together
    <2>1. UNCHANGED <<order, job, readying>>
      BY <1>6 DEF JobStep, orderingVars, BeginDropOff, tables
    <2>. QED BY <2>1 DEF Together, JobsHaveAll, OrdersOf, DeliveredByDropOff, NobodyJoins
  <1>7. ASSUME NEW t \in stopTx, JobStep, CommitDropOff(t) PROVE Together
    <2>. DEFINE b == t.job
    <2>1. /\ b \in Batches /\ job[b].status = "IN_PROGRESS"
          /\ \A c \in Batches \ {b} : job'[c] = job[c]
      BY <1>7, CommitWrites
    <2>2. /\ job'[b].stops = job[b].stops
          /\ job'[b].done = job[b].done \cup {t.order}
          /\ order[t.order].batch = b
          /\ \A o \in Orders :
                /\ order'[o].batch = order[o].batch
                /\ IF o = t.order \/ (t.last /\ order[o].job = b)
                     THEN order'[o].status = "COMPLETED"
                     ELSE order'[o] = order[o]
      BY <1>7, DropOffWrites
    <2>3. t.last <=> job[b].stops \ job[b].done = {t.order}
      BY DEF DropOffsAreOpen
    <2>. HIDE DEF b
    <2>4. job[b].stops = OrdersOf(b)
      BY <2>1 DEF JobsHaveAll, Held
    <2>5. \A o \in Orders : order[o].job = b => order[o].batch = b
      BY <2>1 DEF OrderFollowsJob
    <2>6. \A o \in OrdersOf(b) : order'[o].status = "COMPLETED" => o \in job'[b].done
      <3>1. SUFFICES ASSUME NEW o \in OrdersOf(b), order'[o].status = "COMPLETED"
                     PROVE  o \in job[b].done \cup {t.order}
        BY <2>2
      <3>2. CASE t.last
        BY <2>3, <2>4, <3>2
      <3>3. CASE ~ t.last
        BY <2>2, <3>1, <3>3 DEF OrdersOf, DeliveredByDropOff
      <3>. QED BY <3>2, <3>3
    <2>7. \A o \in Orders : order[o].batch # b /\ order'[o].status = "COMPLETED"
                               => order[o].status = "COMPLETED"
      BY <2>2, <2>5
    <2>8. JobsHaveAll' /\ DeliveredByDropOff'
      BY <1>f, <2>1, <2>2, <2>4, <2>6, <2>7
    <2>. QED BY <1>7, <2>2, <2>8
             DEF Together, JobStep, orderingVars, NobodyJoins, READYABLE_STATUSES
  <1>8. ASSUME NEW s \in Sweeps, NEW t \in sweep[s].todo, RecoveryStep, Recover(s, t)
        PROVE  Together
    <2>. DEFINE b == t.job
    <2>1. /\ b \in Batches /\ job[b].status = "ASSIGNED" /\ job'[b].status = "PENDING"
          /\ \A c \in Batches \ {b} : job'[c] = job[c]
      BY <1>8, RecoverWrites, <1>0
    <2>2. \A o \in Orders :
             /\ order'[o].batch = order[o].batch
             /\ \/ order'[o] = order[o]
                \/ order'[o].status = "WAITING_FOR_DELIVERER"
      <3>1. order' = Released(b)
        BY <1>8 DEF Recover
      <3>. QED BY <1>0, <3>1 DEF Released, OrderRow
    <2>3. job'[b].done = job[b].done
      BY <1>0, <1>8, <2>1 DEF Recover, JobRow
    <2>. HIDE DEF b
    <2>4. JobsHaveAll' /\ DeliveredByDropOff'
      BY <1>f, <2>1, <2>2, <2>3 DEF OrdersOf, DeliveredByDropOff, Held
    <2>. QED BY <1>8, <2>2, <2>4
             DEF Together, RecoveryStep, orderingVars, NobodyJoins, READYABLE_STATUSES
  <1>. QED
    BY <1>0, <1>1, <1>2, <1>3, <1>4, <1>5, <1>6, <1>7, <1>8, DeliverySteps

LEMMA DispatchNext ==
  ASSUME Reviewed = {}, IInv, DeliveryIInv, DispatchIInv, [Next]_vars
  PROVE  DispatchIInv'
  <1>1. Together
    BY TogetherNext
  <1>2. NobodyJoins'
    BY <1>1 DEF Together, DispatchIInv, NobodyJoins
  <1>3. \A b : OrdersOf(b)' = OrdersOf(b)
    BY <1>1 DEF Together, OrdersOf
  <1>4. ASSUME NEW p \in Callers, asg'[p].pc \in {"pick", "claim"}
        PROVE  asg'[p].orders = OrdersOf(asg'[p].batch)
    <2>1. \/ /\ asg[p].pc \in {"pick", "claim"}
             /\ asg'[p].orders = asg[p].orders
             /\ asg'[p].batch = asg[p].batch
          \/ asg'[p].orders = OrdersOf(asg'[p].batch)
      BY <1>4, CallsLoadOrders DEF IInv
    <2>. QED BY <2>1 DEF DispatchIInv, CallsHoldAll
  <1>5. CallsHoldAll'
    <2>1. ASSUME NEW p \in Callers, asg'[p].pc \in {"pick", "claim"}
          PROVE  asg'[p].orders = {o \in Orders : order'[o].batch = asg'[p].batch}
      BY <1>1, <1>4, <2>1 DEF Together, OrdersOf
    <2>. QED BY <2>1 DEF CallsHoldAll, OrdersOf
  <1>. QED BY <1>1, <1>2, <1>5 DEF Together, DispatchIInv

(* In dispatch every order is completed by its own drop-off, also when the  *)
(* last one completes all orders of the job at once (finishJob).            *)
THEOREM DispatchDeliversEach ==
  ASSUME OneSweep, KeepsBusy, Reviewed = {}
  PROVE  DispatchSpec => []DeliveredByDropOff
  <1>1. IInv /\ DeliveryIInv /\ DispatchIInv /\ [Next]_vars => DispatchIInv'
    BY DispatchNext
  <1>2. DispatchIInv => DeliveredByDropOff
    BY DEF DispatchIInv
  <1>. QED BY <1>1, <1>2, DispatchStarts, IInvCorrect, DeliveryIInvCorrect, PTL
           DEF DispatchSpec
=============================================================================
