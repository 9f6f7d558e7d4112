--------------------------- MODULE LifecycleProofs ---------------------------
(***************************************************************************)
(* Fulfilment implements OrderLifecycle: proofs. As in DeliveryProofs no    *)
(* acceptance or rejection is under way (Reviewed = {}), since one that     *)
(* races with vendorMarkReady takes a ready order back (decision_race).     *)
(***************************************************************************)
EXTENDS DeliveryProofs

-----------------------------------------------------------------------------
(* The inductive invariant, which stands on IInv and DeliveryIInv: what the *)
(* status of an order is when the next write of it does not ask.            *)

(* A claim updates every order of the batch, whatever its status.           *)
UnlinkedOrdersWait ==
    \A o \in Orders : order[o].batch # None /\ order[o].job = None =>
        order[o].status \in {"READY_FOR_DELIVERY", "WAITING_FOR_DELIVERER"}

(* Only orders of claimed jobs are linked to a job, ...                     *)
LinkedJobsAreClaimed ==
    \A o \in Orders, b \in Batches : order[o].job = b => job[b].status # "NONE"

(* ... among them all that completeDropOff updates by the drop-off's order. *)
DropOffsAreLinked ==
    \A b \in Batches : job[b].status \in Held => \A o \in job[b].stops : order[o].job = b

(* vendorMarkReady holds the row that it has found to be readyable.         *)
ReadyOrdersAreNew == \A r \in readying : order[r.order].status \in READYABLE_STATUSES

CourseIInv ==
    /\ UnlinkedOrdersWait
    /\ LinkedJobsAreClaimed
    /\ DropOffsAreLinked
    /\ ReadyOrdersAreNew

Course == CourseIInv' /\ [Lifecycle!Next]_orderStatus

LEMMA CourseInit == Init \/ DispatchInit => CourseIInv
  <1>. SUFFICES ASSUME Init \/ DispatchInit PROVE CourseIInv
    OBVIOUS
  <1>1. /\ job = [b \in Batches |-> NoJob]
        /\ readying = {}
        /\ \A o \in Orders : /\ order[o].job = None
                             /\ order[o].batch # None => order[o].status = "READY_FOR_DELIVERY"
    BY DEF Init, DispatchInit, TablesInit, LocalInit, OrderingInit
  <1>. QED
    BY <1>1, TablesAssumption
       DEF CourseIInv, UnlinkedOrdersWait, LinkedJobsAreClaimed, DropOffsAreLinked,
           ReadyOrdersAreNew, NoJob, Held

LEMMA LifecycleInit == Init => Lifecycle!Init
  BY DEF Init, TablesInit, Lifecycle!Init, orderStatus

(* Orders that were at one stage and are at another have moved together.    *)
LEMMA OrdersMove ==
  ASSUME NEW O \in SUBSET Orders, NEW from, NEW to,
         \A o \in O : order[o].status = from /\ order'[o].status = to,
         \A o \in Orders \ O : order'[o].status = order[o].status
  PROVE  Lifecycle!Move(O, from, to)
  BY DEF Lifecycle!Move, orderStatus

LEMMA NoOrderMoves ==
  ASSUME \A o \in Orders : order'[o].status = order[o].status
  PROVE  UNCHANGED orderStatus
  BY DEF orderStatus

-----------------------------------------------------------------------------
(* What claim, start and release write of jobs and orders.                  *)

LEMMA ClaimRewrites ==
  ASSUME IInv, NEW p \in Callers, Claim(p), NEW b, b = asg[p].batch
  PROVE  /\ b \in Batches /\ asg[p].pc = "claim" /\ asg[p].orders \subseteq Orders
         /\ job[b].status \in {"NONE", "PENDING"}
         /\ job'[b].status = "ASSIGNED" /\ job'[b].stops = asg[p].orders
         /\ \A c \in Batches \ {b} : job'[c] = job[c]
         /\ \A o \in Orders :
               /\ order'[o].batch = order[o].batch
               /\ order[o].batch = b =>
                     order'[o].status = "WAITING_FOR_DELIVERER" /\ order'[o].job = b
               /\ order[o].batch # b => order'[o] = order[o]
  <1>0. job \in [Batches -> JobRow] /\ order \in [Orders -> OrderRow]
    BY DEF IInv, TypeOK, TablesTypeOK
  <1>1. asg[p].pc = "claim" /\ b \in Batches /\ asg[p].orders \subseteq Orders
    <2>1. asg[p].pc = "claim" /\ asg[p] \in Call
      BY DEF Claim, IInv, TypeOK, AssignmentTypeOK
    <2>. QED BY <2>1 DEF Call, NoCall, Searching, Claiming
  <1>2. job[b].status \in {"NONE", "PENDING"}
    <2>1. job[b].status \notin Held \cup {"COMPLETED"}
      BY <1>1, HeldJob, TablesAssumption DEF Claim, CanClaim, IInv, Claims, BatchFollowsJob, Stuck
    <2>. QED BY <1>0, <1>1, <2>1 DEF JobRow, JobStatus, Held
  <1>3. /\ job'[b].status = "ASSIGNED" /\ job'[b].stops = asg[p].orders
        /\ \A c \in Batches \ {b} : job'[c] = job[c]
    BY <1>0, <1>1 DEF Claim
  <1>4. \A o \in Orders :
           /\ order'[o].batch = order[o].batch
           /\ order[o].batch = b => order'[o].status = "WAITING_FOR_DELIVERER" /\ order'[o].job = b
           /\ order[o].batch # b => order'[o] = order[o]
    BY <1>0 DEF Claim, OrderRow
  <1>. QED BY <1>1, <1>2, <1>3, <1>4

LEMMA StartRewrites ==
  ASSUME IInv, NEW b \in Batches, NEW d \in Deliverers, StartJob(b, d)
  PROVE  /\ job[b].status = "ASSIGNED" /\ job'[b].status = "IN_PROGRESS"
         /\ job'[b].stops = job[b].stops
         /\ \A c \in Batches \ {b} : job'[c] = job[c]
         /\ \A o \in Orders :
               /\ order'[o].batch = order[o].batch /\ order'[o].job = order[o].job
               /\ order[o].job = b => order'[o].status = "IN_PROGRESS"
               /\ order[o].job # b => order'[o] = order[o]
  <1>0. job \in [Batches -> JobRow] /\ order \in [Orders -> OrderRow]
    BY DEF IInv, TypeOK, TablesTypeOK
  <1>1. /\ job[b].status = "ASSIGNED" /\ job'[b].status = "IN_PROGRESS"
        /\ job'[b].stops = job[b].stops
        /\ \A c \in Batches \ {b} : job'[c] = job[c]
    BY <1>0 DEF StartJob, Startable, JobRow
  <1>2. \A o \in Orders :
           /\ order'[o].batch = order[o].batch /\ order'[o].job = order[o].job
           /\ order[o].job = b => order'[o].status = "IN_PROGRESS"
           /\ order[o].job # b => order'[o] = order[o]
    BY <1>0 DEF StartJob, OrderRow
  <1>. QED BY <1>1, <1>2

LEMMA RecoverRewrites ==
  ASSUME IInv, NEW s \in Sweeps, NEW t \in sweep[s].todo, Recover(s, t), NEW b, b = t.job
  PROVE  /\ b \in Batches /\ job[b].status = "ASSIGNED" /\ job'[b].status = "PENDING"
         /\ \A c \in Batches \ {b} : job'[c] = job[c]
         /\ \A o \in Orders :
               /\ order'[o].batch = order[o].batch
               /\ order[o].job = b => /\ order'[o].job = None
                                      /\ order'[o].status = "WAITING_FOR_DELIVERER"
               /\ order[o].job # b => order'[o] = order[o]
  <1>1. order' = Released(b) /\ order \in [Orders -> OrderRow]
    BY DEF Recover, IInv, TypeOK, TablesTypeOK
  <1>2. \A o \in Orders :
           /\ order'[o].batch = order[o].batch
           /\ order[o].job = b => /\ order'[o].job = None
                                  /\ order'[o].status = "WAITING_FOR_DELIVERER"
           /\ order[o].job # b => order'[o] = order[o]
    BY <1>1 DEF Released, OrderRow
  <1>. QED BY <1>2, RecoverWrites DEF IInv

-----------------------------------------------------------------------------
(* One lemma per step of DeliverySteps.                                     *)

LEMMA CourseAside ==
  ASSUME IInv, CourseIInv, Aside
  PROVE  Course
  <1>. USE DEF Aside, CourseIInv
  <1>1. UnlinkedOrdersWait' /\ LinkedJobsAreClaimed' /\ DropOffsAreLinked' /\ ReadyOrdersAreNew'
    BY DEF UnlinkedOrdersWait, LinkedJobsAreClaimed, DropOffsAreLinked, ReadyOrdersAreNew
  <1>. QED BY <1>1, NoOrderMoves DEF Course

LEMMA CourseReadyBegin ==
  ASSUME CourseIInv, OrderingStep, NEW o \in Orders, NEW b \in Batches, ReadyBegin(o, b)
  PROVE  Course
  <1>. USE DEF CourseIInv
  <1>1. UNCHANGED <<order, job>>
    BY DEF ReadyBegin, tables
  <1>2. \A r \in readying' : r \in readying \/ r.order = o
    BY DEF ReadyBegin
  <1>3. ReadyOrdersAreNew'
    BY <1>1, <1>2 DEF ReadyOrdersAreNew, ReadyBegin
  <1>4. UnlinkedOrdersWait' /\ LinkedJobsAreClaimed' /\ DropOffsAreLinked'
    BY <1>1 DEF UnlinkedOrdersWait, LinkedJobsAreClaimed, DropOffsAreLinked
  <1>. QED BY <1>1, <1>3, <1>4, NoOrderMoves DEF Course

(* The order is one that has just been placed, or accepted.                 *)
LEMMA CourseReadyCommit ==
  ASSUME IInv, Rows, CourseIInv, OrderingStep, NEW r \in readying, ReadyCommit(r)
  PROVE  Course
  <1>. USE DEF CourseIInv
  <1>. DEFINE o == r.order
  <1>1. o \in Orders /\ order \in [Orders -> OrderRow] /\ \A q \in readying : q = r
    BY DEF IInv, TypeOK, TablesTypeOK, OrderingTypeOK, Readying, BatchingIsSerial
  <1>2. job' = job /\ readying' = {}
    BY <1>1 DEF ReadyCommit
  <1>3. /\ order'[o].status = "READY_FOR_DELIVERY"
        /\ order'[o].job = order[o].job
        /\ \A q \in Orders \ {o} : order'[q] = order[q]
    BY <1>1 DEF ReadyCommit, OrderRow
  <1>4. order[o].status \in {"PENDING_VENDOR_CONFIRMATION", "VENDOR_ACCEPTED"}
    BY DEF ReadyOrdersAreNew, READYABLE_STATUSES
  <1>. HIDE DEF o
  <1>5. UnlinkedOrdersWait'
    BY <1>1, <1>3 DEF UnlinkedOrdersWait
  <1>6. LinkedJobsAreClaimed'
    BY <1>1, <1>2, <1>3 DEF LinkedJobsAreClaimed
  <1>7. DropOffsAreLinked'
    <2>1. \A b \in Batches : job[b].stops \subseteq Orders
      BY DEF IInv, TypeOK, TablesTypeOK, JobRow
    <2>. QED BY <1>1, <1>2, <1>3, <2>1 DEF DropOffsAreLinked
  <1>8. ReadyOrdersAreNew'
    BY <1>2 DEF ReadyOrdersAreNew
  <1>9. Lifecycle!MarkReady(o)
    <2>1. PICK from \in {"PENDING_VENDOR_CONFIRMATION", "VENDOR_ACCEPTED"} : order[o].status = from
      BY <1>4
    <2>2. Lifecycle!Move({o}, from, "READY_FOR_DELIVERY")
      BY <1>1, <1>3, <2>1, OrdersMove
    <2>. QED BY <2>2 DEF Lifecycle!MarkReady
  <1>. QED BY <1>1, <1>5, <1>6, <1>7, <1>8, <1>9 DEF Course, Lifecycle!Next

(* The orders of a batch that is not claimed are ready, or wait already.    *)
LEMMA CourseClaim ==
  ASSUME IInv, Rows, CallsHoldOrders, CourseIInv,
         AssignmentStep, NEW p \in Callers, Claim(p)
  PROVE  Course
  <1>. USE DEF CourseIInv
  <1>0. job \in [Batches -> JobRow] /\ order \in [Orders -> OrderRow]
    BY DEF IInv, TypeOK, TablesTypeOK
  <1>1. PICK b : b = asg[p].batch
    OBVIOUS
  <1>2. /\ b \in Batches /\ asg[p].pc = "claim" /\ asg[p].orders \subseteq Orders
        /\ job[b].status \in {"NONE", "PENDING"}
    BY <1>1, ClaimRewrites
  <1>3. /\ job'[b].status = "ASSIGNED" /\ job'[b].stops = asg[p].orders
        /\ \A c \in Batches \ {b} : job'[c] = job[c]
    BY <1>1, ClaimRewrites
  <1>4. \A o \in Orders :
           /\ order'[o].batch = order[o].batch
           /\ order[o].batch = b => order'[o].status = "WAITING_FOR_DELIVERER" /\ order'[o].job = b
           /\ order[o].batch # b => order'[o] = order[o]
    BY <1>1, ClaimRewrites
  <1>5. \A o \in asg[p].orders : order[o].batch = b
    BY <1>1, <1>2 DEF CallsHoldOrders
  <1>6. /\ readying' = readying
        /\ \A r \in readying : r.order \in Orders /\ order[r.order].batch = None
    BY DEF AssignmentStep, orderingVars, IInv, TypeOK, OrderingTypeOK, Readying, Settled, Rows
  <1>7. \A o \in OrdersOf(b) :
           order[o].status \in {"READY_FOR_DELIVERY", "WAITING_FOR_DELIVERER"}
    <2>1. SUFFICES ASSUME NEW o \in Orders, order[o].batch = b PROVE order[o].job = None
      BY <1>2, TablesAssumption DEF OrdersOf, UnlinkedOrdersWait
    <2>2. ASSUME NEW c \in Batches, order[o].job = c PROVE FALSE
      BY <1>2, <2>1, <2>2 DEF Rows, OrderFollowsJob, LinkedJobsAreClaimed
    <2>. QED BY <1>0, <2>2 DEF OrderRow
  <1>8. UnlinkedOrdersWait'
    BY <1>2, <1>4, TablesAssumption DEF UnlinkedOrdersWait
  <1>9. LinkedJobsAreClaimed'
    BY <1>2, <1>3, <1>4 DEF LinkedJobsAreClaimed
  <1>10. DropOffsAreLinked'
    <2>1. ASSUME NEW c \in Batches, job'[c].status \in Held, NEW o \in job'[c].stops
          PROVE  order'[o].job = c
      <3>1. CASE c = b
        BY <1>2, <1>3, <1>4, <1>5, <2>1, <3>1
      <3>2. CASE c # b
        <4>1. o \in Orders /\ order[o].batch = c /\ order[o].job = c
          BY <1>0, <1>3, <2>1, <3>2 DEF Rows, JobsHaveDropOffs, DropOffsAreLinked, JobRow
        <4>. QED BY <1>4, <3>2, <4>1
      <3>. QED BY <3>1, <3>2
    <2>. QED BY <2>1 DEF DropOffsAreLinked
  <1>11. ReadyOrdersAreNew'
    BY <1>2, <1>4, <1>6, TablesAssumption DEF ReadyOrdersAreNew
  <1>12. Lifecycle!Assign({o \in OrdersOf(b) : order[o].status = "READY_FOR_DELIVERY"})
    BY <1>4, <1>7, OrdersMove DEF OrdersOf, Lifecycle!Assign
  <1>13. Lifecycle!Next
    BY <1>12 DEF Lifecycle!Next, OrdersOf
  <1>. QED BY <1>8, <1>9, <1>10, <1>11, <1>13 DEF Course

(* startJob updates the orders of an assigned job, which wait.              *)
LEMMA CourseStart ==
  ASSUME IInv, Rows, CourseIInv,
         JobStep, NEW b \in Batches, NEW d \in Deliverers, StartJob(b, d)
  PROVE  Course
  <1>. USE DEF CourseIInv
  <1>0. job \in [Batches -> JobRow]
    BY DEF IInv, TypeOK, TablesTypeOK
  <1>1. /\ job[b].status = "ASSIGNED" /\ job'[b].status = "IN_PROGRESS"
        /\ job'[b].stops = job[b].stops
        /\ \A c \in Batches \ {b} : job'[c] = job[c]
    BY StartRewrites
  <1>2. \A o \in Orders :
           /\ order'[o].batch = order[o].batch /\ order'[o].job = order[o].job
           /\ order[o].job = b => order'[o].status = "IN_PROGRESS"
           /\ order[o].job # b => order'[o] = order[o]
    BY StartRewrites
  <1>3. \A o \in Orders : order[o].job = b => order[o].status = "WAITING_FOR_DELIVERER"
    BY <1>1 DEF Rows, OrderFollowsJob
  <1>4. readying' = readying /\ \A r \in readying : r.order \in Orders
    BY DEF JobStep, orderingVars, IInv, TypeOK, OrderingTypeOK, Readying
  <1>5. UnlinkedOrdersWait'
    BY <1>2, TablesAssumption DEF UnlinkedOrdersWait
  <1>6. LinkedJobsAreClaimed'
    BY <1>1, <1>2 DEF LinkedJobsAreClaimed
  <1>7. DropOffsAreLinked'
    BY <1>0, <1>1, <1>2 DEF DropOffsAreLinked, JobRow, Held
  <1>8. ReadyOrdersAreNew'
    BY <1>2, <1>3, <1>4 DEF ReadyOrdersAreNew, READYABLE_STATUSES
  <1>9. Lifecycle!Depart({o \in Orders : order[o].job = b})
    BY <1>2, <1>3, OrdersMove DEF Lifecycle!Depart
  <1>. QED BY <1>5, <1>6, <1>7, <1>8, <1>9 DEF Course, Lifecycle!Next

LEMMA CourseBeginDropOff ==
  ASSUME CourseIInv, JobStep, NEW b \in Batches, NEW d \in Deliverers, NEW o \in Orders,
         BeginDropOff(b, d, o)
  PROVE  Course
  <1>1. UNCHANGED <<order, job, readying>>
    BY DEF JobStep, orderingVars, BeginDropOff, tables
  <1>2. CourseIInv'
    BY <1>1 DEF CourseIInv, UnlinkedOrdersWait, LinkedJobsAreClaimed, DropOffsAreLinked,
                ReadyOrdersAreNew
  <1>. QED BY <1>1, <1>2, NoOrderMoves DEF Course

(* A drop-off that is still open is of an order on the road; so is every    *)
(* other order that the last one completes.                                 *)
LEMMA CourseCommitDropOff ==
  ASSUME IInv, Rows, CourseIInv, JobStep, NEW t \in stopTx, CommitDropOff(t)
  PROVE  Course
  <1>. USE DEF CourseIInv
  <1>. DEFINE b == t.job
              O == {o \in Orders : /\ o = t.order \/ (t.last /\ order[o].job = b)
                                   /\ order[o].status = "IN_PROGRESS"}
  <1>0. job \in [Batches -> JobRow] /\ order \in [Orders -> OrderRow]
    BY DEF IInv, TypeOK, TablesTypeOK
  <1>1. /\ b \in Batches /\ job[b].status = "IN_PROGRESS"
        /\ job'[b].status = IF t.last THEN "COMPLETED" ELSE "IN_PROGRESS"
        /\ \A c \in Batches \ {b} : job'[c] = job[c]
    BY CommitWrites
  <1>2. /\ t.order \in Orders
        /\ job'[b].stops = job[b].stops
        /\ t.order \in job[b].stops \ job[b].done
        /\ \A o \in Orders :
              /\ order'[o].batch = order[o].batch /\ order'[o].job = order[o].job
              /\ IF o = t.order \/ (t.last /\ order[o].job = b)
                   THEN order'[o].status = "COMPLETED"
                   ELSE order'[o] = order[o]
    BY DropOffWrites
  <1>3. order[t.order].job = b
    BY <1>1, <1>2 DEF DropOffsAreLinked, Held
  <1>4. \A o \in Orders : order[o].job = b =>
           order[o].status = IF o \in job[b].done THEN "COMPLETED" ELSE "IN_PROGRESS"
    BY <1>1 DEF Rows, OrderFollowsJob
  <1>5. readying' = readying /\ \A r \in readying : r.order \in Orders
    BY DEF JobStep, orderingVars, IInv, TypeOK, OrderingTypeOK, Readying
  <1>. HIDE DEF b
  <1>6. UnlinkedOrdersWait'
    BY <1>1, <1>2, <1>3, TablesAssumption DEF UnlinkedOrdersWait
  <1>7. LinkedJobsAreClaimed'
    BY <1>1, <1>2 DEF LinkedJobsAreClaimed
  <1>8. DropOffsAreLinked'
    BY <1>0, <1>1, <1>2 DEF DropOffsAreLinked, JobRow, Held
  <1>9. ReadyOrdersAreNew'
    BY <1>2, <1>3, <1>4, <1>5 DEF ReadyOrdersAreNew, READYABLE_STATUSES
  <1>10. Lifecycle!Deliver(O)
    <2>1. \A o \in Orders \ O : order'[o].status = order[o].status
      BY <1>2, <1>3, <1>4
    <2>. QED BY <1>2, <2>1, OrdersMove DEF Lifecycle!Deliver
  <1>. QED BY <1>6, <1>7, <1>8, <1>9, <1>10 DEF Course, Lifecycle!Next

(* Only orders that wait are released, and they go on waiting.              *)
LEMMA CourseRecover ==
  ASSUME IInv, Rows, CourseIInv,
         RecoveryStep, NEW s \in Sweeps, NEW t \in sweep[s].todo, Recover(s, t)
  PROVE  Course
  <1>. USE DEF CourseIInv
  <1>0. job \in [Batches -> JobRow]
    BY DEF IInv, TypeOK, TablesTypeOK
  <1>. DEFINE b == t.job
  <1>1. /\ b \in Batches /\ job[b].status = "ASSIGNED" /\ job'[b].status = "PENDING"
        /\ \A c \in Batches \ {b} : job'[c] = job[c]
    BY RecoverRewrites
  <1>2. \A o \in Orders :
           /\ order'[o].batch = order[o].batch
           /\ order[o].job = b => /\ order'[o].job = None
                                  /\ order'[o].status = "WAITING_FOR_DELIVERER"
           /\ order[o].job # b => order'[o] = order[o]
    BY RecoverRewrites
  <1>3. \A o \in Orders : order[o].job = b => order[o].status = "WAITING_FOR_DELIVERER"
    BY <1>1 DEF Rows, OrderFollowsJob
  <1>4. readying' = readying /\ \A r \in readying : r.order \in Orders
    BY DEF RecoveryStep, orderingVars, IInv, TypeOK, OrderingTypeOK, Readying
  <1>. HIDE DEF b
  <1>5. UnlinkedOrdersWait'
    BY <1>2 DEF UnlinkedOrdersWait
  <1>6. LinkedJobsAreClaimed'
    BY <1>1, <1>2, TablesAssumption DEF LinkedJobsAreClaimed
  <1>7. DropOffsAreLinked'
    BY <1>0, <1>1, <1>2 DEF DropOffsAreLinked, JobRow, Held
  <1>8. ReadyOrdersAreNew'
    BY <1>2, <1>3, <1>4 DEF ReadyOrdersAreNew, READYABLE_STATUSES
  <1>9. \A o \in Orders : order'[o].status = order[o].status
    BY <1>2, <1>3
  <1>. QED BY <1>5, <1>6, <1>7, <1>8, <1>9, NoOrderMoves DEF Course

-----------------------------------------------------------------------------
LEMMA CourseNext ==
  ASSUME Reviewed = {}, IInv, DeliveryIInv, CourseIInv, [Next]_vars
  PROVE  Course
  <1>1. TypeOK /\ decision = {} /\ Rows /\ CallsHoldOrders
    BY DEF IInv, DeliveryIInv, Rows, Settled
  <1>. QED
    BY <1>1, DeliverySteps, CourseAside, CourseReadyBegin, CourseReadyCommit, CourseClaim,
       CourseStart, CourseBeginDropOff, CourseCommitDropOff, CourseRecover

(* For any number of orders and jobs, the status of an order is what each   *)
(* write that does not look at it takes for granted.                        *)
THEOREM CourseIInvCorrect ==
  ASSUME OneSweep, KeepsBusy, Reviewed = {}
  PROVE  Spec \/ DispatchSpec => []CourseIInv
  <1>1. IInv /\ DeliveryIInv /\ CourseIInv /\ [Next]_vars => CourseIInv'
    BY CourseNext DEF Course
  <1>. QED BY <1>1, CourseInit, IInvCorrect, DeliveryIInvCorrect, PTL DEF Spec, DispatchSpec

(* Where no acceptance or rejection is under way, sweeps do not overlap and *)
(* busy deliverers are not removed, Fulfilment implements the life of an    *)
(* order: no claim, release, second claim, late order or last drop-off      *)
(* skips a stage or takes one back (vendorMarkReady,                        *)
(* assignDelivererToBatch, startJob, completeDropOff, finishJob,            *)
(* recoverUnstartedJob). A late write of vendorAcceptOrder does             *)
(* (decision_race).                                                         *)
THEOREM FulfilmentImplementsLifecycle ==
  ASSUME OneSweep, KeepsBusy, Reviewed = {}
  PROVE  Spec => OrdersKeepTheirCourse
  <1>1. IInv /\ DeliveryIInv /\ CourseIInv /\ [Next]_vars => [Lifecycle!Next]_orderStatus
    BY CourseNext DEF Course
  <1>. QED BY <1>1, LifecycleInit, IInvCorrect, DeliveryIInvCorrect, CourseIInvCorrect, PTL
           DEF Spec, OrdersKeepTheirCourse, Lifecycle!Spec

-----------------------------------------------------------------------------
(* Dispatch alone, where no order can join a batch late: a claimed or       *)
(* completed job is linked to every order of its batch.                     *)
ClaimedBatchIsLinked ==
    \A b \in Batches : job[b].status \in Held \cup {"COMPLETED"} =>
        \A o \in OrdersOf(b) : order[o].job = b

LEMMA LinkedStarts == DispatchInit => ClaimedBatchIsLinked
  BY DEF DispatchInit, NoJob, ClaimedBatchIsLinked, Held

LEMMA LinkedNext ==
  ASSUME Reviewed = {}, IInv, DeliveryIInv, DispatchIInv, ClaimedBatchIsLinked, [Next]_vars
  PROVE  ClaimedBatchIsLinked'
  <1>0. /\ TypeOK /\ decision = {} /\ Rows
        /\ \A o \in Orders : \A c : order'[o].batch = c <=> order[o].batch = c
    BY TogetherNext DEF IInv, DeliveryIInv, Rows, Settled, Together
  <1>1. CASE Aside
    BY <1>1 DEF Aside, ClaimedBatchIsLinked, OrdersOf
  <1>2. ASSUME (\E o \in Orders, b \in Batches : ReadyBegin(o, b))
                  \/ (\E r \in readying : ReadyCommit(r))
        PROVE  FALSE
    BY <1>2 DEF ReadyBegin, DispatchIInv, NobodyJoins
  <1>3. ASSUME NEW p \in Callers, Claim(p) PROVE ClaimedBatchIsLinked'
    <2>1. PICK b : b = asg[p].batch
      OBVIOUS
    <2>2. /\ \A c \in Batches \ {b} : job'[c] = job[c]
          /\ \A o \in Orders : /\ order'[o].batch = order[o].batch
                               /\ order[o].batch = b => order'[o].job = b
                               /\ order[o].batch # b => order'[o] = order[o]
      BY <1>3, <2>1, ClaimRewrites
    <2>. QED BY <2>2 DEF ClaimedBatchIsLinked, OrdersOf
  <1>4. ASSUME NEW b \in Batches, NEW d \in Deliverers, StartJob(b, d) PROVE ClaimedBatchIsLinked'
    <2>1. /\ job[b].status = "ASSIGNED"
          /\ \A c \in Batches \ {b} : job'[c] = job[c]
          /\ \A o \in Orders : order'[o].batch = order[o].batch /\ order'[o].job = order[o].job
      BY <1>4, StartRewrites
    <2>. QED BY <2>1 DEF ClaimedBatchIsLinked, OrdersOf, Held
  <1>5. ASSUME NEW b \in Batches, NEW d \in Deliverers, NEW o \in Orders, BeginDropOff(b, d, o)
        PROVE  ClaimedBatchIsLinked'
    BY <1>5 DEF BeginDropOff, tables, ClaimedBatchIsLinked, OrdersOf
  <1>6. ASSUME NEW t \in stopTx, CommitDropOff(t) PROVE ClaimedBatchIsLinked'
    <2>1. /\ job[t.job].status = "IN_PROGRESS"
          /\ \A c \in Batches \ {t.job} : job'[c] = job[c]
      BY <1>6, CommitWrites
    <2>2. \A o \in Orders : order'[o].batch = order[o].batch /\ order'[o].job = order[o].job
      BY <1>0, <1>6, DropOffWrites
    <2>. QED BY <2>1, <2>2 DEF ClaimedBatchIsLinked, OrdersOf, Held
  <1>7. ASSUME NEW s \in Sweeps, NEW t \in sweep[s].todo, Recover(s, t)
        PROVE  ClaimedBatchIsLinked'
    <2>1. /\ job'[t.job].status = "PENDING"
          /\ \A c \in Batches \ {t.job} : job'[c] = job[c]
          /\ \A o \in Orders : /\ order'[o].batch = order[o].batch
                               /\ order[o].job # t.job => order'[o] = order[o]
      BY <1>7, RecoverRewrites
    <2>. QED BY <2>1 DEF ClaimedBatchIsLinked, OrdersOf, Held
  <1>. QED BY <1>0, <1>1, <1>2, <1>3, <1>4, <1>5, <1>6, <1>7, DeliverySteps

(* In dispatch, where no order joins a batch late, no order is left behind  *)
(* by a completed batch (finishJob), if moreover no acceptance or rejection *)
(* is written late, sweeps do not overlap and no busy deliverer is removed. *)
THEOREM DispatchStrandsNobody ==
  ASSUME OneSweep, KeepsBusy, Reviewed = {}
  PROVE  DispatchSpec => []NoOrderStranded
  <1>1. IInv /\ DeliveryIInv /\ DispatchIInv /\ ClaimedBatchIsLinked /\ [Next]_vars
           => DispatchIInv' /\ ClaimedBatchIsLinked'
    BY DispatchNext, LinkedNext
  <1>2. IInv /\ DeliveryIInv /\ ClaimedBatchIsLinked => NoOrderStranded
    <2>1. SUFFICES ASSUME IInv, DeliveryIInv, ClaimedBatchIsLinked,
                          NEW o \in Orders, NEW b, b = order[o].batch, b # None,
                          batch[b].status = "COMPLETED"
                   PROVE  order[o].status = "COMPLETED"
      BY DEF NoOrderStranded
    <2>2. b \in Batches
      BY <2>1 DEF IInv, TypeOK, TablesTypeOK, OrderRow
    <2>3. job[b].status = "COMPLETED"
      BY <2>1, <2>2 DEF IInv, Claims, BatchFollowsJob
    <2>4. order[o].job = b
      BY <2>1, <2>2, <2>3 DEF ClaimedBatchIsLinked, OrdersOf
    <2>. QED BY <2>1, <2>2, <2>3, <2>4 DEF DeliveryIInv, Rows, OrderFollowsJob
  <1>. QED BY <1>1, <1>2, DispatchStarts, LinkedStarts, IInvCorrect, DeliveryIInvCorrect, PTL
           DEF DispatchSpec
=============================================================================
