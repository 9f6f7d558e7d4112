------------------------ MODULE OrderBatchingProofs ------------------------
(***************************************************************************)
(* Proofs about OrderBatching, for every set of orders, shops and batches, *)
(* every limit and every number of faults.                                 *)
(***************************************************************************)
EXTENDS OrderBatching, FiniteSetTheorems, TLAPS

-----------------------------------------------------------------------------
(* Type correctness.                                                        *)

LEMMA OrdersPlacedHaveTypes == OrdersPlaced => OrderBatchingTypeOK
  <1>. USE DEF OrderRow, BatchRow, JobRow, DelivererRow, Session, OrderStatus, JobStatus
  <1>. SUFFICES ASSUME OrdersPlaced PROVE OrderBatchingTypeOK
    OBVIOUS
  <1>1. TablesTypeOK
    BY TablesAssumption DEF OrdersPlaced, TablesInit, TablesTypeOK, NoBatch, NoJob, AgeExpired
  <1>2. OrderingTypeOK
    BY DEF OrdersPlaced, OrderingInit, OrderingTypeOK
  <1>. QED BY <1>1, <1>2 DEF OrderBatchingTypeOK

LEMMA ClosingKeepsTypes ==
  ASSUME TablesTypeOK, NEW b \in Batches, NEW rest \in SUBSET post, CloseBatch(b, rest)
  PROVE  batch' \in [Batches -> BatchRow] /\ post' \subseteq Task
  <1>. USE DEF TablesTypeOK
  <1>1. [step |-> "enqueue", batch |-> b] \in Task
    BY DEF Task
  <1>2. [batch EXCEPT ![b].status = "IN_PROGRESS"] \in [Batches -> BatchRow]
    BY DEF BatchRow, JobStatus
  <1>. QED BY <1>1, <1>2 DEF CloseBatch

LEMMA OrderingKeepsTypes ==
  ASSUME OrderBatchingTypeOK, OrderingNext
  PROVE  OrderBatchingTypeOK'
  <1>. USE DEF OrderBatchingTypeOK, TablesTypeOK, OrderingTypeOK, tables, orderingVars
  <1>1. ASSUME NEW o \in Orders, NEW v \in {"VENDOR_ACCEPTED", "VENDOR_REJECTED"},
               DecisionRead(o, v)
        PROVE  OrderBatchingTypeOK'
    BY <1>1 DEF DecisionRead, Decision
  <1>2. ASSUME NEW c \in decision, DecisionWrite(c)
        PROVE  OrderBatchingTypeOK'
    BY <1>2 DEF DecisionWrite, Decision, OrderRow, OrderStatus
  <1>3. ASSUME NEW o \in Orders, NEW b \in Batches, ReadyBegin(o, b)
        PROVE  OrderBatchingTypeOK'
    <2>1. ShouldClose(o, b) \in BOOLEAN
      BY DEF ShouldClose
    <2>2. \E new \in BOOLEAN, close \in BOOLEAN :
             readying' = readying \cup {[order |-> o, batch |-> b, isNew |-> new, close |-> close]}
      BY <1>3, <2>1 DEF ReadyBegin
    <2>3. readying' \subseteq Readying
      BY <2>2 DEF Readying
    <2>. QED BY <1>3, <2>3 DEF ReadyBegin
  <1>4. ASSUME NEW r \in readying, ReadyCommit(r)
        PROVE  OrderBatchingTypeOK'
    <2>1. order' \in [Orders -> OrderRow]
      BY <1>4 DEF ReadyCommit, Readying, OrderRow, OrderStatus
    <2>2. batch' \in [Batches -> BatchRow]
      BY <1>4 DEF ReadyCommit, Readying, BatchRow, JobStatus
    <2>3. post' \subseteq Task
      BY <1>4 DEF ReadyCommit, Readying, Task
    <2>. QED BY <1>4, <2>1, <2>2, <2>3 DEF ReadyCommit
  <1>5. ASSUME NEW r \in readying, ReadyAbort(r)
        PROVE  OrderBatchingTypeOK'
    BY <1>5, TablesAssumption DEF ReadyAbort, Fault
  <1>6. ASSUME NEW t \in post, Schedule(t)
        PROVE  OrderBatchingTypeOK'
    BY <1>6 DEF Schedule, Task
  <1>7. ASSUME NEW t \in post, CloseFull(t)
        PROVE  OrderBatchingTypeOK'
    <2>1. t.batch \in Batches
      BY <1>7 DEF CloseFull, Task
    <2>. QED BY <1>7, <2>1, ClosingKeepsTypes DEF CloseFull
  <1>8. ASSUME NEW t \in post, Enqueue(t)
        PROVE  OrderBatchingTypeOK'
    <2>1. NewTicket(t.batch) \in Ticket
      BY <1>8, TablesAssumption DEF Enqueue, Task, NewTicket, Ticket
    <2>. QED BY <1>8, <2>1 DEF Enqueue
  <1>9. ASSUME NEW b \in timers, TimeoutFires(b)
        PROVE  OrderBatchingTypeOK'
    BY <1>9, ClosingKeepsTypes DEF TimeoutFires
  <1>10. ASSUME NEW b \in Batches, CloseExpired(b)
         PROVE  OrderBatchingTypeOK'
    BY <1>10, ClosingKeepsTypes DEF CloseExpired
  <1>11. ASSUME NEW b \in Batches, TestBatch(b)
         PROVE  OrderBatchingTypeOK'
    BY <1>11, ClosingKeepsTypes DEF TestBatch
  <1>12. ASSUME NEW b \in Batches, Tick(b)
         PROVE  OrderBatchingTypeOK'
    <2>1. batch[b].age \in 0..AgeExpired /\ batch[b].age < AgeExpired
      BY <1>12 DEF Tick, BatchRow, AgeExpired, AgeStuck
    <2>2. batch' \in [Batches -> BatchRow]
      BY <1>12, <2>1 DEF Tick, BatchRow, AgeExpired
    <2>. QED BY <1>12, <2>2 DEF Tick
  <1>13. ASSUME NEW t \in post, LoseTask(t)
         PROVE  OrderBatchingTypeOK'
    BY <1>13, TablesAssumption DEF LoseTask, Fault
  <1>14. ASSUME NEW b \in timers, LoseTimer(b)
         PROVE  OrderBatchingTypeOK'
    BY <1>14, TablesAssumption DEF LoseTimer, Fault
  <1>. QED
    BY <1>1, <1>2, <1>3, <1>4, <1>5, <1>6, <1>7, <1>8, <1>9, <1>10, <1>11, <1>12,
       <1>13, <1>14 DEF OrderingNext

(* The rows and open transactions of batching have the shape of the schema. *)
THEOREM OrderingTypeCorrect == OrderingSpec => []OrderBatchingTypeOK
  <1>1. OrderBatchingTypeOK /\ UNCHANGED allOrderingVars => OrderBatchingTypeOK'
    BY DEF OrderBatchingTypeOK, TablesTypeOK, OrderingTypeOK, allOrderingVars, tables, orderingVars
  <1>. QED BY <1>1, OrdersPlacedHaveTypes, OrderingKeepsTypes, PTL DEF OrderingSpec

-----------------------------------------------------------------------------
(* The inductive invariant of batching. An open transaction of              *)
(* vendorMarkReady has chosen a batch by what it read under the advisory    *)
(* lock; while the lock is held, all of that stays true.                    *)

LimitOf(members) == IF \E m \in members : m \in Food THEN FoodMax ELSE GroceryMax

SizesAreBounded ==
    \A b \in Batches : IsFiniteSet(OrdersOf(b)) /\ Cardinality(OrdersOf(b)) <= GroceryMax

BatchedRowsExist ==
    \A o \in Orders : order[o].batch # None => batch[order[o].batch].status # "NONE"

OneAtATime == \A r, s \in readying : r = s

(* A full batch is seen by the transaction that fills it.                   *)
SeesFull(r) ==
    Cardinality(OrdersOf(r.batch)) + 1 >= LimitOf(OrdersOf(r.batch) \cup {r.order}) => r.close

ChoiceHolds(r) ==
    /\ r.isNew => /\ batch[r.batch].status = "NONE"
                  /\ \A c \in Batches : Open(c) => ~ Eligible(r.order, c)
    /\ ~ r.isNew => /\ batch[r.batch].status # "NONE"
                    /\ Eligible(r.order, r.batch)
                    /\ SeesFull(r)

OrderingIInv ==
    /\ OrderBatchingTypeOK
    /\ SizesAreBounded
    /\ OneVendorPerBatch
    /\ BatchedRowsExist
    /\ OneAtATime
    /\ \A r \in readying : ChoiceHolds(r)

-----------------------------------------------------------------------------
(* Most steps put no order into a batch.                                    *)
Quiet ==
    /\ \A o \in Orders : order'[o].batch = order[o].batch
    /\ readying' \subseteq readying
    /\ \A b \in Batches :
          /\ batch'[b].status = "NONE" <=> batch[b].status = "NONE"
          /\ batch'[b].status = "PENDING" => batch[b].status = "PENDING"
          /\ /\ [step |-> "close", batch |-> b] \in post
             /\ batch'[b].status = "PENDING"
             => faults' > 0 \/ [step |-> "close", batch |-> b] \in post'
    /\ faults' >= faults

LEMMA ClosingIsQuiet ==
  ASSUME OrderBatchingTypeOK, NEW b \in Batches, NEW rest, CloseBatch(b, rest)
  PROVE  \A c \in Batches :
            /\ batch'[c].status = "NONE" <=> batch[c].status = "NONE"
            /\ batch'[c].status = "PENDING" => batch[c].status = "PENDING" /\ c # b
            /\ rest \subseteq post'
  <1>1. batch \in [Batches -> BatchRow]
    BY DEF OrderBatchingTypeOK, TablesTypeOK
  <1>. QED BY <1>1 DEF CloseBatch, Open, BatchRow

LEMMA QuietSteps ==
  ASSUME OrderBatchingTypeOK, OrderingNext
  PROVE  \/ Quiet
         \/ \E o \in Orders, b \in Batches : ReadyBegin(o, b)
         \/ \E r \in readying : ReadyCommit(r)
  <1>. USE DEF tables, orderingVars
  <1>0. /\ order \in [Orders -> OrderRow] /\ batch \in [Batches -> BatchRow]
        /\ faults \in Nat /\ decision \subseteq Decision /\ post \subseteq Task
        /\ timers \subseteq Batches
    BY TablesAssumption DEF OrderBatchingTypeOK, TablesTypeOK, OrderingTypeOK
  <1>1. ASSUME NEW o \in Orders, NEW v \in {"VENDOR_ACCEPTED", "VENDOR_REJECTED"},
               DecisionRead(o, v)
        PROVE  Quiet
    BY <1>0, <1>1 DEF DecisionRead, Quiet
  <1>2. ASSUME NEW c \in decision, DecisionWrite(c) PROVE Quiet
    <2>1. \A o \in Orders : order'[o].batch = order[o].batch
      BY <1>0, <1>2 DEF DecisionWrite, OrderRow
    <2>. QED BY <1>0, <1>2, <2>1 DEF DecisionWrite, Quiet
  <1>3. ASSUME NEW r \in readying, ReadyAbort(r) PROVE Quiet
    BY <1>0, <1>3 DEF ReadyAbort, Fault, Quiet
  <1>4. ASSUME NEW t \in post, Schedule(t) PROVE Quiet
    BY <1>0, <1>4 DEF Schedule, Quiet
  <1>5. ASSUME NEW t \in post, CloseFull(t) PROVE Quiet
    <2>1. t.batch \in Batches /\ t = [step |-> "close", batch |-> t.batch]
      BY <1>0, <1>5 DEF CloseFull, Task
    <2>2. CloseBatch(t.batch, post \ {t})
      BY <1>5 DEF CloseFull
    <2>3. \A c \in Batches :
             /\ batch'[c].status = "NONE" <=> batch[c].status = "NONE"
             /\ batch'[c].status = "PENDING" => batch[c].status = "PENDING" /\ c # t.batch
             /\ post \ {t} \subseteq post'
      BY <2>1, <2>2, ClosingIsQuiet
    <2>4. \A c \in Batches : c # t.batch => [step |-> "close", batch |-> c] # t
      BY <2>1
    <2>. QED BY <1>0, <1>5, <2>3, <2>4 DEF CloseFull, Quiet
  <1>6. ASSUME NEW t \in post, Enqueue(t) PROVE Quiet
    BY <1>0, <1>6 DEF Enqueue, Quiet
  <1>7. ASSUME NEW b \in timers, TimeoutFires(b) PROVE Quiet
    BY <1>0, <1>7, ClosingIsQuiet DEF TimeoutFires, Quiet
  <1>8. ASSUME NEW b \in Batches, CloseExpired(b) \/ TestBatch(b) PROVE Quiet
    BY <1>0, <1>8, ClosingIsQuiet DEF CloseExpired, TestBatch, Quiet
  <1>9. ASSUME NEW b \in Batches, Tick(b) PROVE Quiet
    <2>1. \A c \in Batches : batch'[c].status = batch[c].status
      BY <1>0, <1>9 DEF Tick, BatchRow
    <2>. QED BY <1>0, <1>9, <2>1 DEF Tick, Quiet
  <1>10. ASSUME NEW t \in post, LoseTask(t) PROVE Quiet
    BY <1>0, <1>10 DEF LoseTask, Fault, Quiet
  <1>11. ASSUME NEW b \in timers, LoseTimer(b) PROVE Quiet
    BY <1>0, <1>11 DEF LoseTimer, Fault, Quiet
  <1>. QED
    BY <1>1, <1>2, <1>3, <1>4, <1>5, <1>6, <1>7, <1>8, <1>9, <1>10, <1>11 DEF OrderingNext

LEMMA QuietKeepsMembers ==
  ASSUME Quiet
  PROVE  /\ \A b : OrdersOf(b)' = OrdersOf(b)
         /\ \A o, b : Eligible(o, b)' <=> Eligible(o, b)
         /\ \A r \in readying : SeesFull(r)' <=> SeesFull(r)
  <1>1. \A b : OrdersOf(b)' = OrdersOf(b)
    BY DEF Quiet, OrdersOf
  <1>2. ASSUME NEW o, NEW b PROVE Eligible(o, b)' <=> Eligible(o, b)
    BY <1>1 DEF Eligible
  <1>3. ASSUME NEW r \in readying PROVE SeesFull(r)' <=> SeesFull(r)
    BY <1>1 DEF SeesFull, LimitOf
  <1>. QED BY <1>1, <1>2, <1>3

LEMMA QuietKeepsInvariant ==
  ASSUME OrderingIInv, Quiet, OrderBatchingTypeOK'
  PROVE  OrderingIInv'
  <1>. USE QuietKeepsMembers
  <1>1. SizesAreBounded'
    BY DEF OrderingIInv, SizesAreBounded
  <1>2. OneVendorPerBatch'
    BY DEF OrderingIInv, OneVendorPerBatch, Quiet
  <1>3. BatchedRowsExist'
    <2>. SUFFICES ASSUME NEW o \in Orders, order'[o].batch # None
                  PROVE  batch'[order'[o].batch].status # "NONE"
      BY DEF BatchedRowsExist
    <2>1. order'[o].batch = order[o].batch /\ order[o].batch \in Batches
      BY DEF Quiet, OrderingIInv, OrderBatchingTypeOK, TablesTypeOK, OrderRow
    <2>. QED BY <2>1 DEF OrderingIInv, BatchedRowsExist, Quiet
  <1>4. OneAtATime'
    BY DEF OrderingIInv, OneAtATime, Quiet
  <1>5. ASSUME NEW r \in readying' PROVE ChoiceHolds(r)'
    <2>1. r \in readying /\ r.batch \in Batches
      BY DEF Quiet, OrderingIInv, OrderBatchingTypeOK, OrderingTypeOK, Readying
    <2>2. ChoiceHolds(r)
      BY <2>1 DEF OrderingIInv
    <2>3. \A c \in Batches : Open(c)' => Open(c)
      BY DEF Quiet, Open
    <2>4. batch'[r.batch].status = "NONE" <=> batch[r.batch].status = "NONE"
      BY <2>1 DEF Quiet
    <2>5. SeesFull(r)' <=> SeesFull(r)
      BY <2>1
    <2>. QED BY <2>2, <2>3, <2>4, <2>5 DEF ChoiceHolds
  <1>. QED BY <1>1, <1>2, <1>3, <1>4, <1>5 DEF OrderingIInv

-----------------------------------------------------------------------------
(* vendorMarkReady. What it reads is the invariant of its transaction ...   *)

LEMMA BeginKeepsInvariant ==
  ASSUME OrderingIInv, NEW o \in Orders, NEW b \in Batches, ReadyBegin(o, b),
         OrderBatchingTypeOK'
  PROVE  OrderingIInv'
  <1>1. UNCHANGED tables /\ readying = {}
    BY DEF ReadyBegin, AdvisoryLockFree
  <1>2. (SizesAreBounded /\ OneVendorPerBatch /\ BatchedRowsExist)'
    BY <1>1 DEF OrderingIInv, SizesAreBounded, OneVendorPerBatch, BatchedRowsExist, OrdersOf,
                tables
  <1>3. PICK r : /\ readying' = {r} /\ r.order = o /\ r.batch = b
                 /\ \/ /\ r.isNew = FALSE /\ Open(b) /\ Eligible(o, b)
                       /\ r.close = ShouldClose(o, b)
                    \/ /\ r.isNew = TRUE /\ NextRow(b)
                       /\ \A c \in Batches : Open(c) => ~ Eligible(o, c)
    <2>. DEFINE joins == [order |-> o, batch |-> b, isNew |-> FALSE, close |-> ShouldClose(o, b)]
                opens == [order |-> o, batch |-> b, isNew |-> TRUE, close |-> FALSE]
    <2>1. CASE readying' = {joins} /\ Open(b) /\ Eligible(o, b)
      <3>. WITNESS joins
      <3>. QED BY <2>1
    <2>2. CASE readying' = {opens} /\ NextRow(b)
               /\ \A c \in Batches : Open(c) => ~ Eligible(o, c)
      <3>. WITNESS opens
      <3>. QED BY <2>2
    <2>. QED BY <1>1, <2>1, <2>2 DEF ReadyBegin
  <1>4. \A c : /\ OrdersOf(c)' = OrdersOf(c) /\ Open(c)' = Open(c)
               /\ Eligible(o, c)' = Eligible(o, c)
    BY <1>1 DEF OrdersOf, Open, Eligible, tables
  <1>5. CASE r.isNew = TRUE
    <2>1. batch[b].status = "NONE"
      BY <1>1, <1>3, <1>5 DEF NextRow
    <2>. QED BY <1>1, <1>2, <1>3, <1>4, <1>5, <2>1
             DEF OrderingIInv, OneAtATime, ChoiceHolds, tables
  <1>6. CASE r.isNew = FALSE
    <2>1. batch[b].status # "NONE" /\ Eligible(o, b) /\ r.close = ShouldClose(o, b)
      BY <1>3, <1>6 DEF Open
    <2>2. SeesFull(r)'
      BY <1>3, <1>4, <2>1 DEF SeesFull, LimitOf, ShouldClose
    <2>3. ChoiceHolds(r)'
      BY <1>1, <1>3, <1>4, <1>6, <2>1, <2>2 DEF ChoiceHolds, tables
    <2>. QED BY <1>2, <1>3, <2>3 DEF OrderingIInv, OneAtATime
  <1>. QED BY <1>3, <1>5, <1>6

(* ... and tells what its commit makes of the batches.                      *)
LEMMA CommitAddsOne ==
  ASSUME OrderingIInv, NEW r \in readying, ReadyCommit(r)
  PROVE  /\ r.order \in Orders /\ r.batch \in Batches /\ readying' = {}
         /\ OrdersOf(r.batch)' = OrdersOf(r.batch) \cup {r.order}
         /\ \A b \in Batches : b # r.batch => OrdersOf(b)' = OrdersOf(b) \ {r.order}
         /\ \A b \in Batches : batch'[b].status = "NONE" => batch[b].status = "NONE"
         /\ batch'[r.batch].status # "NONE"
         /\ \A b \in Batches : b # r.batch => batch'[b] = batch[b]
         /\ \A o \in Orders : o # r.order => order'[o] = order[o]
         /\ order'[r.order].batch = r.batch
         /\ order'[r.order].status = "READY_FOR_DELIVERY"
  <1>1. /\ order \in [Orders -> OrderRow] /\ batch \in [Batches -> BatchRow]
        /\ r.order \in Orders /\ r.batch \in Batches /\ r.isNew \in BOOLEAN
    BY DEF OrderingIInv, OrderBatchingTypeOK, TablesTypeOK, OrderingTypeOK, Readying
  <1>2. readying' = {}
    BY DEF OrderingIInv, OneAtATime, ReadyCommit
  <1>3. /\ \A o \in Orders : o # r.order => order'[o] = order[o]
        /\ order'[r.order].batch = r.batch
        /\ order'[r.order].status = "READY_FOR_DELIVERY"
    BY <1>1 DEF ReadyCommit, OrderRow
  <1>4. /\ \A b \in Batches : b # r.batch => batch'[b] = batch[b]
        /\ batch'[r.batch].status = IF r.isNew THEN "PENDING" ELSE batch[r.batch].status
    BY <1>1 DEF ReadyCommit, BatchRow
  <1>5. ~ r.isNew => batch[r.batch].status # "NONE"
    BY DEF OrderingIInv, ChoiceHolds
  <1>6. OrdersOf(r.batch)' = OrdersOf(r.batch) \cup {r.order}
    BY <1>1, <1>3 DEF OrdersOf
  <1>7. \A b \in Batches : b # r.batch => OrdersOf(b)' = OrdersOf(b) \ {r.order}
    BY <1>1, <1>3 DEF OrdersOf
  <1>. QED BY <1>1, <1>2, <1>3, <1>4, <1>5, <1>6, <1>7

(* The batch chosen is empty, or has room for the order and its shop.       *)
LEMMA ChosenHasRoom ==
  ASSUME OrderingIInv, NEW r \in readying, ReadyCommit(r)
  PROVE  \/ OrdersOf(r.batch) = {}
         \/ /\ Cardinality(OrdersOf(r.batch)) < GroceryMax
            /\ \A m \in OrdersOf(r.batch) : Shop[m] = Shop[r.order]
  <1>1. r.order \in Orders /\ r.batch \in Batches /\ r.isNew \in BOOLEAN
    BY DEF OrderingIInv, OrderBatchingTypeOK, OrderingTypeOK, Readying
  <1>2. CASE r.isNew
    <2>1. batch[r.batch].status = "NONE"
      BY <1>2 DEF OrderingIInv, ChoiceHolds
    <2>2. OrdersOf(r.batch) = {}
      BY <1>1, <2>1, TablesAssumption DEF OrderingIInv, BatchedRowsExist, OrdersOf
    <2>. QED BY <2>2
  <1>3. CASE ~ r.isNew
    <2>1. Eligible(r.order, r.batch)
      BY <1>3 DEF OrderingIInv, ChoiceHolds
    <2>2. IsFiniteSet(OrdersOf(r.batch)) /\ Cardinality(OrdersOf(r.batch)) \in Nat
      BY <1>1, FS_CardinalityType DEF OrderingIInv, SizesAreBounded
    <2>. QED BY <2>1, <2>2, BatchingAssumption DEF Eligible
  <1>. QED BY <1>1, <1>2, <1>3

LEMMA CommitKeepsInvariant ==
  ASSUME OrderingIInv, NEW r \in readying, ReadyCommit(r), OrderBatchingTypeOK'
  PROVE  OrderingIInv'
  <1>. USE CommitAddsOne
  <1>0. /\ \A b \in Batches : IsFiniteSet(OrdersOf(b)) /\ Cardinality(OrdersOf(b)) <= GroceryMax
        /\ \A o \in Orders : order[o].batch \in Batches \cup {None}
    BY DEF OrderingIInv, SizesAreBounded, OrderBatchingTypeOK, TablesTypeOK, OrderRow
  <1>1. SizesAreBounded'
    <2>1. ASSUME NEW b \in Batches, b # r.batch
          PROVE  IsFiniteSet(OrdersOf(b)') /\ Cardinality(OrdersOf(b)') <= GroceryMax
      <3>. DEFINE S == OrdersOf(b)
                  T == S \ {r.order}
      <3>1. IsFiniteSet(S) /\ Cardinality(S) <= GroceryMax /\ Cardinality(S) \in Nat
        BY <1>0, FS_CardinalityType
      <3>2. IsFiniteSet(T) /\ Cardinality(T) <= Cardinality(S) /\ Cardinality(T) \in Nat
        BY <3>1, FS_Subset, FS_CardinalityType
      <3>3. Cardinality(T) <= GroceryMax
        <4>. HIDE DEF S, T
        <4>. QED BY <3>1, <3>2, BatchingAssumption
      <3>. QED BY <2>1, <3>2, <3>3
    <2>2. IsFiniteSet(OrdersOf(r.batch)') /\ Cardinality(OrdersOf(r.batch)') <= GroceryMax
      <3>. DEFINE S == OrdersOf(r.batch)
                  T == S \cup {r.order}
      <3>1. IsFiniteSet(S) /\ Cardinality(S) \in Nat
        BY <1>0, FS_CardinalityType
      <3>2. IsFiniteSet(T) /\ Cardinality(T) <= Cardinality(S) + 1 /\ Cardinality(T) \in Nat
        <4>1. IsFiniteSet(T)
              /\ Cardinality(T) = IF r.order \in S THEN Cardinality(S) ELSE Cardinality(S) + 1
          BY <3>1, FS_AddElement
        <4>. HIDE DEF S, T
        <4>. QED BY <3>1, <4>1
      <3>3. Cardinality(S) = 0 \/ Cardinality(S) < GroceryMax
        BY ChosenHasRoom, FS_EmptySet
      <3>4. Cardinality(T) <= GroceryMax
        <4>. HIDE DEF S, T
        <4>. QED BY <3>1, <3>2, <3>3, BatchingAssumption
      <3>. QED BY <3>2, <3>4
    <2>. QED BY <2>1, <2>2 DEF SizesAreBounded
  <1>2. OneVendorPerBatch'
    <2>1. \A m \in Orders : order[m].batch = r.batch => Shop[m] = Shop[r.order]
      BY ChosenHasRoom DEF OrdersOf
    <2>2. ASSUME NEW a \in Orders, NEW o \in Orders, order'[a].batch = order'[o].batch,
                 order'[a].batch # None
          PROVE  Shop[a] = Shop[o]
      <3>1. CASE a = r.order
        BY <2>1, <2>2, <3>1
      <3>2. CASE o = r.order
        BY <2>1, <2>2, <3>2
      <3>3. CASE a # r.order /\ o # r.order
        BY <2>2, <3>3 DEF OrderingIInv, OneVendorPerBatch
      <3>. QED BY <3>1, <3>2, <3>3
    <2>. QED BY <2>2 DEF OneVendorPerBatch
  <1>3. BatchedRowsExist'
    <2>. SUFFICES ASSUME NEW o \in Orders, order'[o].batch # None
                  PROVE  batch'[order'[o].batch].status # "NONE"
      BY DEF BatchedRowsExist
    <2>1. CASE o = r.order
      BY <2>1
    <2>2. CASE o # r.order
      <3>1. order'[o].batch = order[o].batch /\ order[o].batch \in Batches
        BY <1>0, <2>2
      <3>2. batch[order[o].batch].status # "NONE"
        BY <3>1, TablesAssumption DEF OrderingIInv, BatchedRowsExist
      <3>. QED BY <3>1, <3>2
    <2>. QED BY <2>1, <2>2
  <1>4. OneAtATime' /\ \A r2 \in readying' : ChoiceHolds(r2)'
    BY DEF OneAtATime
  <1>. QED BY <1>1, <1>2, <1>3, <1>4 DEF OrderingIInv

LEMMA OrderingIInvInit == OrdersPlaced => OrderingIInv
  <1>. SUFFICES ASSUME OrdersPlaced PROVE OrderingIInv
    OBVIOUS
  <1>1. \A o \in Orders : order[o].batch = None
    BY DEF OrdersPlaced, TablesInit
  <1>2. \A b \in Batches : OrdersOf(b) = {}
    BY <1>1, TablesAssumption DEF OrdersOf
  <1>3. SizesAreBounded
    BY <1>2, FS_EmptySet, BatchingAssumption DEF SizesAreBounded
  <1>. QED BY <1>1, <1>3, OrdersPlacedHaveTypes
           DEF OrdersPlaced, OrderingInit, OrderingIInv, OneVendorPerBatch, BatchedRowsExist,
               OneAtATime

LEMMA OrderingIInvNext == OrderingIInv /\ [OrderingNext]_allOrderingVars => OrderingIInv'
  <1>1. ASSUME OrderingIInv, OrderingNext PROVE OrderingIInv'
    <2>1. OrderBatchingTypeOK'
      BY <1>1, OrderingKeepsTypes DEF OrderingIInv
    <2>2. OrderBatchingTypeOK
      BY <1>1 DEF OrderingIInv
    <2>. QED BY <1>1, <2>1, <2>2, QuietSteps, QuietKeepsInvariant, BeginKeepsInvariant,
                CommitKeepsInvariant
  <1>2. ASSUME OrderingIInv, UNCHANGED allOrderingVars PROVE OrderingIInv'
    <2>1. OrderBatchingTypeOK' /\ Quiet
      BY <1>2 DEF OrderingIInv, OrderBatchingTypeOK, TablesTypeOK, OrderingTypeOK, Quiet,
                  allOrderingVars, tables, orderingVars
    <2>. QED BY <1>2, <2>1, QuietKeepsInvariant
  <1>. QED BY <1>1, <1>2

(* The rows and the open transactions of vendorMarkReady always agree.      *)
THEOREM OrderingIInvCorrect == OrderingSpec => []OrderingIInv
  BY OrderingIInvInit, OrderingIInvNext, PTL DEF OrderingSpec

(* No batch is larger than the largest limit, whatever closes are lost      *)
(* (checkBatchEligibility).                                                 *)
THEOREM SizesBounded == OrderingSpec => []BatchSizeBounded
  <1>1. OrderingIInv => BatchSizeBounded
    BY DEF OrderingIInv, SizesAreBounded, BatchSizeBounded
  <1>. QED BY <1>1, OrderingIInvCorrect, PTL

(* One pickup serves a batch (checkBatchEligibility).                       *)
THEOREM BatchesHaveOneVendor == OrderingSpec => []OneVendorPerBatch
  <1>1. OrderingIInv => OneVendorPerBatch
    BY DEF OrderingIInv
  <1>. QED BY <1>1, OrderingIInvCorrect, PTL

-----------------------------------------------------------------------------
(* A transaction that fills a batch leaves its close behind.                *)

LEMMA FullNext ==
  ASSUME FoodMax > 1, OrderingIInv, FullBatchIsClosing, OrderingNext
  PROVE  FullBatchIsClosing'
  <1>. DEFINE FullOrLess(b) == Cardinality(OrdersOf(b)) >= LimitOf(OrdersOf(b))
              Closing(b) == faults > 0 \/ [step |-> "close", batch |-> b] \in post
  <1>0. /\ OrderBatchingTypeOK /\ faults \in Nat
        /\ FoodMax \in Nat /\ GroceryMax \in Nat /\ FoodMax <= GroceryMax
    BY TablesAssumption, BatchingAssumption DEF OrderingIInv, OrderBatchingTypeOK, TablesTypeOK
  <1>1. FullBatchIsClosing <=> \A b \in Batches : Open(b) /\ FullOrLess(b) => Closing(b)
    BY DEF FullBatchIsClosing, LimitOf
  <1>2. FullBatchIsClosing' <=>
           \A b \in Batches : Open(b)' /\ FullOrLess(b)' => Closing(b)'
    BY DEF FullBatchIsClosing, LimitOf
  <1>3. \A b \in Batches : IsFiniteSet(OrdersOf(b)) /\ Cardinality(OrdersOf(b)) \in Nat
    BY FS_CardinalityType DEF OrderingIInv, SizesAreBounded
  <1>4. CASE Quiet
    <2>. SUFFICES ASSUME NEW b \in Batches, Open(b)', FullOrLess(b)'
                  PROVE  Closing(b)'
      BY <1>2
    <2>1. OrdersOf(b)' = OrdersOf(b)
      BY <1>4, QuietKeepsMembers
    <2>2. FullOrLess(b)
      BY <2>1 DEF LimitOf
    <2>3. Open(b) /\ batch'[b].status = "PENDING"
      BY <1>4 DEF Quiet, Open
    <2>4. Closing(b)
      BY <1>1, <2>2, <2>3
    <2>5. faults' \in Nat
      BY <1>0, OrderingKeepsTypes, TablesAssumption DEF OrderBatchingTypeOK, TablesTypeOK
    <2>. QED BY <1>0, <1>4, <2>3, <2>4, <2>5 DEF Quiet
  <1>5. ASSUME NEW o \in Orders, NEW b \in Batches, ReadyBegin(o, b)
        PROVE  FullBatchIsClosing'
    BY <1>5 DEF ReadyBegin, tables, FullBatchIsClosing, OrdersOf, Open
  <1>6. ASSUME NEW r \in readying, ReadyCommit(r)
        PROVE  FullBatchIsClosing'
    <2>. SUFFICES ASSUME NEW b \in Batches, Open(b)', FullOrLess(b)'
                  PROVE  Closing(b)'
      BY <1>2
    <2>. USE CommitAddsOne
    <2>0. post \subseteq post' /\ UNCHANGED faults
      BY <1>6 DEF ReadyCommit
    <2>1. CASE b # r.batch
      <3>. DEFINE S == OrdersOf(b)
                  T == S \ {r.order}
      <3>1. Cardinality(T) <= Cardinality(S) /\ Cardinality(T) \in Nat
        BY <1>3, FS_Subset, FS_CardinalityType
      <3>2. LimitOf(S) <= LimitOf(T) /\ LimitOf(S) \in Nat /\ LimitOf(T) \in Nat
        BY <1>0 DEF LimitOf
      <3>3. OrdersOf(b)' = T
        BY <1>6, <2>1
      <3>4. Cardinality(T) >= LimitOf(T)
        BY <3>3 DEF LimitOf
      <3>5. Cardinality(S) >= LimitOf(S)
        <4>1. Cardinality(S) \in Nat
          BY <1>3
        <4>. HIDE DEF S, T
        <4>. QED BY <3>1, <3>2, <3>4, <4>1
      <3>6. Open(b)
        BY <1>6, <2>1 DEF Open
      <3>. QED BY <1>1, <2>0, <3>5, <3>6
    <2>2. CASE b = r.batch
      <3>. DEFINE S == OrdersOf(b)
                  T == S \cup {r.order}
      <3>1. /\ Cardinality(T) = IF r.order \in S THEN Cardinality(S) ELSE Cardinality(S) + 1
            /\ Cardinality(S) \in Nat
        BY <1>3, FS_AddElement
      <3>2. LimitOf(T) \in Nat /\ LimitOf(T) > 1
        BY <1>0 DEF LimitOf
      <3>3. OrdersOf(b)' = T
        BY <1>6, <2>2
      <3>4. Cardinality(T) >= LimitOf(T)
        BY <3>3 DEF LimitOf
      <3>5. Cardinality(S) + 1 >= LimitOf(T) /\ Cardinality(S) # 0
        <4>. HIDE DEF S, T
        <4>. QED BY <3>1, <3>2, <3>4
      <3>6. ~ r.isNew
        <4>. SUFFICES ASSUME r.isNew PROVE FALSE
          OBVIOUS
        <4>1. batch[b].status = "NONE"
          BY <2>2 DEF OrderingIInv, ChoiceHolds
        <4>2. S = {}
          BY <4>1, TablesAssumption DEF OrderingIInv, BatchedRowsExist, OrdersOf
        <4>. QED BY <3>5, <4>2, FS_EmptySet
      <3>7. r.close
        BY <2>2, <3>5, <3>6 DEF OrderingIInv, ChoiceHolds, SeesFull
      <3>8. [step |-> "close", batch |-> b] \in post'
        BY <1>6, <2>2, <3>7 DEF ReadyCommit
      <3>. QED BY <3>8
    <2>. QED BY <2>1, <2>2
  <1>. QED BY <1>0, <1>4, <1>5, <1>6, QuietSteps

(* No full batch waits for its timer: its close is on its way, although     *)
(* checkBatchEligibility and shouldCloseBatch use different limits.         *)
THEOREM FullBatchesClose ==
  ASSUME FoodMax > 1
  PROVE  OrderingSpec => []FullBatchIsClosing
  <1>1. OrdersPlaced => FullBatchIsClosing
    BY DEF OrdersPlaced, TablesInit, NoBatch, FullBatchIsClosing, Open
  <1>2. OrderingIInv /\ FullBatchIsClosing /\ [OrderingNext]_allOrderingVars
           => FullBatchIsClosing'
    <2>1. FullBatchIsClosing /\ UNCHANGED allOrderingVars => FullBatchIsClosing'
      BY DEF allOrderingVars, tables, FullBatchIsClosing, OrdersOf, Open
    <2>. QED BY <2>1, FullNext
  <1>. QED BY <1>1, <1>2, OrderingIInvCorrect, PTL DEF OrderingSpec

-----------------------------------------------------------------------------
(* The advisory lock.                                                       *)

LEMMA NewBatchNext ==
  ASSUME OrderingIInv, [OrderingNext]_allOrderingVars, NEW b \in Batches, NEW o \in Orders,
         batch[b].status = "NONE", batch'[b].status # "NONE", order'[o].batch = b,
         NEW c \in Batches, Open(c)
  PROVE  ~ Eligible(o, c)
  <1>0. OrderBatchingTypeOK
    BY DEF OrderingIInv
  <1>1. ~ Quiet
    BY DEF Quiet
  <1>2. \A p \in Orders, d \in Batches : ~ ReadyBegin(p, d)
    BY DEF ReadyBegin, tables
  <1>3. ~ UNCHANGED allOrderingVars
    BY DEF allOrderingVars, tables
  <1>4. PICK r \in readying : ReadyCommit(r)
    BY <1>0, <1>1, <1>2, <1>3, QuietSteps
  <1>5. r.batch = b /\ o = r.order
    <2>1. r.batch = b
      BY <1>4, CommitAddsOne
    <2>2. order[o].batch # b
      BY TablesAssumption DEF OrderingIInv, BatchedRowsExist
    <2>. QED BY <1>4, <2>1, <2>2, CommitAddsOne
  <1>6. r.isNew
    BY <1>5 DEF OrderingIInv, ChoiceHolds
  <1>. QED BY <1>5, <1>6 DEF OrderingIInv, ChoiceHolds

(* Two orders that become ready together never create two batches where one *)
(* would do (vendorMarkReady under pg_advisory_xact_lock).                  *)
THEOREM NoDuplicateBatch == OrderingSpec => NewBatchOnlyWhenNoneFits
  <1>1. OrderingIInv /\ [OrderingNext]_allOrderingVars =>
           [\A b \in Batches, o \in Orders :
               batch[b].status = "NONE" /\ batch'[b].status # "NONE" /\ order'[o].batch = b
               => \A c \in Batches : Open(c) => ~ Eligible(o, c)]_allOrderingVars
    BY NewBatchNext
  <1>. QED BY <1>1, OrderingIInvCorrect, PTL DEF OrderingSpec, NewBatchOnlyWhenNoneFits

-----------------------------------------------------------------------------
(* A second click. Without requests of vendorAcceptOrder under way, which   *)
(* write a status by id alone (run decision_race), an order in a batch      *)
(* cannot be claimed again.                                                 *)
Settled ==
    /\ decision = {}
    /\ \A o \in Orders : order[o].batch # None => order[o].status \notin READYABLE_STATUSES
    /\ \A r \in readying : order[r.order].batch = None

LEMMA SettledNext ==
  ASSUME Reviewed = {}, OrderingIInv, Settled, OrderingNext
  PROVE  /\ Settled'
         /\ \A o \in Orders : order[o].batch # None => order'[o].batch = order[o].batch
  <1>. DEFINE Final == \A o \in Orders : order[o].batch # None => order'[o].batch = order[o].batch
  <1>. USE DEF tables, orderingVars
  <1>1. ASSUME UNCHANGED <<order, decision>>, readying' \subseteq readying
        PROVE  Settled' /\ Final
    BY <1>1 DEF Settled
  <1>2. ASSUME NEW o \in Orders, NEW b \in Batches, ReadyBegin(o, b)
        PROVE  Settled' /\ Final
    <2>1. readying = {} /\ UNCHANGED <<order, decision>> /\ order[o].batch = None
      BY <1>2 DEF ReadyBegin, AdvisoryLockFree, Settled
    <2>2. \A r \in readying' : r.order = o
      BY <1>2, <2>1 DEF ReadyBegin
    <2>. QED BY <2>1, <2>2 DEF Settled
  <1>3. ASSUME NEW r \in readying, ReadyCommit(r)
        PROVE  Settled' /\ Final
    <2>1. decision' = {} /\ order[r.order].batch = None
      BY <1>3 DEF Settled, ReadyCommit
    <2>2. /\ readying' = {} /\ \A o \in Orders : o # r.order => order'[o] = order[o]
          /\ order'[r.order].status = "READY_FOR_DELIVERY"
      BY <1>3, CommitAddsOne
    <2>. QED BY <2>1, <2>2 DEF Settled, READYABLE_STATUSES
  <1>4. ASSUME NEW t \in post,
               \/ Schedule(t) \/ CloseFull(t) \/ Enqueue(t) \/ LoseTask(t)
        PROVE  Settled' /\ Final
    BY <1>1, <1>4 DEF Schedule, CloseFull, Enqueue, LoseTask
  <1>5. ASSUME NEW b \in Batches, CloseExpired(b) \/ TestBatch(b) \/ Tick(b)
        PROVE  Settled' /\ Final
    BY <1>1, <1>5 DEF CloseExpired, TestBatch, Tick
  <1>6. ASSUME NEW b \in timers, TimeoutFires(b) \/ LoseTimer(b)
        PROVE  Settled' /\ Final
    BY <1>1, <1>6 DEF TimeoutFires, LoseTimer
  <1>7. ASSUME NEW r \in readying, ReadyAbort(r)
        PROVE  Settled' /\ Final
    BY <1>1, <1>7 DEF ReadyAbort
  <1>8. /\ \A o, v : ~ DecisionRead(o, v)
        /\ \A c \in decision : ~ DecisionWrite(c)
    BY DEF DecisionRead, Settled
  <1>. QED BY <1>2, <1>3, <1>4, <1>5, <1>6, <1>7, <1>8 DEF OrderingNext

(* An order that has joined a batch stays in it (vendorMarkReady claims by   *)
(* status), as long as no vendor decides about an order at the same time.   *)
THEOREM BatchesAreFinal ==
  ASSUME Reviewed = {}
  PROVE  OrderingSpec => BatchOfReadyOrderIsFinal
  <1>1. OrdersPlaced => Settled
    BY DEF OrdersPlaced, TablesInit, OrderingInit, Settled
  <1>2. OrderingIInv /\ Settled /\ [OrderingNext]_allOrderingVars => Settled'
    <2>1. Settled /\ UNCHANGED allOrderingVars => Settled'
      BY DEF allOrderingVars, tables, orderingVars, Settled
    <2>. QED BY <2>1, SettledNext
  <1>3. OrderingIInv /\ Settled /\ [OrderingNext]_allOrderingVars =>
           [\A o \in Orders : order[o].batch # None
                              => order'[o].batch = order[o].batch]_allOrderingVars
    BY SettledNext
  <1>. QED BY <1>1, <1>2, <1>3, OrderingIInvCorrect, PTL
           DEF OrderingSpec, BatchOfReadyOrderIsFinal
=============================================================================
