--------------------------- MODULE RealtimeProofs ---------------------------
(***************************************************************************)
(* Proofs about Realtime, for any number of sockets, any number of returns *)
(* of the job to the pool, of requests under way and of failures.          *)
(***************************************************************************)
EXTENDS Realtime, TLAPS, SequenceTheorems

-----------------------------------------------------------------------------
(* Something that a request still has to do.                                *)
Pending(step) == \E w \in work : \E i \in DOMAIN w : w[i] = step

(* What has happened to the order, recorded or not.                         *)
Happened == log \cup InWork \cup cut

(* The events that are not recorded in the transaction of their change.     *)
LateKinds == {"order.accepted", "order.rejected", "order.delivery_issue",
              "job.recovered", "job.escalated"}

(* Request w projects and sends nothing that is not in the log, or that it  *)
(* does not record before; it projects whatever it records.                 *)
Ordered(w) ==
    /\ w # <<>>
    /\ \A i \in DOMAIN w :
          /\ w[i].do # "record" =>
                \/ w[i].event \in log
                \/ \E k \in DOMAIN w : k < i /\ w[k] = Do("record", w[i].event)
          /\ w[i].do = "record" =>
                /\ w[i].event.kind \in LateKinds
                /\ \E k \in DOMAIN w : k > i /\ w[k] = Do("project", w[i].event)

RequestsAreOrdered == \A w \in work : Ordered(w)

(* The timelines are projections of the log, and what they lack of it is    *)
(* still to be projected or was cut off.                                    *)
TimelineFollowsLog ==
    /\ timeline \subseteq log
    /\ \A e \in log \ timeline : e \in cut \/ Pending(Do("project", e))

(* One thing after the other: what is recorded in a transaction has what    *)
(* its guards ask for recorded before it.                                   *)
EventsInOrder ==
    /\ deciding # {} \/ Logged("order.ready") => Logged("order.created")
    /\ \A e \in log : e.kind = "order.ready" => e = OrderEvent("order.ready")
    /\ Logged("job.assigned") => Logged("order.ready")

(* The rows of order and job and the events recorded with them.             *)
RowsMatchLog ==
    /\ Logged("order.created") <=> status # "NONE"
    /\ Logged("job.assigned") <=> job # "NONE"
    /\ Logged("job.started") <=> job \in {"IN_PROGRESS", "COMPLETED"}
    /\ Logged("job.completed") <=> job = "COMPLETED"
    /\ Logged("order.completed") <=> job = "COMPLETED"

(* In which round the job was assigned, and returned to the pool.           *)
RoundsMatchLog ==
    /\ job \in {"ASSIGNED", "IN_PROGRESS", "COMPLETED"} => JobEvent("job.assigned") \in log
    /\ \A e \in log : e.kind = "job.assigned" =>
          e.round < round \/ (e.round = round /\ job \in {"ASSIGNED", "IN_PROGRESS", "COMPLETED"})
    /\ \A e \in Happened : e.kind = "job.recovered" => e.round < round

(* The status of the order is what the log says, or a decision over it.     *)
StatusIsTold ==
    \/ status = LoggedStatus
    \/ \E kind \in DecisionKinds : status = Verdict(kind) /\ OrderEvent(kind) \in Happened

RowsTellWhatHappened == EventsInOrder /\ RowsMatchLog /\ RoundsMatchLog /\ StatusIsTold

(* The inductive invariant of the requests.                                 *)
EventsInv ==
    /\ EventLogTypeOK
    /\ RequestsAreOrdered
    /\ TimelineFollowsLog
    /\ RowsTellWhatHappened

-----------------------------------------------------------------------------
(* A socket is in its rooms only after it has joined that of the user.      *)
JoinedInOrder ==
    \A s \in Sockets :
        /\ Past(s, "join") => "own" \in socket[s].rooms
        /\ socket[s].rooms # {} => Past(s, "join") \/ socket[s].at = "stuck"
        /\ socket[s].at = "stuck" => role = "VENDOR"

(* What a socket lacks of the messages to the user's own room will reach    *)
(* it, or was cut off.                                                      *)
LackedIsSent ==
    \A s \in Sockets : \A e \in LacksOwn(s) :
        Reaches(s, e) /\ (e \in cut \/ Pending(Do("send", e)))

(* What a deliverer's socket has to replay is newer than lastSeenAt, unless *)
(* another socket has set that.                                             *)
UnreadIsRecent ==
    role = "DELIVERER" =>
        \A s \in Sockets :
            \/ socket[s].outrun
            \/ socket[s].unread \subseteq (IF socket[s].at = "replay" THEN recent ELSE {})

SessionsInv == GatewaysTypeOK /\ JoinedInOrder /\ LackedIsSent /\ UnreadIsRecent

RealtimeIInv == EventsInv /\ SessionsInv

-----------------------------------------------------------------------------
(* What the lists of steps of a request contain.                            *)

LEMMA EventsHaveTypes ==
  ASSUME EventLogTypeOK
  PROVE  /\ \A k \in OrderKinds : OrderEvent(k) \in Event
         /\ \A k \in JobKinds : JobEvent(k) \in Event
         /\ \A e \in Event, d \in {"record", "project", "send"} : Do(d, e) \in Steps
  BY EventLogAssumption DEF EventLogTypeOK, OrderEvent, JobEvent, Event, Do, Steps

LEMMA SendingSteps ==
  ASSUME NEW e \in Event
  PROVE  /\ Sending(e) \in Seq(Steps)
         /\ Len(Sending(e)) \in {0, 1}
         /\ Len(Sending(e)) = 1 => Sending(e)[1] = Do("send", e)
         /\ role \in Addressees(e.kind) => Len(Sending(e)) = 1
  <1>1. CASE role \in Addressees(e.kind)
    BY <1>1 DEF Sending, Do, Steps
  <1>2. CASE role \notin Addressees(e.kind)
    BY <1>2 DEF Sending
  <1>. QED BY <1>1, <1>2

LEMMA RecordingSteps ==
  ASSUME NEW e \in Event
  PROVE  /\ Recording(e) \in Seq(Steps)
         /\ Len(Recording(e)) = 2
         /\ Recording(e)[1] = Do("record", e)
         /\ Recording(e)[2] = Do("project", e)
  BY DEF Recording, Do, Steps

(* A request that records e and then sends it.                              *)
LEMMA RecordingThenSending ==
  ASSUME NEW e \in Event, NEW w, w = Recording(e) \o Sending(e)
  PROVE  /\ w \in Seq(Steps)
         /\ Len(w) \in {2, 3}
         /\ w[1] = Do("record", e) /\ w[2] = Do("project", e)
         /\ Len(w) = 3 => w[3] = Do("send", e)
         /\ role \in Addressees(e.kind) => Len(w) = 3
  BY SendingSteps, RecordingSteps, ConcatProperties

(* A request that records j, records o and sends o.                         *)
LEMMA RecordingBothThenSending ==
  ASSUME NEW j \in Event, NEW o \in Event, NEW w, w = Recording(j) \o Recording(o) \o Sending(o)
  PROVE  /\ w \in Seq(Steps)
         /\ Len(w) \in {4, 5}
         /\ w[1] = Do("record", j) /\ w[2] = Do("project", j)
         /\ w[3] = Do("record", o) /\ w[4] = Do("project", o)
         /\ Len(w) = 5 => w[5] = Do("send", o)
         /\ role \in Addressees(o.kind) => Len(w) = 5
  <1>. DEFINE both == Recording(j) \o Recording(o)
  <1>1. /\ both \in Seq(Steps) /\ Len(both) = 4
        /\ both[1] = Do("record", j) /\ both[2] = Do("project", j)
        /\ both[3] = Do("record", o) /\ both[4] = Do("project", o)
    BY RecordingSteps, ConcatProperties
  <1>2. w = both \o Sending(o)
    OBVIOUS
  <1>. HIDE DEF both
  <1>3. /\ w \in Seq(Steps)
        /\ Len(w) = 4 + Len(Sending(o))
        /\ \A i \in 1..(4 + Len(Sending(o))) :
              w[i] = IF i <= 4 THEN both[i] ELSE Sending(o)[i - 4]
    <2>. DEFINE last == Sending(o)
    <2>1. last \in Seq(Steps) /\ Len(last) \in Nat /\ w = both \o last
      BY <1>2, SendingSteps
    <2>. HIDE DEF last
    <2>2. /\ both \o last \in Seq(Steps)
          /\ Len(both \o last) = Len(both) + Len(last)
          /\ \A i \in 1..(Len(both) + Len(last)) :
                (both \o last)[i] = IF i <= Len(both) THEN both[i] ELSE last[i - Len(both)]
      BY <1>1, <2>1, ConcatProperties
    <2>3. /\ w \in Seq(Steps)
          /\ Len(w) = 4 + Len(last)
          /\ \A i \in 1..(4 + Len(last)) : w[i] = IF i <= 4 THEN both[i] ELSE last[i - 4]
      BY <1>1, <2>1, <2>2
    <2>. QED BY <2>3 DEF last
  <1>4. /\ Len(Sending(o)) \in {0, 1}
        /\ Len(Sending(o)) = 1 => Sending(o)[1] = Do("send", o)
        /\ role \in Addressees(o.kind) => Len(Sending(o)) = 1
    BY SendingSteps
  <1>5. /\ w[1] = both[1] /\ w[2] = both[2] /\ w[3] = both[3] /\ w[4] = both[4]
        /\ Len(Sending(o)) = 1 => w[5] = Sending(o)[1]
    <2>1. PICK n \in {0, 1} : n = Len(Sending(o))
      BY <1>4
    <2>2. \A i \in 1..(4 + n) : w[i] = IF i <= 4 THEN both[i] ELSE Sending(o)[i - 4]
      BY <1>3, <2>1
    <2>3. {1, 2, 3, 4} \subseteq 1..(4 + n) /\ (n = 1 => 5 \in 1..(4 + n))
      BY <2>1
    <2>4. \A i \in {1, 2, 3, 4} : i <= 4
      OBVIOUS
    <2>5. \A i \in {1, 2, 3, 4} : w[i] = both[i]
      BY <2>2, <2>3, <2>4
    <2>6. n = 1 => w[5] = Sending(o)[1]
      <3>1. 5 - 4 = 1 /\ ~ (5 <= 4)
        OBVIOUS
      <3>. QED BY <2>2, <2>3, <3>1
    <2>. QED BY <2>1, <2>5, <2>6
  <1>6. /\ Len(w) \in {4, 5}
        /\ Len(w) = 5 => Len(Sending(o)) = 1
        /\ Len(Sending(o)) = 1 => Len(w) = 5
    BY <1>3, <1>4
  <1>7. w[1] = Do("record", j) /\ w[2] = Do("project", j)
    BY <1>1, <1>5
  <1>8. w[3] = Do("record", o) /\ w[4] = Do("project", o)
    BY <1>1, <1>5
  <1>9. Len(w) = 5 => w[5] = Do("send", o)
    BY <1>4, <1>5, <1>6
  <1>. QED BY <1>3, <1>4, <1>6, <1>7, <1>8, <1>9

-----------------------------------------------------------------------------
(* A request changes the rows: the events N happen. They are recorded with  *)
(* the change, or the request records them next.                            *)
Begins(N) ==
    /\ N \subseteq Event
    /\ UNCHANGED <<role, cut, faults>>
    /\ work \subseteq work'
    /\ \/ log' = log \cup N /\ timeline' = timeline \cup N
       \/ UNCHANGED <<log, timeline>>
    /\ \A w \in work' \ work :
          w \in Seq(Steps) /\ Ordered(w)' /\ \A i \in DOMAIN w : w[i].event \in N
    /\ \A e \in N : e \in log' \/ \E w \in work' : \E i \in DOMAIN w : w[i].event = e
    /\ \A e \in N : role \in Addressees(e.kind) => Pending(Do("send", e))'

(* The three forms of a request.                                            *)
LEMMA BeginsRecorded ==
  ASSUME NEW N \in SUBSET Event, NEW e \in N, RecordInTx(N), AndThen(Sending(e)),
         \A x \in N : role \in Addressees(x.kind) => x = e
  PROVE  Begins(N)
  <1>. DEFINE w == Sending(e)
  <1>1. w \in Seq(Steps) /\ Len(w) \in {0, 1} /\ (Len(w) = 1 => w[1] = Do("send", e))
        /\ (role \in Addressees(e.kind) => Len(w) = 1)
    BY SendingSteps
  <1>. HIDE DEF w
  <1>2. work' = work \cup ({w} \ {<<>>}) /\ UNCHANGED <<role, cut, faults>>
    BY DEF w, AndThen
  <1>3. e \in log' /\ log' = log \cup N /\ timeline' = timeline \cup N
    BY DEF RecordInTx
  <1>4. ASSUME NEW x \in work' \ work
        PROVE  x \in Seq(Steps) /\ Ordered(x)' /\ \A i \in DOMAIN x : x[i].event \in N
    <2>1. x = w /\ Len(w) = 1 /\ DOMAIN w = {1}
      BY <1>1, <1>2, <1>4
    <2>2. w # <<>> /\ w[1].do = "send" /\ w[1].event = e
      BY <2>1, <1>1 DEF Do
    <2>. QED BY <2>1, <2>2, <1>1, <1>3 DEF Ordered
  <1>5. ASSUME NEW x \in N, role \in Addressees(x.kind)
        PROVE  Pending(Do("send", x))'
    <2>1. x = e /\ Len(w) = 1 /\ w # <<>> /\ 1 \in DOMAIN w
      BY <1>5, <1>1
    <2>. QED BY <2>1, <1>1, <1>2 DEF Pending
  <1>. QED BY <1>2, <1>3, <1>4, <1>5 DEF Begins

LEMMA BeginsRecording ==
  ASSUME NEW e \in Event, e.kind \in LateKinds, NoRecord,
         \/ AndThen(Recording(e) \o Sending(e))
         \/ AndThen(Recording(e)) /\ role \notin Addressees(e.kind)
  PROVE  Begins({e})
  <1>1. PICK w : /\ AndThen(w)
                 /\ w \in Seq(Steps)
                 /\ Len(w) \in {2, 3}
                 /\ w[1] = Do("record", e) /\ w[2] = Do("project", e)
                 /\ Len(w) = 3 => w[3] = Do("send", e)
                 /\ role \in Addressees(e.kind) => Len(w) = 3
    <2>1. CASE AndThen(Recording(e) \o Sending(e))
      BY <2>1, RecordingThenSending
    <2>2. CASE AndThen(Recording(e)) /\ role \notin Addressees(e.kind)
      BY <2>2, RecordingSteps
    <2>. QED BY <2>1, <2>2
  <1>2. w # <<>> /\ DOMAIN w = 1..Len(w)
    BY <1>1
  <1>3. work' = work \cup {w} /\ UNCHANGED <<role, cut, faults, log, timeline>>
    BY <1>1, <1>2 DEF AndThen, NoRecord
  <1>4. Ordered(w)' /\ \A i \in DOMAIN w : w[i].event = e
    <2>1. {1, 2} \subseteq DOMAIN w /\ \A i \in DOMAIN w : i \in {1, 2, 3}
      BY <1>1, <1>2
    <2>2. \A i \in DOMAIN w : w[i].event = e /\ (w[i].do = "record" => i = 1)
      <3>1. 3 \in DOMAIN w => w[3] = Do("send", e)
        BY <1>1, <1>2
      <3>. QED BY <1>1, <2>1, <3>1 DEF Do
    <2>3. ASSUME NEW i \in DOMAIN w, w[i].do # "record"
          PROVE  1 < i
      BY <1>1, <2>1, <2>3 DEF Do
    <2>. QED BY <1>1, <1>2, <2>1, <2>2, <2>3 DEF Ordered
  <1>5. role \in Addressees(e.kind) => Pending(Do("send", e))'
    BY <1>1, <1>2, <1>3 DEF Pending
  <1>. QED BY <1>1, <1>2, <1>3, <1>4, <1>5 DEF Begins, Do

LEMMA BeginsRecordingBoth ==
  ASSUME NEW j \in Event, NEW o \in Event, j.kind \in LateKinds, o.kind \in LateKinds,
         NoRecord, role \notin Addressees(j.kind),
         AndThen(Recording(j) \o Recording(o) \o Sending(o))
  PROVE  Begins({j, o})
  <1>1. PICK w : /\ AndThen(w)
                 /\ w \in Seq(Steps)
                 /\ Len(w) \in {4, 5}
                 /\ w[1] = Do("record", j) /\ w[2] = Do("project", j)
                 /\ w[3] = Do("record", o) /\ w[4] = Do("project", o)
                 /\ Len(w) = 5 => w[5] = Do("send", o)
                 /\ role \in Addressees(o.kind) => Len(w) = 5
    <2>. DEFINE v == Recording(j) \o Recording(o) \o Sending(o)
    <2>1. /\ v \in Seq(Steps)
          /\ Len(v) \in {4, 5}
          /\ v[1] = Do("record", j) /\ v[2] = Do("project", j)
          /\ v[3] = Do("record", o) /\ v[4] = Do("project", o)
          /\ Len(v) = 5 => v[5] = Do("send", o)
          /\ role \in Addressees(o.kind) => Len(v) = 5
      BY RecordingBothThenSending
    <2>2. AndThen(v)
      OBVIOUS
    <2>. HIDE DEF v
    <2>. QED BY <2>1, <2>2
  <1>2. w # <<>> /\ DOMAIN w = 1..Len(w)
    BY <1>1
  <1>3. work' = work \cup {w} /\ UNCHANGED <<role, cut, faults, log, timeline>>
    BY <1>1, <1>2 DEF AndThen, NoRecord
  <1>4. Ordered(w)' /\ \A i \in DOMAIN w : w[i].event \in {j, o}
    <2>1. DOMAIN w \subseteq 1..5 /\ 1..4 \subseteq DOMAIN w
      BY <1>1, <1>2
    <2>2. \A i \in DOMAIN w : i \in {1, 2, 3, 4, 5} /\ (i = 5 => w[5] = Do("send", o))
      BY <1>1, <1>2
    <2>3. \A i \in DOMAIN w : w[i].event \in {j, o}
      BY <1>1, <2>2 DEF Do
    <2>4. ASSUME NEW i \in DOMAIN w, w[i].do # "record"
          PROVE  \E k \in DOMAIN w : k < i /\ w[k] = Do("record", w[i].event)
      BY <1>1, <2>1, <2>2, <2>4 DEF Do
    <2>5. ASSUME NEW i \in DOMAIN w, w[i].do = "record"
          PROVE  /\ w[i].event.kind \in LateKinds
                 /\ \E k \in DOMAIN w : k > i /\ w[k] = Do("project", w[i].event)
      BY <1>1, <2>1, <2>2, <2>5 DEF Do
    <2>. QED BY <1>2, <2>3, <2>4, <2>5 DEF Ordered
  <1>5. role \in Addressees(o.kind) => Pending(Do("send", o))'
    BY <1>1, <1>2, <1>3 DEF Pending
  <1>. QED BY <1>1, <1>2, <1>3, <1>4, <1>5 DEF Begins, Do

-----------------------------------------------------------------------------
(* What a new request keeps of the invariant, whatever happens.             *)

LEMMA InWorkHas ==
  /\ \A e : e \in InWork <=> \E w \in work : \E i \in DOMAIN w : w[i].event = e
  /\ \A e : e \in InWork' <=> \E w \in work' : \E i \in DOMAIN w : w[i].event = e
  BY DEF InWork, EventsOf

LEMMA StepsOfARequest ==
  ASSUME EventLogTypeOK, NEW w \in work, NEW i \in DOMAIN w
  PROVE  w \in Seq(Steps) /\ i \in 1..Len(w) /\ w[i] \in Steps /\ w[i].event \in Event
  <1>1. w \in Seq(Steps)
    BY DEF EventLogTypeOK
  <1>2. i \in 1..Len(w) /\ w[i] \in Steps
    BY <1>1, ElementOfSeq
  <1>. QED BY <1>1, <1>2 DEF Steps

LEMMA HappenedHasType == EventLogTypeOK => Happened \subseteq Event
  <1> SUFFICES ASSUME EventLogTypeOK, NEW e \in InWork
               PROVE  e \in Event
    BY DEF Happened, EventLogTypeOK
  <1>1. PICK w \in work : \E i \in DOMAIN w : w[i].event = e
    BY InWorkHas
  <1>. QED BY <1>1, StepsOfARequest

LEMMA BeginsKeepsEvents ==
  ASSUME EventLogTypeOK, RequestsAreOrdered, TimelineFollowsLog, NEW N, Begins(N)
  PROVE  /\ log' \subseteq Event /\ timeline' \subseteq Event /\ work' \subseteq Seq(Steps)
         /\ RequestsAreOrdered'
         /\ TimelineFollowsLog'
         /\ Happened' = Happened \cup N
         /\ Known' \subseteq Known \cup N
  <1>1. /\ work \subseteq work' /\ cut' = cut /\ log \subseteq log' /\ N \subseteq Event
        /\ log' \ timeline' \subseteq log \ timeline
        /\ log' \subseteq log \cup N /\ timeline' \subseteq timeline \cup N /\ timeline' \subseteq log'
    BY DEF Begins, TimelineFollowsLog
  <1>2. ASSUME NEW w \in work'
        PROVE  w \in Seq(Steps) /\ Ordered(w)'
    <2>1. CASE w \in work
      <3>1. Ordered(w)
        BY <2>1 DEF RequestsAreOrdered
      <3>. QED BY <2>1, <3>1, <1>1 DEF Ordered, EventLogTypeOK
    <2>2. CASE w \notin work
      BY <1>2, <2>2 DEF Begins
    <2>. QED BY <2>1, <2>2
  <1>3. TimelineFollowsLog'
    BY <1>1 DEF TimelineFollowsLog, Pending
  <1>4. \A e : e \in InWork' => e \in InWork \cup N
    <2> SUFFICES ASSUME NEW w \in work', NEW i \in DOMAIN w, w[i].event \notin N
                 PROVE  w[i].event \in InWork
      BY InWorkHas
    <2>1. w \in work
      BY DEF Begins
    <2>. QED BY <2>1, InWorkHas
  <1>5. \A e : e \in InWork => e \in InWork'
    BY <1>1, InWorkHas
  <1>6. \A e \in N : e \in log' \cup InWork'
    BY InWorkHas DEF Begins
  <1>7. Happened' = Happened \cup N
    BY <1>1, <1>4, <1>5, <1>6 DEF Happened
  <1>8. Known' \subseteq Known \cup N
    BY <1>1, <1>4 DEF Known
  <1>. QED BY <1>1, <1>2, <1>3, <1>7, <1>8 DEF RequestsAreOrdered, EventLogTypeOK

-----------------------------------------------------------------------------
(* The requests, one by one: which events happen, and what the rows tell.   *)

(* An event of the log counts as logged.                                    *)
LEMMA LoggedWhen == \A e \in log : Logged(e.kind)
  BY DEF Logged

LEMMA CreateHappens ==
  ASSUME EventsInv, CreateOrder
  PROVE  EventsInv' /\ \E N : Begins(N)
  <1>1. PICK e \in Event : e = OrderEvent("order.created")
    BY EventsHaveTypes DEF EventsInv, OrderKinds
  <1>2. Begins({e})
    BY <1>1, BeginsRecorded DEF CreateOrder
  <1>3. /\ log' \subseteq Event /\ timeline' \subseteq Event /\ work' \subseteq Seq(Steps)
        /\ RequestsAreOrdered' /\ TimelineFollowsLog' /\ Happened' = Happened \cup {e}
    BY <1>2, BeginsKeepsEvents DEF EventsInv
  <1>4. EventLogTypeOK'
    BY <1>3 DEF EventsInv, EventLogTypeOK, CreateOrder, AndThen
  <1>5. /\ \A k : Logged(k)' <=> Logged(k) \/ k = "order.created"
        /\ log' = log \cup {e}
    BY <1>1 DEF CreateOrder, RecordInTx, Logged, OrderEvent, JobEvent
  <1>6. EventsInOrder'
    BY <1>1, <1>5, LoggedWhen DEF EventsInv, RowsTellWhatHappened, EventsInOrder, RowsMatchLog,
                                  CreateOrder, OrderEvent, JobEvent
  <1>7. RowsMatchLog'
    BY <1>1, <1>5 DEF EventsInv, RowsTellWhatHappened, EventsInOrder, RowsMatchLog, CreateOrder
  <1>8. RoundsMatchLog'
    BY <1>1, <1>3, <1>5 DEF EventsInv, RowsTellWhatHappened, RowsMatchLog, RoundsMatchLog,
                            CreateOrder, OrderEvent, JobEvent
  <1>9. StatusIsTold'
    BY <1>1, <1>5, LoggedWhen DEF EventsInv, RowsTellWhatHappened, EventsInOrder, RowsMatchLog,
                                  CreateOrder, LoggedStatus, StatusIsTold
  <1>. QED BY <1>2, <1>3, <1>4, <1>6, <1>7, <1>8, <1>9 DEF EventsInv, RowsTellWhatHappened

(* A decision has yet to be written.                                        *)
LEMMA CheckHappens ==
  ASSUME EventsInv, NEW kind \in DecisionKinds, CheckDecision(kind)
  PROVE  EventsInv' /\ Begins({})
  <1>1. /\ UNCHANGED <<role, status, job, round, work, cut, faults, log, timeline>>
        /\ deciding' = deciding \cup {kind} /\ status # "NONE"
    BY DEF CheckDecision, NoRecord
  <1>2. Begins({})
    BY <1>1 DEF Begins
  <1>3. Happened' = Happened
    BY <1>1 DEF Happened, InWork
  <1>4. EventLogTypeOK'
    BY <1>1 DEF EventsInv, EventLogTypeOK
  <1>5. \A k : Logged(k)' <=> Logged(k)
    BY <1>1 DEF Logged
  <1>6. RequestsAreOrdered' /\ TimelineFollowsLog'
    BY <1>1 DEF EventsInv, RequestsAreOrdered, Ordered, TimelineFollowsLog, Pending
  <1>7. EventsInOrder'
    BY <1>1, <1>5 DEF EventsInv, RowsTellWhatHappened, EventsInOrder, RowsMatchLog
  <1>8. RowsMatchLog' /\ RoundsMatchLog' /\ StatusIsTold'
    BY <1>1, <1>3, <1>5 DEF EventsInv, RowsTellWhatHappened, RowsMatchLog, RoundsMatchLog,
                            StatusIsTold, LoggedStatus, JobEvent
  <1>. QED BY <1>2, <1>4, <1>6, <1>7, <1>8 DEF EventsInv, RowsTellWhatHappened

(* It is written over whatever the order has become.                        *)
LEMMA DecisionHappens ==
  ASSUME EventsInv, NEW kind \in DecisionKinds, WriteDecision(kind)
  PROVE  EventsInv' /\ \E N : Begins(N)
  <1>1. PICK e \in Event : e = OrderEvent(kind)
    BY EventsHaveTypes DEF EventsInv, OrderKinds, DecisionKinds
  <1>2. Begins({e})
    <2>1. e.kind \in LateKinds
      BY <1>1 DEF OrderEvent, LateKinds, DecisionKinds
    <2>. QED BY <1>1, <2>1, BeginsRecording DEF WriteDecision
  <1>3. /\ log' \subseteq Event /\ timeline' \subseteq Event /\ work' \subseteq Seq(Steps)
        /\ RequestsAreOrdered' /\ TimelineFollowsLog' /\ Happened' = Happened \cup {e}
    BY <1>2, BeginsKeepsEvents DEF EventsInv
  <1>4. EventLogTypeOK'
    BY <1>3 DEF EventsInv, EventLogTypeOK, WriteDecision, AndThen, Verdict
  <1>5. /\ UNCHANGED <<log, job, round>> /\ deciding' \subseteq deciding /\ kind \in deciding
        /\ status' = Verdict(kind) /\ status' # "NONE"
        /\ \A k : Logged(k)' <=> Logged(k)
    BY DEF WriteDecision, NoRecord, Logged, Verdict
  <1>6. EventsInOrder'
    BY <1>5 DEF EventsInv, RowsTellWhatHappened, EventsInOrder, OrderEvent
  <1>7. RowsMatchLog'
    BY <1>5 DEF EventsInv, RowsTellWhatHappened, EventsInOrder, RowsMatchLog
  <1>8. RoundsMatchLog'
    <2>1. e.kind # "job.recovered"
      BY <1>1 DEF OrderEvent, DecisionKinds
    <2>. QED BY <1>3, <1>5, <2>1 DEF EventsInv, RowsTellWhatHappened, RoundsMatchLog, JobEvent
  <1>9. StatusIsTold'
    BY <1>1, <1>3, <1>5 DEF StatusIsTold, Verdict, OrderEvent
  <1>. QED BY <1>2, <1>3, <1>4, <1>6, <1>7, <1>8, <1>9 DEF EventsInv, RowsTellWhatHappened

LEMMA ReadyHappens ==
  ASSUME EventsInv, MarkReady
  PROVE  EventsInv' /\ \E N : Begins(N)
  <1>1. PICK e \in Event : e = OrderEvent("order.ready")
    BY EventsHaveTypes DEF EventsInv, OrderKinds
  <1>2. Begins({e})
    BY <1>1, BeginsRecorded DEF MarkReady
  <1>3. /\ log' \subseteq Event /\ timeline' \subseteq Event /\ work' \subseteq Seq(Steps)
        /\ RequestsAreOrdered' /\ TimelineFollowsLog' /\ Happened' = Happened \cup {e}
    BY <1>2, BeginsKeepsEvents DEF EventsInv
  <1>4. EventLogTypeOK'
    BY <1>3 DEF EventsInv, EventLogTypeOK, MarkReady, AndThen
  <1>5. /\ \A k : Logged(k)' <=> Logged(k) \/ k = "order.ready"
        /\ log' = log \cup {e}
    BY <1>1 DEF MarkReady, RecordInTx, Logged, OrderEvent, JobEvent
  <1>6. EventsInOrder'
    BY <1>1, <1>5, LoggedWhen DEF EventsInv, RowsTellWhatHappened, EventsInOrder, RowsMatchLog,
                                  MarkReady, OrderEvent, JobEvent
  <1>7. RowsMatchLog'
    BY <1>1, <1>5 DEF EventsInv, RowsTellWhatHappened, EventsInOrder, RowsMatchLog, MarkReady
  <1>8. RoundsMatchLog'
    BY <1>1, <1>3, <1>5 DEF EventsInv, RowsTellWhatHappened, RowsMatchLog, RoundsMatchLog,
                            MarkReady, OrderEvent, JobEvent
  <1>9. StatusIsTold'
    <2>1. ~ Logged("job.assigned")
      BY LoggedWhen DEF MarkReady, EventsInv, RowsTellWhatHappened, EventsInOrder, Logged
    <2>2. ~ Logged("job.started") /\ ~ Logged("order.completed")
      BY <2>1 DEF EventsInv, RowsTellWhatHappened, RowsMatchLog
    <2>3. Logged("order.created")
      BY DEF MarkReady, EventsInv, RowsTellWhatHappened, RowsMatchLog
    <2>4. LoggedStatus' = "READY_FOR_DELIVERY"
      BY <1>5, <2>1, <2>2, <2>3 DEF LoggedStatus
    <2>. QED BY <2>4 DEF StatusIsTold, MarkReady
  <1>. QED BY <1>2, <1>3, <1>4, <1>6, <1>7, <1>8, <1>9 DEF EventsInv, RowsTellWhatHappened

LEMMA AssignmentHappens ==
  ASSUME EventsInv, AssignJob
  PROVE  EventsInv' /\ \E N : Begins(N)
  <1>1. PICK e \in Event : e = JobEvent("job.assigned")
    BY EventsHaveTypes DEF EventsInv, JobKinds
  <1>2. Begins({e})
    BY <1>1, BeginsRecorded DEF AssignJob
  <1>3. /\ log' \subseteq Event /\ timeline' \subseteq Event /\ work' \subseteq Seq(Steps)
        /\ RequestsAreOrdered' /\ TimelineFollowsLog' /\ Happened' = Happened \cup {e}
    BY <1>2, BeginsKeepsEvents DEF EventsInv
  <1>4. EventLogTypeOK'
    BY <1>3 DEF EventsInv, EventLogTypeOK, AssignJob, AndThen
  <1>5. /\ \A k : Logged(k)' <=> Logged(k) \/ k = "job.assigned"
        /\ log' = log \cup {e}
    BY <1>1 DEF AssignJob, RecordInTx, Logged, OrderEvent, JobEvent
  <1>6. EventsInOrder'
    BY <1>1, <1>5, LoggedWhen DEF EventsInv, RowsTellWhatHappened, EventsInOrder, RowsMatchLog,
                                  AssignJob, OrderEvent, JobEvent
  <1>a. Logged("order.ready") /\ Logged("order.created")
    <2>1. Logged("order.ready")
      BY DEF AssignJob, Logged, OrderEvent
    <2>. QED BY <2>1 DEF EventsInv, RowsTellWhatHappened, EventsInOrder
  <1>7. RowsMatchLog'
    BY <1>5, <1>a DEF EventsInv, RowsTellWhatHappened, RowsMatchLog, AssignJob
  <1>8. RoundsMatchLog'
    BY <1>1, <1>3, <1>5 DEF EventsInv, RowsTellWhatHappened, RowsMatchLog, RoundsMatchLog,
                            AssignJob, OrderEvent, JobEvent
  <1>9. StatusIsTold'
    <2>1. ~ Logged("job.started") /\ ~ Logged("order.completed")
      BY DEF EventsInv, RowsTellWhatHappened, RowsMatchLog, AssignJob
    <2>2. LoggedStatus' = "WAITING_FOR_DELIVERER"
      BY <1>5, <1>a, <2>1 DEF LoggedStatus
    <2>. QED BY <2>2 DEF StatusIsTold, AssignJob
  <1>. QED BY <1>2, <1>3, <1>4, <1>6, <1>7, <1>8, <1>9 DEF EventsInv, RowsTellWhatHappened

LEMMA StartHappens ==
  ASSUME EventsInv, StartJob
  PROVE  EventsInv' /\ \E N : Begins(N)
  <1>1. PICK e \in Event : e = JobEvent("job.started")
    BY EventsHaveTypes DEF EventsInv, JobKinds
  <1>2. Begins({e})
    BY <1>1, BeginsRecorded DEF StartJob, Unstarted
  <1>3. /\ log' \subseteq Event /\ timeline' \subseteq Event /\ work' \subseteq Seq(Steps)
        /\ RequestsAreOrdered' /\ TimelineFollowsLog' /\ Happened' = Happened \cup {e}
    BY <1>2, BeginsKeepsEvents DEF EventsInv
  <1>4. EventLogTypeOK'
    BY <1>3 DEF EventsInv, EventLogTypeOK, StartJob, Unstarted, AndThen
  <1>5. /\ \A k : Logged(k)' <=> Logged(k) \/ k = "job.started"
        /\ log' = log \cup {e}
    BY <1>1 DEF StartJob, Unstarted, RecordInTx, Logged, OrderEvent, JobEvent
  <1>6. EventsInOrder'
    BY <1>1, <1>5, LoggedWhen DEF EventsInv, RowsTellWhatHappened, EventsInOrder, RowsMatchLog,
                                  StartJob, Unstarted, OrderEvent, JobEvent
  <1>7. RowsMatchLog'
    BY <1>1, <1>5 DEF EventsInv, RowsTellWhatHappened, EventsInOrder, RowsMatchLog, StartJob, Unstarted
  <1>8. RoundsMatchLog'
    BY <1>1, <1>3, <1>5 DEF EventsInv, RowsTellWhatHappened, RowsMatchLog, RoundsMatchLog,
                            StartJob, Unstarted, OrderEvent, JobEvent
  <1>9. StatusIsTold'
    BY <1>1, <1>5, LoggedWhen DEF EventsInv, RowsTellWhatHappened, EventsInOrder, RowsMatchLog,
                                  StartJob, Unstarted, LoggedStatus, StatusIsTold
  <1>. QED BY <1>2, <1>3, <1>4, <1>6, <1>7, <1>8, <1>9 DEF EventsInv, RowsTellWhatHappened

(* The completion records two events, and sends that of the job.            *)
LEMMA CompletionHappens ==
  ASSUME EventsInv, CompleteJob
  PROVE  EventsInv' /\ \E N : Begins(N)
  <1>1. PICK e \in Event, o \in Event : e = JobEvent("job.completed") /\ o = OrderEvent("order.completed")
    BY EventsHaveTypes DEF EventsInv, JobKinds, OrderKinds
  <1>2. Begins({o, e})
    <2>1. role \notin Addressees(o.kind)
      BY <1>1 DEF Addressees, OrderEvent
    <2>. QED BY <1>1, <2>1, BeginsRecorded DEF CompleteJob
  <1>3. /\ log' \subseteq Event /\ timeline' \subseteq Event /\ work' \subseteq Seq(Steps)
        /\ RequestsAreOrdered' /\ TimelineFollowsLog' /\ Happened' = Happened \cup {o, e}
    BY <1>2, BeginsKeepsEvents DEF EventsInv
  <1>4. EventLogTypeOK'
    BY <1>3 DEF EventsInv, EventLogTypeOK, CompleteJob, AndThen
  <1>5. /\ \A k : Logged(k)' <=> Logged(k) \/ k \in {"order.completed", "job.completed"}
        /\ log' = log \cup {o, e}
    BY <1>1 DEF CompleteJob, RecordInTx, Logged, OrderEvent, JobEvent
  <1>6. EventsInOrder'
    BY <1>1, <1>5, LoggedWhen DEF EventsInv, RowsTellWhatHappened, EventsInOrder, RowsMatchLog,
                                  CompleteJob, OrderEvent, JobEvent
  <1>7. RowsMatchLog'
    BY <1>1, <1>5 DEF EventsInv, RowsTellWhatHappened, EventsInOrder, RowsMatchLog, CompleteJob
  <1>8. RoundsMatchLog'
    BY <1>1, <1>3, <1>5 DEF EventsInv, RowsTellWhatHappened, RowsMatchLog, RoundsMatchLog,
                            CompleteJob, OrderEvent, JobEvent
  <1>9. StatusIsTold'
    BY <1>1, <1>5, LoggedWhen DEF EventsInv, RowsTellWhatHappened, EventsInOrder, RowsMatchLog,
                                  CompleteJob, LoggedStatus, StatusIsTold
  <1>. QED BY <1>2, <1>3, <1>4, <1>6, <1>7, <1>8, <1>9 DEF EventsInv, RowsTellWhatHappened

LEMMA RecoveryHappens ==
  ASSUME EventsInv, RecoverJob
  PROVE  EventsInv' /\ \E N : Begins(N)
  <1>1. PICK e \in Event : e = JobEvent("job.recovered")
    BY EventsHaveTypes DEF EventsInv, JobKinds
  <1>2. Begins({e})
    <2>1. role \notin Addressees(e.kind) /\ e.kind \in LateKinds
      BY <1>1 DEF Addressees, JobEvent, LateKinds
    <2>. QED BY <1>1, <2>1, BeginsRecording DEF RecoverJob, Unstarted
  <1>3. /\ log' \subseteq Event /\ timeline' \subseteq Event /\ work' \subseteq Seq(Steps)
        /\ RequestsAreOrdered' /\ TimelineFollowsLog' /\ Happened' = Happened \cup {e}
    BY <1>2, BeginsKeepsEvents DEF EventsInv
  <1>4. EventLogTypeOK'
    BY <1>3, EventLogAssumption DEF EventsInv, EventLogTypeOK, RecoverJob, Unstarted, AndThen
  <1>5. /\ UNCHANGED <<log, deciding>> /\ job = "ASSIGNED" /\ job' = "PENDING"
        /\ status' = "WAITING_FOR_DELIVERER" /\ round' = round + 1
        /\ \A k : Logged(k)' <=> Logged(k)
    BY DEF RecoverJob, Unstarted, NoRecord, Logged
  <1>6. EventsInOrder'
    BY <1>5 DEF EventsInv, RowsTellWhatHappened, EventsInOrder, OrderEvent
  <1>7. RowsMatchLog'
    BY <1>5 DEF EventsInv, RowsTellWhatHappened, EventsInOrder, RowsMatchLog
  <1>8. RoundsMatchLog'
    <2>1. /\ round \in Nat /\ e.round = round
          /\ \A x \in Event : x.round \in Nat
      BY <1>1, EventLogAssumption DEF EventsInv, EventLogTypeOK, Event, JobEvent
    <2>2. log \subseteq Event /\ Happened \subseteq Event
      BY HappenedHasType DEF EventsInv, EventLogTypeOK
    <2>3. \A x \in log' : x.kind = "job.assigned" => x.round < round'
      BY <1>5, <2>1, <2>2 DEF EventsInv, RowsTellWhatHappened, RoundsMatchLog
    <2>4. \A x \in Happened' : x.kind = "job.recovered" => x.round < round'
      BY <1>3, <1>5, <2>1, <2>2 DEF EventsInv, RowsTellWhatHappened, RoundsMatchLog
    <2>. QED BY <1>5, <2>3, <2>4 DEF RoundsMatchLog
  <1>9. StatusIsTold'
    <2>1. /\ Logged("order.created") /\ Logged("order.ready")
          /\ Logged("job.assigned") /\ ~ Logged("job.started") /\ ~ Logged("order.completed")
      BY <1>5 DEF EventsInv, RowsTellWhatHappened, EventsInOrder, RowsMatchLog
    <2>2. LoggedStatus' = "WAITING_FOR_DELIVERER"
      BY <1>5, <2>1 DEF LoggedStatus
    <2>. QED BY <1>5, <2>2 DEF StatusIsTold
  <1>. QED BY <1>2, <1>3, <1>4, <1>6, <1>7, <1>8, <1>9 DEF EventsInv, RowsTellWhatHappened

LEMMA EscalationHappens ==
  ASSUME EventsInv, EscalateJob
  PROVE  EventsInv' /\ \E N : Begins(N)
  <1>1. PICK j \in Event, o \in Event :
           j = JobEvent("job.escalated") /\ o = OrderEvent("order.delivery_issue")
    BY EventsHaveTypes DEF EventsInv, JobKinds, OrderKinds
  <1>2. Begins({j, o})
    <2>1. role \notin Addressees(j.kind) /\ j.kind \in LateKinds /\ o.kind \in LateKinds
      BY <1>1 DEF Addressees, JobEvent, OrderEvent, LateKinds
    <2>. QED BY <1>1, <2>1, BeginsRecordingBoth DEF EscalateJob
  <1>3. /\ log' \subseteq Event /\ timeline' \subseteq Event /\ work' \subseteq Seq(Steps)
        /\ RequestsAreOrdered' /\ TimelineFollowsLog' /\ Happened' = Happened \cup {j, o}
    BY <1>2, BeginsKeepsEvents DEF EventsInv
  <1>4. EventLogTypeOK'
    BY <1>3 DEF EventsInv, EventLogTypeOK, EscalateJob, AndThen
  <1>5. UNCHANGED <<log, deciding, status, job, round>> /\ \A k : Logged(k)' <=> Logged(k)
    BY DEF EscalateJob, NoRecord, Logged
  <1>6. EventsInOrder'
    BY <1>5 DEF EventsInv, RowsTellWhatHappened, EventsInOrder, OrderEvent
  <1>7. RowsMatchLog'
    BY <1>5 DEF EventsInv, RowsTellWhatHappened, RowsMatchLog
  <1>8. RoundsMatchLog'
    <2>1. j.kind # "job.recovered" /\ o.kind # "job.recovered"
      BY <1>1 DEF OrderEvent, JobEvent
    <2>. QED BY <1>3, <1>5, <2>1 DEF EventsInv, RowsTellWhatHappened, RoundsMatchLog, JobEvent
  <1>9. StatusIsTold'
    BY <1>3, <1>5 DEF EventsInv, RowsTellWhatHappened, StatusIsTold, LoggedStatus
  <1>. QED BY <1>2, <1>3, <1>4, <1>6, <1>7, <1>8, <1>9 DEF EventsInv, RowsTellWhatHappened

-----------------------------------------------------------------------------
(* A request goes on, or is cut off: nothing happens that had not.          *)

(* What is left of request w after its first step.                          *)
LEMMA TailOfARequest ==
  ASSUME EventLogTypeOK, NEW w \in work, w # <<>>
  PROVE  /\ Head(w) = w[1] /\ w[1] \in Steps /\ 1 \in DOMAIN w
         /\ Tail(w) \in Seq(Steps)
         /\ DOMAIN w = 1..Len(w) /\ DOMAIN Tail(w) = 1..(Len(w) - 1) /\ Len(w) \in Nat \ {0}
         /\ \A i \in 1..(Len(w) - 1) : Tail(w)[i] = w[i + 1]
         /\ Tail(w) # <<>> <=> Len(w) > 1
  <1>1. w \in Seq(Steps)
    BY DEF EventLogTypeOK
  <1>2. /\ Tail(w) \in Seq(Steps)
        /\ Len(Tail(w)) = Len(w) - 1
        /\ \A i \in 1..Len(Tail(w)) : Tail(w)[i] = w[i + 1]
    BY <1>1, HeadTailProperties
  <1>3. Len(w) \in Nat \ {0} /\ DOMAIN w = 1..Len(w) /\ Head(w) = w[1]
    BY <1>1
  <1>4. w[1] \in Steps
    BY <1>1, <1>3, ElementOfSeq
  <1>5. DOMAIN Tail(w) = 1..(Len(w) - 1)
    BY <1>2
  <1>6. Tail(w) # <<>> <=> Len(w) > 1
    <2>1. Tail(w) = <<>> <=> Len(Tail(w)) = 0
      BY <1>2, EmptySeq
    <2>. QED BY <1>2, <1>3, <2>1
  <1>. QED BY <1>2, <1>3, <1>4, <1>5, <1>6

LEMMA ProceedKeepsOthers ==
  ASSUME EventLogTypeOK, RequestsAreOrdered, NEW w \in work, Proceed(w)
  PROVE  /\ work' \subseteq Seq(Steps)
         /\ \A step : Pending(step) => Pending(step)' \/ step = Head(w)
         /\ \A e : e \in InWork => e \in InWork' \/ e = Head(w).event
         /\ \A e : e \in InWork' => e \in InWork
  <1>1. w # <<>>
    BY DEF RequestsAreOrdered, Ordered
  <1>2. /\ Head(w) = w[1] /\ Tail(w) \in Seq(Steps)
        /\ DOMAIN w = 1..Len(w) /\ DOMAIN Tail(w) = 1..(Len(w) - 1) /\ Len(w) \in Nat \ {0}
        /\ \A i \in 1..(Len(w) - 1) : Tail(w)[i] = w[i + 1]
        /\ Tail(w) # <<>> <=> Len(w) > 1
    BY <1>1, TailOfARequest
  <1>3. \A v : v \in work' <=> (v \in work /\ v # w) \/ (v = Tail(w) /\ Len(w) > 1)
    BY <1>2 DEF Proceed
  <1>4. work' \subseteq Seq(Steps)
    BY <1>2, <1>3 DEF EventLogTypeOK
  <1>5. ASSUME NEW v \in work, NEW i \in DOMAIN v, v # w \/ i # 1
        PROVE  \E x \in work' : \E k \in DOMAIN x : x[k] = v[i]
    <2>1. CASE v # w
      BY <2>1, <1>3
    <2>2. CASE v = w
      <3>. i \in 1..Len(w) /\ i # 1
        BY <1>2, <1>5, <2>2
      <3>1. i - 1 \in DOMAIN Tail(w) /\ Tail(w)[i - 1] = w[i] /\ Len(w) > 1
        BY <1>2
      <3>2. Tail(w) \in work'
        BY <1>3, <3>1
      <3>. QED BY <3>1, <3>2, <2>2
    <2>. QED BY <2>1, <2>2
  <1>6. ASSUME NEW v \in work', NEW i \in DOMAIN v
        PROVE  \E x \in work : \E k \in DOMAIN x : x[k] = v[i]
    <2>1. CASE v \in work
      BY <2>1
    <2>2. CASE v \notin work
      <3>1. v = Tail(w) /\ i + 1 \in DOMAIN w /\ w[i + 1] = v[i]
        BY <1>2, <1>3, <2>2
      <3>. QED BY <3>1
    <2>. QED BY <2>1, <2>2
  <1>7. \A step : Pending(step) => Pending(step)' \/ step = Head(w)
    BY <1>2, <1>5 DEF Pending
  <1>8. \A e : e \in InWork => e \in InWork' \/ e = Head(w).event
    <2> SUFFICES ASSUME NEW v \in work, NEW i \in DOMAIN v, v # w \/ i # 1
                 PROVE  v[i].event \in InWork'
      BY <1>2, InWorkHas
    <2>1. PICK x \in work' : \E k \in DOMAIN x : x[k] = v[i]
      BY <1>5
    <2>. QED BY <2>1, InWorkHas
  <1>9. \A e : e \in InWork' => e \in InWork
    <2> SUFFICES ASSUME NEW v \in work', NEW i \in DOMAIN v
                 PROVE  v[i].event \in InWork
      BY InWorkHas
    <2>1. PICK x \in work : \E k \in DOMAIN x : x[k] = v[i]
      BY <1>6
    <2>. QED BY <2>1, InWorkHas
  <1>. QED BY <1>4, <1>7, <1>8, <1>9

LEMMA ProceedKeepsOrder ==
  ASSUME EventLogTypeOK, RequestsAreOrdered, NEW w \in work, Proceed(w),
         log \subseteq log', Head(w).do = "record" => Head(w).event \in log'
  PROVE  RequestsAreOrdered'
  <1>1. w # <<>> /\ Ordered(w)
    BY DEF RequestsAreOrdered, Ordered
  <1>2. /\ Head(w) = w[1] /\ Tail(w) \in Seq(Steps)
        /\ DOMAIN w = 1..Len(w) /\ DOMAIN Tail(w) = 1..(Len(w) - 1) /\ Len(w) \in Nat \ {0}
        /\ \A i \in 1..(Len(w) - 1) : Tail(w)[i] = w[i + 1]
        /\ Tail(w) # <<>> <=> Len(w) > 1
    BY <1>1, TailOfARequest
  <1>3. ASSUME NEW v \in work, v # w
        PROVE  Ordered(v)'
    BY <1>3 DEF RequestsAreOrdered, Ordered
  <1>4. ASSUME Len(w) > 1
        PROVE  Ordered(Tail(w))'
    <2>. DEFINE rest == Tail(w)
    <2>1. ASSUME NEW i \in DOMAIN rest, rest[i].do # "record"
          PROVE  \/ rest[i].event \in log'
                 \/ \E k \in DOMAIN rest : k < i /\ rest[k] = Do("record", rest[i].event)
      <3>1. i + 1 \in DOMAIN w /\ rest[i] = w[i + 1]
        BY <1>2
      <3>2. CASE w[i + 1].event \in log
        BY <3>1, <3>2
      <3>3. ASSUME NEW k \in DOMAIN w, k < i + 1, w[k] = Do("record", w[i + 1].event)
            PROVE  \/ rest[i].event \in log'
                   \/ \E n \in DOMAIN rest : n < i /\ rest[n] = Do("record", rest[i].event)
        <4>1. CASE k = 1
          BY <1>2, <3>1, <3>3, <4>1 DEF Do
        <4>2. CASE k # 1
          <5>1. k - 1 \in DOMAIN rest /\ k - 1 < i /\ rest[k - 1] = w[k]
            BY <1>2, <3>3, <4>2
          <5>. QED BY <5>1, <3>1, <3>3
        <4>. QED BY <4>1, <4>2
      <3>. QED BY <1>1, <2>1, <3>1, <3>2, <3>3 DEF Ordered
    <2>2. ASSUME NEW i \in DOMAIN rest, rest[i].do = "record"
          PROVE  /\ rest[i].event.kind \in LateKinds
                 /\ \E k \in DOMAIN rest : k > i /\ rest[k] = Do("project", rest[i].event)
      <3>1. i + 1 \in DOMAIN w /\ rest[i] = w[i + 1]
        BY <1>2
      <3>2. PICK k \in DOMAIN w : k > i + 1 /\ w[k] = Do("project", w[i + 1].event)
        BY <1>1, <2>2, <3>1 DEF Ordered
      <3>5. w[i + 1].event.kind \in LateKinds
        BY <1>1, <2>2, <3>1 DEF Ordered
      <3>3. k - 1 \in DOMAIN rest /\ k - 1 > i /\ rest[k - 1] = w[k]
        BY <1>2, <3>2
      <3>. QED BY <3>1, <3>2, <3>3, <3>5
    <2>3. rest # <<>>
      BY <1>2, <1>4
    <2>. QED BY <2>1, <2>2, <2>3 DEF Ordered
  <1>5. \A v \in work' : (v \in work /\ v # w) \/ (v = Tail(w) /\ Len(w) > 1)
    BY <1>2 DEF Proceed
  <1>. QED BY <1>3, <1>4, <1>5 DEF RequestsAreOrdered

(* Rows that do not change still match a log that grows by events that are  *)
(* recorded late.                                                           *)
LEMMA RowsKept ==
  ASSUME RowsTellWhatHappened, Happened' = Happened, UNCHANGED <<status, job, round>>,
         deciding' \subseteq deciding, log \subseteq log',
         \A e \in log' \ log : e.kind \in LateKinds
  PROVE  RowsTellWhatHappened'
  <1>1. \A k : k \notin LateKinds => (Logged(k)' <=> Logged(k))
    BY DEF Logged
  <1>2. \A e \in log' : e.kind \notin LateKinds => e \in log
    OBVIOUS
  <1>3. EventsInOrder'
    BY <1>1, <1>2 DEF RowsTellWhatHappened, EventsInOrder, LateKinds, OrderEvent
  <1>4. RowsMatchLog'
    BY <1>1 DEF RowsTellWhatHappened, RowsMatchLog, LateKinds
  <1>5. RoundsMatchLog'
    BY <1>2 DEF RowsTellWhatHappened, RoundsMatchLog, LateKinds, JobEvent
  <1>6. StatusIsTold'
    BY <1>1 DEF RowsTellWhatHappened, StatusIsTold, LoggedStatus, LateKinds
  <1>. QED BY <1>3, <1>4, <1>5, <1>6 DEF RowsTellWhatHappened

LEMMA RecordKeeps ==
  ASSUME EventsInv, NEW w \in work, Record(w)
  PROVE  /\ EventsInv'
         /\ Known' \subseteq Known
         /\ \A e : Pending(Do("send", e)) => Pending(Do("send", e))'
  <1>. USE DEF EventsInv
  <1>1. Head(w) \in Steps /\ Head(w).do = "record" /\ Ordered(w) /\ 1 \in DOMAIN w /\ Head(w) = w[1]
    BY TailOfARequest DEF Record, RequestsAreOrdered, Ordered
  <1>2. Head(w).event \in Event /\ Head(w).event.kind \in LateKinds
    BY <1>1 DEF Steps, Ordered
  <1>3. /\ work' \subseteq Seq(Steps)
        /\ \A step : Pending(step) => Pending(step)' \/ step = Head(w)
        /\ \A e : e \in InWork => e \in InWork' \/ e = Head(w).event
        /\ \A e : e \in InWork' => e \in InWork
    BY ProceedKeepsOthers DEF Record
  <1>4. log' = log \cup {Head(w).event} /\ UNCHANGED <<status, job, round, deciding, timeline, cut>>
    BY DEF Record
  <1>5. RequestsAreOrdered'
    BY <1>4, ProceedKeepsOrder DEF Record
  <1>6. EventLogTypeOK'
    BY <1>2, <1>3 DEF EventLogTypeOK, Record
  <1>7. Happened' = Happened
    BY <1>1, <1>3, <1>4, InWorkHas DEF Happened
  <1>8. RowsTellWhatHappened'
    BY <1>2, <1>4, <1>7, RowsKept
  <1>9. Pending(Do("project", Head(w).event))'
    <2>1. PICK k \in DOMAIN w : w[k] = Do("project", Head(w).event)
      BY <1>1 DEF Ordered
    <2>. QED BY <1>1, <1>3, <2>1 DEF Pending, Do
  <1>10. TimelineFollowsLog'
    <2>1. timeline' \subseteq log'
      BY <1>4 DEF TimelineFollowsLog
    <2>2. ASSUME NEW e \in log' \ timeline'
          PROVE  e \in cut' \/ Pending(Do("project", e))'
      <3>1. CASE e = Head(w).event
        BY <1>9, <3>1
      <3>2. CASE e # Head(w).event
        <4>1. e \in cut \/ Pending(Do("project", e))
          BY <1>4, <2>2, <3>2 DEF TimelineFollowsLog
        <4>2. Do("project", e) # Head(w)
          BY <1>1 DEF Do
        <4>. QED BY <1>3, <1>4, <4>1, <4>2
      <3>. QED BY <3>1, <3>2
    <2>. QED BY <2>1, <2>2 DEF TimelineFollowsLog
  <1>11. ASSUME NEW e, Pending(Do("send", e))
         PROVE  Pending(Do("send", e))'
    <2>1. Do("send", e) # Head(w)
      BY <1>1 DEF Do
    <2>. QED BY <1>3, <1>11, <2>1
  <1>12. Known' \subseteq Known
    <2>1. Head(w).event \in InWork
      BY <1>1, InWorkHas
    <2>. QED BY <1>3, <1>4, <2>1 DEF Known
  <1>. QED BY <1>5, <1>6, <1>8, <1>10, <1>11, <1>12

LEMMA ProjectKeeps ==
  ASSUME EventsInv, NEW w \in work, Project(w)
  PROVE  /\ EventsInv'
         /\ Known' \subseteq Known
         /\ \A e : Pending(Do("send", e)) => Pending(Do("send", e))'
  <1>. USE DEF EventsInv
  <1>1. Head(w) \in Steps /\ Head(w).do = "project" /\ Ordered(w) /\ 1 \in DOMAIN w /\ Head(w) = w[1]
    BY TailOfARequest DEF Project, RequestsAreOrdered, Ordered
  <1>2. w \in Seq(Steps) /\ DOMAIN w = 1..Len(w) /\ Head(w).event \in Event
    <2>1. w \in Seq(Steps) /\ DOMAIN w = 1..Len(w)
      BY DEF EventLogTypeOK
    <2>. QED BY <1>1, <2>1 DEF Steps
  <1>3. /\ work' \subseteq Seq(Steps)
        /\ \A step : Pending(step) => Pending(step)' \/ step = Head(w)
        /\ \A e : e \in InWork => e \in InWork' \/ e = Head(w).event
        /\ \A e : e \in InWork' => e \in InWork
    BY ProceedKeepsOthers DEF Project
  <1>4. timeline' = timeline \cup {Head(w).event} /\ UNCHANGED <<status, job, round, deciding, log, cut>>
    BY DEF Project, Projects
  <1>5. Head(w).event \in log
    <2>1. \A k \in DOMAIN w : ~ (k < 1)
      BY <1>2
    <2>. QED BY <1>1, <2>1 DEF Ordered
  <1>6. RequestsAreOrdered'
    BY <1>1, <1>4, ProceedKeepsOrder DEF Project
  <1>7. EventLogTypeOK'
    BY <1>2, <1>3, <1>4 DEF EventLogTypeOK, Project
  <1>8. Happened' = Happened
    BY <1>3, <1>4, <1>5 DEF Happened
  <1>9. RowsTellWhatHappened'
    BY <1>4, <1>8, RowsKept
  <1>10. TimelineFollowsLog'
    <2>1. timeline' \subseteq log'
      BY <1>4, <1>5 DEF TimelineFollowsLog
    <2>2. ASSUME NEW e \in log' \ timeline'
          PROVE  e \in cut' \/ Pending(Do("project", e))'
      <3>1. e \in cut \/ Pending(Do("project", e))
        BY <1>4, <2>2 DEF TimelineFollowsLog
      <3>2. Do("project", e) # Head(w)
        BY <1>4, <2>2 DEF Do
      <3>. QED BY <1>3, <1>4, <3>1, <3>2
    <2>. QED BY <2>1, <2>2 DEF TimelineFollowsLog
  <1>11. ASSUME NEW e, Pending(Do("send", e))
         PROVE  Pending(Do("send", e))'
    <2>1. Do("send", e) # Head(w)
      BY <1>1 DEF Do
    <2>. QED BY <1>3, <1>11, <2>1
  <1>12. Known' \subseteq Known
    BY <1>3, <1>4 DEF Known
  <1>. QED BY <1>6, <1>7, <1>9, <1>10, <1>11, <1>12

LEMMA SendKeeps ==
  ASSUME EventsInv, NEW w \in work, Send(w)
  PROVE  /\ EventsInv'
         /\ \A e : Pending(Do("send", e)) => Pending(Do("send", e))' \/ e = Head(w).event
  <1>. USE DEF EventsInv
  <1>1. Head(w) \in Steps /\ Head(w).do = "send" /\ Ordered(w) /\ 1 \in DOMAIN w /\ Head(w) = w[1]
    BY TailOfARequest DEF Send, RequestsAreOrdered, Ordered
  <1>2. w \in Seq(Steps) /\ DOMAIN w = 1..Len(w)
    BY DEF EventLogTypeOK
  <1>3. /\ work' \subseteq Seq(Steps)
        /\ \A step : Pending(step) => Pending(step)' \/ step = Head(w)
        /\ \A e : e \in InWork => e \in InWork' \/ e = Head(w).event
        /\ \A e : e \in InWork' => e \in InWork
    BY ProceedKeepsOthers DEF Send
  <1>4. UNCHANGED <<status, job, round, deciding, log, timeline, cut>>
    BY DEF Send
  <1>5. Head(w).event \in log
    <2>1. \A k \in DOMAIN w : ~ (k < 1)
      BY <1>2
    <2>. QED BY <1>1, <2>1 DEF Ordered
  <1>6. RequestsAreOrdered'
    BY <1>1, <1>4, ProceedKeepsOrder DEF Send
  <1>7. EventLogTypeOK'
    BY <1>3 DEF EventLogTypeOK, Send
  <1>8. Happened' = Happened
    BY <1>3, <1>4, <1>5 DEF Happened
  <1>9. RowsTellWhatHappened'
    BY <1>4, <1>8, RowsKept
  <1>10. TimelineFollowsLog'
    <2>1. ASSUME NEW e \in log' \ timeline'
          PROVE  e \in cut' \/ Pending(Do("project", e))'
      <3>1. e \in cut \/ Pending(Do("project", e))
        BY <1>4, <2>1 DEF TimelineFollowsLog
      <3>2. Do("project", e) # Head(w)
        BY <1>1 DEF Do
      <3>. QED BY <1>3, <1>4, <3>1, <3>2
    <2>. QED BY <1>4, <2>1 DEF TimelineFollowsLog
  <1>11. ASSUME NEW e, Pending(Do("send", e)), e # Head(w).event
         PROVE  Pending(Do("send", e))'
    <2>1. Do("send", e) # Head(w)
      BY <1>11 DEF Do
    <2>. QED BY <1>3, <1>11, <2>1
  <1>. QED BY <1>6, <1>7, <1>8, <1>9, <1>10, <1>11

(* Requests end before their time: what they had to do counts as cut off.   *)
LEMMA CutKeeps ==
  ASSUME EventsInv, NEW W \in SUBSET work, Fault, work' = work \ W,
         cut' = cut \cup UNION {EventsOf(w) : w \in W},
         deciding' \subseteq deciding, UNCHANGED <<role, status, job, round, log, timeline>>
  PROVE  /\ EventsInv'
         /\ \A e : Pending(Do("send", e)) => Pending(Do("send", e))' \/ e \in cut'
  <1>. USE DEF EventsInv
  <1>1. ASSUME NEW d, NEW e, Pending(Do(d, e))
        PROVE  Pending(Do(d, e))' \/ e \in cut'
    <2>1. PICK w \in work : \E i \in DOMAIN w : w[i] = Do(d, e)
      BY <1>1 DEF Pending
    <2>2. CASE w \in W
      BY <2>1, <2>2 DEF EventsOf, Do
    <2>3. CASE w \notin W
      BY <2>1, <2>3 DEF Pending
    <2>. QED BY <2>2, <2>3
  <1>2. Happened' = Happened
    BY DEF Happened, InWork
  <1>3. EventLogTypeOK'
    <2>1. cut' \subseteq Event
      BY <1>2, HappenedHasType DEF Happened
    <2>2. faults' \in 0..MaxFaults[role]
      BY EventLogAssumption DEF Fault, EventLogTypeOK
    <2>. QED BY <2>1, <2>2 DEF EventLogTypeOK
  <1>4. RequestsAreOrdered'
    BY DEF RequestsAreOrdered, Ordered
  <1>5. TimelineFollowsLog'
    BY <1>1 DEF TimelineFollowsLog
  <1>6. RowsTellWhatHappened'
    BY <1>2, RowsKept
  <1>. QED BY <1>1, <1>3, <1>4, <1>5, <1>6

-----------------------------------------------------------------------------
(* The order of a handshake.                                                *)

LEMMA DelivererHandshake ==
  ASSUME role = "DELIVERER"
  PROVE  /\ DOMAIN Handshake(role) = 1..5 /\ Len(Handshake(role)) = 5
         /\ Rank("replay") = 1 /\ Rank("mark") = 2 /\ Rank("join") = 3
         /\ Rank("context") = 4 /\ Rank("emit") = 5
         /\ Following("replay") = "mark" /\ Following("mark") = "join"
         /\ Following("join") = "context" /\ Following("context") = "emit"
         /\ Following("emit") = "ready"
  <1>1. /\ DOMAIN Handshake(role) = 1..5 /\ Len(Handshake(role)) = 5
        /\ Handshake(role)[1] = "replay" /\ Handshake(role)[2] = "mark" /\ Handshake(role)[3] = "join"
        /\ Handshake(role)[4] = "context" /\ Handshake(role)[5] = "emit"
    BY DEF Handshake
  <1>2. \A i \in 1..5 : i = 1 \/ i = 2 \/ i = 3 \/ i = 4 \/ i = 5
    OBVIOUS
  <1>3. /\ \A i \in DOMAIN Handshake(role) : Handshake(role)[i] = "replay" <=> i = 1
        /\ \A i \in DOMAIN Handshake(role) : Handshake(role)[i] = "mark" <=> i = 2
        /\ \A i \in DOMAIN Handshake(role) : Handshake(role)[i] = "join" <=> i = 3
        /\ \A i \in DOMAIN Handshake(role) : Handshake(role)[i] = "context" <=> i = 4
        /\ \A i \in DOMAIN Handshake(role) : Handshake(role)[i] = "emit" <=> i = 5
    BY <1>1, <1>2
  <1>4. Rank("replay") = 1 /\ Rank("mark") = 2 /\ Rank("join") = 3
    BY <1>1, <1>3 DEF Rank
  <1>5. Rank("context") = 4 /\ Rank("emit") = 5
    BY <1>1, <1>3 DEF Rank
  <1>6. 1 + 1 = 2 /\ 2 + 1 = 3 /\ 3 + 1 = 4 /\ 4 + 1 = 5
    OBVIOUS
  <1>7. Following("replay") = "mark" /\ Following("mark") = "join"
    BY <1>1, <1>4, <1>6 DEF Following
  <1>8. Following("join") = "context"
    BY <1>1, <1>4, <1>6 DEF Following
  <1>9. Following("context") = "emit" /\ Following("emit") = "ready"
    BY <1>1, <1>5, <1>6 DEF Following
  <1>. QED BY <1>1, <1>4, <1>5, <1>7, <1>8, <1>9

LEMMA OtherHandshakes ==
  ASSUME role # "DELIVERER"
  PROVE  /\ DOMAIN Handshake(role) = 1..5 /\ Len(Handshake(role)) = 5
         /\ Rank("mark") = 1 /\ Rank("join") = 2 /\ Rank("context") = 3
         /\ Rank("emit") = 4 /\ Rank("replay") = 5
         /\ Following("mark") = "join" /\ Following("join") = "context"
         /\ Following("context") = "emit" /\ Following("emit") = "replay"
         /\ Following("replay") = "ready"
  <1>1. /\ DOMAIN Handshake(role) = 1..5 /\ Len(Handshake(role)) = 5
        /\ Handshake(role)[1] = "mark" /\ Handshake(role)[2] = "join" /\ Handshake(role)[3] = "context"
        /\ Handshake(role)[4] = "emit" /\ Handshake(role)[5] = "replay"
    BY DEF Handshake
  <1>2. \A i \in 1..5 : i = 1 \/ i = 2 \/ i = 3 \/ i = 4 \/ i = 5
    OBVIOUS
  <1>3. /\ \A i \in DOMAIN Handshake(role) : Handshake(role)[i] = "mark" <=> i = 1
        /\ \A i \in DOMAIN Handshake(role) : Handshake(role)[i] = "join" <=> i = 2
        /\ \A i \in DOMAIN Handshake(role) : Handshake(role)[i] = "context" <=> i = 3
        /\ \A i \in DOMAIN Handshake(role) : Handshake(role)[i] = "emit" <=> i = 4
        /\ \A i \in DOMAIN Handshake(role) : Handshake(role)[i] = "replay" <=> i = 5
    BY <1>1, <1>2
  <1>4. Rank("mark") = 1 /\ Rank("join") = 2 /\ Rank("context") = 3
    BY <1>1, <1>3 DEF Rank
  <1>5. Rank("emit") = 4 /\ Rank("replay") = 5
    BY <1>1, <1>3 DEF Rank
  <1>. QED BY <1>1, <1>4, <1>5 DEF Following

(* The stages that lie behind a stage of the handshake.                     *)
After(stage) ==
    IF role = "DELIVERER"
      THEN CASE stage = "replay" -> {"mark", "join", "context", "emit", "ready"}
             [] stage = "mark" -> {"join", "context", "emit", "ready"}
             [] stage = "join" -> {"context", "emit", "ready"}
             [] stage = "context" -> {"emit", "ready"}
             [] stage = "emit" -> {"ready"}
      ELSE CASE stage = "mark" -> {"join", "context", "emit", "replay", "ready"}
             [] stage = "join" -> {"context", "emit", "replay", "ready"}
             [] stage = "context" -> {"emit", "replay", "ready"}
             [] stage = "emit" -> {"replay", "ready"}
             [] stage = "replay" -> {"ready"}

PastIsAfter ==
    \A s \in Sockets : \A stage \in {"replay", "mark", "join", "context", "emit"} :
        Past(s, stage) <=> socket[s].at \in After(stage)

LEMMA StagesInOrder == PastIsAfter
  <1> SUFFICES ASSUME NEW s \in Sockets, NEW stage \in {"replay", "mark", "join", "context", "emit"}
               PROVE  Past(s, stage) <=> socket[s].at \in After(stage)
    BY DEF PastIsAfter
  <1>1. InHandshake(s) <=> socket[s].at \in {"replay", "mark", "join", "context", "emit"}
    <2>1. \A i \in 1..5 : i = 1 \/ i = 2 \/ i = 3 \/ i = 4 \/ i = 5
      OBVIOUS
    <2>2. \A v : (\E i \in DOMAIN Handshake(role) : Handshake(role)[i] = v)
                    <=> v \in {"replay", "mark", "join", "context", "emit"}
      <3>1. CASE role = "DELIVERER"
        BY <2>1, <3>1 DEF Handshake
      <3>2. CASE role # "DELIVERER"
        BY <2>1, <3>2 DEF Handshake
      <3>. QED BY <3>1, <3>2
    <2>. QED BY <2>2 DEF InHandshake
  <1>2. Past(s, stage) <=> socket[s].at = "ready"
                            \/ (/\ socket[s].at \in {"replay", "mark", "join", "context", "emit"}
                                /\ Rank(socket[s].at) > Rank(stage))
    BY <1>1 DEF Past
  <1>3. CASE role = "DELIVERER"
    BY <1>2, <1>3, DelivererHandshake DEF After
  <1>4. CASE role # "DELIVERER"
    BY <1>2, <1>4, OtherHandshakes DEF After
  <1>. QED BY <1>3, <1>4

LEMMA StagesInOrderNext == PastIsAfter'
  BY StagesInOrder, PTL

-----------------------------------------------------------------------------
(* What the sockets keep when requests go on.                               *)

(* JoinedInOrder in terms of the stage of each socket.                      *)
LEMMA SessionsByStage ==
  JoinedInOrder <=>
      \A s \in Sockets :
          /\ socket[s].at \in After("join") => "own" \in socket[s].rooms
          /\ socket[s].rooms # {} => socket[s].at \in After("join") \cup {"stuck"}
          /\ socket[s].at = "stuck" => role = "VENDOR"
  BY StagesInOrder DEF JoinedInOrder, PastIsAfter

(* Whom an event for the user's own room concerns, it reaches.              *)
LEMMA ConcernedIsReached ==
  ASSUME JoinedInOrder, NEW s \in Sockets, NEW e, ~ ForJobRoom(e.kind), Concerns(s, e)
  PROVE  Reaches(s, e) /\ role \in Addressees(e.kind)
  <1>1. role \in Addressees(e.kind) /\ Past(s, "context")
    BY DEF Concerns
  <1>2. socket[s].at \in After("join")
    BY <1>1, StagesInOrder DEF PastIsAfter, After
  <1>3. "own" \in socket[s].rooms
    BY <1>2, SessionsByStage
  <1>. QED BY <1>1, <1>3 DEF Reaches

(* The sockets stay where they are; only what they lack may change.         *)
LEMMA StagesKept ==
  ASSUME GatewaysTypeOK, JoinedInOrder, UNCHANGED role, DOMAIN socket' = Sockets,
         \A s \in Sockets : \E l : socket'[s] = [socket[s] EXCEPT !.lacks = l]
  PROVE  JoinedInOrder'
  <1>1. ASSUME NEW s \in Sockets
        PROVE  socket'[s].at = socket[s].at /\ socket'[s].rooms = socket[s].rooms
    <2>1. socket[s] \in Socket
      BY DEF GatewaysTypeOK
    <2>. QED BY <2>1 DEF Socket
  <1>2. \A x \in {"replay", "mark", "join", "context", "emit"} : \A s \in Sockets : 
           Past(s, x) <=> Past(s, x)'
    <2>1. \A x : After(x)' = After(x)
      BY DEF After
    <2>. QED BY <1>1, <2>1, StagesInOrder, StagesInOrderNext DEF PastIsAfter
  <1>. QED BY <1>1, <1>2 DEF JoinedInOrder

LEMMA NotedKeepsSessions ==
  ASSUME SessionsInv, EventsInv', Noted, role' = role, cut' = cut, log \subseteq log',
         \A e : Pending(Do("send", e)) => Pending(Do("send", e))',
         \A e \in Known' \ Known : role \in Addressees(e.kind) => Pending(Do("send", e))'
  PROVE  SessionsInv'
  <1>. USE DEF EventsInv, SessionsInv
  <1>. DEFINE more(s) == {e \in Known' \ Known : Concerns(s, e)}
  <1>1. /\ socket \in [Sockets -> Socket]
        /\ socket' = [s \in Sockets |-> [socket[s] EXCEPT !.lacks = @ \cup more(s)]]
        /\ UNCHANGED <<online, seen>>
    BY DEF GatewaysTypeOK, Noted
  <1>2. Known' \subseteq Event
    <2>1. (EventLogTypeOK => Happened \subseteq Event)'
      BY HappenedHasType, PTL
    <2>. QED BY <2>1 DEF Known, Happened
  <1>3. ASSUME NEW s \in Sockets
        PROVE  /\ socket'[s] = [socket[s] EXCEPT !.lacks = socket[s].lacks \cup more(s)]
               /\ socket'[s] \in Socket
               /\ socket'[s].lacks = socket[s].lacks \cup more(s)
               /\ socket'[s].at = socket[s].at /\ socket'[s].rooms = socket[s].rooms
               /\ socket'[s].unread = socket[s].unread /\ socket'[s].outrun = socket[s].outrun
    <2>1. socket[s] \in Socket /\ more(s) \subseteq Event
      BY <1>1, <1>2
    <2>2. socket'[s] = [socket[s] EXCEPT !.lacks = socket[s].lacks \cup more(s)]
      BY <1>1
    <2>. HIDE DEF more
    <2>. QED BY <2>1, <2>2 DEF Socket
  <1>4. GatewaysTypeOK'
    <2>1. recent' \subseteq log'
      BY DEF Noted, GatewaysTypeOK
    <2>2. socket' \in [Sockets -> Socket]
      BY <1>1, <1>3
    <2>. QED BY <1>1, <2>1, <2>2 DEF GatewaysTypeOK
  <1>5. JoinedInOrder'
    <2>1. DOMAIN socket' = Sockets
      BY <1>1
    <2>. HIDE DEF more
    <2>. QED BY <1>1, <1>3, <2>1, StagesKept
  <1>6. LackedIsSent'
    <2> SUFFICES ASSUME NEW s \in Sockets, NEW e \in socket'[s].lacks, ~ ForJobRoom(e.kind)
                 PROVE  Reaches(s, e)' /\ (e \in cut' \/ Pending(Do("send", e))')
      BY DEF LackedIsSent, LacksOwn
    <2>1. Reaches(s, e)' <=> Reaches(s, e)
      BY <1>3 DEF Reaches, Addressees, ForJobRoom
    <2>2. CASE e \in socket[s].lacks
      BY <2>1, <2>2 DEF LackedIsSent, LacksOwn
    <2>3. CASE e \in Known' \ Known /\ Concerns(s, e)
      BY <1>2, <2>1, <2>3, ConcernedIsReached
    <2>. QED BY <1>3, <2>2, <2>3
  <1>7. UnreadIsRecent'
    <2>1. recent \subseteq recent'
      BY DEF Noted
    <2>. QED BY <1>3, <2>1 DEF UnreadIsRecent
  <1>. QED BY <1>4, <1>5, <1>6, <1>7

LEMMA SendKeepsSessions ==
  ASSUME EventsInv, SessionsInv, NEW w \in work, Send(w),
         \A e : Pending(Do("send", e)) => Pending(Do("send", e))' \/ e = Head(w).event
  PROVE  SessionsInv'
  <1>. USE DEF EventsInv, SessionsInv
  <1>. DEFINE got(s) == {x \in {Head(w).event} : Reaches(s, Head(w).event)}
  <1>1. /\ socket \in [Sockets -> Socket]
        /\ socket' = [s \in Sockets |-> [socket[s] EXCEPT !.lacks = @ \ got(s)]]
        /\ UNCHANGED <<online, seen, recent, role, log, cut>>
    BY DEF GatewaysTypeOK, Send
  <1>2. ASSUME NEW s \in Sockets
        PROVE  /\ socket'[s] = [socket[s] EXCEPT !.lacks = socket[s].lacks \ got(s)]
               /\ socket'[s] \in Socket
               /\ socket'[s].lacks = socket[s].lacks \ got(s)
               /\ socket'[s].at = socket[s].at /\ socket'[s].rooms = socket[s].rooms
               /\ socket'[s].unread = socket[s].unread /\ socket'[s].outrun = socket[s].outrun
    <2>1. socket[s] \in Socket
      BY <1>1
    <2>2. socket'[s] = [socket[s] EXCEPT !.lacks = socket[s].lacks \ got(s)]
      BY <1>1
    <2>. HIDE DEF got
    <2>. QED BY <2>1, <2>2 DEF Socket
  <1>3. GatewaysTypeOK'
    <2>1. socket' \in [Sockets -> Socket]
      BY <1>1, <1>2
    <2>. QED BY <1>1, <2>1 DEF GatewaysTypeOK
  <1>4. JoinedInOrder'
    <2>1. DOMAIN socket' = Sockets
      BY <1>1
    <2>. HIDE DEF got
    <2>. QED BY <1>1, <1>2, <2>1, StagesKept
  <1>5. LackedIsSent'
    <2> SUFFICES ASSUME NEW s \in Sockets, NEW e \in socket'[s].lacks, ~ ForJobRoom(e.kind)
                 PROVE  Reaches(s, e)' /\ (e \in cut' \/ Pending(Do("send", e))')
      BY DEF LackedIsSent, LacksOwn
    <2>1. Reaches(s, e)' <=> Reaches(s, e)
      BY <1>1, <1>2 DEF Reaches, Addressees, ForJobRoom
    <2>2. e \in socket[s].lacks /\ e \notin got(s)
      BY <1>2
    <2>3. Reaches(s, e) /\ (e \in cut \/ Pending(Do("send", e)))
      BY <2>2 DEF LackedIsSent, LacksOwn
    <2>4. e # Head(w).event
      BY <2>2, <2>3
    <2>. QED BY <1>1, <2>1, <2>3, <2>4
  <1>6. UnreadIsRecent'
    BY <1>1, <1>2 DEF UnreadIsRecent
  <1>. QED BY <1>3, <1>4, <1>5, <1>6

LEMMA CutKeepsSessions ==
  ASSUME SessionsInv, UNCHANGED <<sessionVars, role, log>>, cut \subseteq cut',
         \A e : Pending(Do("send", e)) => Pending(Do("send", e))' \/ e \in cut'
  PROVE  SessionsInv'
  <1>. USE DEF SessionsInv, sessionVars
  <1>1. GatewaysTypeOK'
    BY DEF GatewaysTypeOK
  <1>2. JoinedInOrder'
    BY DEF JoinedInOrder, Past, InHandshake, Rank, Handshake
  <1>3. LackedIsSent'
    BY DEF LackedIsSent, LacksOwn, Reaches, Addressees, ForJobRoom
  <1>4. UnreadIsRecent'
    BY DEF UnreadIsRecent
  <1>. QED BY <1>1, <1>2, <1>3, <1>4

-----------------------------------------------------------------------------
(* What the sockets keep when one of them moves.                            *)

(* A connection that is where its rooms say, in an order that is right.     *)
Sound(k) ==
    /\ k \in Socket
    /\ k.at \in After("join") => "own" \in k.rooms
    /\ k.rooms # {} => k.at \in After("join") \cup {"stuck"}
    /\ k.at = "stuck" => role = "VENDOR"

(* It is told no less than before, or waits for nothing.                    *)
Tells(k, l) == l.lacks = {} \/ (l.lacks \subseteq k.lacks /\ k.rooms \subseteq l.rooms)

(* It has still to replay only what is newer than lastSeenAt, or is outrun. *)
Replaying(k, newer) ==
    role = "DELIVERER" =>
        k.outrun \/ k.unread \subseteq (IF k.at = "replay" THEN newer ELSE {})

LEMMA GoneIsSound ==
  /\ Sound(Gone) /\ Gone.lacks = {} /\ Gone.unread = {}
  /\ Gone.at \notin After("join") /\ Gone.at # "stuck"
  /\ Sound([Gone EXCEPT !.at = "leaving"])
  /\ [Gone EXCEPT !.at = "leaving"].lacks = {} /\ [Gone EXCEPT !.at = "leaving"].unread = {}
  BY DEF Sound, Gone, Socket, Stage, After

LEMMA SocketMoves ==
  ASSUME SessionsInv, UNCHANGED <<role, log, work, cut>>,
         DOMAIN socket' = Sockets, online' \in BOOLEAN, seen' \in BOOLEAN, recent' \subseteq log,
         \A t \in Sockets :
            Sound(socket'[t]) /\ Tells(socket[t], socket'[t]) /\ Replaying(socket'[t], recent'),
         socket' = [t \in Sockets |-> socket'[t]]
  PROVE  SessionsInv'
  <1>1. \A x : After(x)' = After(x)
    BY DEF After
  <1>2. GatewaysTypeOK'
    <2>1. socket' \in [Sockets -> Socket]
      BY DEF Sound
    <2>. QED BY <2>1 DEF GatewaysTypeOK
  <1>3. JoinedInOrder'
    BY <1>1, StagesInOrderNext DEF Sound, JoinedInOrder, PastIsAfter
  <1>4. LackedIsSent'
    <2> SUFFICES ASSUME NEW t \in Sockets, NEW e \in socket'[t].lacks, ~ ForJobRoom(e.kind)
                 PROVE  Reaches(t, e)' /\ (e \in cut' \/ Pending(Do("send", e))')
      BY DEF LackedIsSent, LacksOwn
    <2>1. e \in socket[t].lacks /\ socket[t].rooms \subseteq socket'[t].rooms
      BY DEF Tells
    <2>2. Reaches(t, e) /\ (e \in cut \/ Pending(Do("send", e)))
      BY <2>1 DEF SessionsInv, LackedIsSent, LacksOwn
    <2>3. Reaches(t, e)'
      BY <2>1, <2>2 DEF Reaches, Addressees, ForJobRoom
    <2>4. Pending(Do("send", e)) => Pending(Do("send", e))'
      BY DEF Pending
    <2>. QED BY <2>2, <2>3, <2>4
  <1>5. UnreadIsRecent'
    BY DEF UnreadIsRecent, Replaying
  <1>. QED BY <1>2, <1>3, <1>4, <1>5 DEF SessionsInv

(* A socket that does not move is as it was.                                *)
LEMMA Unmoved ==
  ASSUME SessionsInv, NEW t \in Sockets
  PROVE  /\ socket[t] \in Socket /\ Sound(socket[t]) /\ Tells(socket[t], socket[t])
         /\ Replaying(socket[t], recent)
  <1>1. socket[t] \in Socket
    BY DEF SessionsInv, GatewaysTypeOK
  <1>2. Sound(socket[t])
    BY <1>1, SessionsByStage DEF SessionsInv, Sound
  <1>. QED BY <1>1, <1>2 DEF Tells, Replaying, SessionsInv, UnreadIsRecent

(* One socket moves and nothing else.                                       *)
LEMMA OneMoves ==
  ASSUME SessionsInv, UNCHANGED <<online, seen, recent, role, log, work, cut>>, NEW s \in Sockets,
         NEW k, socket' = [socket EXCEPT ![s] = k],
         Sound(k), Tells(socket[s], k), Replaying(k, recent)
  PROVE  SessionsInv'
  <1>1. socket \in [Sockets -> Socket] /\ online \in BOOLEAN /\ seen \in BOOLEAN /\ recent \subseteq log
    BY DEF SessionsInv, GatewaysTypeOK
  <1>2. /\ DOMAIN socket' = Sockets /\ socket' = [t \in Sockets |-> socket'[t]]
        /\ socket'[s] = k /\ \A t \in Sockets : t # s => socket'[t] = socket[t]
    BY <1>1
  <1>3. ASSUME NEW t \in Sockets
        PROVE  Sound(socket'[t]) /\ Tells(socket[t], socket'[t]) /\ Replaying(socket'[t], recent')
    <2>1. CASE t = s
      BY <1>2, <2>1
    <2>2. CASE t # s
      BY <1>2, <2>2, Unmoved
    <2>. QED BY <2>1, <2>2
  <1>. QED BY <1>1, <1>2, <1>3, SocketMoves

LEMMA ConnectKeeps ==
  ASSUME SessionsInv, EventLogTypeOK, NEW s \in Sockets, Connect(s)
  PROVE  SessionsInv'
  <1>1. PICK k : k = [Gone EXCEPT !.at = Handshake(role)[1], !.open = TRUE, !.unread = Replayed]
    OBVIOUS
  <1>2. /\ socket' = [socket EXCEPT ![s] = k]
        /\ UNCHANGED <<online, seen, recent, role, log, work, cut>>
    BY <1>1 DEF Connect, eventVars
  <1>3. Replayed \subseteq recent /\ recent \subseteq Event
    BY DEF Replayed, SessionsInv, GatewaysTypeOK, EventLogTypeOK
  <1>4. IF role = "DELIVERER" THEN Handshake(role)[1] = "replay" ELSE Handshake(role)[1] = "mark"
    BY DEF Handshake
  <1>5. k.at = Handshake(role)[1] /\ k.rooms = {} /\ k.lacks = {} /\ k.unread = Replayed
    BY <1>1 DEF Gone
  <1>6. k \in Socket
    BY <1>1, <1>3, <1>4 DEF Gone, Socket, Stage
  <1>. QED BY <1>2, <1>3, <1>4, <1>5, <1>6, OneMoves DEF Sound, Tells, Replaying, After

(* The steps of a handshake.                                                *)
LEMMA ReadReplayKeeps ==
  ASSUME SessionsInv, NEW s \in Sockets, ReadReplay(s)
  PROVE  SessionsInv'
  <1>1. PICK k : k = [socket[s] EXCEPT !.at = Following("replay"),
                                       !.unread = IF JobIsHeld THEN @ \ Replayed ELSE {}]
    OBVIOUS
  <1>2. /\ socket' = [socket EXCEPT ![s] = k]
        /\ UNCHANGED <<online, seen, recent, role, log, work, cut>>
    BY <1>1 DEF ReadReplay, eventVars
  <1>3. socket[s] \in Socket /\ Sound(socket[s]) /\ Replaying(socket[s], recent)
    BY Unmoved
  <1>4. socket[s].at = "replay"
    BY DEF ReadReplay
  <1>5. Following("replay") = IF role = "DELIVERER" THEN "mark" ELSE "ready"
    BY DelivererHandshake, OtherHandshakes
  <1>6. /\ k.at = Following("replay") /\ k.rooms = socket[s].rooms
        /\ k.lacks = socket[s].lacks /\ k.outrun = socket[s].outrun
        /\ k.unread = IF JobIsHeld THEN socket[s].unread \ Replayed ELSE {}
    BY <1>1, <1>3 DEF Socket
  <1>7. k \in Socket
    BY <1>1, <1>3, <1>5 DEF Socket, Stage
  <1>8. Sound(k) /\ Tells(socket[s], k)
    BY <1>3, <1>4, <1>5, <1>6, <1>7 DEF Sound, Tells, After
  <1>9. Replaying(k, recent)
    BY <1>3, <1>4, <1>6 DEF Replaying, Replayed
  <1>. QED BY <1>2, <1>8, <1>9, OneMoves

LEMMA JoinKeeps ==
  ASSUME SessionsInv, NEW s \in Sockets, Join(s)
  PROVE  SessionsInv'
  <1>1. PICK k : k = IF socket[s].open
                       THEN [socket[s] EXCEPT !.at = Following("join"), !.rooms = {"own"}]
                       ELSE Gone
    OBVIOUS
  <1>2. /\ socket' = [socket EXCEPT ![s] = k]
        /\ UNCHANGED <<online, seen, recent, role, log, work, cut>>
    BY <1>1 DEF Join, eventVars
  <1>3. socket[s] \in Socket /\ Sound(socket[s]) /\ Replaying(socket[s], recent)
    BY Unmoved
  <1>4. socket[s].at = "join" /\ Following("join") = "context" /\ socket[s].rooms = {}
    BY <1>3, DelivererHandshake, OtherHandshakes DEF Join, Sound, After
  <1>5. CASE socket[s].open
    <2>1. /\ k.at = "context" /\ k.rooms = {"own"} /\ k.lacks = socket[s].lacks
          /\ k.unread = socket[s].unread /\ k.outrun = socket[s].outrun
      BY <1>1, <1>3, <1>4, <1>5 DEF Socket
    <2>2. k \in Socket
      BY <1>1, <1>3, <1>4, <1>5 DEF Socket, Stage
    <2>3. Sound(k) /\ Tells(socket[s], k) /\ Replaying(k, recent)
      BY <1>3, <1>4, <2>1, <2>2 DEF Sound, Tells, Replaying, After
    <2>. QED BY <1>2, <2>3, OneMoves
  <1>6. CASE ~ socket[s].open
    BY <1>1, <1>2, <1>6, GoneIsSound, OneMoves DEF Tells, Replaying
  <1>. QED BY <1>5, <1>6

LEMMA ReadContextKeeps ==
  ASSUME SessionsInv, NEW s \in Sockets, ReadContext(s)
  PROVE  SessionsInv'
  <1>1. PICK k : k = [socket[s] EXCEPT !.at = Following("context"), !.found = ContextJob]
    OBVIOUS
  <1>2. /\ socket' = [socket EXCEPT ![s] = k]
        /\ UNCHANGED <<online, seen, recent, role, log, work, cut>>
    <2>1. socket \in [Sockets -> Socket]
      BY DEF SessionsInv, GatewaysTypeOK
    <2>2. PICK job0 : job0 = ContextJob
      OBVIOUS
    <2>3. socket' = [socket EXCEPT ![s].at = Following("context"), ![s].found = job0]
      BY <2>2 DEF ReadContext
    <2>4. k = [socket[s] EXCEPT !.at = Following("context"), !.found = job0]
      BY <1>1, <2>2
    <2>. QED BY <2>1, <2>3, <2>4 DEF ReadContext, eventVars, Socket
  <1>3. socket[s] \in Socket /\ Sound(socket[s]) /\ Replaying(socket[s], recent)
    BY Unmoved
  <1>4. socket[s].at = "context" /\ Following("context") = "emit" /\ ContextJob \in BOOLEAN
    BY DelivererHandshake, OtherHandshakes DEF ReadContext, ContextJob, JobIsHeld
  <1>. HIDE DEF ContextJob
  <1>5. /\ k.at = "emit" /\ k.rooms = socket[s].rooms /\ k.lacks = socket[s].lacks
        /\ k.unread = socket[s].unread /\ k.outrun = socket[s].outrun
    BY <1>1, <1>3, <1>4 DEF Socket
  <1>6. k \in Socket
    BY <1>1, <1>3, <1>4 DEF Socket, Stage
  <1>7. Sound(k) /\ Tells(socket[s], k) /\ Replaying(k, recent)
    BY <1>3, <1>4, <1>5, <1>6 DEF Sound, Tells, Replaying, After
  <1>. QED BY <1>2, <1>7, OneMoves

LEMMA EmitContextKeeps ==
  ASSUME SessionsInv, NEW s \in Sockets, EmitContext(s)
  PROVE  SessionsInv'
  <1>. DEFINE found == {r \in {"job"} : socket[s].found}
  <1>1. PICK k : k = [socket[s] EXCEPT !.at = Following("emit"), !.found = FALSE,
                                       !.rooms = @ \cup found]
    OBVIOUS
  <1>2. /\ socket' = [socket EXCEPT ![s] = k]
        /\ UNCHANGED <<online, seen, recent, role, log, work, cut>>
    <2>1. socket' = [socket EXCEPT ![s].at = Following("emit"), ![s].found = FALSE,
                                   ![s].rooms = @ \cup found]
      BY DEF EmitContext
    <2>2. socket \in [Sockets -> Socket]
      BY DEF SessionsInv, GatewaysTypeOK
    <2>. HIDE DEF found
    <2>3. socket' = [socket EXCEPT ![s] = k]
      BY <1>1, <2>1, <2>2 DEF Socket
    <2>. QED BY <2>3 DEF EmitContext, eventVars
  <1>3. socket[s] \in Socket /\ Sound(socket[s]) /\ Replaying(socket[s], recent)
    BY Unmoved
  <1>4. /\ socket[s].at = "emit"
        /\ Following("emit") = IF role = "DELIVERER" THEN "ready" ELSE "replay"
        /\ found \subseteq {"job"}
    BY DelivererHandshake, OtherHandshakes DEF EmitContext
  <1>. HIDE DEF found
  <1>5. /\ k.at = Following("emit") /\ k.rooms = socket[s].rooms \cup found
        /\ k.lacks = socket[s].lacks
        /\ k.unread = socket[s].unread /\ k.outrun = socket[s].outrun
    BY <1>1, <1>3 DEF Socket
  <1>6. k \in Socket
    BY <1>1, <1>3, <1>4 DEF Socket, Stage
  <1>7. Sound(k) /\ Tells(socket[s], k) /\ Replaying(k, recent)
    BY <1>3, <1>4, <1>5, <1>6 DEF Sound, Tells, Replaying, After
  <1>. QED BY <1>2, <1>7, OneMoves

(* The sockets of a client for which socket s has set lastSeenAt.           *)
LEMMA TouchedIsSound ==
  ASSUME SessionsInv, NEW s \in Sockets, NEW t \in Sockets, t # s
  PROVE  /\ Sound(Touched(s)[t]) /\ Tells(socket[t], Touched(s)[t])
         /\ Replaying(Touched(s)[t], {})
  <1>1. socket[t] \in Socket /\ Sound(socket[t]) /\ Replaying(socket[t], recent)
    BY Unmoved
  <1>2. CASE socket[t].at = "replay" /\ socket[t].unread # {}
    <2>1. PICK k : k = [socket[t] EXCEPT !.outrun = TRUE]
      OBVIOUS
    <2>2. Touched(s)[t] = k
      BY <1>2, <2>1 DEF Touched
    <2>3. /\ k \in Socket /\ k.at = socket[t].at /\ k.rooms = socket[t].rooms
          /\ k.lacks = socket[t].lacks /\ k.outrun = TRUE
      BY <1>1, <2>1 DEF Socket
    <2>. QED BY <1>1, <2>2, <2>3 DEF Sound, Tells, Replaying
  <1>3. CASE ~ (socket[t].at = "replay" /\ socket[t].unread # {})
    <2>1. Touched(s)[t] = socket[t]
      BY <1>3 DEF Touched
    <2>. QED BY <1>1, <1>3, <2>1 DEF Tells, Replaying
  <1>. QED BY <1>2, <1>3

(* A socket that sets lastSeenAt, and has its replay if it wants one.       *)
LEMMA ToucherMoves ==
  ASSUME SessionsInv, UNCHANGED <<role, log, work, cut>>, NEW s \in Sockets,
         online' \in BOOLEAN, Touch, NEW k, socket' = [Touched(s) EXCEPT ![s] = k],
         Sound(k), Tells(socket[s], k), Replaying(k, {})
  PROVE  SessionsInv'
  <1>1. /\ DOMAIN socket' = Sockets /\ socket' = [t \in Sockets |-> socket'[t]]
        /\ socket'[s] = k /\ \A t \in Sockets : t # s => socket'[t] = Touched(s)[t]
    BY DEF Touched
  <1>2. seen' = TRUE /\ recent' = {}
    BY DEF Touch
  <1>3. ASSUME NEW t \in Sockets
        PROVE  Sound(socket'[t]) /\ Tells(socket[t], socket'[t]) /\ Replaying(socket'[t], recent')
    <2>1. CASE t = s
      BY <1>1, <1>2, <2>1
    <2>2. CASE t # s
      BY <1>1, <1>2, <2>2, TouchedIsSound
    <2>. QED BY <2>1, <2>2
  <1>. QED BY <1>1, <1>2, <1>3, SocketMoves

LEMMA MarkOnlineKeeps ==
  ASSUME SessionsInv, NEW s \in Sockets, MarkOnline(s)
  PROVE  SessionsInv'
  <1>1. PICK k : k = [socket[s] EXCEPT !.at = Following("mark")]
    OBVIOUS
  <1>2. /\ online' = TRUE /\ Touch /\ UNCHANGED <<role, log, work, cut>>
        /\ socket' = [Touched(s) EXCEPT ![s] = k]
    <2>1. Touched(s)[s] = socket[s] /\ s \in DOMAIN Touched(s)
      BY DEF Touched
    <2>. QED BY <1>1, <2>1 DEF MarkOnline, eventVars
  <1>3. socket[s] \in Socket /\ Sound(socket[s]) /\ Replaying(socket[s], recent)
    BY Unmoved
  <1>4. socket[s].at = "mark" /\ Following("mark") = "join"
    BY DelivererHandshake, OtherHandshakes DEF MarkOnline
  <1>5. /\ k.at = "join" /\ k.rooms = socket[s].rooms /\ k.lacks = socket[s].lacks
        /\ k.unread = socket[s].unread /\ k.outrun = socket[s].outrun
    BY <1>1, <1>3, <1>4 DEF Socket
  <1>6. k \in Socket
    BY <1>1, <1>3, <1>4 DEF Socket, Stage
  <1>7. Sound(k) /\ Tells(socket[s], k) /\ Replaying(k, {})
    BY <1>3, <1>4, <1>5, <1>6 DEF Sound, Tells, Replaying, After
  <1>. QED BY <1>2, <1>7, ToucherMoves

LEMMA HeartbeatKeeps ==
  ASSUME SessionsInv, NEW s \in Sockets, Heartbeat(s)
  PROVE  SessionsInv'
  <1>1. /\ online' \in BOOLEAN /\ Touch /\ UNCHANGED <<role, log, work, cut>>
        /\ socket' = [Touched(s) EXCEPT ![s] = socket[s]]
    <2>1. Touched(s)[s] = socket[s] /\ Touched(s) = [t \in Sockets |-> Touched(s)[t]]
      BY DEF Touched
    <2>2. socket' = Touched(s)
      BY DEF Heartbeat
    <2>3. UNCHANGED <<online, role, log, work, cut>> /\ Touch
      BY DEF Heartbeat, eventVars
    <2>. QED BY <2>1, <2>2, <2>3 DEF SessionsInv, GatewaysTypeOK
  <1>2. /\ socket[s] \in Socket /\ Sound(socket[s]) /\ Tells(socket[s], socket[s])
        /\ Replaying(socket[s], recent)
    BY Unmoved
  <1>3. Replaying(socket[s], {})
    <2>1. role = "DELIVERER" => socket[s].at # "replay"
      BY <1>2 DEF Heartbeat, Sound, After
    <2>. QED BY <1>2, <2>1 DEF Replaying
  <1>. QED BY <1>1, <1>2, <1>3, ToucherMoves

LEMMA MarkOfflineKeeps ==
  ASSUME SessionsInv, NEW s \in Sockets, MarkOffline(s)
  PROVE  SessionsInv'
  <1>1. /\ online' = FALSE /\ Touch /\ UNCHANGED <<role, log, work, cut>>
        /\ socket' = [Touched(s) EXCEPT ![s] = Gone]
    BY DEF MarkOffline, eventVars
  <1>2. Sound(Gone) /\ Tells(socket[s], Gone) /\ Replaying(Gone, {})
    BY GoneIsSound DEF Tells, Replaying
  <1>. QED BY <1>1, <1>2, ToucherMoves

LEMMA CloseKeeps ==
  ASSUME SessionsInv, NEW s \in Sockets, Close(s)
  PROVE  SessionsInv'
  <1>1. PICK k : k = Closed(socket[s])
    OBVIOUS
  <1>2. /\ socket' = [socket EXCEPT ![s] = k]
        /\ UNCHANGED <<online, seen, recent, role, log, work, cut>>
    BY <1>1 DEF Close, eventVars
  <1>3. CASE "own" \notin socket[s].rooms /\ socket[s].at \in {"replay", "mark", "join"}
    <2>1. socket[s] \in Socket /\ Sound(socket[s]) /\ Replaying(socket[s], recent)
      BY Unmoved
    <2>2. k = [socket[s] EXCEPT !.open = FALSE]
      BY <1>1, <1>3 DEF Closed
    <2>3. /\ k \in Socket /\ k.at = socket[s].at /\ k.rooms = socket[s].rooms
          /\ k.lacks = socket[s].lacks
          /\ k.unread = socket[s].unread /\ k.outrun = socket[s].outrun
      BY <2>1, <2>2 DEF Socket
    <2>4. Sound(k) /\ Tells(socket[s], k) /\ Replaying(k, recent)
      BY <2>1, <2>3 DEF Sound, Tells, Replaying
    <2>. QED BY <1>2, <2>4, OneMoves
  <1>4. CASE ~ ("own" \notin socket[s].rooms /\ socket[s].at \in {"replay", "mark", "join"})
    <2>1. k \in {Gone, [Gone EXCEPT !.at = "leaving"]}
      BY <1>1, <1>4 DEF Closed
    <2>. QED BY <1>2, <2>1, GoneIsSound, OneMoves DEF Tells, Replaying
  <1>. QED BY <1>3, <1>4

LEMMA HandshakeFailsKeeps ==
  ASSUME SessionsInv, NEW s \in Sockets, HandshakeFails(s)
  PROVE  SessionsInv'
  <1>1. PICK k : /\ socket' = [socket EXCEPT ![s] = k]
                 /\ \/ role = "VENDOR" /\ k = [socket[s] EXCEPT !.at = "stuck", !.lacks = {}]
                    \/ k \in {Gone, [Gone EXCEPT !.at = "leaving"]}
    <2>1. socket \in [Sockets -> Socket]
      BY DEF SessionsInv, GatewaysTypeOK
    <2>2. CASE role = "VENDOR"
      BY <2>1, <2>2 DEF HandshakeFails
    <2>3. CASE role # "VENDOR" /\ "own" \in socket[s].rooms
      BY <2>1, <2>3 DEF HandshakeFails
    <2>4. CASE role # "VENDOR" /\ "own" \notin socket[s].rooms
      BY <2>1, <2>4 DEF HandshakeFails
    <2>. QED BY <2>2, <2>3, <2>4
  <1>2. UNCHANGED <<online, seen, recent, role, log, work, cut>>
    BY DEF HandshakeFails
  <1>3. CASE role = "VENDOR" /\ k = [socket[s] EXCEPT !.at = "stuck", !.lacks = {}]
    <2>1. socket[s] \in Socket /\ Sound(socket[s])
      BY Unmoved
    <2>2. k \in Socket /\ k.at = "stuck" /\ k.rooms = socket[s].rooms /\ k.lacks = {}
      BY <1>3, <2>1 DEF Socket, Stage
    <2>3. Sound(k) /\ Tells(socket[s], k) /\ Replaying(k, recent)
      BY <1>3, <2>1, <2>2 DEF Sound, Tells, Replaying, After
    <2>. QED BY <1>1, <1>2, <2>3, OneMoves
  <1>4. CASE k \in {Gone, [Gone EXCEPT !.at = "leaving"]}
    BY <1>1, <1>2, <1>4, GoneIsSound, OneMoves DEF Tells, Replaying
  <1>. QED BY <1>1, <1>3, <1>4

LEMMA SubscribeKeeps ==
  ASSUME SessionsInv, NEW s \in Sockets, Subscribe(s)
  PROVE  SessionsInv'
  <1>1. PICK k : k = [socket[s] EXCEPT !.rooms = @ \cup {"job"}]
    OBVIOUS
  <1>2. /\ socket' = [socket EXCEPT ![s] = k]
        /\ UNCHANGED <<online, seen, recent, role, log, work, cut>>
    BY <1>1 DEF Subscribe, eventVars
  <1>3. socket[s] \in Socket /\ Sound(socket[s]) /\ Replaying(socket[s], recent)
    BY Unmoved
  <1>4. /\ k.at = socket[s].at /\ k.rooms = socket[s].rooms \cup {"job"}
        /\ k.lacks = socket[s].lacks
        /\ k.unread = socket[s].unread /\ k.outrun = socket[s].outrun
    BY <1>1, <1>3 DEF Socket
  <1>5. k \in Socket
    BY <1>1, <1>3 DEF Socket
  <1>6. Sound(k) /\ Tells(socket[s], k) /\ Replaying(k, recent)
    BY <1>3, <1>4, <1>5 DEF Sound, Tells, Replaying, Subscribe
  <1>. QED BY <1>2, <1>6, OneMoves

LEMMA CrashKeepsSessions ==
  ASSUME SessionsInv, Crash
  PROVE  SessionsInv'
  <1>1. /\ socket' = [s \in Sockets |-> Gone] /\ UNCHANGED <<online, seen, recent, role, log>>
    BY DEF Crash
  <1>2. \A s \in Sockets : socket'[s] = Gone /\ socket'[s] \in Socket
    BY <1>1, GoneIsSound DEF Sound
  <1>3. GatewaysTypeOK'
    BY <1>1, <1>2 DEF SessionsInv, GatewaysTypeOK
  <1>4. JoinedInOrder'
    <2>1. \A x : After(x)' = After(x)
      BY <1>1 DEF After
    <2>. QED BY <1>2, <2>1, GoneIsSound, StagesInOrderNext DEF PastIsAfter, JoinedInOrder, Gone
  <1>5. LackedIsSent' /\ UnreadIsRecent'
    BY <1>2, GoneIsSound DEF LackedIsSent, LacksOwn, UnreadIsRecent
  <1>. QED BY <1>3, <1>4, <1>5 DEF SessionsInv

-----------------------------------------------------------------------------
(* The inductive invariant.                                                 *)

LEMMA RealtimeInitially == Init => RealtimeIInv
  <1> SUFFICES ASSUME Init
               PROVE  RealtimeIInv
    OBVIOUS
  <1>1. EventLogTypeOK /\ Happened = {} /\ work = {} /\ log = {}
    BY EventLogAssumption DEF Init, EventLogInit, EventLogTypeOK, Happened, InWork
  <1>2. RequestsAreOrdered /\ TimelineFollowsLog
    BY DEF Init, EventLogInit, RequestsAreOrdered, TimelineFollowsLog
  <1>3. RowsTellWhatHappened
    <2>1. \A k : ~ Logged(k)
      BY <1>1 DEF Logged
    <2>. QED BY <1>1, <2>1 DEF Init, EventLogInit, RowsTellWhatHappened, EventsInOrder, RowsMatchLog,
                               RoundsMatchLog, StatusIsTold, LoggedStatus
  <1>4. \A s \in Sockets : socket[s] = Gone /\ socket[s] \in Socket
    BY GoneIsSound DEF Init, GatewaysInit, Sound
  <1>5. GatewaysTypeOK
    BY <1>4 DEF Init, GatewaysInit, EventLogInit, GatewaysTypeOK
  <1>6. JoinedInOrder
    BY <1>4, GoneIsSound, SessionsByStage DEF Gone
  <1>7. LackedIsSent /\ UnreadIsRecent
    BY <1>4, GoneIsSound DEF LackedIsSent, LacksOwn, UnreadIsRecent
  <1>. QED BY <1>1, <1>2, <1>3, <1>5, <1>6, <1>7 DEF RealtimeIInv, EventsInv, SessionsInv

(* A request changes the rows, and the sockets are noted.                   *)
LEMMA RequestKeeps ==
  ASSUME RealtimeIInv, Noted, NEW N, Begins(N), EventsInv'
  PROVE  RealtimeIInv'
  <1>. USE DEF RealtimeIInv
  <1>1. Known' \subseteq Known \cup N
    BY BeginsKeepsEvents DEF EventsInv
  <1>2. \A e : Pending(Do("send", e)) => Pending(Do("send", e))'
    BY DEF Begins, Pending
  <1>3. \A e \in Known' \ Known : role \in Addressees(e.kind) => Pending(Do("send", e))'
    BY <1>1 DEF Begins
  <1>4. role' = role /\ cut' = cut /\ log \subseteq log'
    BY DEF Begins
  <1>. QED BY <1>2, <1>3, <1>4, NotedKeepsSessions

(* Steps of the sockets leave the events alone.                             *)
LEMMA EventsAside ==
  ASSUME EventsInv, UNCHANGED <<role, status, job, round, deciding, log, timeline, work, cut>>,
         faults' \in 0..MaxFaults[role]
  PROVE  EventsInv'
  <1>1. Happened' = Happened
    BY DEF Happened, InWork
  <1>2. RowsTellWhatHappened'
    BY <1>1, RowsKept DEF EventsInv
  <1>. QED BY <1>2 DEF EventsInv, EventLogTypeOK, RequestsAreOrdered, Ordered, TimelineFollowsLog, Pending

LEMMA RealtimeNext == RealtimeIInv /\ [Next]_vars => RealtimeIInv'
  <1> SUFFICES ASSUME RealtimeIInv, [Next]_vars
               PROVE  RealtimeIInv'
    OBVIOUS
  <1>. USE DEF RealtimeIInv
  <1>1. CASE OrderStep \/ AssignmentStep \/ DeliveryStep \/ RecoveryStep
    <2>1. Noted /\ EventsInv' /\ \E N : Begins(N)
      BY <1>1, CreateHappens, CheckHappens, DecisionHappens, ReadyHappens, AssignmentHappens,
         StartHappens, CompletionHappens, RecoveryHappens, EscalationHappens
         DEF OrderStep, AssignmentStep, DeliveryStep, RecoveryStep
    <2>. QED BY <2>1, RequestKeeps
  <1>2. ASSUME NEW w \in work, RecordingStep(w)
        PROVE  RealtimeIInv'
    <2>1. /\ EventsInv' /\ Known' \subseteq Known
          /\ \A e : Pending(Do("send", e)) => Pending(Do("send", e))'
      BY <1>2, RecordKeeps, ProjectKeeps DEF RecordingStep
    <2>2. Noted /\ role' = role /\ cut' = cut /\ log \subseteq log'
      BY <1>2 DEF RecordingStep, Record, Project
    <2>. QED BY <2>1, <2>2, NotedKeepsSessions
  <1>3. ASSUME NEW w \in work, Send(w)
        PROVE  RealtimeIInv'
    BY <1>3, SendKeeps, SendKeepsSessions
  <1>4. CASE Failure
    <2>1. PICK W \in SUBSET work :
             /\ work' = work \ W /\ Fault /\ deciding' \subseteq deciding
             /\ cut' = cut \cup UNION {EventsOf(v) : v \in W}
             /\ UNCHANGED <<sessionVars, role, status, job, round, log, timeline>>
      <3>1. ASSUME NEW w \in work, RequestFails(w), UNCHANGED sessionVars
            PROVE  \E W \in SUBSET work :
                      /\ work' = work \ W /\ Fault /\ deciding' \subseteq deciding
                      /\ cut' = cut \cup UNION {EventsOf(v) : v \in W}
                      /\ UNCHANGED <<sessionVars, role, status, job, round, log, timeline>>
        <4>1. {w} \in SUBSET work /\ UNION {EventsOf(v) : v \in {w}} = EventsOf(w)
          OBVIOUS
        <4>. QED BY <3>1, <4>1 DEF RequestFails
      <3>2. ASSUME NEW kind \in DecisionKinds, DecisionFails(kind), UNCHANGED sessionVars
            PROVE  \E W \in SUBSET work :
                      /\ work' = work \ W /\ Fault /\ deciding' \subseteq deciding
                      /\ cut' = cut \cup UNION {EventsOf(v) : v \in W}
                      /\ UNCHANGED <<sessionVars, role, status, job, round, log, timeline>>
        <4>1. {} \in SUBSET work /\ UNION {EventsOf(v) : v \in {}} = {}
          OBVIOUS
        <4>. QED BY <3>2, <4>1 DEF DecisionFails
      <3>. QED BY <1>4, <3>1, <3>2 DEF Failure
    <2>2. EventsInv' /\ \A e : Pending(Do("send", e)) => Pending(Do("send", e))' \/ e \in cut'
      BY <2>1, CutKeeps
    <2>3. SessionsInv'
      BY <2>1, <2>2, CutKeepsSessions
    <2>. QED BY <2>2, <2>3
  <1>5. CASE Crash
    <2>1. PICK W \in SUBSET work : W = work
      OBVIOUS
    <2>2. /\ work' = work \ W /\ Fault /\ cut' = cut \cup UNION {EventsOf(w) : w \in W}
          /\ deciding' \subseteq deciding
          /\ UNCHANGED <<role, status, job, round, log, timeline>>
      BY <1>5, <2>1 DEF Crash, InWork
    <2>3. EventsInv'
      BY <2>2, CutKeeps
    <2>. QED BY <1>5, <2>3, CrashKeepsSessions
  <1>6. ASSUME NEW s \in Sockets,
               \/ Connect(s) \/ HandshakeStep(s) \/ HandshakeFails(s)
               \/ Close(s) \/ MarkOffline(s)
               \/ Heartbeat(s) \/ Subscribe(s)
        PROVE  RealtimeIInv'
    <2>1. SessionsInv'
      BY <1>6, ConnectKeeps, ReadReplayKeeps, MarkOnlineKeeps, JoinKeeps, ReadContextKeeps,
         EmitContextKeeps, HandshakeFailsKeeps, CloseKeeps, MarkOfflineKeeps, HeartbeatKeeps,
         SubscribeKeeps
         DEF HandshakeStep, EventsInv
    <2>2. UNCHANGED <<role, status, job, round, deciding, log, timeline, work, cut>>
      BY <1>6 DEF HandshakeStep, Connect, ReadReplay, MarkOnline, Join, ReadContext, EmitContext,
                  HandshakeFails, Close, MarkOffline, Heartbeat, Subscribe, eventVars
    <2>3. faults' \in 0..MaxFaults[role]
      <3>1. faults' = faults \/ Fault
        BY <1>6 DEF HandshakeStep, Connect, ReadReplay, MarkOnline, Join, ReadContext, EmitContext,
                    HandshakeFails, Close, MarkOffline, Heartbeat, Subscribe, eventVars
      <3>. QED BY <3>1, EventLogAssumption DEF Fault, EventsInv, EventLogTypeOK
    <2>. QED BY <2>1, <2>2, <2>3, EventsAside
  <1>7. CASE UNCHANGED vars
    <2>1. UNCHANGED <<role, status, job, round, deciding, log, timeline, work, cut, faults, sessionVars>>
      BY <1>7 DEF vars, eventVars
    <2>2. EventsInv'
      BY <2>1, EventsAside DEF EventsInv, EventLogTypeOK
    <2>3. SessionsInv'
      BY <2>1, CutKeepsSessions DEF Pending
    <2>. QED BY <2>2, <2>3
  <1>. QED BY <1>1, <1>2, <1>3, <1>4, <1>5, <1>6, <1>7 DEF Next, Work

(* The invariant of requests and sockets holds in every reachable state:    *)
(* requests record what they project and send, each event recorded in a     *)
(* transaction stands for the change of its row, and what a socket lacks of *)
(* its own room's messages is on its way.                                   *)
THEOREM RealtimeIInvCorrect == Spec => []RealtimeIInv
  BY RealtimeInitially, RealtimeNext, PTL DEF Spec

(* Every variable of the event log and of the gateways keeps its type.      *)
THEOREM RealtimeTypeCorrect == Spec => []RealtimeTypeOK
  <1>1. RealtimeIInv => RealtimeTypeOK
    BY DEF RealtimeIInv, EventsInv, SessionsInv, RealtimeTypeOK
  <1>. QED BY <1>1, RealtimeIInvCorrect, PTL

(* A client that has its context misses no message to its own room: what it *)
(* lacks is still to be sent to it, or its request was cut off. Nothing is  *)
(* said of the room of the job, where it fails.                             *)
THEOREM ConnectedClientsMissNothing == Spec => []NothingIsMissed
  <1>1. RealtimeIInv => NothingIsMissed
    <2> SUFFICES ASSUME RealtimeIInv, NEW s \in Sockets, NEW e \in LacksOwn(s)
                 PROVE  e \in InWork \cup cut
      BY DEF NothingIsMissed
    <2>1. e \in cut \/ Pending(Do("send", e))
      BY DEF RealtimeIInv, SessionsInv, LackedIsSent
    <2>. QED BY <2>1, InWorkHas DEF Pending, Do
  <1>. QED BY <1>1, RealtimeIInvCorrect, PTL

(* The job is told by the events of its transactions, once every return of  *)
(* it to the pool is logged.                                                *)
LEMMA LogTellsJob ==
  ASSUME EventsInv, ReturnsAreLogged
  PROVE  job = LoggedJob
  <1>1. /\ log \subseteq Event /\ round \in Nat /\ \A e \in log : e.round \in Nat
        /\ job \in {"NONE", "PENDING", "ASSIGNED", "IN_PROGRESS", "COMPLETED"}
    <2>1. \A e \in Event : e.round \in Nat
      BY EventLogAssumption DEF Event
    <2>. QED BY <2>1, EventLogAssumption DEF EventsInv, EventLogTypeOK
  <1>2. RowsMatchLog /\ RoundsMatchLog
    BY DEF EventsInv, RowsTellWhatHappened
  <1>3. ASSUME job \in {"NONE", "PENDING"}
        PROVE  ~ LoggedAssigned
    <2> SUFFICES ASSUME NEW e \in log, e.kind = "job.assigned"
                 PROVE  Recovery(e.round) \in log
      BY DEF LoggedAssigned
    <2>1. e.round < round
      BY <1>2, <1>3 DEF RoundsMatchLog
    <2>2. e.round \in 0..(round - 1)
      BY <1>1, <2>1
    <2>. QED BY <2>2 DEF ReturnsAreLogged
  <1>4. ASSUME job \in {"ASSIGNED", "IN_PROGRESS", "COMPLETED"}
        PROVE  LoggedAssigned
    <2>1. JobEvent("job.assigned") \in log
      BY <1>2, <1>4 DEF RoundsMatchLog
    <2>2. Recovery(round) \notin log
      <3>1. ASSUME Recovery(round) \in log
            PROVE  Recovery(round).round < round
        BY <1>2, <3>1 DEF RoundsMatchLog, Happened, Recovery
      <3>. QED BY <1>1, <3>1 DEF Recovery
    <2>. QED BY <2>1, <2>2 DEF LoggedAssigned, JobEvent
  <1>5. CASE job = "NONE"
    BY <1>2, <1>3, <1>5 DEF RowsMatchLog, LoggedJob
  <1>6. CASE job = "PENDING"
    BY <1>2, <1>3, <1>6 DEF RowsMatchLog, LoggedJob
  <1>7. CASE job = "ASSIGNED"
    BY <1>2, <1>4, <1>7 DEF RowsMatchLog, LoggedJob
  <1>8. CASE job \in {"IN_PROGRESS", "COMPLETED"}
    BY <1>2, <1>4, <1>8 DEF RowsMatchLog, LoggedJob
  <1>. QED BY <1>1, <1>5, <1>6, <1>7, <1>8

(* The event log tells the rows, whatever fails and whenever a decision is  *)
(* written, and its timelines lag behind it by what is in work or was cut   *)
(* off.                                                                     *)
THEOREM TheLogTellsTheState == Spec => []LogTellsTheState
  <1>1. RealtimeIInv => LogTellsTheState
    <2> SUFFICES ASSUME RealtimeIInv
                 PROVE  LogTellsTheState
      OBVIOUS
    <2>1. timeline \subseteq log
      BY DEF RealtimeIInv, EventsInv, TimelineFollowsLog
    <2>2. ASSUME NEW e \in log \ timeline
          PROVE  e \in InWork \cup cut
      <3>1. e \in cut \/ Pending(Do("project", e))
        BY DEF RealtimeIInv, EventsInv, TimelineFollowsLog
      <3>. QED BY <3>1, InWorkHas DEF Pending, Do
    <2>3. ReturnsAreLogged => job = LoggedJob
      BY LogTellsJob DEF RealtimeIInv
    <2>4. \/ status = LoggedStatus
          \/ \E kind \in DecisionKinds :
                status = Verdict(kind) /\ OrderEvent(kind) \in Known \cup cut
      BY DEF RealtimeIInv, EventsInv, RowsTellWhatHappened, StatusIsTold, Happened, Known
    <2>. QED BY <2>1, <2>2, <2>3, <2>4 DEF LogTellsTheState
  <1>. QED BY <1>1, RealtimeIInvCorrect, PTL

(* A deliverer who comes back to his job gets every event of it that was    *)
(* newer than lastSeenAt when he connected, unless another socket of his    *)
(* has set lastSeenAt before the replay was read.                           *)
THEOREM DelivererReplaysAll == Spec => []DelivererReplayIsComplete
  <1>1. RealtimeIInv => DelivererReplayIsComplete
    <2> SUFFICES ASSUME RealtimeIInv, role = "DELIVERER", NEW s \in Sockets, Past(s, "replay")
                 PROVE  socket[s].unread = {} \/ socket[s].outrun
      BY DEF DelivererReplayIsComplete
    <2>1. socket[s].at # "replay"
      BY StagesInOrder DEF PastIsAfter, After
    <2>. QED BY <2>1 DEF RealtimeIInv, SessionsInv, UnreadIsRecent
  <1>. QED BY <1>1, RealtimeIInvCorrect, PTL
=============================================================================
