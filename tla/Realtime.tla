------------------------------ MODULE Realtime ------------------------------
(***************************************************************************)
(* What a client learns of an order: requests change it and record events, *)
(* while the client connects, loses connections and connects again, and    *)
(* the process may crash at any point.                                     *)
(***************************************************************************)
EXTENDS Gateways

vars == <<eventVars, sessionVars>>

Init == EventLogInit /\ GatewaysInit

(* The events a later replay of the deliverer would return.                *)
Replays(e) == role = "DELIVERER" /\ seen /\ e.kind \in JobKinds

(* The log has grown, or something has happened that clients must be told. *)
Noted ==
    /\ recent' = recent \cup {e \in log' \ log : Replays(e)}
    /\ socket' = [s \in Sockets |-> [socket[s] EXCEPT
                     !.lacks = @ \cup {e \in Known' \ Known : Concerns(s, e)}]]
    /\ UNCHANGED <<online, seen>>

(* Vendor and customer use HTTP, the assignment wants its deliverer online, *)
(* and he starts and completes the job over a socket.                       *)
OnSocket == role = "DELIVERER" => \E s \in Sockets : "own" \in socket[s].rooms

OrderStep ==
    /\ \/ CreateOrder \/ MarkReady
       \/ \E kind \in DecisionKinds : CheckDecision(kind) \/ WriteDecision(kind)
    /\ Noted

AssignmentStep == (role = "DELIVERER" => online) /\ AssignJob /\ Noted

DeliveryStep == OnSocket /\ (StartJob \/ CompleteJob) /\ Noted

RecoveryStep == (RecoverJob \/ EscalateJob) /\ Noted

RecordingStep(w) == (Record(w) \/ Project(w)) /\ Noted

Failure ==
    /\ \/ \E w \in work : RequestFails(w)
       \/ \E kind \in DecisionKinds : DecisionFails(kind)
    /\ UNCHANGED sessionVars

(* The process restarts: nothing marks the users of its sockets offline.    *)
Crash ==
    /\ Fault
    /\ deciding' = {}
    /\ work' = {}
    /\ cut' = cut \cup InWork
    /\ socket' = [s \in Sockets |-> Gone]
    /\ UNCHANGED <<online, seen, recent, role, status, job, round, log, timeline>>

Work == \E w \in work : RecordingStep(w) \/ Send(w)

Next ==
    \/ OrderStep \/ AssignmentStep \/ DeliveryStep \/ RecoveryStep
    \/ Work
    \/ Failure
    \/ Crash
    \/ \E s \in Sockets :
          \/ Connect(s) \/ HandshakeStep(s) \/ HandshakeFails(s)
          \/ Close(s) \/ MarkOffline(s)
          \/ Heartbeat(s) \/ Subscribe(s)

Spec == Init /\ [][Next]_vars

(* Requests under way go on. Nothing is assumed of clients or of the rest.  *)
FairSpec == Spec /\ WF_vars(Work)

-----------------------------------------------------------------------------
RealtimeTypeOK == EventLogTypeOK /\ GatewaysTypeOK

(* What has not been told of the messages to the client's own room.         *)
LacksOwn(s) == {e \in socket[s].lacks : ~ ForJobRoom(e.kind)}

(* A client that has its context misses no message to its own room: what is *)
(* newer than the context is sent to it, or still to be sent, or its        *)
(* request was cut off. The handshakes join this room before they read the  *)
(* context, so that nothing falls between the two awaits.                   *)
NothingIsMissed == \A s \in Sockets : Past(s, "emit") => LacksOwn(s) \subseteq InWork \cup cut

(* ... and it is told in the end: the requests finish, unless a crash or an *)
(* error cuts them off, and leave no client behind.                         *)
EventuallyTold == []<>(\A s \in Sockets : LacksOwn(s) \subseteq cut)

(* The same of the progress of the job ("server -> job room: progress for   *)
(* customers tracking the job", README): it does not hold, since the room   *)
(* of the job is joined after the context that names it was read.           *)
ProgressIsNotMissed == \A s \in Sockets : Past(s, "emit") => socket[s].lacks \subseteq InWork \cup cut

Logged(kind) == \E e \in log : e.kind = kind

(* What the events that are recorded in a transaction say about the order.  *)
LoggedStatus ==
    CASE Logged("order.completed") -> "COMPLETED"
      [] ~ Logged("order.completed") /\ Logged("job.started") -> "IN_PROGRESS"
      [] ~ Logged("job.started") /\ Logged("job.assigned") -> "WAITING_FOR_DELIVERER"
      [] ~ Logged("job.assigned") /\ Logged("order.ready") -> "READY_FOR_DELIVERY"
      [] ~ Logged("order.ready") /\ Logged("order.created") -> "PENDING_VENDOR_CONFIRMATION"
      [] ~ Logged("order.created") -> "NONE"

Recovery(r) == [kind |-> "job.recovered", round |-> r]

ReturnsAreLogged == \A r \in 0..(round - 1) : Recovery(r) \in log

(* More assignments than recoveries are logged. No order of the rows is     *)
(* assumed: a recovery may be recorded after the next assignment.           *)
LoggedAssigned == \E e \in log : e.kind = "job.assigned" /\ Recovery(e.round) \notin log

LoggedJob ==
    CASE Logged("job.completed") -> "COMPLETED"
      [] ~ Logged("job.completed") /\ Logged("job.started") -> "IN_PROGRESS"
      [] ~ Logged("job.started") /\ LoggedAssigned -> "ASSIGNED"
      [] ~ LoggedAssigned /\ Logged("job.assigned") -> "PENDING"
      [] ~ Logged("job.assigned") -> "NONE"

(* The event log tells the rows (README, "Event log with replayable         *)
(* projections"), whatever fails: the job from its events, unless the       *)
(* record of a return to the pool is missing; the order from the events of  *)
(* order and job, unless a decision was written, maybe late, over what they *)
(* say. A timeline lags behind the log by what is in work or was cut off.   *)
LogTellsTheState ==
    /\ timeline \subseteq log
    /\ log \ timeline \subseteq InWork \cup cut
    /\ ReturnsAreLogged => job = LoggedJob
    /\ \/ status = LoggedStatus
       \/ \E kind \in DecisionKinds :
             status = Verdict(kind) /\ OrderEvent(kind) \in Known \cup cut

(* A deliverer who comes back to his job gets every event of it that was    *)
(* newer than lastSeenAt when he connected, unless another socket of his,   *)
(* by its handshake, heartbeat or end, has set lastSeenAt meanwhile: replay *)
(* is computed before the handshake itself does so.                         *)
DelivererReplayIsComplete ==
    \A s \in Sockets :
        role = "DELIVERER" /\ Past(s, "replay") => socket[s].unread = {} \/ socket[s].outrun
=============================================================================
