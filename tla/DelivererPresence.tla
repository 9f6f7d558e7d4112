------------------------- MODULE DelivererPresence -------------------------
(***************************************************************************)
(* What changes a deliverer outside the delivery flow: the WebSocket       *)
(* session (SessionService, called by DelivererGateway), the availability  *)
(* switch of the profile (DelivererService.updateProfile) and the removal  *)
(* of the profile by an administrator (AdminService.removeDeliverer).      *)
(***************************************************************************)
EXTENDS MarketTables

CONSTANTS
    Switching,   \* deliverers who use the availability switch
    Removable,   \* deliverers an administrator may remove
    RemovesBusy  \* whether one is removed even while he holds a job

ASSUME PresenceAssumption ==
    /\ Switching \subseteq Deliverers
    /\ Removable \subseteq Deliverers
    /\ RemovesBusy \in BOOLEAN

-----------------------------------------------------------------------------
(* lastSeenAt moves: earlier ESCALATED events belong to a closed window.    *)
Seen(d, online) ==
    /\ session' = [session EXCEPT ![d] = [online |-> online, fresh |-> TRUE]]
    /\ escalated' = escalated \ {deliverer[d].activeJob}
    /\ UNCHANGED <<order, batch, job, deliverer, queue, post, faults>>

(* handleConnection and markOnline.                                         *)
Connect(d) == deliverer[d].exists /\ Seen(d, TRUE)

(* handleDisconnect and markOffline, also for an old socket of a deliverer  *)
(* who has already connected again.                                         *)
Disconnect(d) == Seen(d, FALSE)

(* The heartbeat moves lastSeenAt only.                                     *)
Heartbeat(d) == Seen(d, session[d].online)

(* Two minutes pass without a heartbeat: PRESENCE_WINDOW_MS and             *)
(* DELIVERER_GRACE_MS are equal.                                            *)
Silence(d) ==
    /\ session[d].fresh
    /\ session' = [session EXCEPT ![d].fresh = FALSE]
    /\ UNCHANGED <<order, batch, job, deliverer, queue, post, escalated, faults>>

(* updateProfile writes dto.availability, or the value it read some time ago: *)
(* either value can be written at any moment.                               *)
SetAvailability(d, v) ==
    /\ d \in Switching
    /\ deliverer[d].exists
    /\ deliverer' = [deliverer EXCEPT ![d].available = v]
    /\ UNCHANGED <<order, batch, job, session, queue, post, escalated, faults>>

(* The row is deleted; every foreign key to it is ON DELETE SET NULL.       *)
RemoveDeliverer(d) ==
    /\ d \in Removable
    /\ deliverer[d].exists
    /\ RemovesBusy \/ deliverer[d].activeJob = None
    /\ deliverer' = [deliverer EXCEPT ![d] =
                        [exists |-> FALSE, available |-> FALSE, activeJob |-> None]]
    /\ batch' = [b \in Batches |->
                    IF batch[b].deliverer = d THEN [batch[b] EXCEPT !.deliverer = None]
                                              ELSE batch[b]]
    /\ job' = [b \in Batches |->
                  IF job[b].deliverer = d THEN [job[b] EXCEPT !.deliverer = None]
                                          ELSE job[b]]
    /\ UNCHANGED <<order, session, queue, post, escalated, faults>>

PresenceNext ==
    \E d \in Deliverers :
        \/ Connect(d)
        \/ Disconnect(d)
        \/ Heartbeat(d)
        \/ Silence(d)
        \/ \E v \in BOOLEAN : SetAvailability(d, v)
        \/ RemoveDeliverer(d)
=============================================================================
