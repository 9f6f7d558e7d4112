------------------------------ MODULE Gateways ------------------------------
(***************************************************************************)
(* The WebSocket gateways of customers, vendors and deliverers             *)
(* (src/users/customer.gateway.ts, src/vendor/vendor.gateway.ts,           *)
(* src/deliverer/deliverer.gateway.ts) with the services a connection      *)
(* calls: ReplayService, SessionService and ReconnectService.              *)
(*                                                                         *)
(* One client with several connections, each of which awaits the database  *)
(* between the steps of its handshake. The client is the customer, the     *)
(* vendor or the deliverer of the order of EventLog.                       *)
(***************************************************************************)
EXTENDS EventLog

CONSTANTS
    Sockets,   \* connections
    SocketsOf  \* SocketsOf[r]: bound on those that client r has at one time

ASSUME GatewaysAssumption == SocketsOf \in [Role -> SUBSET Sockets]

VARIABLES
    online,  \* User.isOnline
    seen,    \* whether User.lastSeenAt is set
    recent,  \* the deliverer's events of the log that are newer than lastSeenAt
    socket   \* socket[s]: a connection

sessionVars == <<online, seen, recent, socket>>

Stage == {"gone", "replay", "mark", "join", "context", "emit", "ready", "stuck", "leaving"}

(* rooms: "own" is that of the user, in client.data since then; "job" that  *)
(* of the job. found: the context that was read names a job. lacks (ghost): *)
(* what the client has not been told, though it is newer than its context.  *)
(* unread (ghost): the events newer than lastSeenAt when the client         *)
(* connected, not replayed. outrun (ghost): another socket of the client    *)
(* set lastSeenAt before this one read its replay.                          *)
Socket == [at: Stage, open: BOOLEAN, rooms: SUBSET {"own", "job"}, found: BOOLEAN,
           lacks: SUBSET Event, unread: SUBSET Event, outrun: BOOLEAN]

Gone == [at |-> "gone", open |-> FALSE, rooms |-> {}, found |-> FALSE,
         lacks |-> {}, unread |-> {}, outrun |-> FALSE]

GatewaysTypeOK ==
    /\ online \in BOOLEAN
    /\ seen \in BOOLEAN
    /\ recent \subseteq log
    /\ socket \in [Sockets -> Socket]

GatewaysInit ==
    /\ online = FALSE
    /\ seen = FALSE
    /\ recent = {}
    /\ socket = [s \in Sockets |-> Gone]

-----------------------------------------------------------------------------
HandshakeMutant(r) == <<"mark", "context", "join", "emit", "replay">>

UniformMutant(r) == <<"mark", "join", "context", "emit", "replay">>

(* handleConnection: what each gateway does, in its order.                  *)
Handshake(r) ==
    IF r = "DELIVERER" THEN <<"replay", "mark", "join", "context", "emit">>
                       ELSE <<"mark", "join", "context", "emit", "replay">>

Rank(stage) == CHOOSE i \in DOMAIN Handshake(role) : Handshake(role)[i] = stage

InHandshake(s) == \E i \in DOMAIN Handshake(role) : Handshake(role)[i] = socket[s].at

Past(s, stage) ==
    \/ socket[s].at = "ready"
    \/ InHandshake(s) /\ Rank(socket[s].at) > Rank(stage)

Following(stage) ==
    IF Rank(stage) = Len(Handshake(role)) THEN "ready" ELSE Handshake(role)[Rank(stage) + 1]

(* "delivery:started" and "delivery:completed" go to the room of the job.   *)
ForJobRoom(kind) == kind \in {"job.started", "job.completed"}

ReachesMutant(s, e) == "job" \in socket[s].rooms

(* The emits of the gateways: whoever is in the room gets the message.      *)
Reaches(s, e) ==
    IF ForJobRoom(e.kind) THEN "job" \in socket[s].rooms
                          ELSE role \in Addressees(e.kind) /\ "own" \in socket[s].rooms

(* What the client must be told: its context is older than the event. The   *)
(* progress of a job concerns those whose context names the job, or who     *)
(* have subscribed to it, not only who has joined its room by then.         *)
Concerns(s, e) ==
    /\ role \in Addressees(e.kind)
    /\ IF ForJobRoom(e.kind) THEN socket[s].found \/ "job" \in socket[s].rooms
                             ELSE Past(s, "context")

(* The orders and the job that replay and context look at.                  *)
JobIsHeld == job \in {"ASSIGNED", "IN_PROGRESS"}

Replayed == {e \in recent : JobIsHeld}

(* The context names a job: that of an order which is not new and not at    *)
(* its end, or the one the deliverer holds.                                 *)
ActiveOrder == status \in {"VENDOR_ACCEPTED", "READY_FOR_DELIVERY", "WAITING_FOR_DELIVERER",
                           "IN_PROGRESS"}

ContextJob ==
    \/ role = "CUSTOMER" /\ ActiveOrder /\ job \in {"ASSIGNED", "IN_PROGRESS", "COMPLETED"}
    \/ role = "DELIVERER" /\ JobIsHeld

(* lastSeenAt becomes now: nothing in the log is newer, for the sockets of  *)
(* the client that have yet to read their replay neither.                   *)
Touched(s) == [t \in Sockets |-> IF t # s /\ socket[t].at = "replay" /\ socket[t].unread # {}
                                   THEN [socket[t] EXCEPT !.outrun = TRUE]
                                   ELSE socket[t]]

Touch == seen' = TRUE /\ recent' = {}

-----------------------------------------------------------------------------
(* A client with a valid token of this role connects.                       *)
Connect(s) ==
    /\ s \in SocketsOf[role]
    /\ socket[s].at = "gone"
    /\ socket' = [socket EXCEPT ![s] =
                     [Gone EXCEPT !.at = Handshake(role)[1], !.open = TRUE, !.unread = Replayed]]
    /\ UNCHANGED <<online, seen, recent, eventVars>>

(* replayForDeliverer. replayForCustomer and replayForVendor come after     *)
(* lastSeenAt was set: what they return has also been sent or is in the     *)
(* context, and is not followed.                                            *)
ReadReplay(s) ==
    /\ socket[s].at = "replay"
    /\ socket' = [socket EXCEPT ![s].at = Following("replay"),
                                ![s].unread = IF JobIsHeld THEN @ \ Replayed ELSE {}]
    /\ UNCHANGED <<online, seen, recent, eventVars>>

(* markOnline, whether or not the socket has been closed meanwhile.         *)
MarkOnline(s) ==
    /\ socket[s].at = "mark"
    /\ online' = TRUE
    /\ Touch
    /\ socket' = [Touched(s) EXCEPT ![s].at = Following("mark")]
    /\ UNCHANGED eventVars

(* The room of the user; a socket closed before has no client.data, and     *)
(* nobody marks the user offline.                                           *)
Join(s) ==
    /\ socket[s].at = "join"
    /\ socket' = [socket EXCEPT ![s] = IF @.open
                     THEN [@ EXCEPT !.at = Following("join"), !.rooms = {"own"}]
                     ELSE Gone]
    /\ UNCHANGED <<online, seen, recent, eventVars>>

(* getCustomerContext, getVendorContext, getDelivererContext.               *)
ReadContext(s) ==
    /\ socket[s].at = "context"
    /\ socket' = [socket EXCEPT ![s].at = Following("context"), ![s].found = ContextJob]
    /\ UNCHANGED <<online, seen, recent, eventVars>>

(* The room of the job found in the context, and the context itself.        *)
EmitContext(s) ==
    /\ socket[s].at = "emit"
    /\ socket' = [socket EXCEPT ![s].at = Following("emit"),
                                ![s].found = FALSE,
                                ![s].rooms = @ \cup {r \in {"job"} : socket[s].found}]
    /\ UNCHANGED <<online, seen, recent, eventVars>>

(* The connection is closed and the server sees it. Without client.data     *)
(* handleDisconnect returns, and the handshake goes on.                     *)
Closed(k) ==
    CASE "own" \in k.rooms -> [Gone EXCEPT !.at = "leaving"]
      [] "own" \notin k.rooms /\ k.at \in {"replay", "mark", "join"} -> [k EXCEPT !.open = FALSE]
      [] OTHER -> Gone

Close(s) ==
    /\ socket[s].open
    /\ socket' = [socket EXCEPT ![s] = Closed(@)]
    /\ UNCHANGED <<online, seen, recent, eventVars>>

(* markOffline, a write of its own later: a newer socket is not looked for. *)
MarkOffline(s) ==
    /\ socket[s].at = "leaving"
    /\ online' = FALSE
    /\ Touch
    /\ socket' = [Touched(s) EXCEPT ![s] = Gone]
    /\ UNCHANGED eventVars

(* A query of the handshake fails. Customers and deliverers are then        *)
(* disconnected; the vendor gateway has no catch, and its socket stays. A   *)
(* vendor whose profile is hidden gets no further either.                   *)
HandshakeFails(s) ==
    /\ InHandshake(s) /\ socket[s].open
    /\ \/ Fault
       \/ role = "VENDOR" /\ socket[s].at = "join" /\ UNCHANGED faults
    /\ socket' = [socket EXCEPT ![s] =
                     CASE role = "VENDOR" -> [@ EXCEPT !.at = "stuck", !.lacks = {}]
                       [] role # "VENDOR" /\ "own" \in @.rooms -> [Gone EXCEPT !.at = "leaving"]
                       [] OTHER -> Gone]
    /\ UNCHANGED <<online, seen, recent, role, status, job, round, deciding, log, timeline, work, cut>>

(* session.heartbeat writes lastSeenAt, not isOnline.                       *)
Heartbeat(s) ==
    /\ "own" \in socket[s].rooms
    /\ Touch
    /\ socket' = Touched(s)
    /\ UNCHANGED <<online, eventVars>>

(* job:subscribe, by the owner of an order of the job.                      *)
Subscribe(s) ==
    /\ role = "CUSTOMER" /\ "own" \in socket[s].rooms
    /\ job \in {"ASSIGNED", "IN_PROGRESS", "COMPLETED"}
    /\ socket' = [socket EXCEPT ![s].rooms = @ \cup {"job"}]
    /\ UNCHANGED <<online, seen, recent, eventVars>>

(* The message of a request.                                                *)
Send(w) ==
    LET e == Head(w).event IN
    /\ Head(w).do = "send"
    /\ socket' = [s \in Sockets |-> [socket[s] EXCEPT !.lacks = @ \ {x \in {e} : Reaches(s, e)}]]
    /\ Proceed(w)
    /\ UNCHANGED <<online, seen, recent, role, status, job, round, deciding, log, timeline, cut, faults>>

HandshakeStep(s) ==
    ReadReplay(s) \/ MarkOnline(s) \/ Join(s) \/ ReadContext(s) \/ EmitContext(s)
=============================================================================
