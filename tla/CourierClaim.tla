---------------------------- MODULE CourierClaim ----------------------------
(***************************************************************************)
(* What dispatch promises: a batch is claimed by one courier at a time and *)
(* a courier has one claim at a time; a claim can be released before it is *)
(* started and never afterwards; a started claim is finished by the courier *)
(* who started it, once and for all.                                       *)
(***************************************************************************)
CONSTANTS Batches, Couriers, Nobody  \* Nobody is no courier

VARIABLE claim

State == {"free", "claimed", "started", "done"}
Free == [state |-> "free", by |-> Nobody]

Init == claim = [b \in Batches |-> Free]

Claim(b, c) ==
    /\ claim[b].state = "free"
    /\ \A x \in Batches : claim[x].by # c
    /\ claim' = [claim EXCEPT ![b] = [state |-> "claimed", by |-> c]]

Release(b) ==
    /\ claim[b].state = "claimed"
    /\ claim' = [claim EXCEPT ![b] = Free]

Start(b) ==
    /\ claim[b].state = "claimed"
    /\ claim' = [claim EXCEPT ![b].state = "started"]

Finish(b) ==
    /\ claim[b].state = "started"
    /\ claim' = [claim EXCEPT ![b] = [state |-> "done", by |-> Nobody]]

Next ==
    \E b \in Batches :
        \/ \E c \in Couriers : Claim(b, c)
        \/ Release(b)
        \/ Start(b)
        \/ Finish(b)

Spec == Init /\ [][Next]_claim
=============================================================================
