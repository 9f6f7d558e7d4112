--------------------------- MODULE OrderLifecycle ---------------------------
(***************************************************************************)
(* What a customer can see happen to his orders (OrderStatus): an order is *)
(* placed; its vendor accepts or rejects it, or marks it ready; a deliverer *)
(* is found for it, takes it on the road and delivers it. Once it is ready *)
(* no stage is left out, and none is ever taken back. Orders of one job may *)
(* move together.                                                          *)
(***************************************************************************)
CONSTANT Orders

VARIABLE status  \* status[o]: Order.status, "NONE" before the order is placed

Init == status \in [Orders -> {"NONE", "PENDING_VENDOR_CONFIRMATION"}]

(* The orders of O, all at the same stage, go on to another one.            *)
Move(O, from, to) ==
    /\ \A o \in O : status[o] = from
    /\ status' = [o \in Orders |-> IF o \in O THEN to ELSE status[o]]

Place(o) == Move({o}, "NONE", "PENDING_VENDOR_CONFIRMATION")
Accept(o) == Move({o}, "PENDING_VENDOR_CONFIRMATION", "VENDOR_ACCEPTED")
Reject(o) == Move({o}, "PENDING_VENDOR_CONFIRMATION", "VENDOR_REJECTED")
MarkReady(o) == \/ Move({o}, "PENDING_VENDOR_CONFIRMATION", "READY_FOR_DELIVERY")
                \/ Move({o}, "VENDOR_ACCEPTED", "READY_FOR_DELIVERY")

Assign(O) == Move(O, "READY_FOR_DELIVERY", "WAITING_FOR_DELIVERER")
Depart(O) == Move(O, "WAITING_FOR_DELIVERER", "IN_PROGRESS")
Deliver(O) == Move(O, "IN_PROGRESS", "COMPLETED")

Next ==
    \/ \E o \in Orders : Place(o) \/ Accept(o) \/ Reject(o) \/ MarkReady(o)
    \/ \E O \in SUBSET Orders : Assign(O) \/ Depart(O) \/ Deliver(O)

Spec == Init /\ [][Next]_status
=============================================================================
