-------------------------- MODULE MCOrderBatching --------------------------
(***************************************************************************)
(* Two instances of OrderBatching.                                         *)
(*                                                                         *)
(* Safety: the food order o1 and the groceries o2, o3, o5 belong to shop   *)
(* s1, o4 to s2. The food order can join groceries, but groceries do not   *)
(* join o1 alone (too long a detour). Groceries are interchangeable.       *)
(*                                                                         *)
(* Liveness: o1, o2 and o4 only, with crashes and lost calls.              *)
(***************************************************************************)
EXTENDS OrderBatching, TLC

CONSTANTS o1, o2, o3, o4, o5, s1, s2

ShopOf(O) == [o \in O |-> IF o = o4 THEN s2 ELSE s1]

MCOrders == {o1, o2, o3, o4, o5}
MCShop == ShopOf(MCOrders)
MCDetour == [o \in MCOrders |-> IF o \in {o2, o3, o5} THEN {{o1}} ELSE {}]

GrocerySymmetry == Permutations({o2, o3, o5})

LiveOrders == {o1, o2, o4}
LiveShop == ShopOf(LiveOrders)
LiveDetour == [o \in LiveOrders |-> {}]
=============================================================================
