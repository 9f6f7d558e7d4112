---------------------------- MODULE MCStorefront ----------------------------
(***************************************************************************)
(* One shop with one product and one writing vendor request, one client    *)
(* with two requests at a time.                                            *)
(***************************************************************************)
EXTENDS Storefront, TLC

CONSTANTS p1, v1, r1, r2, w1

MCShopOf == [p \in Products |-> v1]
=============================================================================
