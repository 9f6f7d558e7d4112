---------------------------- MODULE MCFulfilment ----------------------------
(***************************************************************************)
(* Instances of Fulfilment. Batches and orders are few; deliverers are     *)
(* interchangeable, so the safety runs reduce by their symmetry.           *)
(***************************************************************************)
EXTENDS Fulfilment, TLC

CONSTANTS o1, o2, o3, s1, s2

(* o1 and o2 belong to shop s1, o3 to s2.                                   *)
MCShop == [o \in Orders |-> IF o = o3 THEN s2 ELSE s1]

NoDetour == [o \in Orders |-> {}]

(* Dispatch: o1 and o2 are in batch 1, o3 is in batch 2.                    *)
MCBatchOf == [o \in Orders |-> IF o = o3 THEN 2 ELSE 1]

(* Both orders can only be in the one batch there is.                       *)
OneBatch == [o \in Orders |-> 1]

DelivererSymmetry == Permutations(Deliverers)
=============================================================================
