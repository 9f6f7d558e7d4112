----------------------------- MODULE MCRealtime -----------------------------
(***************************************************************************)
(* A deliverer with two sockets at a time, a customer or a vendor with one.*)
(* Two requests are under way, and decisions race with them, while the     *)
(* vendor is followed; requests fail and the process crashes while the     *)
(* customer or the vendor is.                                              *)
(***************************************************************************)
EXTENDS Realtime

CONSTANTS s1, s2

MCSocketsOf == [r \in Role |-> IF r = "DELIVERER" THEN {s1, s2} ELSE {s1}]

MCMaxWork == [r \in Role |-> IF r = "VENDOR" THEN 2 ELSE 1]

MCMaxFaults == [r \in Role |-> IF r = "DELIVERER" THEN 0 ELSE 1]

NoFaults == [r \in Role |-> 0]
=============================================================================
