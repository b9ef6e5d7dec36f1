----------------------------- MODULE MCSettlement -----------------------------
(***************************************************************************)
(* Instances of Settlement for TLC: one campaign that ends at the midnight *)
(* and one that goes on or is scheduled to start then.                     *)
(***************************************************************************)
EXTENDS Settlement

CONSTANTS c1, c2, k1, k2

Starts == [c \in Campaigns |-> IF c = c2 THEN 1 ELSE 0]
Ends   == [c \in Campaigns |-> IF c = c1 THEN 1 ELSE LastDay + 1]
=============================================================================
