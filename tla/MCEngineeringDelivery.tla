------------------------ MODULE MCEngineeringDelivery ------------------------
(***************************************************************************)
(* Instances of EngineeringDelivery for TLC: two users, a plan that the    *)
(* safety engine lets pass and one that it blocks.                         *)
(***************************************************************************)
EXTENDS EngineeringDelivery

CONSTANTS harmless, risky, c1, c2
=============================================================================
