------------------------------ MODULE MCGateway ------------------------------
(* Gateway for TLC: every frontend is bound to the one target.               *)
EXTENDS Gateway

CONSTANTS t1

OneTarget == [f \in Frontends |-> t1]
=============================================================================
