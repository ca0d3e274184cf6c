------------------------------ MODULE MCTarget -------------------------------
(* Target for TLC.  The state space is finite as it is; no bound is needed. *)
EXTENDS Target
=============================================================================
