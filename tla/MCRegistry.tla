----------------------------- MODULE MCRegistry -----------------------------
(* Registry for TLC: two targets, so that a name is asked for while its first *)
(* owner winds down, and changes hands while that one's frontend lives.      *)
EXTENDS Registry
=============================================================================
