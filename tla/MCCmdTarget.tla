---------------------------- MODULE MCCmdTarget -----------------------------
(* CmdTarget for TLC.  The state space is finite as it is.                   *)
EXTENDS CmdTarget
=============================================================================
