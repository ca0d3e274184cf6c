-------------------------- MODULE MCStaticFrontend --------------------------
(* StaticFrontend for TLC: one frontend, of either kind.                     *)
EXTENDS StaticFrontend
=============================================================================
