------------------------------- MODULE MCIpc -------------------------------
(* Ipc for TLC: proxygwctl's client and the daemon's server.                 *)
EXTENDS Ipc

ClientServer == [e \in Ends |-> IF e = "a" THEN "client" ELSE "server"]
Silent       == [e \in Ends |-> 0]
FirstOnly    == [e \in Ends |-> IF e = "a" THEN 1 ELSE 0]
=============================================================================
