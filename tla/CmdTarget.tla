----------------------------- MODULE CmdTarget -----------------------------
(***************************************************************************)
(* plugin/static/targets/cmd.go: a target whose handler runs a command.    *)
(*                                                                         *)
(* The event loop is that of module Target; this module puts CmdHandler in *)
(* the place of the handler that Target leaves open, and adds the command: *)
(* a process that may exit whenever it likes, ignore the interrupt of      *)
(* Drain, and die of nothing but a kill.  A goroutine waits for it and     *)
(* reports on a channel with room for one.  Drain waits for that report,   *)
(* but not for ever.                                                       *)
(***************************************************************************)
EXTENDS Target   \* Targets are those of kind static:cmd

VARIABLES
  cmd,     \* h.cmd # nil
  stop,    \* where Drain is: idle, waiting for the report, or again after a kill
  proc     \* the command: none, running, killed, exited, or reported to done

handler == <<cmd, stop, proc>>
cmdVars == <<vars, handler>>

CmdInit ==
  /\ Init
  /\ cmd  = [t \in Targets |-> FALSE]
  /\ stop = [t \in Targets |-> "idle"]
  /\ proc = [t \in Targets |-> "none"]

-----------------------------------------------------------------------------
(* The command and the goroutine that waits for it.                        *)

Exits(t) ==
  /\ proc[t] \in {"running", "killed"}
  /\ proc' = Put(proc, t, "exited")
  /\ UNCHANGED <<vars, cmd, stop>>

Reports(t) ==
  /\ proc[t] = "exited"
  /\ proc' = Put(proc, t, "reported")
  /\ UNCHANGED <<vars, cmd, stop>>

-----------------------------------------------------------------------------
(* The handler, called by the loop.                                        *)

\* The handler returns to the loop, and the backend is what it says.
Return(t, e, b) ==
  /\ failed'  = Put(failed, t, e)
  /\ pc' = Put(pc, t, CASE pc[t] = "warming"  -> "warmed"
                        [] pc[t] = "draining" -> "drained"
                        [] OTHER              -> "closeGroup")
  /\ backend' = Put(backend, t, IF pc[t] = "closeHandler" THEN "closed" ELSE b)
  /\ UNCHANGED <<state, err, requests, ctxDone, closing, group>>

\* Warm does nothing while it holds a command, running or not; else it starts
\* one, which may fail.
StartCommand(t) ==
  /\ pc[t] = "warming"
  /\ \E e \in IF cmd[t] THEN {FALSE} ELSE BOOLEAN :
       /\ Return(t, e, IF e THEN "down" ELSE "up")
       /\ cmd'  = Put(cmd, t, ~e)
       /\ proc' = IF cmd[t] \/ e THEN proc ELSE Put(proc, t, "running")
  /\ UNCHANGED stop

\* Drain, and Close, which calls it.
Draining(t) == pc[t] \in {"draining", "closeHandler"} /\ stop[t] = "idle"

DrainNothing(t) ==
  /\ Draining(t) /\ ~cmd[t]
  /\ Return(t, FALSE, "down")
  /\ UNCHANGED handler

\* Mistake: only interrupt, and do not wait.
InterruptOnly(t) ==
  /\ Draining(t) /\ cmd[t]
  /\ cmd' = Put(cmd, t, FALSE)
  /\ Return(t, FALSE, "down")
  /\ UNCHANGED <<stop, proc>>

\* An interrupt that cannot be delivered (the command has been waited for) is
\* followed by a kill that cannot either.
Interrupt(t) ==
  /\ Draining(t) /\ cmd[t]
  /\ cmd'  = Put(cmd, t, FALSE)
  /\ stop' = Put(stop, t, "interrupted")
  /\ UNCHANGED <<vars, proc>>

\* The report arrives, in the select or after the kill.
DrainDone(t) ==
  /\ stop[t] # "idle" /\ proc[t] = "reported"
  /\ stop' = Put(stop, t, "idle")
  /\ proc' = Put(proc, t, "none")
  /\ Return(t, FALSE, "down")
  /\ UNCHANGED cmd

\* Mistake: wait for the report without a kill.
TimeoutWaits(t) ==
  /\ stop[t] = "interrupted"
  /\ stop' = Put(stop, t, "killed")
  /\ UNCHANGED <<vars, cmd, proc>>

\* Five seconds are over.  A kill fails when the command has been waited for,
\* its report sent or about to be; Drain then returns without it.
Timeout(t) ==
  /\ stop[t] = "interrupted"
  /\ \/ /\ proc[t] # "reported"
        /\ stop' = Put(stop, t, "killed")
        /\ proc' = Put(proc, t, IF proc[t] = "running" THEN "killed" ELSE proc[t])
        /\ UNCHANGED <<vars, cmd>>
     \/ /\ proc[t] \in {"exited", "reported"}
        /\ stop' = Put(stop, t, "idle")
        /\ proc' = Put(proc, t, "none")
        /\ Return(t, FALSE, "down")
        /\ UNCHANGED cmd

Handler(t) == StartCommand(t) \/ DrainNothing(t) \/ Interrupt(t) \/ DrainDone(t) \/ Timeout(t)

-----------------------------------------------------------------------------
(* The rest is Target's: what callers do, and the loop between two calls.   *)

Caller(t) == UNCHANGED handler /\ (Warm(t) \/ Drain(t) \/ Close(t) \/ Cancel(t))

CmdLoop(t) ==
  /\ UNCHANGED handler
  /\ \/ Receive(t) \/ SelectDone(t) \/ CheckClosed(t)
     \/ EndWarm(t) \/ EndDrain(t)   \/ EndMark(t)
     \/ CloseGroup(t) \/ Record(t)

CmdCancelParent == UNCHANGED handler /\ CancelParent

CmdNext ==
  \/ \E t \in Targets : \/ Caller(t) \/ CmdLoop(t) \/ Handler(t)
                        \/ Exits(t)  \/ Reports(t)
  \/ CmdCancelParent

\* The goroutines run, the timer fires, the kernel carries out a kill.  Nothing
\* makes a command exit otherwise.
CmdFairness ==
  \A t \in Targets :
    /\ WF_cmdVars(CmdLoop(t) \/ Handler(t)) /\ WF_cmdVars(Caller(t) /\ Cancel(t))
    /\ SF_cmdVars(UNCHANGED handler /\ SelectDone(t))
    /\ WF_cmdVars(Reports(t)) /\ WF_cmdVars(proc[t] = "killed" /\ Exits(t))

CmdSpec == CmdInit /\ [][CmdNext]_cmdVars /\ CmdFairness

-----------------------------------------------------------------------------
(* Properties.                                                             *)

CmdTypeOK ==
  /\ cmd  \in [Targets -> BOOLEAN]
  /\ stop \in [Targets -> {"idle", "interrupted", "killed"}]
  /\ proc \in [Targets -> {"none", "running", "killed", "exited", "reported"}]

\* No command is left behind: a target that is Inactive, with an error or
\* without, and one whose handler is closed have none, however Close, a Warm in
\* flight, the command's own exit, the timeout and the kill fall together.  And
\* a Warm that the loop begins finds none, so that it starts the command and
\* never takes one that has died for a running one.
NothingLeftRunning ==
  \A t \in Targets :
    state[t] = "Inactive" \/ backend[t] = "closed" \/ pc[t] = "warming" =>
      proc[t] = "none" /\ ~cmd[t]

\* What it rests on: there is a process exactly while the handler holds the
\* command or Drain is about to get rid of it, and none is held when a Warm is
\* on its way, when one has failed and when Drain, which never fails, is over.
Held ==
  \A t \in Targets :
    /\ proc[t] # "none" <=> cmd[t] \/ stop[t] # "idle"
    /\ stop[t] # "idle" => pc[t] \in {"draining", "closeHandler"} /\ ~cmd[t]
    /\ cmd[t] => /\ requests[t] # <<"Warming">>
                 /\ pc[t] \notin {"warm", "warming", "drained"}
                 /\ pc[t] = "warmed" => ~failed[t]
    /\ pc[t] = "drained" => ~failed[t]

CmdIInv == IInv /\ CmdTypeOK /\ Held /\ NothingLeftRunning

\* With this handler the event loop is that of Target, its liveness included:
\* Drain and Close return although the command ignores the interrupt.
IsATarget == Spec
=============================================================================
