------------------------------- MODULE Target -------------------------------
(***************************************************************************)
(* pkg/target/target.go: the lifecycle of the managed backends.            *)
(*                                                                         *)
(* Every target has an event loop of its own (a goroutine), a mailbox of   *)
(* capacity one (the channel `requests') and a state guarded by a lock.    *)
(* Warm, Drain and Close are called by any goroutine; the loop calls the   *)
(* handler without the lock and then takes it to record the outcome and to *)
(* switch the DNAT group of the target.  What the code does while it holds *)
(* the lock is one step; a call of the handler, and whatever lies between  *)
(* two critical sections, is a step boundary.                              *)
(*                                                                         *)
(* The handler and the dataplane group are the target's environment.  A    *)
(* handler call may fail; the dataplane refuses what the contract of       *)
(* pkg/dataplane/group.go lets it refuse.                                  *)
(***************************************************************************)
EXTENDS Naturals, Sequences

CONSTANT Targets   \* the registered targets

VARIABLES
  state,      \* t.state, guarded by t.lock
  err,        \* t.err # nil, guarded by t.lock
  requests,   \* t.requests, a channel of capacity 1
  pc,         \* where the event loop is
  failed,     \* the loop's local: the last handler call returned an error
  ctxDone,    \* t.ctx is done: its own cancel, or the engine's, was called
  closing,    \* a Close call has unlocked and not yet called t.cancel
  backend,    \* what the handler manages: down, up or closed
  group       \* t.group: open until closed; routed while its DNAT is live

vars == <<state, err, requests, pc, failed, ctxDone, closing, backend, group>>

caller == <<state, err, requests>>          \* written under t.lock by callers
local  == <<pc, failed>>                    \* private to the event loop
world  == <<backend, group>>                \* handler and dataplane

States == {"Inactive", "Active", "Warming", "Draining", "Closed"}

\* The value of one of the functions above changes at target t only.
Put(f, t, v) == [f EXCEPT ![t] = v]

Init ==
  /\ state    = [t \in Targets |-> "Inactive"]
  /\ err      = [t \in Targets |-> FALSE]
  /\ requests = [t \in Targets |-> << >>]
  /\ pc       = [t \in Targets |-> "select"]
  /\ failed   = [t \in Targets |-> FALSE]
  /\ ctxDone  = [t \in Targets |-> FALSE]
  /\ closing  = [t \in Targets |-> FALSE]
  /\ backend  = [t \in Targets |-> "down"]
  /\ group    = [t \in Targets |-> [open |-> TRUE, routed |-> FALSE]]

-----------------------------------------------------------------------------
(* What callers do: Warm, Drain, Close and the engine's cancellation.      *)

\* Submit a request under the lock.  The send is not guarded by the room left
\* in the channel: a send into a full channel would block with the lock held.
Submit(t, s) ==
  /\ err'      = Put(err, t, FALSE)
  /\ state'    = Put(state, t, s)
  /\ requests' = Put(requests, t, Append(requests[t], s))
  /\ UNCHANGED <<local, ctxDone, closing, world>>

\* In any other state Warm (Drain) only returns true or false.
\* Mistake: accept a warm while a drain is under way.
WarmWhileDraining(t) == state[t] \in {"Inactive", "Draining"} /\ Submit(t, "Warming")
Warm(t)  == state[t] = "Inactive" /\ Submit(t, "Warming")
Drain(t) == state[t] = "Active"   /\ Submit(t, "Draining")

\* Close, up to its Unlock; a target already Closed is left alone.
Close(t) ==
  /\ state[t] # "Closed"
  /\ state'   = Put(state, t, "Closed")
  /\ closing' = Put(closing, t, TRUE)
  /\ UNCHANGED <<err, requests, local, ctxDone, world>>

\* The rest of Close: t.cancel().
\* Mistake: return without it.
CancelForgotten(t) ==
  /\ closing[t]
  /\ closing' = Put(closing, t, FALSE)
  /\ UNCHANGED <<caller, ctxDone, local, world>>

Cancel(t) ==
  /\ closing[t]
  /\ closing' = Put(closing, t, FALSE)
  /\ ctxDone' = Put(ctxDone, t, TRUE)
  /\ UNCHANGED <<caller, local, world>>

\* The engine's context, the parent of every target's, is cancelled: by
\* Engine.Close or by the signal context above it.
CancelParent ==
  /\ \E t \in Targets : ~ctxDone[t]
  /\ ctxDone' = [t \in Targets |-> TRUE]
  /\ UNCHANGED <<caller, local, closing, world>>

-----------------------------------------------------------------------------
(* The event loop.                                                         *)

\* The loop moves to p and nothing but the variables named elsewhere changes.
Goto(t, p) == pc' = Put(pc, t, p)

\* select: with both channels ready Go picks either.
Receive(t) ==
  /\ pc[t] = "select"
  /\ requests[t] # << >>
  /\ requests' = Put(requests, t, Tail(requests[t]))
  /\ Goto(t, IF Head(requests[t]) = "Warming" THEN "warm" ELSE "drain")
  /\ UNCHANGED <<state, err, failed, ctxDone, closing, world>>

SelectDone(t) ==
  /\ pc[t] = "select"
  /\ ctxDone[t]
  /\ Goto(t, "end")
  /\ UNCHANGED <<caller, failed, ctxDone, closing, world>>

\* The read-locked test at the head of warmBlocking and drainBlocking.
CheckClosed(t) ==
  /\ pc[t] \in {"warm", "drain"}
  /\ Goto(t, CASE state[t] = "Closed" -> "select"
               [] pc[t] = "warm"      -> "warming"
               [] OTHER               -> "draining")
  /\ UNCHANGED <<caller, failed, ctxDone, closing, world>>

\* handler.Warm or handler.Drain runs without the lock and returns.  Success
\* leaves the backend up (down); after an error it may be either.
HandlerReturns(t, from, to, goal) ==
  /\ pc[t] = from
  /\ \E e \in BOOLEAN, b \in {"up", "down"} :
       /\ ~e => b = goal
       /\ failed'  = Put(failed, t, e)
       /\ backend' = Put(backend, t, b)
  /\ Goto(t, to)
  /\ UNCHANGED <<caller, ctxDone, closing, group>>

HandlerWarm(t)  == HandlerReturns(t, "warming", "warmed", "up")
HandlerDrain(t) == HandlerReturns(t, "draining", "drained", "down")

\* The critical section that ends warmBlocking (drainBlocking): target closed
\* meanwhile, handler failed, or handler succeeded and the group is switched.
Abandon(t) ==
  /\ state[t] = "Closed"
  /\ UNCHANGED <<state, err, group>>

HandlerFailed(t, back) ==
  /\ state[t] # "Closed"
  /\ failed[t]
  /\ state' = Put(state, t, back)
  /\ err'   = Put(err, t, TRUE)
  /\ UNCHANGED group

\* Mistake: drop the error of Enable or Disable.
SwitchGroupSilently(t, on) ==
  /\ err' = Put(err, t, FALSE)
  /\ \/ group[t].open /\ group' = [group EXCEPT ![t].routed = on]
     \/ UNCHANGED group

\* group.Enable (on) or group.Disable (~on).  The group may refuse, unless it
\* is open and already where it should be.
SwitchGroup(t, on) ==
  \/ /\ group[t].open
     /\ group' = [group EXCEPT ![t].routed = on]
     /\ err'   = Put(err, t, FALSE)
  \/ /\ ~group[t].open \/ group[t].routed # on
     /\ err'   = Put(err, t, TRUE)
     /\ UNCHANGED group

\* Mistake: do not look whether the target was closed meanwhile.
HandlerSucceededUnchecked(t, next, on) ==
  /\ ~failed[t]
  /\ state' = Put(state, t, next)
  /\ SwitchGroup(t, on)

HandlerSucceeded(t, next, on) ==
  /\ state[t] # "Closed"
  /\ ~failed[t]
  /\ state' = Put(state, t, next)
  /\ SwitchGroup(t, on)

EndWarm(t) ==
  /\ pc[t] = "warmed"
  /\ \/ Abandon(t)
     \/ HandlerFailed(t, "Inactive")
     \/ HandlerSucceeded(t, "Active", TRUE)
  /\ Goto(t, "select")
  /\ UNCHANGED <<requests, failed, ctxDone, closing, backend>>

EndDrain(t) ==
  /\ pc[t] = "drained"
  /\ \/ Abandon(t)
     \/ HandlerFailed(t, "Active")
     \/ HandlerSucceeded(t, "Inactive", FALSE)
  /\ Goto(t, "select")
  /\ UNCHANGED <<requests, failed, ctxDone, closing, backend>>

\* endBlocking: mark Closed, close the handler, close the group, record err.
\* Mistake: tear down without marking the target Closed.
EndMarkForgotten(t) ==
  /\ pc[t] = "end"
  /\ Goto(t, "closeHandler")
  /\ UNCHANGED <<caller, failed, ctxDone, closing, world>>

EndMark(t) ==
  /\ pc[t] = "end"
  /\ state' = Put(state, t, "Closed")
  /\ Goto(t, "closeHandler")
  /\ UNCHANGED <<err, requests, failed, ctxDone, closing, world>>

CloseHandler(t) ==
  /\ pc[t] = "closeHandler"
  /\ \E e \in BOOLEAN : failed' = Put(failed, t, e)
  /\ backend' = Put(backend, t, "closed")
  /\ Goto(t, "closeGroup")
  /\ UNCHANGED <<caller, ctxDone, closing, group>>

\* The group is closed even when the dataplane fails to remove its mappings.
CloseGroup(t) ==
  /\ pc[t] = "closeGroup"
  /\ \E left \in {FALSE, group[t].routed} :
       /\ group'  = Put(group, t, [open |-> FALSE, routed |-> left])
       /\ failed' = Put(failed, t, failed[t] \/ left)
  /\ Goto(t, "record")
  /\ UNCHANGED <<caller, ctxDone, closing, backend>>

Record(t) ==
  /\ pc[t] = "record"
  /\ err' = Put(err, t, failed[t])
  /\ Goto(t, "exited")
  /\ UNCHANGED <<state, requests, failed, ctxDone, closing, world>>

Loop(t) ==
  \/ Receive(t)      \/ SelectDone(t)
  \/ CheckClosed(t)
  \/ HandlerWarm(t)  \/ HandlerDrain(t)
  \/ EndWarm(t)      \/ EndDrain(t)
  \/ EndMark(t)      \/ CloseHandler(t)
  \/ CloseGroup(t)   \/ Record(t)

Next ==
  \/ \E t \in Targets : \/ Warm(t) \/ Drain(t) \/ Close(t) \/ Cancel(t)
                        \/ Loop(t)
  \/ CancelParent

\* A goroutine that can run does run, and handlers return.  A select whose
\* done branch stays ready is taken at some pass (Go chooses at random among
\* the ready branches), which is more than weak fairness: the branch is not
\* enabled while the loop serves a request.
Fairness ==
  \A t \in Targets : WF_vars(Loop(t)) /\ SF_vars(SelectDone(t)) /\ WF_vars(Cancel(t))

Spec == Init /\ [][Next]_vars /\ Fairness

-----------------------------------------------------------------------------
(* Invariants.                                                             *)

WarmPhase  == {"warm", "warming", "warmed"}
DrainPhase == {"drain", "draining", "drained"}
EndPhase   == {"end", "closeHandler", "closeGroup", "record", "exited"}
Loc        == {"select"} \cup WarmPhase \cup DrainPhase \cup EndPhase

TypeOK ==
  /\ state    \in [Targets -> States]
  /\ err      \in [Targets -> BOOLEAN]
  /\ requests \in [Targets -> Seq({"Warming", "Draining"})]
  /\ pc       \in [Targets -> Loc]
  /\ failed   \in [Targets -> BOOLEAN]
  /\ ctxDone  \in [Targets -> BOOLEAN]
  /\ closing  \in [Targets -> BOOLEAN]
  /\ backend  \in [Targets -> {"up", "down", "closed"}]
  /\ group    \in [Targets -> [open : BOOLEAN, routed : BOOLEAN]]

\* A caller that would send finds the mailbox empty: the send inside the
\* critical section of Warm and Drain never blocks, so no caller ever sits on
\* the lock waiting for the loop, which needs that lock to make room.
MailboxHasRoom ==
  \A t \in Targets : /\ Len(requests[t]) <= 1
                     /\ state[t] \in {"Inactive", "Active"} => requests[t] = << >>

\* There is at most one job, queued or in hand, and it is the one the state
\* announces.  Only a target that is Closed may hold a job it will not do.
JobOf(t, kind, phase) == requests[t] = <<kind>> \/ pc[t] \in phase

OneJob ==
  \A t \in Targets :
    /\ requests[t] \in {<< >>, <<"Warming">>, <<"Draining">>}
    /\ requests[t] # << >> => pc[t] \notin WarmPhase \cup DrainPhase
    /\ state[t] = "Warming"  => JobOf(t, "Warming", WarmPhase)
    /\ state[t] = "Draining" => JobOf(t, "Draining", DrainPhase)
    /\ state[t] \in {"Inactive", "Active"} =>
         requests[t] = << >> /\ pc[t] \notin WarmPhase \cup DrainPhase

\* A Closed target has been, or is just being, cancelled; the loop ends only
\* on cancellation; past the mark the target is Closed; the group is closed
\* only by the loop, after the handler.
Shutdown ==
  \A t \in Targets :
    /\ closing[t] => state[t] = "Closed"
    /\ state[t] = "Closed" => closing[t] \/ ctxDone[t]
    /\ pc[t] \in EndPhase => ctxDone[t]
    /\ pc[t] \in EndPhase \ {"end"} => state[t] = "Closed"
    /\ group[t].open = (pc[t] \notin {"record", "exited"})
    /\ backend[t] = "closed" <=> pc[t] \in {"closeGroup", "record", "exited"}

\* What status reports to an operator can be believed once nothing is going
\* on: with no error, an Active target has its backend up and its DNAT live, an
\* Inactive one has neither, and a target whose loop has exited has no DNAT.
SettledIsHonest ==
  \A t \in Targets : ~err[t] =>
    /\ state[t] = "Active"   => backend[t] = "up" /\ group[t].routed
    /\ state[t] = "Inactive" => backend[t] = "down" /\ ~group[t].routed
    /\ pc[t] = "exited"      => ~group[t].routed

\* What SettledIsHonest rests on while the loop is under way.
HandlerHonest ==
  \A t \in Targets :
    /\ pc[t] = "warmed"  /\ ~failed[t] => backend[t] = "up"
    /\ pc[t] = "drained" /\ ~failed[t] => backend[t] = "down"
    /\ pc[t] = "record"  /\ ~failed[t] => ~group[t].routed

IInv == TypeOK /\ OneJob /\ Shutdown /\ SettledIsHonest /\ HandlerHonest

-----------------------------------------------------------------------------
(* What no step may do.                                                    *)

\* Close wins every race: a warm or drain that was in flight when the target
\* was closed neither revives the target nor opens its DNAT.
ClosedIsFinal ==
  [][\A t \in Targets : state[t] = "Closed" =>
       state'[t] = "Closed" /\ (group'[t].routed => group[t].routed)]_vars

-----------------------------------------------------------------------------
(* Progress.                                                               *)

\* Closing a target, or the engine, ends in an exited loop (Wait returns) with
\* the group given back to the dataplane, whatever was queued or in flight.
ShutdownCompletes ==
  \A t \in Targets : ctxDone[t] \/ state[t] = "Closed" ~>
                     pc[t] = "exited" /\ ~group[t].open

-----------------------------------------------------------------------------
(* What a target promises, without loop, mailbox and contexts.             *)

Promise == INSTANCE TargetLifecycle WITH
  routed <- [t \in Targets |-> group[t].routed],
  open   <- [t \in Targets |-> group[t].open],
  over   <- [t \in Targets |-> pc[t] = "exited"]

\* The event loop implements the promised lifecycle, its liveness included: every
\* accepted Warm or Drain comes to a settled state, whatever its handler returns.
KeepsPromise == Promise!Spec
=============================================================================
