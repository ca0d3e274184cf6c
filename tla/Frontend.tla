------------------------------ MODULE Frontend ------------------------------
(***************************************************************************)
(* pkg/frontend/frontend.go: the lifecycle of the listeners.               *)
(*                                                                         *)
(* A frontend is built like a target: an event loop, a mailbox of capacity *)
(* one and a state guarded by a lock.  Its loop also listens to the warm   *)
(* signals of its handler (a channel of capacity one) and passes them to   *)
(* the target it is bound to, and its mapping sits in the dataplane group  *)
(* of that target from New until the loop ends.                            *)
(*                                                                         *)
(* The target and the dataplane group are not variables of this module:    *)
(* WarmSignal and Unbind say what the frontend does, module Gateway joins  *)
(* them with what the target does at the same instant.                     *)
(***************************************************************************)
EXTENDS Naturals, Sequences

CONSTANT Frontends   \* the registered frontends

VARIABLES
  state,      \* f.state, guarded by f.lock
  err,        \* f.err # nil, guarded by f.lock
  requests,   \* f.requests, a channel of capacity 1
  pc,         \* where the event loop is
  failed,     \* the loop's local: the last handler call returned an error
  ctxDone,    \* f.ctx is done: its own cancel, or the engine's, was called
  closing,    \* a Close call has unlocked and not yet called f.cancel
  listener,   \* what the handler manages: down, up or closed
  signal,     \* a warm signal waits in handler.ShouldWarm()
  bound       \* f.mapping is in the group of the target

vars == <<state, err, requests, pc, failed, ctxDone, closing, listener, signal, bound>>

caller == <<state, err, requests>>       \* written under f.lock by callers
world  == <<listener, signal, bound>>    \* handler and dataplane

States == {"Stopped", "Starting", "Running", "Stopping", "Closed"}

\* The value of one of the functions above changes at frontend f only.
Put(g, f, v) == [g EXCEPT ![f] = v]

\* New has added the mapping to the group before the loop starts.
Init ==
  /\ state    = [f \in Frontends |-> "Stopped"]
  /\ err      = [f \in Frontends |-> FALSE]
  /\ requests = [f \in Frontends |-> << >>]
  /\ pc       = [f \in Frontends |-> "select"]
  /\ failed   = [f \in Frontends |-> FALSE]
  /\ ctxDone  = [f \in Frontends |-> FALSE]
  /\ closing  = [f \in Frontends |-> FALSE]
  /\ listener = [f \in Frontends |-> "down"]
  /\ signal   = [f \in Frontends |-> FALSE]
  /\ bound    = [f \in Frontends |-> TRUE]

-----------------------------------------------------------------------------
(* What callers do: Start, Stop, Close and the engine's cancellation.      *)

\* Submit a request under the lock; a send into a full channel would block
\* with the lock held, so the send carries no guard.
Submit(f, s) ==
  /\ err'      = Put(err, f, FALSE)
  /\ state'    = Put(state, f, s)
  /\ requests' = Put(requests, f, Append(requests[f], s))
  /\ UNCHANGED <<pc, failed, ctxDone, closing, world>>

\* In any other state Start (Stop) only returns true or false.
\* Mistake: accept a start while a stop is under way.
StartWhileStopping(f) == state[f] \in {"Stopped", "Stopping"} /\ Submit(f, "Starting")

Start(f) == state[f] = "Stopped" /\ Submit(f, "Starting")
Stop(f)  == state[f] = "Running" /\ Submit(f, "Stopping")

\* Close, up to its Unlock; a frontend already Closed is left alone.
Close(f) ==
  /\ state[f] # "Closed"
  /\ state'   = Put(state, f, "Closed")
  /\ closing' = Put(closing, f, TRUE)
  /\ UNCHANGED <<err, requests, pc, failed, ctxDone, world>>

\* The rest of Close: f.cancel().
\* Mistake: return without it.
CancelForgotten(f) ==
  /\ closing[f]
  /\ closing' = Put(closing, f, FALSE)
  /\ UNCHANGED <<caller, pc, failed, ctxDone, world>>

Cancel(f) ==
  /\ closing[f]
  /\ closing' = Put(closing, f, FALSE)
  /\ ctxDone' = Put(ctxDone, f, TRUE)
  /\ UNCHANGED <<caller, pc, failed, world>>

\* The engine's context, the parent of every frontend's, is cancelled.
CancelParent ==
  /\ \E f \in Frontends : ~ctxDone[f]
  /\ ctxDone' = [f \in Frontends |-> TRUE]
  /\ UNCHANGED <<caller, pc, failed, closing, world>>

-----------------------------------------------------------------------------
(* The handler's own activity.                                             *)

\* The handler drops a signal into its channel if there is room: the ticker of
\* static:always while it is started, a request of static:http whenever it ends,
\* after Stop and Close too, which wait for it five seconds and no longer.  When
\* the loop has given the mapping back nobody reads the channel any more.
Tick(f) ==
  /\ pc[f] \notin {"record", "exited"}
  /\ signal' = Put(signal, f, TRUE)
  /\ UNCHANGED <<caller, pc, failed, ctxDone, closing, listener, bound>>

-----------------------------------------------------------------------------
(* The event loop.                                                         *)

Goto(f, p) == pc' = Put(pc, f, p)

\* select: with several channels ready Go picks any.
Receive(f) ==
  /\ pc[f] = "select"
  /\ requests[f] # << >>
  /\ requests' = Put(requests, f, Tail(requests[f]))
  /\ Goto(f, IF Head(requests[f]) = "Starting" THEN "start" ELSE "stop")
  /\ UNCHANGED <<state, err, failed, ctxDone, closing, world>>

\* The loop calls target.Warm(), whatever state the frontend is in.
WarmSignal(f) ==
  /\ pc[f] = "select"
  /\ signal[f]
  /\ signal' = Put(signal, f, FALSE)
  /\ UNCHANGED <<caller, pc, failed, ctxDone, closing, listener, bound>>

SelectDone(f) ==
  /\ pc[f] = "select"
  /\ ctxDone[f]
  /\ Goto(f, "end")
  /\ UNCHANGED <<caller, failed, ctxDone, closing, world>>

\* The read-locked test at the head of startBlocking and stopBlocking.
CheckClosed(f) ==
  /\ pc[f] \in {"start", "stop"}
  /\ Goto(f, CASE state[f] = "Closed" -> "select"
               [] pc[f] = "start"     -> "starting"
               [] OTHER               -> "stopping")
  /\ UNCHANGED <<caller, failed, ctxDone, closing, world>>

\* handler.Start or handler.Stop runs without the lock and returns.  Success
\* leaves the listener up (down); after an error it may be either.
HandlerReturns(f, from, to, goal) ==
  /\ pc[f] = from
  /\ \E e \in BOOLEAN, l \in {"up", "down"} :
       /\ ~e => l = goal
       /\ failed'   = Put(failed, f, e)
       /\ listener' = Put(listener, f, l)
  /\ Goto(f, to)
  /\ UNCHANGED <<caller, ctxDone, closing, signal, bound>>

HandlerStart(f) == HandlerReturns(f, "starting", "started", "up")
HandlerStop(f)  == HandlerReturns(f, "stopping", "stopped", "down")

\* The critical section that ends startBlocking (stopBlocking).  A job that
\* failed leaves the state of the opposite job, with none queued.
Abandon(f) == state[f] = "Closed" /\ UNCHANGED <<state, err>>

\* Mistake: do not look whether the frontend was closed meanwhile.
CompleteUnchecked(f, good, bad) ==
  /\ err'   = Put(err, f, failed[f])
  /\ state' = Put(state, f, IF failed[f] THEN bad ELSE good)

\* Mistake: keep the announced state after a failure.
CompleteSilently(f, good, bad) ==
  /\ state[f] # "Closed"
  /\ state' = Put(state, f, good)
  /\ UNCHANGED err

\* Mistake: return early after a failure.
CompleteStays(f, good, bad) ==
  /\ state[f] # "Closed"
  /\ state' = IF failed[f] THEN state ELSE Put(state, f, good)
  /\ UNCHANGED err

Complete(f, good, bad) ==
  /\ state[f] # "Closed"
  /\ err'   = Put(err, f, failed[f])
  /\ state' = Put(state, f, IF failed[f] THEN bad ELSE good)

EndStart(f) ==
  /\ pc[f] = "started"
  /\ Abandon(f) \/ Complete(f, "Running", "Stopping")
  /\ Goto(f, "select")
  /\ UNCHANGED <<requests, failed, ctxDone, closing, world>>

EndStop(f) ==
  /\ pc[f] = "stopped"
  /\ Abandon(f) \/ Complete(f, "Stopped", "Starting")
  /\ Goto(f, "select")
  /\ UNCHANGED <<requests, failed, ctxDone, closing, world>>

\* endBlocking: mark Closed, close the handler, unbind, record the error.
\* Mistake: tear down without marking the frontend Closed.
EndMarkForgotten(f) ==
  /\ pc[f] = "end"
  /\ Goto(f, "closeHandler")
  /\ UNCHANGED <<caller, failed, ctxDone, closing, world>>

EndMark(f) ==
  /\ pc[f] = "end"
  /\ state' = Put(state, f, "Closed")
  /\ Goto(f, "closeHandler")
  /\ UNCHANGED <<err, requests, failed, ctxDone, closing, world>>

CloseHandler(f) ==
  /\ pc[f] = "closeHandler"
  /\ \E e \in BOOLEAN : failed' = Put(failed, f, e)
  /\ listener' = Put(listener, f, "closed")
  /\ Goto(f, "unbind")
  /\ UNCHANGED <<caller, ctxDone, closing, signal, bound>>

\* group.DelMappings(f.mapping): refused by a closed group (which has dropped
\* the mapping itself, or has failed to) and when the dataplane fails.
\* Mistake: forget the error of DelMappings.
UnbindSilently(f, ok) ==
  /\ pc[f] = "unbind"
  /\ bound' = Put(bound, f, bound[f] /\ ~ok)
  /\ Goto(f, "record")
  /\ UNCHANGED <<caller, failed, ctxDone, closing, listener, signal>>

Unbind(f, ok) ==
  /\ pc[f] = "unbind"
  /\ bound'  = Put(bound, f, bound[f] /\ ~ok)
  /\ failed' = Put(failed, f, failed[f] \/ ~ok)
  /\ Goto(f, "record")
  /\ UNCHANGED <<caller, ctxDone, closing, listener, signal>>

Record(f) ==
  /\ pc[f] = "record"
  /\ err' = Put(err, f, failed[f])
  /\ Goto(f, "exited")
  /\ UNCHANGED <<state, requests, failed, ctxDone, closing, world>>

\* The steps of the loop that involve nobody else.
OwnLoop(f) ==
  \/ Receive(f)      \/ SelectDone(f)
  \/ CheckClosed(f)
  \/ HandlerStart(f) \/ HandlerStop(f)
  \/ EndStart(f)     \/ EndStop(f)
  \/ EndMark(f)      \/ CloseHandler(f) \/ Record(f)

Loop(f) == OwnLoop(f) \/ WarmSignal(f) \/ \E ok \in BOOLEAN : Unbind(f, ok)

Next ==
  \/ \E f \in Frontends : \/ Start(f) \/ Stop(f) \/ Close(f) \/ Cancel(f)
                          \/ Tick(f)  \/ Loop(f)
  \/ CancelParent

\* As for targets: what can run does run, handlers return, and a branch of the
\* select that is ready at every pass is taken at some pass.
Fairness ==
  \A f \in Frontends :
    /\ WF_vars(Loop(f)) /\ WF_vars(Cancel(f))
    /\ SF_vars(SelectDone(f)) /\ SF_vars(Receive(f)) /\ SF_vars(WarmSignal(f))

Spec == Init /\ [][Next]_vars /\ Fairness

-----------------------------------------------------------------------------
(* Invariants.                                                             *)

StartPhase == {"start", "starting", "started"}
StopPhase  == {"stop", "stopping", "stopped"}
EndPhase   == {"end", "closeHandler", "unbind", "record", "exited"}
Loc        == {"select"} \cup StartPhase \cup StopPhase \cup EndPhase

TypeOK ==
  /\ state    \in [Frontends -> States]
  /\ err      \in [Frontends -> BOOLEAN]
  /\ requests \in [Frontends -> Seq({"Starting", "Stopping"})]
  /\ pc       \in [Frontends -> Loc]
  /\ failed   \in [Frontends -> BOOLEAN]
  /\ ctxDone  \in [Frontends -> BOOLEAN]
  /\ closing  \in [Frontends -> BOOLEAN]
  /\ listener \in [Frontends -> {"up", "down", "closed"}]
  /\ signal   \in [Frontends -> BOOLEAN]
  /\ bound    \in [Frontends -> BOOLEAN]

\* A caller that would send finds the mailbox empty, even after a failed job:
\* the send inside the critical section of Start and Stop never blocks.
MailboxHasRoom ==
  \A f \in Frontends : /\ Len(requests[f]) <= 1
                       /\ state[f] \in {"Stopped", "Running"} => requests[f] = << >>

\* At most one job, queued or in hand, and it is the one the state announces;
\* a state that announces a job nobody has queued carries the error that the
\* opposite job left behind.
JobOf(f, kind, phase) == requests[f] = <<kind>> \/ pc[f] \in phase

OneJob ==
  \A f \in Frontends :
    /\ requests[f] \in {<< >>, <<"Starting">>, <<"Stopping">>}
    /\ requests[f] # << >> => pc[f] \notin StartPhase \cup StopPhase
    /\ state[f] = "Starting" => IF err[f] THEN ~JobOf(f, "Stopping", StopPhase)
                                ELSE JobOf(f, "Starting", StartPhase)
    /\ state[f] = "Stopping" => IF err[f] THEN ~JobOf(f, "Starting", StartPhase)
                                ELSE JobOf(f, "Stopping", StopPhase)
    /\ err[f] \/ state[f] \in {"Stopped", "Running"} =>
         state[f] = "Closed" \/ (requests[f] = << >> /\ pc[f] \notin StartPhase \cup StopPhase)

\* A Closed frontend has been, or is just being, cancelled; the loop ends only
\* on cancellation; the handler is closed before the mapping is given back.
Shutdown ==
  \A f \in Frontends :
    /\ closing[f] => state[f] = "Closed"
    /\ state[f] = "Closed" => closing[f] \/ ctxDone[f]
    /\ pc[f] \in EndPhase => ctxDone[f]
    /\ pc[f] \in EndPhase \ {"end"} => state[f] = "Closed"
    /\ ~bound[f] => pc[f] \in {"record", "exited"}
    /\ listener[f] = "closed" <=> pc[f] \in {"unbind", "record", "exited"}

\* A Running frontend listens and a Stopped one does not; a frontend that has
\* exited without an error has given its mapping back.
SettledIsHonest ==
  \A f \in Frontends :
    /\ state[f] = "Running" => listener[f] = "up" /\ ~err[f]
    /\ state[f] = "Stopped" => listener[f] = "down" /\ ~err[f]
    /\ pc[f] = "exited" /\ ~err[f] => ~bound[f]

\* What SettledIsHonest rests on while the loop is under way.
HandlerHonest ==
  \A f \in Frontends :
    /\ pc[f] = "started" /\ ~failed[f] => listener[f] = "up"
    /\ pc[f] = "stopped" /\ ~failed[f] => listener[f] = "down"
    /\ pc[f] = "record"  /\ ~failed[f] => ~bound[f]

IInv == TypeOK /\ OneJob /\ Shutdown /\ SettledIsHonest /\ HandlerHonest

\* Close wins every race: a start or stop in flight does not revive the
\* frontend, and once its mapping is gone it stays gone.
ClosedIsFinal ==
  [][\A f \in Frontends : state[f] = "Closed" =>
       state'[f] = "Closed" /\ (bound'[f] => bound[f])]_vars

-----------------------------------------------------------------------------
(* Progress.                                                               *)

\* Every accepted Start or Stop is carried out, refused with an error, or
\* overtaken by Close, however many warm signals compete for the loop.
RequestsSettle ==
  \A f \in Frontends : state[f] \in {"Starting", "Stopping"} ~>
                       state[f] \in {"Stopped", "Running", "Closed"} \/ err[f]

\* Closing a frontend, or the engine, ends in an exited loop.
ShutdownCompletes ==
  \A f \in Frontends : ctxDone[f] \/ state[f] = "Closed" ~> pc[f] = "exited"

-----------------------------------------------------------------------------
(* What a frontend promises, without loop, mailbox and contexts.           *)

Promise == INSTANCE FrontendLifecycle WITH
  mapping <- [f \in Frontends |-> IF ~bound[f] THEN "gone"
                                  ELSE IF pc[f] \in {"record", "exited"} THEN "left"
                                  ELSE "held"],
  over    <- [f \in Frontends |-> pc[f] = "exited"]

\* The event loop implements the promised lifecycle, its liveness included.
KeepsPromise == Promise!Spec

-----------------------------------------------------------------------------
(* What the documentation says and the code does not do.                   *)

\* frontend.go: Start "returns false when a conflicting stop is already in
\* progress".  It returns false in Stopping, so a stop should be in progress.
StoppingMeansStopInProgress ==
  \A f \in Frontends : state[f] = "Stopping" => JobOf(f, "Stopping", StopPhase)
=============================================================================
