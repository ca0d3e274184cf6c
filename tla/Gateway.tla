------------------------------- MODULE Gateway -------------------------------
(***************************************************************************)
(* pkg/engine/engine.go, once its targets and frontends are registered:    *)
(* what passes between targets and frontends, the engine's poll loop that  *)
(* drains idle targets, and the shutdown of all of them together.          *)
(*                                                                         *)
(* A target and a frontend appear here as the lifecycle their own module   *)
(* is shown to implement (TargetLifecycle, FrontendLifecycle); where two   *)
(* of them act at the same instant, their actions are conjoined.           *)
(*                                                                         *)
(* Time is counted in poll periods.  The engine's lock is held by the poll *)
(* loop while it goes through the targets, and by Close.                   *)
(***************************************************************************)
EXTENDS Naturals

CONSTANTS
  Targets, Frontends,
  TargetOf,   \* the target each frontend is bound to
  MaxTimeout  \* the longest idle timeout, in poll periods

ASSUME TargetOfAssumption == TargetOf \in [Frontends -> Targets]
ASSUME TimeoutAssumption  == MaxTimeout \in Nat

VARIABLES
  tState, tErr, routed, open, tOver,
  fState, fErr, signal, mapping, fOver,
  closed,     \* e.closed
  ctxDone,    \* e.ctx is done, and with it the context of every resource
  pc,         \* where the poll loop is: select, dump, match, lock, sweep, exited
  todo,       \* the targets the sweep has still to visit
  dumped,     \* the flows conntrack knew when it was read, by frontend
  stale,      \* the targets of the groups StaleGroups returned
  timeout,    \* the idle timeout of each target, in poll periods
  idle,       \* poll periods since lastSeen, up to the point where it matters
  flow,       \* conntrack knows a flow that came in through the frontend
  quiet,      \* history: poll periods since a poll found a flow of the target
  fresh       \* history: Active targets that became so in the poll under way

tvars   == <<tState, tErr, routed, open, tOver>>
fvars   == <<fState, fErr, signal, mapping, fOver>>
sweep   == <<todo, dumped, stale>>
history == <<quiet, fresh>>
vars    == <<tvars, fvars, closed, ctxDone, pc, sweep, timeout, idle, flow, history>>

T == INSTANCE TargetLifecycle   WITH state <- tState, err <- tErr, over <- tOver
F == INSTANCE FrontendLifecycle WITH state <- fState, err <- fErr, over <- fOver

Init ==
  /\ T!Init /\ F!Init
  /\ closed = FALSE /\ ctxDone = FALSE
  /\ pc = "select" /\ todo = {} /\ dumped = {} /\ stale = {}
  /\ timeout \in [Targets -> 0 .. MaxTimeout]
  /\ idle  = [t \in Targets |-> 0]
  /\ flow  = [f \in Frontends |-> FALSE]
  /\ quiet = [t \in Targets |-> 0]
  /\ fresh = {}

engine == <<closed, ctxDone, pc, sweep, timeout, idle>>

-----------------------------------------------------------------------------
(* What a target or a frontend does on its own.                            *)

\* Time that matters is counted up to one period past the longest timeout.
Later(n) == IF n > MaxTimeout THEN n ELSE n + 1

\* Requests and Close come from anyone.
TargetAlone(t) ==
  /\ T!Warm(t) \/ T!Drain(t) \/ T!Close(t) \/ T!Work(t)
  /\ fresh' = {u \in Targets : /\ tState'[u] = "Active"
                               /\ u \in fresh \/ (tState[u] # "Active" /\ pc \notin {"select", "exited"})}
  /\ UNCHANGED <<fvars, engine, flow, quiet>>

\* SetTimeout takes no lock: the sweep may find the old value or the new one.
SetTimeout(t, n) ==
  /\ timeout[t] # n
  /\ timeout' = [timeout EXCEPT ![t] = n]
  /\ UNCHANGED <<tvars, fvars, closed, ctxDone, pc, sweep, idle, flow, history>>

FrontendAlone(f) ==
  /\ \/ F!Start(f) \/ F!Stop(f) \/ F!Close(f)
     \/ F!Tick(f)  \/ F!Jobs(f) \/ F!Finish(f)
  /\ UNCHANGED <<tvars, engine, flow, history>>

-----------------------------------------------------------------------------
(* What a frontend and its target do together.                             *)

\* The frontend's loop calls target.Warm(); the signal is spent whether or not
\* the target takes the request.
\* Mistake: throw the signal away.
WarmSignalDropped(f) ==
  /\ F!WarmSignal(f)
  /\ UNCHANGED <<tvars, engine, flow, history>>

WarmSignal(f) ==
  /\ F!WarmSignal(f)
  /\ \/ T!Warm(TargetOf[f])
     \/ tState[TargetOf[f]] # "Inactive" /\ UNCHANGED tvars
  /\ UNCHANGED <<engine, flow, history>>

\* DelMappings on the target's group: refused once the group is closed, and by
\* the kernel only if there is DNAT to remove.
\* Mistake: try again until the group agrees.
UnbindInsists(f) ==
  /\ open[TargetOf[f]]
  /\ F!Unbind(f, TRUE)
  /\ UNCHANGED <<tvars, engine, flow, history>>

Unbind(f) ==
  LET t == TargetOf[f] IN
  /\ \/ open[t] /\ F!Unbind(f, TRUE)
     \/ (~open[t] \/ routed[t]) /\ F!Unbind(f, FALSE)
  /\ UNCHANGED <<tvars, engine, flow, history>>

-----------------------------------------------------------------------------
(* Traffic, as conntrack sees it.                                          *)

\* A flow appears when a client connects through live DNAT; it may end at any
\* time and may outlive the DNAT.
FlowStarts(f) ==
  /\ ~flow[f] /\ mapping[f] = "held" /\ routed[TargetOf[f]]
  /\ flow' = [flow EXCEPT ![f] = TRUE]
  /\ UNCHANGED <<tvars, fvars, engine, history>>

FlowEnds(f) ==
  /\ flow[f]
  /\ flow' = [flow EXCEPT ![f] = FALSE]
  /\ UNCHANGED <<tvars, fvars, engine, history>>

-----------------------------------------------------------------------------
(* Shutdown.                                                               *)

\* SIGTERM: the daemon's context, the engine's parent, is cancelled.
Terminate ==
  /\ ~ctxDone
  /\ ctxDone' = TRUE
  /\ UNCHANGED <<tvars, fvars, closed, pc, sweep, timeout, idle, flow, history>>

\* Engine.Close, called by anyone; it needs the lock the sweep holds.
\* Mistake: refuse new work but leave the resources running.
CloseOnlyMarks ==
  /\ ~closed /\ pc # "sweep"
  /\ closed' = TRUE
  /\ UNCHANGED <<tvars, fvars, ctxDone, pc, sweep, timeout, idle, flow, history>>

Close ==
  /\ ~closed /\ pc # "sweep"
  /\ closed' = TRUE /\ ctxDone' = TRUE
  /\ UNCHANGED <<tvars, fvars, pc, sweep, timeout, idle, flow, history>>

-----------------------------------------------------------------------------
(* The poll loop.                                                          *)

\* The ticker fires and wins the select.
PollTick ==
  /\ pc = "select"
  /\ pc' = "dump"
  /\ idle'  = [t \in Targets |-> Later(idle[t])]
  /\ quiet' = [t \in Targets |-> Later(quiet[t])]
  /\ fresh' = {}
  /\ UNCHANGED <<tvars, fvars, closed, ctxDone, sweep, timeout, flow>>

\* StaleGroups reads conntrack without a lock; if that fails the poll is over.
DumpFails ==
  /\ pc = "dump"
  /\ pc' = "select"
  /\ fresh' = {}
  /\ UNCHANGED <<tvars, fvars, closed, ctxDone, sweep, timeout, idle, flow, quiet>>

Dump ==
  /\ pc = "dump"
  /\ pc' = "match"
  /\ dumped' = {f \in Frontends : flow[f]}
  /\ UNCHANGED <<tvars, fvars, closed, ctxDone, todo, stale, timeout, idle, flow, history>>

\* Under the dataplane's lock the flows are matched with the mappings of the
\* groups that are still registered.
Match ==
  LET Sighted(t) == \E f \in dumped : TargetOf[f] = t /\ mapping[f] = "held" IN
  /\ pc = "match"
  /\ pc' = "lock"
  /\ stale'  = {t \in Targets : open[t] /\ ~Sighted(t)}
  /\ quiet'  = [t \in Targets |-> IF t \in stale' THEN quiet[t] ELSE 0]
  /\ dumped' = {}
  /\ UNCHANGED <<tvars, fvars, closed, ctxDone, todo, timeout, idle, flow, fresh>>

\* detectTimeouts takes the engine's lock.
Sweep ==
  /\ pc = "lock"
  /\ todo' = Targets
  /\ pc'   = IF todo' = {} THEN "select" ELSE "sweep"
  /\ UNCHANGED <<tvars, fvars, closed, ctxDone, dumped, stale, timeout, idle, flow, history>>

\* One target of the sweep: seen, idle for not long enough, or drained.
\* Mistake: forget to note when traffic was last seen.
NotNoted(t) ==
  /\ t \notin stale
  /\ UNCHANGED <<idle, tvars>>

Seen(t) ==
  /\ t \notin stale
  /\ idle' = [idle EXCEPT ![t] = 0]
  /\ UNCHANGED tvars

\* Mistake: note the time in both branches.
SparedAndNoted(t) ==
  /\ t \in stale /\ idle[t] <= timeout[t]
  /\ idle' = [idle EXCEPT ![t] = 0]
  /\ UNCHANGED tvars

Spared(t) ==
  /\ t \in stale /\ idle[t] <= timeout[t]
  /\ UNCHANGED <<idle, tvars>>

TimedOut(t) ==
  /\ t \in stale /\ idle[t] > timeout[t]
  /\ T!Drain(t) \/ (tState[t] # "Active" /\ UNCHANGED tvars)
  /\ UNCHANGED idle

Visit(t) ==
  /\ pc = "sweep" /\ t \in todo
  /\ Seen(t) \/ Spared(t) \/ TimedOut(t)
  /\ todo'  = todo \ {t}
  /\ stale' = stale \ {t}
  /\ pc'    = IF todo' = {} THEN "select" ELSE "sweep"
  /\ fresh' = fresh \ {t}
  /\ UNCHANGED <<fvars, closed, ctxDone, dumped, timeout, flow, quiet>>

\* The context is done: the deferred e.Close() marks the engine closed.
PollDone ==
  /\ pc = "select" /\ ctxDone
  /\ pc' = "exited"
  /\ closed' = TRUE
  /\ UNCHANGED <<tvars, fvars, ctxDone, sweep, timeout, idle, flow, history>>

Poll == PollTick \/ DumpFails \/ Dump \/ Match \/ Sweep \/ (\E t \in Targets : Visit(t)) \/ PollDone

Next ==
  \/ \E t \in Targets : TargetAlone(t) \/ \E n \in 0 .. MaxTimeout : SetTimeout(t, n)
  \/ \E f \in Frontends : \/ FrontendAlone(f) \/ WarmSignal(f) \/ Unbind(f)
                          \/ FlowStarts(f) \/ FlowEnds(f)
  \/ Terminate \/ Close
  \/ Poll

\* The loops of targets and frontends keep their promises, one of which is
\* that a done context closes them; the poll loop runs, and does not lose the
\* select to its ticker for ever.
Fairness ==
  /\ \A t \in Targets :
       /\ WF_vars(TargetAlone(t) /\ T!Work(t))
       /\ WF_vars(TargetAlone(t) /\ T!Close(t) /\ ctxDone)
  /\ \A f \in Frontends :
       /\ WF_vars(FrontendAlone(f) /\ F!Jobs(f)) /\ WF_vars(FrontendAlone(f) /\ F!Finish(f))
       /\ WF_vars(FrontendAlone(f) /\ F!Close(f) /\ ctxDone)
       /\ WF_vars(WarmSignal(f)) /\ WF_vars(Unbind(f))
  /\ WF_vars(Poll) /\ SF_vars(PollDone)

Spec == Init /\ [][Next]_vars /\ Fairness

-----------------------------------------------------------------------------
(* Invariants.                                                             *)

TypeOK ==
  /\ tState \in [Targets -> {"Inactive", "Active", "Warming", "Draining", "Closed"}]
  /\ fState \in [Frontends -> {"Stopped", "Starting", "Running", "Stopping", "Closed"}]
  /\ {tErr, routed, open, tOver} \subseteq [Targets -> BOOLEAN]
  /\ {fErr, signal, fOver, flow} \subseteq [Frontends -> BOOLEAN]
  /\ mapping \in [Frontends -> {"held", "gone", "left"}]
  /\ {closed, ctxDone} \subseteq BOOLEAN
  /\ pc \in {"select", "dump", "match", "lock", "sweep", "exited"}
  /\ todo \subseteq Targets /\ stale \subseteq Targets /\ dumped \subseteq Frontends
  /\ timeout \in [Targets -> 0 .. MaxTimeout]
  /\ {idle, quiet} \subseteq [Targets -> Nat] /\ fresh \subseteq Targets

\* The poll carries nothing from one period to the next; whoever refuses new
\* work has cancelled; loops end after what they look after is given back.
Orderly ==
  /\ pc # "match" => dumped = {}
  /\ pc \notin {"lock", "sweep"} => stale = {}
  /\ IF pc = "sweep" THEN stale \subseteq todo /\ todo # {} ELSE todo = {}
  /\ closed => ctxDone
  /\ pc = "exited" => closed
  /\ \A t \in Targets : /\ ~open[t] => tState[t] = "Closed"
                        /\ tOver[t]  => ~open[t]
  /\ \A f \in Frontends : /\ mapping[f] # "held" => fState[f] = "Closed"
                          /\ fOver[f] => mapping[f] # "held"

\* lastSeen is never older than the last poll that found a flow, except for the
\* targets that the poll under way has found busy and has still to visit.
LastSeenIsKept ==
  \A t \in Targets :
    \/ idle[t] <= quiet[t]
    \/ pc = "lock"  /\ t \notin stale
    \/ pc = "sweep" /\ t \in todo \ stale

\* An error tells of everything that is left behind.
NothingLeftUnsaid ==
  /\ \A t \in Targets   : tOver[t] /\ ~tErr[t] => ~routed[t]
  /\ \A f \in Frontends : fOver[f] /\ ~fErr[f] => mapping[f] = "gone"

IInv == TypeOK /\ Orderly /\ LastSeenIsKept /\ NothingLeftUnsaid

-----------------------------------------------------------------------------
(* Idle targets.                                                           *)

\* The engine drains t: a drain that is neither a caller's nor a stutter.
DrainsIdle(t) == Visit(t) /\ tState[t] = "Active" /\ tState'[t] = "Draining"

\* detectTimeouts drains a target only if every poll that succeeded within the
\* timeout it has at that moment found it without traffic, although polls fail,
\* callers warm and drain behind the engine's back and change timeouts without a
\* lock, frontends come and go, and what conntrack said is old by the time it is
\* used.
DrainedOnlyWhenQuiet ==
  [][\A t \in Targets : DrainsIdle(t) => quiet[t] > timeout[t]]_vars

\* An active target without traffic does not stay warm for ever: if conntrack
\* can be read now and then and the daemon stays up, it leaves Active.
Idle(t) == ~ctxDone /\ open[t] /\ \A f \in Frontends : TargetOf[f] = t => ~flow[f]

IdleTargetsDrain ==
  \A t \in Targets :
    <>[]Idle(t) /\ []<>(pc = "match") => []<>(tState[t] # "Active")

\* target.go: a target "should be drained after it becomes idle".  A target
\* that was not Active yet when the poll began has not been idle for a period.
NotDrainedEarly == [][\A t \in Targets : DrainsIdle(t) /\ timeout[t] > 0 => t \notin fresh]_vars

-----------------------------------------------------------------------------
(* Demand and shutdown.                                                    *)

\* A signal may be spent on a target that refuses it (frontend.go: Warm's result is
\* only logged), but a handler that goes on asking gets its target warmed: a target that is drained, by whomever, while
\* signals keep coming does not stay out of Warming and Active for good.
Ended(f) == fState[f] = "Closed" \/ tState[TargetOf[f]] = "Closed"

DemandIsServed ==
  \A f \in Frontends :
    []<>signal[f] /\ []~Ended(f) => []<>(tState[TargetOf[f]] \in {"Warming", "Active"})

\* However shutdown begins, every loop ends, Engine.Wait returns, and refusing
\* new work has been recorded: neither the lock of the sweep nor a frontend
\* that outlives the group of its target keeps anyone waiting.
AllOver ==
  /\ closed /\ pc = "exited"
  /\ \A t \in Targets : tOver[t]
  /\ \A f \in Frontends : fOver[f]

ShutdownCompletes == closed \/ ctxDone ~> AllOver
=============================================================================
