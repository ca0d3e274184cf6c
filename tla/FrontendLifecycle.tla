-------------------------- MODULE FrontendLifecycle --------------------------
(***************************************************************************)
(* What pkg/frontend promises: the lifecycle of state.go as the code keeps *)
(* it, the error that is visible next to it, the warm signals on their way *)
(* to the target, and what becomes of the mapping in the target's group.   *)
(* Module Frontend is shown to implement this specification.               *)
(***************************************************************************)
CONSTANT Frontends

VARIABLES
  state,     \* the lifecycle state of each frontend
  err,       \* its last job ended in an error
  signal,    \* a warm signal is on its way to the target
  mapping,   \* its mapping: held, gone from the group, or left behind
  over       \* Wait returns

vars == <<state, err, signal, mapping, over>>

Init ==
  /\ state   = [f \in Frontends |-> "Stopped"]
  /\ err     = [f \in Frontends |-> FALSE]
  /\ signal  = [f \in Frontends |-> FALSE]
  /\ mapping = [f \in Frontends |-> "held"]
  /\ over    = [f \in Frontends |-> FALSE]

\* Start and Stop are accepted in the settled states only.
Request(f, from, to) ==
  /\ state[f] = from
  /\ state' = [state EXCEPT ![f] = to]
  /\ err'   = [err EXCEPT ![f] = FALSE]
  /\ UNCHANGED <<signal, mapping, over>>

Start(f) == Request(f, "Stopped", "Starting")
Stop(f)  == Request(f, "Running", "Stopping")

\* A job ends where it was headed, or with an error in the state of the
\* opposite job; that error marks a state nothing but Close will leave.
Settle(f, job, goal, bad) ==
  /\ state[f] = job /\ ~err[f]
  /\ \/ /\ state' = [state EXCEPT ![f] = goal]
        /\ UNCHANGED err
     \/ /\ state' = [state EXCEPT ![f] = bad]
        /\ err'   = [err EXCEPT ![f] = TRUE]
  /\ UNCHANGED <<signal, mapping, over>>

SettleStart(f) == Settle(f, "Starting", "Running", "Stopping")
SettleStop(f)  == Settle(f, "Stopping", "Stopped", "Starting")

\* Until it gives its mapping back the frontend may be asked to warm ...
Tick(f) ==
  /\ mapping[f] = "held"
  /\ signal' = [signal EXCEPT ![f] = TRUE]
  /\ UNCHANGED <<state, err, mapping, over>>

\* ... and passes that on, in whatever state it is.
WarmSignal(f) ==
  /\ mapping[f] = "held" /\ signal[f]
  /\ signal' = [signal EXCEPT ![f] = FALSE]
  /\ UNCHANGED <<state, err, mapping, over>>

\* Close is accepted in every state and is final.
Close(f) ==
  /\ state[f] # "Closed"
  /\ state' = [state EXCEPT ![f] = "Closed"]
  /\ UNCHANGED <<err, signal, mapping, over>>

\* A Closed frontend gives its mapping back, once.
Unbind(f, ok) ==
  /\ state[f] = "Closed" /\ mapping[f] = "held"
  /\ mapping' = [mapping EXCEPT ![f] = IF ok THEN "gone" ELSE "left"]
  /\ UNCHANGED <<state, err, signal, over>>

\* Only then is the frontend over, and a mapping left behind is an error.
Finish(f) ==
  /\ mapping[f] # "held" /\ ~over[f]
  /\ over' = [over EXCEPT ![f] = TRUE]
  /\ err'  \in {[err EXCEPT ![f] = e] : e \in {mapping[f] = "left", TRUE}}
  /\ UNCHANGED <<state, signal, mapping>>

Jobs(f) == SettleStart(f) \/ SettleStop(f)

Next ==
  \E f \in Frontends : \/ Start(f) \/ Stop(f) \/ Close(f)
                       \/ Tick(f)  \/ WarmSignal(f)
                       \/ Jobs(f)  \/ Finish(f)
                       \/ \E ok \in BOOLEAN : Unbind(f, ok)

\* Jobs are settled, signals are passed on, a shutdown runs to its end: the
\* steps compete for one loop, but none of them is put off for ever.
Fairness ==
  \A f \in Frontends :
    /\ WF_vars(Jobs(f)) /\ WF_vars(WarmSignal(f))
    /\ WF_vars(\E ok \in BOOLEAN : Unbind(f, ok)) /\ WF_vars(Finish(f))

Spec == Init /\ [][Next]_vars /\ Fairness
=============================================================================
