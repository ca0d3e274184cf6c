--------------------------- MODULE TargetLifecycle ---------------------------
(***************************************************************************)
(* What pkg/target promises to its callers: the lifecycle of state.go, the *)
(* error that is visible next to it, and when DNAT is live.  Nothing of    *)
(* the event loop, of the mailbox or of contexts is visible here; module   *)
(* Target is shown to implement this specification.                        *)
(***************************************************************************)
CONSTANT Targets

VARIABLES
  state,    \* the lifecycle state of each target
  err,      \* its last job ended in an error
  routed,   \* its DNAT is live in the dataplane
  open,     \* its group still belongs to it
  over      \* Wait returns

vars == <<state, err, routed, open, over>>

Init ==
  /\ state  = [t \in Targets |-> "Inactive"]
  /\ err    = [t \in Targets |-> FALSE]
  /\ routed = [t \in Targets |-> FALSE]
  /\ open   = [t \in Targets |-> TRUE]
  /\ over   = [t \in Targets |-> FALSE]

\* Warm and Drain are accepted in the settled states only.
Request(t, from, to) ==
  /\ state[t] = from
  /\ state' = [state EXCEPT ![t] = to]
  /\ err'   = [err EXCEPT ![t] = FALSE]
  /\ UNCHANGED <<routed, open, over>>

Warm(t)  == Request(t, "Inactive", "Warming")
Drain(t) == Request(t, "Active", "Draining")

\* A job ends where it was headed, with DNAT switched; or there, but with an
\* error and DNAT as it was; or back where it came from, with an error.
Settle(t, job, goal, back, on) ==
  /\ state[t] = job
  /\ \/ /\ state'  = [state EXCEPT ![t] = goal]
        /\ err'    = [err EXCEPT ![t] = FALSE]
        /\ routed' = [routed EXCEPT ![t] = on]
     \/ /\ state'  \in {[state EXCEPT ![t] = goal], [state EXCEPT ![t] = back]}
        /\ err'    = [err EXCEPT ![t] = TRUE]
        /\ UNCHANGED routed
  /\ UNCHANGED <<open, over>>

SettleWarm(t)  == Settle(t, "Warming", "Active", "Inactive", TRUE)
SettleDrain(t) == Settle(t, "Draining", "Inactive", "Active", FALSE)

\* Close is accepted in every state and is final.
Close(t) ==
  /\ state[t] # "Closed"
  /\ state' = [state EXCEPT ![t] = "Closed"]
  /\ UNCHANGED <<err, routed, open, over>>

\* A Closed target hands its group back once; DNAT can only go off.
Release(t) ==
  /\ state[t] = "Closed" /\ open[t]
  /\ open' = [open EXCEPT ![t] = FALSE]
  /\ \/ routed' = [routed EXCEPT ![t] = FALSE]
     \/ UNCHANGED routed
  /\ UNCHANGED <<state, err, over>>

\* Only then is the target over, and DNAT left behind is an error.
Finish(t) ==
  /\ state[t] = "Closed" /\ ~open[t] /\ ~over[t]
  /\ over' = [over EXCEPT ![t] = TRUE]
  /\ err'  \in {[err EXCEPT ![t] = e] : e \in {routed[t], TRUE}}
  /\ UNCHANGED <<state, routed, open>>

Work(t) == SettleWarm(t) \/ SettleDrain(t) \/ Release(t) \/ Finish(t)

Next == \E t \in Targets : Warm(t) \/ Drain(t) \/ Close(t) \/ Work(t)

\* A job that was accepted is settled, a shutdown runs to its end.
Spec == Init /\ [][Next]_vars /\ \A t \in Targets : WF_vars(Work(t))
=============================================================================
