---------------------------- MODULE GatewayProofs ----------------------------
(* Proofs about module Gateway, for any targets, frontends and timeouts.     *)
EXTENDS Gateway, TLAPS

\* The steps of a target's lifecycle, and of a frontend's, that occur in Next.
TargetActs(t)   == T!Warm(t) \/ T!Drain(t) \/ T!Close(t) \/ T!Work(t)
FrontendActs(f) == \/ F!Start(f) \/ F!Stop(f) \/ F!Close(f) \/ F!Tick(f) \/ F!Jobs(f)
                   \/ F!Finish(f) \/ F!WarmSignal(f) \/ F!Unbind(f, TRUE) \/ F!Unbind(f, FALSE)

\* What Orderly and NothingLeftUnsaid say of one target and of one frontend.
TargetOrderly(t) ==
  /\ ~open[t] => tState[t] = "Closed"
  /\ tOver[t] => ~open[t]
  /\ tOver[t] /\ ~tErr[t] => ~routed[t]

FrontendOrderly(f) ==
  /\ mapping[f] # "held" => fState[f] = "Closed"
  /\ fOver[f] => mapping[f] # "held"
  /\ fOver[f] /\ ~fErr[f] => mapping[f] = "gone"

TargetPart   == /\ tState \in [Targets -> {"Inactive", "Active", "Warming", "Draining", "Closed"}]
                /\ {tErr, routed, open, tOver} \subseteq [Targets -> BOOLEAN]
                /\ \A t \in Targets : TargetOrderly(t)
FrontendPart == /\ fState \in [Frontends -> {"Stopped", "Starting", "Running", "Stopping", "Closed"}]
                /\ {fErr, signal, fOver} \subseteq [Frontends -> BOOLEAN]
                /\ mapping \in [Frontends -> {"held", "gone", "left"}]
                /\ \A f \in Frontends : FrontendOrderly(f)

\* A target gives its group back only when Closed, ends only after that, and
\* tells of DNAT it left behind, whoever else acts in the same step.
LEMMA TargetKeepsItsPart ==
  ASSUME TargetPart, UNCHANGED tvars \/ \E t \in Targets : TargetActs(t)
  PROVE  TargetPart'
<1> USE DEF TargetPart, TargetOrderly
<1>1. CASE UNCHANGED tvars
  BY <1>1 DEF tvars
<1>2. ASSUME NEW t \in Targets, T!Warm(t) \/ T!Drain(t) PROVE TargetPart'
  <2>1. PICK from \in {"Inactive", "Active"}, to \in {"Warming", "Draining"} : T!Request(t, from, to)
    BY <1>2 DEF T!Warm, T!Drain
  <2>2. tState[t] # "Closed" /\ open[t] /\ ~tOver[t]
    BY <2>1 DEF T!Request
  <2>3. tState' \in [Targets -> {"Inactive", "Active", "Warming", "Draining", "Closed"}]
        /\ tErr' \in [Targets -> BOOLEAN]
    BY <2>1 DEF T!Request
  <2>4. UNCHANGED <<routed, open, tOver>> /\ \A u \in Targets \ {t} :
          tState'[u] = tState[u] /\ tErr'[u] = tErr[u]
    BY <2>1 DEF T!Request
  <2> QED
    BY <2>2, <2>3, <2>4
<1>3. ASSUME NEW t \in Targets, T!Close(t) PROVE TargetPart'
  BY <1>3 DEF T!Close
<1>4. ASSUME NEW t \in Targets, T!SettleWarm(t) \/ T!SettleDrain(t) PROVE TargetPart'
  <2>1. PICK goal \in {"Active", "Inactive"}, back \in {"Active", "Inactive"},
             job \in {"Warming", "Draining"}, on \in BOOLEAN : T!Settle(t, job, goal, back, on)
    BY <1>4 DEF T!SettleWarm, T!SettleDrain
  <2>2. tState[t] # "Closed" /\ open[t] /\ ~tOver[t]
    BY <2>1 DEF T!Settle
  <2>3. tState' \in [Targets -> {"Inactive", "Active", "Warming", "Draining", "Closed"}]
        /\ tErr' \in [Targets -> BOOLEAN] /\ routed' \in [Targets -> BOOLEAN]
    BY <2>1 DEF T!Settle
  <2>4. UNCHANGED <<open, tOver>> /\ \A u \in Targets \ {t} :
          tState'[u] = tState[u] /\ tErr'[u] = tErr[u] /\ routed'[u] = routed[u]
    BY <2>1 DEF T!Settle
  <2>5. ASSUME NEW u \in Targets PROVE TargetOrderly(u)'
    <3>1. CASE u = t
      BY <2>2, <2>4, <3>1
    <3>2. CASE u # t
      BY <2>4, <3>2
    <3> QED
      BY <3>1, <3>2
  <2> QED
    BY <2>3, <2>4, <2>5
<1>5. ASSUME NEW t \in Targets, T!Release(t) PROVE TargetPart'
  <2>1. /\ tState[t] = "Closed" /\ open' = [open EXCEPT ![t] = FALSE]
        /\ routed' = [routed EXCEPT ![t] = FALSE] \/ UNCHANGED routed
        /\ UNCHANGED <<tState, tErr, tOver>>
    BY <1>5 DEF T!Release
  <2>2. {open', routed'} \subseteq [Targets -> BOOLEAN]
    BY <2>1
  <2>3. ASSUME NEW u \in Targets PROVE TargetOrderly(u)'
    <3>1. CASE u = t
      BY <2>1, <3>1
    <3>2. CASE u # t
      BY <2>1, <3>2
    <3> QED
      BY <3>1, <3>2
  <2> QED
    BY <2>1, <2>2, <2>3
<1>6. ASSUME NEW t \in Targets, T!Finish(t) PROVE TargetPart'
  <2>1. PICK e \in {routed[t], TRUE} : tErr' = [tErr EXCEPT ![t] = e]
    BY <1>6 DEF T!Finish
  <2>2. tErr' \in [Targets -> BOOLEAN] /\ (~tErr'[t] => ~routed[t])
        /\ \A u \in Targets \ {t} : tErr'[u] = tErr[u]
    BY <2>1
  <2>3. tOver' \in [Targets -> BOOLEAN] /\ tState[t] = "Closed" /\ ~open[t]
        /\ \A u \in Targets \ {t} : tOver'[u] = tOver[u]
    BY <1>6 DEF T!Finish
  <2>4. UNCHANGED <<tState, routed, open>>
    BY <1>6 DEF T!Finish
  <2>5. ASSUME NEW u \in Targets PROVE TargetOrderly(u)'
    <3>1. CASE u = t
      BY <2>2, <2>3, <2>4, <3>1
    <3>2. CASE u # t
      BY <2>2, <2>3, <2>4, <3>2
    <3> QED
      BY <3>1, <3>2
  <2>6. tErr' \in [Targets -> BOOLEAN] /\ tOver' \in [Targets -> BOOLEAN]
    BY <2>2, <2>3
  <2> QED
    BY <2>4, <2>5, <2>6
<1> QED
  BY <1>1, <1>2, <1>3, <1>4, <1>5, <1>6 DEF TargetActs, T!Work

\* The same for a frontend and its mapping.
LEMMA FrontendKeepsItsPart ==
  ASSUME FrontendPart, UNCHANGED fvars \/ \E f \in Frontends : FrontendActs(f)
  PROVE  FrontendPart'
<1> USE DEF FrontendPart, FrontendOrderly
<1>1. CASE UNCHANGED fvars
  BY <1>1 DEF fvars
<1>2. ASSUME NEW f \in Frontends, F!Start(f) \/ F!Stop(f) PROVE FrontendPart'
  <2>1. PICK to \in {"Starting", "Stopping"} :
          /\ fState' = [fState EXCEPT ![f] = to] /\ fErr' = [fErr EXCEPT ![f] = FALSE]
          /\ UNCHANGED <<signal, mapping, fOver>> /\ fState[f] # "Closed"
    BY <1>2 DEF F!Start, F!Stop, F!Request
  <2>2. ASSUME NEW g \in Frontends PROVE FrontendOrderly(g)'
    <3>1. CASE g = f
      BY <2>1, <3>1
    <3>2. CASE g # f
      BY <2>1, <3>2
    <3> QED
      BY <3>1, <3>2
  <2> QED
    BY <2>1, <2>2
<1>3. ASSUME NEW f \in Frontends, F!Close(f) PROVE FrontendPart'
  BY <1>3 DEF F!Close
<1>4. ASSUME NEW f \in Frontends, F!Jobs(f) PROVE FrontendPart'
  <2>1. PICK job \in {"Starting", "Stopping"}, goal \in {"Running", "Stopped"},
             bad \in {"Starting", "Stopping"} : F!Settle(f, job, goal, bad)
    BY <1>4 DEF F!Jobs, F!SettleStart, F!SettleStop
  <2>2. fState[f] # "Closed" /\ mapping[f] = "held" /\ ~fOver[f]
    BY <2>1 DEF F!Settle
  <2>3. fState' \in [Frontends -> {"Stopped", "Starting", "Running", "Stopping", "Closed"}]
        /\ fErr' \in [Frontends -> BOOLEAN]
    BY <2>1 DEF F!Settle
  <2>4. UNCHANGED <<signal, mapping, fOver>> /\ \A u \in Frontends \ {f} :
          fState'[u] = fState[u] /\ fErr'[u] = fErr[u]
    BY <2>1 DEF F!Settle
  <2> QED
    BY <2>2, <2>3, <2>4
<1>5. ASSUME NEW f \in Frontends, F!Tick(f) \/ F!WarmSignal(f) PROVE FrontendPart'
  BY <1>5 DEF F!Tick, F!WarmSignal
<1>6. ASSUME NEW f \in Frontends, F!Unbind(f, TRUE) \/ F!Unbind(f, FALSE) PROVE FrontendPart'
  BY <1>6 DEF F!Unbind
<1>7. ASSUME NEW f \in Frontends, F!Finish(f) PROVE FrontendPart'
  <2>1. PICK e \in {mapping[f] = "left", TRUE} : fErr' = [fErr EXCEPT ![f] = e]
    BY <1>7 DEF F!Finish
  <2>2. fErr' \in [Frontends -> BOOLEAN] /\ (~fErr'[f] => mapping[f] # "left")
        /\ \A u \in Frontends \ {f} : fErr'[u] = fErr[u]
    BY <2>1
  <2>3. fOver' \in [Frontends -> BOOLEAN] /\ mapping[f] # "held"
        /\ \A u \in Frontends \ {f} : fOver'[u] = fOver[u]
    BY <1>7 DEF F!Finish
  <2>4. UNCHANGED <<fState, signal, mapping>>
    BY <1>7 DEF F!Finish
  <2> QED
    BY <2>2, <2>3, <2>4
<1> QED
  BY <1>1, <1>2, <1>3, <1>4, <1>5, <1>6, <1>7 DEF FrontendActs

\* Every step of the gateway is, for the targets, a step of one of them or
\* none; for the frontends likewise.
LEMMA NextIsLocal ==
  ASSUME TargetOf \in [Frontends -> Targets], [Next]_vars
  PROVE  /\ UNCHANGED tvars \/ \E t \in Targets : TargetActs(t)
         /\ UNCHANGED fvars \/ \E f \in Frontends : FrontendActs(f)
<1> USE DEF TargetActs, FrontendActs
<1>1. CASE UNCHANGED vars
  BY <1>1 DEF vars
<1>2. ASSUME NEW t \in Targets, TargetAlone(t) PROVE TargetActs(t) /\ UNCHANGED fvars
  BY <1>2 DEF TargetAlone
<1>3. ASSUME NEW f \in Frontends, FrontendAlone(f) PROVE UNCHANGED tvars /\ FrontendActs(f)
  BY <1>3 DEF FrontendAlone
<1>4. ASSUME NEW f \in Frontends, WarmSignal(f)
      PROVE  (UNCHANGED tvars \/ TargetActs(TargetOf[f])) /\ FrontendActs(f)
  BY <1>4 DEF WarmSignal
<1>5. ASSUME NEW f \in Frontends, Unbind(f) PROVE UNCHANGED tvars /\ FrontendActs(f)
  BY <1>5 DEF Unbind
<1>6. ASSUME NEW f \in Frontends, FlowStarts(f) \/ FlowEnds(f) PROVE UNCHANGED <<tvars, fvars>>
  BY <1>6 DEF FlowStarts, FlowEnds
<1>7. CASE Terminate \/ Close \/ PollTick \/ DumpFails \/ Dump \/ Match \/ Sweep \/ PollDone
  BY <1>7 DEF Terminate, Close, PollTick, DumpFails, Dump, Match, Sweep, PollDone
<1>8. ASSUME NEW t \in Targets, Visit(t) PROVE (UNCHANGED tvars \/ TargetActs(t)) /\ UNCHANGED fvars
  BY <1>8 DEF Visit, Seen, Spared, TimedOut
<1>9. ASSUME NEW t \in Targets, NEW n \in 0 .. MaxTimeout, SetTimeout(t, n)
      PROVE  UNCHANGED <<tvars, fvars>>
  BY <1>9 DEF SetTimeout
<1> QED
  BY <1>1, <1>2, <1>3, <1>4, <1>5, <1>6, <1>7, <1>8, <1>9 DEF Next, Poll

\* Every step keeps lastSeen at least as recent as the last poll that found a
\* flow: time passes for both alike, and a target found busy is noted before
\* the sweep ends.
LEMMA NextLastSeen ==
  ASSUME TypeOK, Orderly, LastSeenIsKept, [Next]_vars
  PROVE  LastSeenIsKept'
<1> USE DEF LastSeenIsKept
<1>1. ASSUME UNCHANGED <<engine, quiet>> PROVE LastSeenIsKept'
  BY <1>1 DEF engine, sweep
<1>2. CASE UNCHANGED vars
  BY <1>1, <1>2 DEF vars, engine, sweep, history
<1>3. ASSUME NEW t \in Targets, TargetAlone(t) PROVE LastSeenIsKept'
  BY <1>1, <1>3 DEF TargetAlone
<1>4. ASSUME NEW f \in Frontends,
             FrontendAlone(f) \/ WarmSignal(f) \/ Unbind(f) \/ FlowStarts(f) \/ FlowEnds(f)
      PROVE  LastSeenIsKept'
  BY <1>1, <1>4 DEF FrontendAlone, WarmSignal, Unbind, FlowStarts, FlowEnds, history
<1>5. CASE Terminate \/ Close
  BY <1>5 DEF Terminate, Close, sweep, history
<1>6. CASE PollTick
  <2>1. \A t \in Targets : idle[t] \in Nat /\ quiet[t] \in Nat /\ idle[t] <= quiet[t]
    BY <1>6 DEF PollTick, TypeOK
  <2>2. \A t \in Targets : idle'[t] = Later(idle[t]) /\ quiet'[t] = Later(quiet[t])
    BY <1>6 DEF PollTick
  <2>3. \A t \in Targets : idle'[t] <= quiet'[t]
    BY <2>1, <2>2, TimeoutAssumption DEF Later
  <2> QED
    BY <2>3
<1>7. CASE DumpFails \/ Dump
  BY <1>7 DEF DumpFails, Dump, history
<1>8. CASE Match
  <2>1. \A t \in Targets : idle[t] <= quiet[t]
    BY <1>8 DEF Match
  <2>2. \A t \in Targets : t \in stale' => quiet'[t] = quiet[t]
    BY <1>8 DEF Match
  <2> QED
    BY <1>8, <2>1, <2>2 DEF Match
<1>9. CASE Sweep
  BY <1>9 DEF Sweep, history
<1>10. ASSUME NEW t \in Targets, Visit(t) PROVE LastSeenIsKept'
  <2>1. pc = "sweep" /\ t \in todo /\ todo' = todo \ {t} /\ stale' = stale \ {t} /\ quiet' = quiet
    BY <1>10 DEF Visit, history
  <2>2. \A u \in Targets : idle[u] \in Nat /\ quiet[u] \in Nat
    BY DEF TypeOK
  <2>3. idle \in [Targets -> Nat]
    BY DEF TypeOK
  <2>4. (t \in stale /\ idle' = idle) \/ (t \notin stale /\ idle' = [idle EXCEPT ![t] = 0])
    BY <1>10 DEF Visit, Seen, Spared, TimedOut
  <2>5. idle'[t] <= quiet'[t]
    BY <2>1, <2>2, <2>3, <2>4
  <2>6. \A u \in Targets \ {t} : idle'[u] = idle[u]
    BY <2>3, <2>4
  <2>7. \A u \in Targets \ {t} : u \in todo \ stale => u \in todo' \ stale' /\ pc' = "sweep"
    BY <1>10, <2>1 DEF Visit
  <2> QED
    BY <2>1, <2>5, <2>6, <2>7
<1>11. CASE PollDone
  BY <1>11 DEF PollDone, history
<1>12. ASSUME NEW t \in Targets, NEW n \in 0 .. MaxTimeout, SetTimeout(t, n) PROVE LastSeenIsKept'
  BY <1>12 DEF SetTimeout, sweep, history
<1> QED
  BY <1>2, <1>3, <1>4, <1>5, <1>6, <1>7, <1>8, <1>9, <1>10, <1>11, <1>12 DEF Next, Poll

\* What Orderly says of the poll and of shutdown.
PollOrderly ==
  /\ pc # "match" => dumped = {}
  /\ pc \notin {"lock", "sweep"} => stale = {}
  /\ IF pc = "sweep" THEN stale \subseteq todo /\ todo # {} ELSE todo = {}
  /\ closed => ctxDone
  /\ pc = "exited" => closed

PollTypes ==
  /\ flow \in [Frontends -> BOOLEAN]
  /\ {closed, ctxDone} \subseteq BOOLEAN
  /\ pc \in {"select", "dump", "match", "lock", "sweep", "exited"}
  /\ todo \subseteq Targets /\ stale \subseteq Targets /\ dumped \subseteq Frontends

Clocks == /\ timeout \in [Targets -> 0 .. MaxTimeout]
          /\ {idle, quiet} \subseteq [Targets -> Nat] /\ fresh \subseteq Targets

\* The invariant is the parts of the targets, the frontends and the engine.
LEMMA Parts ==
  IInv <=> TargetPart /\ FrontendPart /\ PollTypes /\ Clocks /\ PollOrderly /\ LastSeenIsKept
BY DEF IInv, TypeOK, Orderly, NothingLeftUnsaid, TargetPart, FrontendPart, PollTypes, Clocks,
       PollOrderly, TargetOrderly, FrontendOrderly

\* A poll goes through its places in order and leaves nothing behind; closing
\* marks and cancels.
LEMMA NextPollOrderly ==
  ASSUME PollTypes, PollOrderly, [Next]_vars
  PROVE  PollTypes' /\ PollOrderly'
<1> USE DEF PollTypes, PollOrderly
<1>1. CASE UNCHANGED vars
  BY <1>1 DEF vars, sweep
<1>2. ASSUME NEW t \in Targets, TargetAlone(t) PROVE PollTypes' /\ PollOrderly'
  BY <1>2 DEF TargetAlone, engine, sweep
<1>3. ASSUME NEW f \in Frontends, FrontendAlone(f) \/ WarmSignal(f) \/ Unbind(f)
      PROVE  PollTypes' /\ PollOrderly'
  <2>1. UNCHANGED <<engine, flow>>
    BY <1>3 DEF FrontendAlone, WarmSignal, Unbind
  <2> QED
    BY <2>1 DEF engine, sweep
<1>4. ASSUME NEW f \in Frontends, FlowStarts(f) \/ FlowEnds(f) PROVE PollTypes' /\ PollOrderly'
  BY <1>4 DEF FlowStarts, FlowEnds, engine, sweep
<1>5. CASE Terminate \/ Close
  BY <1>5 DEF Terminate, Close, sweep
<1>6. CASE PollTick \/ DumpFails \/ PollDone
  <2>1. CASE PollTick
    BY <2>1 DEF PollTick, sweep
  <2>2. CASE DumpFails
    BY <2>2 DEF DumpFails, sweep
  <2>3. CASE PollDone
    BY <2>3 DEF PollDone, sweep
  <2> QED
    BY <1>6, <2>1, <2>2, <2>3
<1>7. CASE Dump
  BY <1>7 DEF Dump
<1>8. CASE Match
  BY <1>8 DEF Match
<1>9. CASE Sweep
  BY <1>9 DEF Sweep
<1>10. ASSUME NEW t \in Targets, Visit(t) PROVE PollTypes' /\ PollOrderly'
  BY <1>10 DEF Visit
<1>11. ASSUME NEW t \in Targets, NEW n \in 0 .. MaxTimeout, SetTimeout(t, n)
       PROVE  PollTypes' /\ PollOrderly'
  BY <1>11 DEF SetTimeout, sweep
<1> QED
  BY <1>1, <1>2, <1>3, <1>4, <1>5, <1>6, <1>7, <1>8, <1>9, <1>10, <1>11 DEF Next, Poll

\* Clocks only count up to one past the longest timeout, or start again.
LEMMA NextClocks ==
  ASSUME Clocks, MaxTimeout \in Nat, [Next]_vars
  PROVE  Clocks'
<1> USE DEF Clocks
<1>1. CASE UNCHANGED vars
  BY <1>1 DEF vars, history
<1>2. ASSUME NEW t \in Targets, TargetAlone(t) PROVE Clocks'
  BY <1>2 DEF TargetAlone, engine
<1>3. ASSUME NEW t \in Targets, NEW n \in 0 .. MaxTimeout, SetTimeout(t, n) PROVE Clocks'
  BY <1>3 DEF SetTimeout, history
<1>4. ASSUME NEW f \in Frontends,
             FrontendAlone(f) \/ WarmSignal(f) \/ Unbind(f) \/ FlowStarts(f) \/ FlowEnds(f)
      PROVE  Clocks'
  BY <1>4 DEF FrontendAlone, WarmSignal, Unbind, FlowStarts, FlowEnds, engine, history
<1>5. CASE Terminate \/ Close \/ DumpFails \/ Dump \/ Sweep \/ PollDone
  BY <1>5 DEF Terminate, Close, DumpFails, Dump, Sweep, PollDone, history
<1>6. CASE PollTick
  <2>1. \A n \in Nat : Later(n) \in Nat
    BY DEF Later
  <2> QED
    BY <1>6, <2>1 DEF PollTick
<1>7. CASE Match
  BY <1>7 DEF Match
<1>8. ASSUME NEW t \in Targets, Visit(t) PROVE Clocks'
  BY <1>8 DEF Visit, Seen, Spared, TimedOut
<1> QED
  BY <1>1, <1>2, <1>3, <1>4, <1>5, <1>6, <1>7, <1>8 DEF Next, Poll

\* New leaves the gateway in a state of the invariant.
LEMMA InitIInv == Init => IInv
<1> SUFFICES ASSUME Init PROVE IInv
  OBVIOUS
<1>1. TargetPart
  BY DEF Init, T!Init, TargetPart, TargetOrderly
<1>2. FrontendPart
  BY DEF Init, F!Init, FrontendPart, FrontendOrderly
<1>3. PollTypes
  BY DEF Init, PollTypes
<1>4. PollOrderly
  BY DEF Init, PollOrderly
<1>5. /\ idle = [t \in Targets |-> 0] /\ quiet = [t \in Targets |-> 0]
      /\ fresh = {} /\ timeout \in [Targets -> 0 .. MaxTimeout]
  BY DEF Init
<1>6. Clocks
  BY <1>5 DEF Clocks
<1>7. LastSeenIsKept
  <2>1. ASSUME NEW t \in Targets PROVE idle[t] <= quiet[t]
    <3>1. idle[t] = 0 /\ quiet[t] = 0
      BY <1>5
    <3>2. 0 <= 0
      OBVIOUS
    <3> QED
      BY <3>1, <3>2
  <2> QED
    BY <2>1 DEF LastSeenIsKept
<1> QED
  BY <1>1, <1>2, <1>3, <1>4, <1>6, <1>7, Parts

\* The gateway keeps its invariant, for any number of targets and frontends:
\* lastSeen is kept, shutdown is orderly, and nothing is left behind silently.
THEOREM Invariance == Spec => []IInv
<1>1. ASSUME IInv, [Next]_vars PROVE IInv'
  <2>1. TargetPart' /\ FrontendPart'
    BY <1>1, Parts, NextIsLocal, TargetKeepsItsPart, FrontendKeepsItsPart, TargetOfAssumption
  <2>2. PollTypes' /\ PollOrderly'
    BY <1>1, Parts, NextPollOrderly
  <2>3. Clocks'
    BY <1>1, Parts, NextClocks, TimeoutAssumption
  <2>4. LastSeenIsKept'
    BY <1>1, NextLastSeen DEF IInv
  <2>5. (TargetPart /\ FrontendPart /\ PollTypes /\ Clocks /\ PollOrderly /\ LastSeenIsKept)'
        => IInv'
    BY DEF IInv, TypeOK, Orderly, NothingLeftUnsaid, TargetPart, FrontendPart, PollTypes, Clocks,
           PollOrderly, TargetOrderly, FrontendOrderly
  <2> QED
    BY <2>1, <2>2, <2>3, <2>4, <2>5
<1> QED
  BY InitIInv, <1>1, PTL DEF Spec

\* No sweep drains a target that a poll found busy within its timeout.
THEOREM SparesTheBusy == Spec => DrainedOnlyWhenQuiet
<1>1. ASSUME IInv, NEW t \in Targets, DrainsIdle(t) PROVE quiet[t] > timeout[t]
  <2>1. Visit(t) /\ tState[t] = "Active" /\ tState'[t] = "Draining"
    BY <1>1 DEF DrainsIdle
  <2>2. TimedOut(t)
    BY <2>1 DEF Visit, Seen, Spared, tvars
  <2>3. idle[t] > timeout[t] /\ t \in stale /\ pc = "sweep"
    BY <2>1, <2>2 DEF TimedOut, Visit
  <2>4. idle[t] <= quiet[t]
    BY <1>1, <2>3 DEF IInv, LastSeenIsKept
  <2>5. idle[t] \in Nat /\ quiet[t] \in Nat /\ timeout[t] \in Nat
    BY <1>1, TimeoutAssumption DEF IInv, TypeOK
  <2> QED
    BY <2>3, <2>4, <2>5
<1>2. IInv => [\A t \in Targets : DrainsIdle(t) => quiet[t] > timeout[t]]_vars
  BY <1>1
<1> QED
  BY <1>2, Invariance, PTL DEF DrainedOnlyWhenQuiet
=============================================================================
