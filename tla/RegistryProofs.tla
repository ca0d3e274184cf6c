--------------------------- MODULE RegistryProofs ---------------------------
(* Proofs about module Registry, for any names, kinds and objects.           *)
EXTENDS Registry, TLAPS

\* A frontend that was born: the success branch of NewFrontend.
NewFrontendBorn(n, m, f) ==
  /\ ~closed /\ frontends[n] = None
  /\ targets[m] # None /\ state[targets[m]] = "open"
  /\ state[f] = "unborn"
  /\ state'     = [state EXCEPT ![f] = "open"]
  /\ target'    = [target EXCEPT ![f] = targets[m]]
  /\ mapped'    = mapped \cup {f}
  /\ frontends' = [frontends EXCEPT ![n] = f]
  /\ wg'        = wg \cup {f}
  /\ UNCHANGED <<targets, groups, phase>>

\* Objects of one sort are none of the other, and no object is None.
LEMMA Apart ==
  /\ \A t \in Targets : t \in Objects /\ t # None /\ t \notin Frontends
  /\ \A f \in Frontends : f \in Objects /\ f # None /\ f \notin Targets
  BY ObjectsAssumption DEF Objects

\* What a step can do to names and objects: nothing, or one of these.
LEMMA Steps ==
  ASSUME [Next]_vars
  PROVE  \/ UNCHANGED <<names, lives>>
         \/ \E o \in Objects, s \in {"dropped", "refused"} : state[o] = "unborn" /\ Fail(o, s)
         \/ \E n \in TargetNames, t \in Targets :
              ~closed /\ targets[n] = None /\ groups[n] = None /\ state[t] = "unborn" /\ Birth(t, n)
         \/ \E n \in TargetNames : DelTarget(n)
         \/ \E n \in FrontendNames, m \in TargetNames, f \in Frontends : NewFrontendBorn(n, m, f)
         \/ \E n \in FrontendNames : DelFrontend(n)
         \/ \E o \in Objects : Close(o) \/ Join(o)
         \/ \E t \in Targets : EndTarget(t)
         \/ \E f \in Frontends : EndFrontend(f)
         \/ CloseDataplane
<1>1. CASE Callers
  <2>1. ASSUME NEW k \in TargetKinds, AddTargetKind(k) \/ DelTargetKind(k)
        PROVE  UNCHANGED <<names, lives>>
    BY <2>1 DEF AddTargetKind, DelTargetKind
  <2>2. ASSUME NEW k \in FrontendKinds, AddFrontendKind(k) \/ DelFrontendKind(k)
        PROVE  UNCHANGED <<names, lives>>
    BY <2>2 DEF AddFrontendKind, DelFrontendKind
  <2>3. ASSUME NEW n \in TargetNames, NEW t \in Targets, NewTarget(n, t)
        PROVE  \/ \E s \in {"dropped", "refused"} : state[t] = "unborn" /\ Fail(t, s)
               \/ ~closed /\ targets[n] = None /\ groups[n] = None /\ state[t] = "unborn" /\ Birth(t, n)
    BY <2>3 DEF NewTarget
  <2>4. ASSUME NEW n \in FrontendNames, NEW m \in TargetNames, NEW e \in EndpointNames,
               NEW f \in Frontends, NewFrontend(n, m, e, f)
        PROVE  \/ \E s \in {"dropped", "refused"} : state[f] = "unborn" /\ Fail(f, s)
               \/ NewFrontendBorn(n, m, f)
    BY <2>4 DEF NewFrontend, NewFrontendBorn
  <2>5. ASSUME NEW t \in Targets, NEW e \in EndpointNames, AddEndpoint(t, e) \/ RemoveEndpoint(t, e)
        PROVE  UNCHANGED <<names, lives>>
    BY <2>5 DEF AddEndpoint, RemoveEndpoint
  <2> QED
    BY <1>1, <2>1, <2>2, <2>3, <2>4, <2>5, Apart DEF Callers
<1>2. CASE Loops
  BY <1>2 DEF Loops, Obey
<1>3. CASE CloseEngine \/ Signal
  BY <1>3 DEF CloseEngine, Signal
<1>4. CASE Daemon
  BY <1>4 DEF Daemon, Serve, Leave, Waited, Unload
<1>5. CASE UNCHANGED vars
  BY <1>5 DEF vars
<1> QED
  BY <1>1, <1>2, <1>3, <1>4, <1>5 DEF Next

\* A new engine is in a state of the invariant.
LEMMA InitIInv == Init => IInv
<1> SUFFICES ASSUME Init PROVE IInv
  OBVIOUS
<1> USE DEF Init
<1>1. TypeOK
  BY DEF TypeOK, States
<1>2. NamesAgree /\ RoutesFollowTargets
  BY Apart DEF NamesAgree, RoutesFollowTargets
<1>3. Counted
  BY DEF Counted, Alive
<1> QED
  BY <1>1, <1>2, <1>3 DEF IInv

\* Every step keeps the types.
LEMMA NextTypeOK == TypeOK /\ [Next]_vars => TypeOK'
<1> SUFFICES ASSUME TypeOK, [Next]_vars PROVE TypeOK'
  OBVIOUS
<1> USE Apart DEF TypeOK, States, offers, names, lives, phase
<1>1. ASSUME NEW k \in TargetKinds, AddTargetKind(k) \/ DelTargetKind(k) PROVE TypeOK'
  BY <1>1 DEF AddTargetKind, DelTargetKind
<1>2. ASSUME NEW k \in FrontendKinds, AddFrontendKind(k) \/ DelFrontendKind(k) PROVE TypeOK'
  BY <1>2 DEF AddFrontendKind, DelFrontendKind
<1>3. ASSUME NEW n \in TargetNames, NEW t \in Targets, NewTarget(n, t) PROVE TypeOK'
  BY <1>3 DEF NewTarget, Fail, Birth
<1>4. ASSUME NEW n \in TargetNames, DelTarget(n) PROVE TypeOK'
  BY <1>4 DEF DelTarget
<1>5. ASSUME NEW n \in FrontendNames, NEW m \in TargetNames, NEW e \in EndpointNames,
             NEW f \in Frontends, NewFrontend(n, m, e, f)
      PROVE  TypeOK'
  BY <1>5 DEF NewFrontend, Fail
<1>6. ASSUME NEW n \in FrontendNames, DelFrontend(n) PROVE TypeOK'
  BY <1>6 DEF DelFrontend
<1>7. ASSUME NEW o \in Objects, Close(o) PROVE TypeOK'
  BY <1>7 DEF Close
<1>8. ASSUME NEW o \in Objects, Join(o) PROVE TypeOK'
  BY <1>8 DEF Join
<1>9. ASSUME NEW t \in Targets, EndTarget(t) PROVE TypeOK'
  BY <1>9 DEF EndTarget
<1>10. ASSUME NEW f \in Frontends, EndFrontend(f) PROVE TypeOK'
  BY <1>10 DEF EndFrontend
<1>11. CASE CloseEngine \/ Signal
  BY <1>11 DEF CloseEngine, Signal
<1>12. CASE Daemon
  BY <1>12 DEF Daemon, Serve, Leave, Waited, Unload, CloseDataplane, Goto
<1>13. CASE UNCHANGED vars
  BY <1>13 DEF vars
<1>14. ASSUME NEW t \in Targets, NEW e \in EndpointNames, AddEndpoint(t, e) \/ RemoveEndpoint(t, e)
       PROVE  TypeOK'
  BY <1>14 DEF AddEndpoint, RemoveEndpoint
<1> QED
  BY <1>1, <1>2, <1>3, <1>4, <1>5, <1>6, <1>7, <1>8, <1>9, <1>10, <1>11, <1>12, <1>13, <1>14
     DEF Next, Callers, Loops, Obey

\* Nothing lives once the dataplane is about to be closed.
LEMMA NobodyLeft == TypeOK /\ Counted => NobodyOutlives
  BY DEF Counted, NobodyOutlives

\* A name changes hands only when the group of its last owner has gone, and an
\* open object keeps its name.
LEMMA NextNamesAgree == TypeOK /\ NamesAgree /\ Counted /\ [Next]_vars => NamesAgree'
<1> SUFFICES ASSUME TypeOK, NamesAgree, Counted, [Next]_vars PROVE NamesAgree'
  OBVIOUS
<1> USE Apart DEF TypeOK, NamesAgree, Alive, names, lives
<1>1. CASE UNCHANGED <<names, lives>>
  BY <1>1
<1>2. ASSUME NEW o \in Objects, NEW s \in {"dropped", "refused"}, state[o] = "unborn", Fail(o, s)
      PROVE  NamesAgree'
  BY <1>2 DEF Fail
<1>3. ASSUME NEW n \in TargetNames, NEW t \in Targets,
             targets[n] = None, groups[n] = None, state[t] = "unborn", Birth(t, n)
      PROVE  NamesAgree'
  BY <1>3 DEF Birth
<1>4. ASSUME NEW n \in TargetNames, DelTarget(n) PROVE NamesAgree'
  BY <1>4 DEF DelTarget
<1>5. ASSUME NEW n \in FrontendNames, NEW m \in TargetNames, NEW f \in Frontends, NewFrontendBorn(n, m, f)
      PROVE  NamesAgree'
  BY <1>5 DEF NewFrontendBorn
<1>6. ASSUME NEW n \in FrontendNames, DelFrontend(n) PROVE NamesAgree'
  BY <1>6 DEF DelFrontend
<1>7. ASSUME NEW o \in Objects, Close(o) \/ Join(o) PROVE NamesAgree'
  BY <1>7 DEF Close, Join
<1>8. ASSUME NEW t \in Targets, EndTarget(t) PROVE NamesAgree'
  BY <1>8 DEF EndTarget
<1>9. ASSUME NEW f \in Frontends, EndFrontend(f) PROVE NamesAgree'
  BY <1>9 DEF EndFrontend
<1>10. CASE CloseDataplane
  <2>1. \A o \in Objects : ~Alive(o)
    BY <1>10, NobodyLeft DEF NobodyOutlives, CloseDataplane, Goto
  <2> QED
    BY <1>10, <2>1 DEF CloseDataplane
<1> QED
  BY Steps, <1>1, <1>2, <1>3, <1>4, <1>5, <1>6, <1>7, <1>8, <1>9, <1>10

\* A mapping leaves the group with its frontend or with the group, and comes
\* with the birth of its frontend on a target that is open.
LEMMA NextRoutes ==
  TypeOK /\ NamesAgree /\ RoutesFollowTargets /\ Counted /\ [Next]_vars => RoutesFollowTargets'
<1> SUFFICES ASSUME TypeOK, NamesAgree, RoutesFollowTargets, Counted, [Next]_vars
             PROVE  RoutesFollowTargets'
  OBVIOUS
<1> USE Apart DEF TypeOK, RoutesFollowTargets, Alive, names, lives
<1>1. CASE UNCHANGED <<names, lives>>
  BY <1>1
<1>2. ASSUME NEW o \in Objects, NEW s \in {"dropped", "refused"}, state[o] = "unborn", Fail(o, s)
      PROVE  RoutesFollowTargets'
  BY <1>2 DEF Fail
<1>3. ASSUME NEW n \in TargetNames, NEW t \in Targets,
             targets[n] = None, groups[n] = None, state[t] = "unborn", Birth(t, n)
      PROVE  RoutesFollowTargets'
  BY <1>3 DEF Birth
<1>4. ASSUME NEW n \in TargetNames, DelTarget(n) PROVE RoutesFollowTargets'
  BY <1>4 DEF DelTarget
<1>5. ASSUME NEW n \in FrontendNames, NEW m \in TargetNames, NEW f \in Frontends, NewFrontendBorn(n, m, f)
      PROVE  RoutesFollowTargets'
  BY <1>5 DEF NewFrontendBorn, NamesAgree
<1>6. ASSUME NEW n \in FrontendNames, DelFrontend(n) PROVE RoutesFollowTargets'
  BY <1>6 DEF DelFrontend
<1>7. ASSUME NEW o \in Objects, Close(o) \/ Join(o) PROVE RoutesFollowTargets'
  BY <1>7 DEF Close, Join
<1>8. ASSUME NEW t \in Targets, EndTarget(t) PROVE RoutesFollowTargets'
  BY <1>8 DEF EndTarget
<1>9. ASSUME NEW f \in Frontends, EndFrontend(f) PROVE RoutesFollowTargets'
  BY <1>9 DEF EndFrontend
<1>10. CASE CloseDataplane
  <2>1. \A o \in Objects : ~Alive(o)
    BY <1>10, NobodyLeft DEF NobodyOutlives, CloseDataplane, Goto
  <2> QED
    BY <1>10, <2>1 DEF CloseDataplane
<1> QED
  BY Steps, <1>1, <1>2, <1>3, <1>4, <1>5, <1>6, <1>7, <1>8, <1>9, <1>10

\* Who is born is waited for, nobody is born once the engine is closed, and the
\* wait of an object returns when its loop is over.
LEMMA NextCounted == TypeOK /\ Counted /\ [Next]_vars => Counted'
<1> SUFFICES ASSUME TypeOK, Counted, [Next]_vars PROVE Counted'
  OBVIOUS
<1> USE Apart DEF TypeOK, Counted, Alive, offers, names, lives, phase
<1>1. ASSUME NEW k \in TargetKinds, AddTargetKind(k) \/ DelTargetKind(k) PROVE Counted'
  BY <1>1 DEF AddTargetKind, DelTargetKind
<1>2. ASSUME NEW k \in FrontendKinds, AddFrontendKind(k) \/ DelFrontendKind(k) PROVE Counted'
  BY <1>2 DEF AddFrontendKind, DelFrontendKind
<1>3. ASSUME NEW n \in TargetNames, NEW t \in Targets, NewTarget(n, t) PROVE Counted'
  BY <1>3 DEF NewTarget, Fail, Birth
<1>4. ASSUME NEW n \in TargetNames, DelTarget(n) PROVE Counted'
  BY <1>4 DEF DelTarget
<1>5. ASSUME NEW n \in FrontendNames, NEW m \in TargetNames, NEW e \in EndpointNames,
             NEW f \in Frontends, NewFrontend(n, m, e, f)
      PROVE  Counted'
  BY <1>5 DEF NewFrontend, Fail
<1>6. ASSUME NEW n \in FrontendNames, DelFrontend(n) PROVE Counted'
  BY <1>6 DEF DelFrontend
<1>7. ASSUME NEW o \in Objects, Close(o) PROVE Counted'
  BY <1>7 DEF Close
<1>8. ASSUME NEW o \in Objects, Join(o) PROVE Counted'
  BY <1>8 DEF Join
<1>9. ASSUME NEW t \in Targets, EndTarget(t) PROVE Counted'
  BY <1>9 DEF EndTarget
<1>10. ASSUME NEW f \in Frontends, EndFrontend(f) PROVE Counted'
  BY <1>10 DEF EndFrontend
<1>11. CASE CloseEngine \/ Signal
  BY <1>11 DEF CloseEngine, Signal
<1>12. CASE Daemon
  BY <1>12 DEF Daemon, Serve, Leave, Waited, Unload, CloseDataplane, Goto
<1>13. CASE UNCHANGED vars
  BY <1>13 DEF vars
<1>14. ASSUME NEW t \in Targets, NEW e \in EndpointNames, AddEndpoint(t, e) \/ RemoveEndpoint(t, e)
       PROVE  Counted'
  BY <1>14 DEF AddEndpoint, RemoveEndpoint
<1> QED
  BY <1>1, <1>2, <1>3, <1>4, <1>5, <1>6, <1>7, <1>8, <1>9, <1>10, <1>11, <1>12, <1>13, <1>14
     DEF Next, Callers, Loops, Obey

-----------------------------------------------------------------------------
\* The inductive invariant of engine.go and main.go, for any names, kinds and
\* objects: the engine and the dataplane agree on names, mappings follow their
\* targets, and whatever lives is waited for.
THEOREM Invariance == Spec => []IInv
<1>1. IInv /\ [Next]_vars => IInv'
  BY NextTypeOK, NextNamesAgree, NextRoutes, NextCounted DEF IInv
<1> QED
  BY <1>1, InitIInv, PTL DEF Spec

\* The order of shutdown in run (main.go:119-121) is safe: no target or frontend
\* outlives Engine.Wait, so none runs plugin code that was unloaded or uses a
\* dataplane that was closed.
THEOREM SafeShutdown == Spec => []NobodyOutlives
<1>1. IInv => NobodyOutlives
  BY NobodyLeft DEF IInv
<1> QED
  BY <1>1, Invariance, PTL
=============================================================================
