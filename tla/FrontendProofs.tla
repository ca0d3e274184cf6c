--------------------------- MODULE FrontendProofs ---------------------------
(* Proofs about modules Frontend and StaticFrontend, for any frontends.     *)
EXTENDS StaticFrontend, TLAPS

\* New leaves every frontend in a state of the invariant.
LEMMA InitIInv == Init => IInv
<1> SUFFICES ASSUME Init PROVE IInv
  OBVIOUS
<1> USE DEF Init
<1>1. TypeOK
  BY DEF TypeOK, States, Loc
<1>2. OneJob
  BY DEF OneJob, JobOf, StartPhase, StopPhase
<1>3. Shutdown
  BY DEF Shutdown, EndPhase
<1>4. SettledIsHonest /\ HandlerHonest
  BY DEF SettledIsHonest, HandlerHonest
<1> QED
  BY <1>1, <1>2, <1>3, <1>4 DEF IInv

\* Every step keeps the types.
LEMMA NextTypeOK == TypeOK /\ [Next]_vars => TypeOK'
<1> SUFFICES ASSUME TypeOK, [Next]_vars PROVE TypeOK'
  OBVIOUS
<1> USE DEF TypeOK, States, Loc, StartPhase, StopPhase, EndPhase, Put, caller, world
<1>1. ASSUME NEW f \in Frontends, Start(f) PROVE TypeOK'
  BY <1>1 DEF Start, Submit
<1>2. ASSUME NEW f \in Frontends, Stop(f) PROVE TypeOK'
  BY <1>2 DEF Stop, Submit
<1>3. ASSUME NEW f \in Frontends, Close(f) PROVE TypeOK'
  BY <1>3 DEF Close
<1>4. ASSUME NEW f \in Frontends, Cancel(f) PROVE TypeOK'
  BY <1>4 DEF Cancel
<1>5. ASSUME NEW f \in Frontends, Tick(f) PROVE TypeOK'
  BY <1>5 DEF Tick
<1>6. ASSUME NEW f \in Frontends, Receive(f) PROVE TypeOK'
  BY <1>6 DEF Receive, Goto
<1>7. ASSUME NEW f \in Frontends, WarmSignal(f) PROVE TypeOK'
  BY <1>7 DEF WarmSignal
<1>8. ASSUME NEW f \in Frontends, SelectDone(f) PROVE TypeOK'
  BY <1>8 DEF SelectDone, Goto
<1>9. ASSUME NEW f \in Frontends, CheckClosed(f) PROVE TypeOK'
  BY <1>9 DEF CheckClosed, Goto
<1>10. ASSUME NEW f \in Frontends, HandlerStart(f) PROVE TypeOK'
  <2>1. PICK e \in BOOLEAN, l \in {"up", "down"} :
          failed' = Put(failed, f, e) /\ listener' = Put(listener, f, l)
    BY <1>10 DEF HandlerStart, HandlerReturns
  <2> QED
    BY <1>10, <2>1 DEF HandlerStart, HandlerReturns, Goto
<1>11. ASSUME NEW f \in Frontends, HandlerStop(f) PROVE TypeOK'
  <2>1. PICK e \in BOOLEAN, l \in {"up", "down"} :
          failed' = Put(failed, f, e) /\ listener' = Put(listener, f, l)
    BY <1>11 DEF HandlerStop, HandlerReturns
  <2> QED
    BY <1>11, <2>1 DEF HandlerStop, HandlerReturns, Goto
<1>12. ASSUME NEW f \in Frontends, EndStart(f) PROVE TypeOK'
  BY <1>12 DEF EndStart, Abandon, Complete, Goto
<1>13. ASSUME NEW f \in Frontends, EndStop(f) PROVE TypeOK'
  BY <1>13 DEF EndStop, Abandon, Complete, Goto
<1>14. ASSUME NEW f \in Frontends, EndMark(f) PROVE TypeOK'
  BY <1>14 DEF EndMark, Goto
<1>15. ASSUME NEW f \in Frontends, CloseHandler(f) PROVE TypeOK'
  BY <1>15 DEF CloseHandler, Goto
<1>16. ASSUME NEW f \in Frontends, NEW ok \in BOOLEAN, Unbind(f, ok) PROVE TypeOK'
  <2>1. /\ bound'  = [bound EXCEPT ![f] = bound[f] /\ ~ok]
        /\ failed' = [failed EXCEPT ![f] = failed[f] \/ ~ok]
    BY <1>16 DEF Unbind
  <2>2. (bound[f] /\ ~ok) \in BOOLEAN /\ (failed[f] \/ ~ok) \in BOOLEAN
    OBVIOUS
  <2>3. bound' \in [Frontends -> BOOLEAN] /\ failed' \in [Frontends -> BOOLEAN]
    BY <2>1, <2>2
  <2> QED
    BY <1>16, <2>3 DEF Unbind, Goto
<1>17. ASSUME NEW f \in Frontends, Record(f) PROVE TypeOK'
  BY <1>17 DEF Record, Goto
<1>18. CASE CancelParent
  BY <1>18 DEF CancelParent
<1>19. CASE UNCHANGED vars
  BY <1>19 DEF vars
<1> QED
  BY <1>1, <1>2, <1>3, <1>4, <1>5, <1>6, <1>7, <1>8, <1>9, <1>10, <1>11, <1>12,
     <1>13, <1>14, <1>15, <1>16, <1>17, <1>18, <1>19 DEF Next, Loop, OwnLoop

\* Callers queue a job only where none is queued or in hand, and a failed job
\* leaves its error on the state it could not reach: the state announces a job
\* only while there is one or the error explains that there is none.
LEMMA NextOneJob == TypeOK /\ OneJob /\ Shutdown /\ [Next]_vars => OneJob'
<1> SUFFICES ASSUME TypeOK, OneJob, Shutdown, [Next]_vars PROVE OneJob'
  OBVIOUS
<1> DEFINE One(g) ==
      /\ requests[g] \in {<< >>, <<"Starting">>, <<"Stopping">>}
      /\ requests[g] # << >> => pc[g] \notin StartPhase \cup StopPhase
      /\ state[g] = "Starting" => IF err[g] THEN ~JobOf(g, "Stopping", StopPhase)
                                  ELSE JobOf(g, "Starting", StartPhase)
      /\ state[g] = "Stopping" => IF err[g] THEN ~JobOf(g, "Starting", StartPhase)
                                  ELSE JobOf(g, "Stopping", StopPhase)
      /\ err[g] \/ state[g] \in {"Stopped", "Running"} =>
           state[g] = "Closed" \/ (requests[g] = << >> /\ pc[g] \notin StartPhase \cup StopPhase)
<1> USE DEF TypeOK, OneJob, JobOf, StartPhase, StopPhase, Put, caller, world
<1>1. ASSUME NEW f \in Frontends, Start(f) PROVE OneJob'
  <2>1. requests[f] = << >> /\ pc[f] \notin StartPhase \cup StopPhase
    BY <1>1 DEF Start
  <2>2. Append(requests[f], "Starting") = <<"Starting">>
    BY <2>1
  <2>3. requests' = [requests EXCEPT ![f] = <<"Starting">>]
    BY <1>1, <2>2 DEF Start, Submit
  <2>4. /\ state' = [state EXCEPT ![f] = "Starting"] /\ pc' = pc
        /\ err' = [err EXCEPT ![f] = FALSE]
    BY <1>1 DEF Start, Submit
  <2> QED
    BY <2>1, <2>3, <2>4
<1>2. ASSUME NEW f \in Frontends, Stop(f) PROVE OneJob'
  <2>1. requests[f] = << >> /\ pc[f] \notin StartPhase \cup StopPhase
    BY <1>2 DEF Stop
  <2>2. Append(requests[f], "Stopping") = <<"Stopping">>
    BY <2>1
  <2>3. requests' = [requests EXCEPT ![f] = <<"Stopping">>]
    BY <1>2, <2>2 DEF Stop, Submit
  <2>4. /\ state' = [state EXCEPT ![f] = "Stopping"] /\ pc' = pc
        /\ err' = [err EXCEPT ![f] = FALSE]
    BY <1>2 DEF Stop, Submit
  <2> QED
    BY <2>1, <2>3, <2>4
<1>3. ASSUME NEW f \in Frontends, Close(f) PROVE OneJob'
  BY <1>3 DEF Close
<1>4. ASSUME NEW f \in Frontends, Cancel(f) PROVE OneJob'
  BY <1>4 DEF Cancel
<1>5. ASSUME NEW f \in Frontends, Tick(f) PROVE OneJob'
  BY <1>5 DEF Tick
<1>6. ASSUME NEW f \in Frontends, Receive(f) PROVE OneJob'
  BY <1>6 DEF Receive, Goto
<1>7. ASSUME NEW f \in Frontends, WarmSignal(f) PROVE OneJob'
  BY <1>7 DEF WarmSignal
<1>8. ASSUME NEW f \in Frontends, SelectDone(f) PROVE OneJob'
  BY <1>8 DEF SelectDone, Goto
<1>9. ASSUME NEW f \in Frontends, CheckClosed(f) PROVE OneJob'
  BY <1>9 DEF CheckClosed, Goto
<1>10. ASSUME NEW f \in Frontends, HandlerStart(f) PROVE OneJob'
  BY <1>10 DEF HandlerStart, HandlerReturns, Goto
<1>11. ASSUME NEW f \in Frontends, HandlerStop(f) PROVE OneJob'
  BY <1>11 DEF HandlerStop, HandlerReturns, Goto
<1>12. ASSUME NEW f \in Frontends, EndStart(f) PROVE OneJob'
  <2>1. requests[f] = << >> /\ pc' = [pc EXCEPT ![f] = "select"] /\ requests' = requests
    BY <1>12 DEF EndStart, Goto
  <2>2. CASE Abandon(f)
    BY <1>12, <2>1, <2>2 DEF Abandon
  <2>3. CASE Complete(f, "Running", "Stopping") /\ failed[f]
    <3>1. err' = [err EXCEPT ![f] = TRUE] /\ state' = [state EXCEPT ![f] = "Stopping"]
      BY <2>3 DEF Complete
    <3>2. /\ requests'[f] = << >> /\ pc'[f] = "select"
          /\ err'[f] = TRUE /\ state'[f] = "Stopping"
      BY <2>1, <3>1
    <3>4. ~JobOf(f, "Starting", StartPhase)'
      <4>1. << >> # <<"Starting">>
        OBVIOUS
      <4> QED
        BY <3>2, <4>1
    <3>3. ASSUME NEW g \in Frontends, g # f
          PROVE  /\ requests'[g] = requests[g] /\ pc'[g] = pc[g]
                 /\ err'[g] = err[g] /\ state'[g] = state[g]
      BY <2>1, <3>1, <3>3
    <3>5. One(f)'
      BY <3>2, <3>4
    <3>6. ASSUME NEW g \in Frontends, g # f PROVE One(g)'
      <4>1. One(g)
        OBVIOUS
      <4> QED
        BY <3>3, <3>6, <4>1
    <3> QED
      BY <3>5, <3>6
  <2>4. CASE Complete(f, "Running", "Stopping") /\ ~failed[f]
    <3>1. err' = [err EXCEPT ![f] = FALSE] /\ state' = [state EXCEPT ![f] = "Running"]
      BY <2>4 DEF Complete
    <3> QED
      BY <2>1, <3>1
  <2> QED
    BY <1>12, <2>2, <2>3, <2>4 DEF EndStart
<1>13. ASSUME NEW f \in Frontends, EndStop(f) PROVE OneJob'
  <2>1. requests[f] = << >> /\ pc' = [pc EXCEPT ![f] = "select"] /\ requests' = requests
    BY <1>13 DEF EndStop, Goto
  <2>2. CASE Abandon(f)
    BY <1>13, <2>1, <2>2 DEF Abandon
  <2>3. CASE Complete(f, "Stopped", "Starting") /\ failed[f]
    <3>1. err' = [err EXCEPT ![f] = TRUE] /\ state' = [state EXCEPT ![f] = "Starting"]
      BY <2>3 DEF Complete
    <3>2. /\ requests'[f] = << >> /\ pc'[f] = "select"
          /\ err'[f] = TRUE /\ state'[f] = "Starting"
      BY <2>1, <3>1
    <3>4. ~JobOf(f, "Stopping", StopPhase)'
      <4>1. << >> # <<"Stopping">>
        OBVIOUS
      <4> QED
        BY <3>2, <4>1
    <3>3. ASSUME NEW g \in Frontends, g # f
          PROVE  /\ requests'[g] = requests[g] /\ pc'[g] = pc[g]
                 /\ err'[g] = err[g] /\ state'[g] = state[g]
      BY <2>1, <3>1, <3>3
    <3>5. One(f)'
      BY <3>2, <3>4
    <3>6. ASSUME NEW g \in Frontends, g # f PROVE One(g)'
      <4>1. One(g)
        OBVIOUS
      <4> QED
        BY <3>3, <3>6, <4>1
    <3> QED
      BY <3>5, <3>6
  <2>4. CASE Complete(f, "Stopped", "Starting") /\ ~failed[f]
    <3>1. err' = [err EXCEPT ![f] = FALSE] /\ state' = [state EXCEPT ![f] = "Stopped"]
      BY <2>4 DEF Complete
    <3> QED
      BY <2>1, <3>1
  <2> QED
    BY <1>13, <2>2, <2>3, <2>4 DEF EndStop
<1>14. ASSUME NEW f \in Frontends, EndMark(f) PROVE OneJob'
  BY <1>14 DEF EndMark, Goto
<1>15. ASSUME NEW f \in Frontends, CloseHandler(f) PROVE OneJob'
  BY <1>15 DEF CloseHandler, Goto
<1>16. ASSUME NEW f \in Frontends, NEW ok \in BOOLEAN, Unbind(f, ok) PROVE OneJob'
  BY <1>16 DEF Unbind, Goto
<1>17. ASSUME NEW f \in Frontends, Record(f) PROVE OneJob'
  <2>1. /\ state[f] = "Closed" /\ state' = state /\ requests' = requests
        /\ pc' = [pc EXCEPT ![f] = "exited"]
        /\ err' = [err EXCEPT ![f] = failed[f]]
    BY <1>17 DEF Record, Goto, Shutdown, EndPhase
  <2>2. ASSUME NEW g \in Frontends, g # f
        PROVE  err'[g] = err[g] /\ pc'[g] = pc[g]
    BY <2>1, <2>2
  <2>3. pc'[f] = "exited" /\ pc[f] = "record"
    BY <1>17, <2>1 DEF Record
  <2> QED
    BY <2>1, <2>2, <2>3
<1>18. CASE CancelParent
  BY <1>18 DEF CancelParent
<1>19. CASE UNCHANGED vars
  BY <1>19 DEF vars
<1> QED
  BY <1>1, <1>2, <1>3, <1>4, <1>5, <1>6, <1>7, <1>8, <1>9, <1>10, <1>11, <1>12,
     <1>13, <1>14, <1>15, <1>16, <1>17, <1>18, <1>19 DEF Next, Loop, OwnLoop

\* Marking, cancelling, ending and giving the mapping back happen in that order.
LEMMA NextShutdown == TypeOK /\ Shutdown /\ [Next]_vars => Shutdown'
<1> SUFFICES ASSUME TypeOK, Shutdown, [Next]_vars PROVE Shutdown'
  OBVIOUS
<1> USE DEF TypeOK, Shutdown, StartPhase, StopPhase, EndPhase, Put, caller, world
<1>1. ASSUME NEW f \in Frontends, Start(f) PROVE Shutdown'
  BY <1>1 DEF Start, Submit
<1>2. ASSUME NEW f \in Frontends, Stop(f) PROVE Shutdown'
  BY <1>2 DEF Stop, Submit
<1>3. ASSUME NEW f \in Frontends, Close(f) PROVE Shutdown'
  BY <1>3 DEF Close
<1>4. ASSUME NEW f \in Frontends, Cancel(f) PROVE Shutdown'
  BY <1>4 DEF Cancel
<1>5. ASSUME NEW f \in Frontends, Tick(f) PROVE Shutdown'
  BY <1>5 DEF Tick
<1>6. ASSUME NEW f \in Frontends, Receive(f) PROVE Shutdown'
  BY <1>6 DEF Receive, Goto
<1>7. ASSUME NEW f \in Frontends, WarmSignal(f) PROVE Shutdown'
  BY <1>7 DEF WarmSignal
<1>8. ASSUME NEW f \in Frontends, SelectDone(f) PROVE Shutdown'
  BY <1>8 DEF SelectDone, Goto
<1>9. ASSUME NEW f \in Frontends, CheckClosed(f) PROVE Shutdown'
  BY <1>9 DEF CheckClosed, Goto
<1>10. ASSUME NEW f \in Frontends, HandlerStart(f) PROVE Shutdown'
  BY <1>10 DEF HandlerStart, HandlerReturns, Goto
<1>11. ASSUME NEW f \in Frontends, HandlerStop(f) PROVE Shutdown'
  BY <1>11 DEF HandlerStop, HandlerReturns, Goto
<1>12. ASSUME NEW f \in Frontends, EndStart(f) PROVE Shutdown'
  BY <1>12 DEF EndStart, Abandon, Complete, Goto
<1>13. ASSUME NEW f \in Frontends, EndStop(f) PROVE Shutdown'
  BY <1>13 DEF EndStop, Abandon, Complete, Goto
<1>14. ASSUME NEW f \in Frontends, EndMark(f) PROVE Shutdown'
  BY <1>14 DEF EndMark, Goto
<1>15. ASSUME NEW f \in Frontends, CloseHandler(f) PROVE Shutdown'
  BY <1>15 DEF CloseHandler, Goto
<1>16. ASSUME NEW f \in Frontends, NEW ok \in BOOLEAN, Unbind(f, ok) PROVE Shutdown'
  BY <1>16 DEF Unbind, Goto
<1>17. ASSUME NEW f \in Frontends, Record(f) PROVE Shutdown'
  BY <1>17 DEF Record, Goto
<1>18. CASE CancelParent
  BY <1>18 DEF CancelParent
<1>19. CASE UNCHANGED vars
  BY <1>19 DEF vars
<1> QED
  BY <1>1, <1>2, <1>3, <1>4, <1>5, <1>6, <1>7, <1>8, <1>9, <1>10, <1>11, <1>12,
     <1>13, <1>14, <1>15, <1>16, <1>17, <1>18, <1>19 DEF Next, Loop, OwnLoop

\* A settled state is reached only from a handler that succeeded, and a mapping
\* that could not be given back leaves an error.
LEMMA NextHonest == IInv /\ [Next]_vars => (SettledIsHonest /\ HandlerHonest)'
<1> SUFFICES ASSUME TypeOK, OneJob, Shutdown, SettledIsHonest, HandlerHonest, [Next]_vars
             PROVE  (SettledIsHonest /\ HandlerHonest)'
  BY DEF IInv
<1> DEFINE Goal == (SettledIsHonest /\ HandlerHonest)'
<1> USE DEF TypeOK, OneJob, Shutdown, SettledIsHonest, HandlerHonest,
            StartPhase, StopPhase, EndPhase, Put, caller, world
<1>1. ASSUME NEW f \in Frontends, Start(f) PROVE Goal
  BY <1>1 DEF Start, Submit
<1>2. ASSUME NEW f \in Frontends, Stop(f) PROVE Goal
  BY <1>2 DEF Stop, Submit
<1>3. ASSUME NEW f \in Frontends, Close(f) PROVE Goal
  BY <1>3 DEF Close
<1>4. ASSUME NEW f \in Frontends, Cancel(f) PROVE Goal
  BY <1>4 DEF Cancel
<1>5. ASSUME NEW f \in Frontends, Tick(f) PROVE Goal
  BY <1>5 DEF Tick
<1>6. ASSUME NEW f \in Frontends, Receive(f) PROVE Goal
  BY <1>6 DEF Receive, Goto
<1>7. ASSUME NEW f \in Frontends, WarmSignal(f) PROVE Goal
  BY <1>7 DEF WarmSignal
<1>8. ASSUME NEW f \in Frontends, SelectDone(f) PROVE Goal
  BY <1>8 DEF SelectDone, Goto
<1>9. ASSUME NEW f \in Frontends, CheckClosed(f) PROVE Goal
  BY <1>9 DEF CheckClosed, Goto
<1>10. ASSUME NEW f \in Frontends, HandlerStart(f) PROVE Goal
  BY <1>10 DEF HandlerStart, HandlerReturns, Goto
<1>11. ASSUME NEW f \in Frontends, HandlerStop(f) PROVE Goal
  BY <1>11 DEF HandlerStop, HandlerReturns, Goto
<1>12. ASSUME NEW f \in Frontends, EndStart(f) PROVE Goal
  BY <1>12 DEF EndStart, Abandon, Complete, Goto
<1>13. ASSUME NEW f \in Frontends, EndStop(f) PROVE Goal
  BY <1>13 DEF EndStop, Abandon, Complete, Goto
<1>14. ASSUME NEW f \in Frontends, EndMark(f) PROVE Goal
  BY <1>14 DEF EndMark, Goto
<1>15. ASSUME NEW f \in Frontends, CloseHandler(f) PROVE Goal
  <2>1. PICK e \in BOOLEAN : failed' = Put(failed, f, e)
    BY <1>15 DEF CloseHandler
  <2>2. state[f] = "Closed"
    BY <1>15 DEF CloseHandler
  <2>3. SettledIsHonest'
    BY <1>15, <2>2 DEF CloseHandler, Goto
  <2>4. HandlerHonest'
    BY <1>15, <2>1 DEF CloseHandler, Goto
  <2> QED
    BY <2>3, <2>4
<1>16. ASSUME NEW f \in Frontends, NEW ok \in BOOLEAN, Unbind(f, ok) PROVE Goal
  BY <1>16 DEF Unbind, Goto
<1>17. ASSUME NEW f \in Frontends, Record(f) PROVE Goal
  BY <1>17 DEF Record, Goto
<1>18. CASE CancelParent
  BY <1>18 DEF CancelParent
<1>19. CASE UNCHANGED vars
  BY <1>19 DEF vars
<1> QED
  BY <1>1, <1>2, <1>3, <1>4, <1>5, <1>6, <1>7, <1>8, <1>9, <1>10, <1>11, <1>12,
     <1>13, <1>14, <1>15, <1>16, <1>17, <1>18, <1>19 DEF Next, Loop, OwnLoop

LEMMA NextIInv == IInv /\ [Next]_vars => IInv'
  BY NextTypeOK, NextOneJob, NextShutdown, NextHonest DEF IInv

\* The inductive invariant holds in every reachable state, whatever the number
\* of frontends: jobs, states and errors agree, shutdown runs in order, and a
\* settled frontend is what its state says.
THEOREM Invariance == Spec => []IInv
<1> QED
  BY InitIInv, NextIInv, PTL DEF Spec

\* Start and Stop never block on the mailbox while they hold the lock
\* (frontend.go:167 and :188), not even after a job has failed.
THEOREM NoBlockingSend == Spec => []MailboxHasRoom
<1>1. IInv => MailboxHasRoom
  <2> SUFFICES ASSUME IInv, NEW f \in Frontends
               PROVE  /\ Len(requests[f]) <= 1
                      /\ state[f] \in {"Stopped", "Running"} => requests[f] = << >>
    BY DEF MailboxHasRoom
  <2>1. requests[f] \in {<< >>, <<"Starting">>, <<"Stopping">>}
    BY DEF IInv, OneJob
  <2>3. state[f] \in {"Stopped", "Running"} => requests[f] = << >>
    BY DEF IInv, OneJob
  <2>4. Len(requests[f]) <= 1
    <3>1. CASE requests[f] = << >>
      BY <3>1
    <3>2. CASE requests[f] = <<"Starting">>
      BY <3>2
    <3>3. CASE requests[f] = <<"Stopping">>
      BY <3>3
    <3> QED
      BY <2>1, <3>1, <3>2, <3>3
  <2> QED
    BY <2>3, <2>4
<1> QED
  BY <1>1, Invariance, PTL

\* A Running frontend listens, a Stopped one does not, and one that has ended
\* without an error has given its mapping back.
THEOREM Honesty == Spec => []SettledIsHonest
<1>1. IInv => SettledIsHonest
  BY DEF IInv
<1> QED
  BY <1>1, Invariance, PTL

\* Close wins the race with a start or stop in flight: the test repeated in the
\* completing critical section (frontend.go:211 and :244) is enough.
THEOREM CloseWins == Spec => ClosedIsFinal
<1> DEFINE Final(u) == state[u] = "Closed" => state'[u] = "Closed" /\ (bound'[u] => bound[u])
<1>1. ASSUME TypeOK, Next, NEW u \in Frontends PROVE Final(u)
  <2> USE <1>1 DEF TypeOK, Put, caller, world
  <2>1. ASSUME NEW f \in Frontends, Start(f) \/ Stop(f) PROVE Final(u)
    BY <2>1 DEF Start, Stop, Submit
  <2>2. ASSUME NEW f \in Frontends, Close(f) \/ Cancel(f) \/ Tick(f) PROVE Final(u)
    BY <2>2 DEF Close, Cancel, Tick
  <2>3. ASSUME NEW f \in Frontends, Receive(f) \/ WarmSignal(f) \/ SelectDone(f) \/ CheckClosed(f)
        PROVE  Final(u)
    BY <2>3 DEF Receive, WarmSignal, SelectDone, CheckClosed
  <2>4. ASSUME NEW f \in Frontends, HandlerStart(f) \/ HandlerStop(f) PROVE Final(u)
    BY <2>4 DEF HandlerStart, HandlerStop, HandlerReturns
  <2>5. ASSUME NEW f \in Frontends, EndStart(f) \/ EndStop(f) PROVE Final(u)
    BY <2>5 DEF EndStart, EndStop, Abandon, Complete
  <2>6. ASSUME NEW f \in Frontends, EndMark(f) \/ CloseHandler(f) \/ Record(f) PROVE Final(u)
    BY <2>6 DEF EndMark, CloseHandler, Record
  <2>7. ASSUME NEW f \in Frontends, NEW ok \in BOOLEAN, Unbind(f, ok) PROVE Final(u)
    BY <2>7 DEF Unbind
  <2>8. CASE CancelParent
    BY <2>8 DEF CancelParent
  <2> QED
    BY <1>1, <2>1, <2>2, <2>3, <2>4, <2>5, <2>6, <2>7, <2>8 DEF Next, Loop, OwnLoop
<1>2. IInv /\ [Next]_vars =>
        [\A f \in Frontends : state[f] = "Closed" =>
           state'[f] = "Closed" /\ (bound'[f] => bound[f])]_vars
  BY <1>1 DEF IInv
<1> QED
  BY <1>2, Invariance, PTL DEF Spec, ClosedIsFinal

-----------------------------------------------------------------------------
(* The promise, step by step.                                              *)

\* What callers see of the mapping and of the loop.
Kept == [f \in Frontends |-> IF ~bound[f] THEN "gone"
                             ELSE IF pc[f] \in {"record", "exited"} THEN "left"
                             ELSE "held"]
Over == [f \in Frontends |-> pc[f] = "exited"]

\* A loop that moves without giving the mapping back or ending shows nothing.
LEMMA LoopIsHidden ==
  ASSUME TypeOK, NEW f \in Frontends, NEW p, pc' = Put(pc, f, p), bound' = bound,
         pc[f] \notin {"record", "exited"}, p \notin {"record", "exited"}
  PROVE  Kept' = Kept /\ Over' = Over
  BY DEF TypeOK, Put, Kept, Over

LEMMA SameMappings ==
  ASSUME pc' = pc, bound' = bound
  PROVE  Kept' = Kept /\ Over' = Over
  BY DEF Kept, Over

\* A loop that comes back from the handler finds the state it was called for,
\* without an error, or Closed.
LEMMA JobInHand ==
  ASSUME TypeOK, OneJob, NEW f \in Frontends, state[f] # "Closed"
  PROVE  /\ pc[f] = "started" => state[f] = "Starting" /\ ~err[f]
         /\ pc[f] = "stopped" => state[f] = "Stopping" /\ ~err[f]
<1>1. ASSUME pc[f] \in StartPhase \cup StopPhase
      PROVE  requests[f] = << >> /\ ~err[f] /\ state[f] \notin {"Stopped", "Running"}
  BY <1>1 DEF OneJob
<1>2. state[f] \in {"Stopped", "Running", "Starting", "Stopping"}
  BY DEF TypeOK, States
<1>3. << >> # <<"Starting">> /\ << >> # <<"Stopping">>
  OBVIOUS
<1>4. CASE pc[f] = "started"
  <2>1. pc[f] \in StartPhase /\ pc[f] \notin StopPhase
    BY <1>4 DEF StartPhase, StopPhase
  <2>2. state[f] # "Stopping"
    BY <1>1, <1>3, <2>1 DEF OneJob, JobOf
  <2> QED
    BY <1>1, <1>2, <1>4, <2>1, <2>2
<1>5. CASE pc[f] = "stopped"
  <2>1. pc[f] \in StopPhase /\ pc[f] \notin StartPhase
    BY <1>5 DEF StartPhase, StopPhase
  <2>2. state[f] # "Starting"
    BY <1>1, <1>3, <2>1 DEF OneJob, JobOf
  <2> QED
    BY <1>1, <1>2, <1>5, <2>1, <2>2
<1> QED
  BY <1>4, <1>5

\* The end of a job settles it, unless the frontend was closed meanwhile.
LEMMA EndSettles ==
  ASSUME IInv, NEW f \in Frontends, EndStart(f) \/ EndStop(f)
  PROVE  Promise!Jobs(f) \/ UNCHANGED Promise!vars
<1> USE DEF IInv, TypeOK
<1>1. Kept' = Kept /\ Over' = Over /\ signal' = signal
  BY LoopIsHidden DEF EndStart, EndStop, Goto, world
<1>2. CASE Abandon(f)
  BY <1>1, <1>2 DEF Abandon, Promise!vars, Kept, Over
<1>3. ASSUME NEW job, NEW good, NEW bad, state[f] = job, ~err[f], Complete(f, good, bad)
      PROVE  Promise!Settle(f, job, good, bad)
  <2>1. CASE failed[f]
    <3>1. state' = [state EXCEPT ![f] = bad] /\ err' = [err EXCEPT ![f] = TRUE]
      BY <1>3, <2>1 DEF Complete, Put
    <3> QED
      BY <1>1, <1>3, <3>1 DEF Promise!Settle, Kept, Over
  <2>2. CASE ~failed[f]
    <3>1. state' = [state EXCEPT ![f] = good] /\ err' = [err EXCEPT ![f] = FALSE]
      BY <1>3, <2>2 DEF Complete, Put
    <3>2. err' = err
      BY <1>3, <3>1
    <3> QED
      BY <1>1, <1>3, <3>1, <3>2 DEF Promise!Settle, Kept, Over
  <2> QED
    BY <2>1, <2>2
<1>4. CASE EndStart(f) /\ ~Abandon(f)
  <2>1. Complete(f, "Running", "Stopping") /\ pc[f] = "started" /\ state[f] # "Closed"
    BY <1>4 DEF EndStart, Complete
  <2> QED
    BY <1>3, <2>1, JobInHand DEF Promise!Jobs, Promise!SettleStart
<1>5. CASE EndStop(f) /\ ~Abandon(f)
  <2>1. Complete(f, "Stopped", "Starting") /\ pc[f] = "stopped" /\ state[f] # "Closed"
    BY <1>5 DEF EndStop, Complete
  <2> QED
    BY <1>3, <2>1, JobInHand DEF Promise!Jobs, Promise!SettleStop
<1> QED
  BY <1>2, <1>4, <1>5

\* A mapping is given back, or left, once and by a Closed frontend.
LEMMA UnbindIsPromised ==
  ASSUME IInv, NEW f \in Frontends, NEW ok \in BOOLEAN, Unbind(f, ok)
  PROVE  Promise!Unbind(f, ok)
<1> USE DEF IInv, TypeOK
<1>1. pc[f] = "unbind" /\ state[f] = "Closed" /\ bound[f]
  BY DEF Unbind, Shutdown, EndPhase
<1>2. /\ bound' = [bound EXCEPT ![f] = ~ok] /\ pc' = [pc EXCEPT ![f] = "record"]
      /\ state' = state /\ err' = err /\ signal' = signal
  BY <1>1 DEF Unbind, Goto, Put, caller
<1>3. Kept[f] = "held" /\ Kept' = [Kept EXCEPT ![f] = IF ok THEN "gone" ELSE "left"]
  BY <1>1, <1>2 DEF Kept
<1>4. Over' = Over
  BY <1>1, <1>2 DEF Over
<1> QED
  BY <1>1, <1>2, <1>3, <1>4 DEF Promise!Unbind, Kept, Over

\* The error that Record leaves is one when the mapping is left behind.
LEMMA RecordFinishes ==
  ASSUME IInv, NEW f \in Frontends, Record(f)
  PROVE  Promise!Finish(f)
<1> USE DEF IInv, TypeOK
<1>1. pc[f] = "record" /\ (~failed[f] => ~bound[f])
  BY DEF Record, HandlerHonest
<1>2. /\ bound' = bound /\ pc' = [pc EXCEPT ![f] = "exited"]
      /\ state' = state /\ signal' = signal /\ err' = [err EXCEPT ![f] = failed[f]]
  BY DEF Record, Goto, Put, world
<1>3. /\ Kept[f] # "held" /\ (Kept[f] = "left") = bound[f]
      /\ Kept' = Kept
  BY <1>1, <1>2 DEF Kept
<1>4. Over[f] = FALSE /\ Over' = [Over EXCEPT ![f] = TRUE]
  BY <1>1, <1>2 DEF Over
<1>5. failed[f] \in {bound[f], TRUE}
  BY <1>1
<1>6. err' \in {[err EXCEPT ![f] = e] : e \in {Kept[f] = "left", TRUE}}
  BY <1>2, <1>3, <1>5
<1> QED
  BY <1>2, <1>3, <1>4, <1>6 DEF Promise!Finish, Kept, Over

\* Every other step is a call of Start, Stop or Close, a warm signal that comes
\* or is passed on, the mark of the loop that has found its context done, or
\* none of the callers' business.
LEMMA StepIsPromised == IInv /\ [Next]_vars => [Promise!Next]_(Promise!vars)
<1> SUFFICES ASSUME IInv, [Next]_vars PROVE Promise!Next \/ UNCHANGED Promise!vars
  OBVIOUS
<1> USE DEF IInv, TypeOK
<1>1. ASSUME NEW f \in Frontends, Start(f) \/ Stop(f) PROVE Promise!Next
  <2>1. Kept' = Kept /\ Over' = Over /\ signal' = signal
    BY <1>1, SameMappings DEF Start, Stop, Submit, world
  <2> QED
    BY <1>1, <2>1 DEF Start, Stop, Submit, Put, Promise!Next, Promise!Start, Promise!Stop,
                      Promise!Request, Kept, Over
<1>2. ASSUME NEW f \in Frontends, Close(f) PROVE Promise!Next
  <2>1. Kept' = Kept /\ Over' = Over /\ signal' = signal
    BY <1>2, SameMappings DEF Close, world
  <2> QED
    BY <1>2, <2>1 DEF Close, Put, Promise!Next, Promise!Close, Kept, Over
<1>3. ASSUME NEW f \in Frontends, Tick(f) \/ WarmSignal(f) PROVE Promise!Next
  <2>1. Kept' = Kept /\ Over' = Over /\ state' = state /\ err' = err
    BY <1>3, SameMappings DEF Tick, WarmSignal, caller
  <2>2. bound[f] /\ pc[f] \notin {"record", "exited"}
    BY <1>3 DEF Tick, WarmSignal, Shutdown
  <2>3. Kept[f] = "held"
    BY <2>2 DEF Kept
  <2>4. Promise!Tick(f) \/ Promise!WarmSignal(f)
    BY <1>3, <2>1, <2>3 DEF Tick, WarmSignal, Put, Promise!Tick, Promise!WarmSignal, Kept, Over
  <2> QED
    BY <2>4 DEF Promise!Next
<1>4. ASSUME NEW f \in Frontends, EndMark(f) PROVE Promise!Next \/ UNCHANGED Promise!vars
  <2>1. Kept' = Kept /\ Over' = Over /\ signal' = signal
    <3>1. /\ pc[f] = "end" /\ pc' = Put(pc, f, "closeHandler")
          /\ bound' = bound /\ signal' = signal
      BY <1>4 DEF EndMark, Goto, world
    <3>2. TypeOK
      OBVIOUS
    <3> HIDE DEF IInv, TypeOK
    <3> QED
      BY <3>1, <3>2, LoopIsHidden
  <2>2. CASE state[f] = "Closed"
    <3>1. state' = state
      BY <1>4, <2>2 DEF EndMark, Put
    <3> QED
      BY <1>4, <2>1, <3>1 DEF EndMark, Promise!vars, Kept, Over
  <2>3. CASE state[f] # "Closed"
    BY <1>4, <2>1, <2>3 DEF EndMark, Put, Promise!Next, Promise!Close, Kept, Over
  <2> QED
    BY <2>2, <2>3
<1>5. ASSUME NEW f \in Frontends, \/ Receive(f) \/ SelectDone(f) \/ CheckClosed(f)
                                  \/ HandlerStart(f) \/ HandlerStop(f) \/ CloseHandler(f)
      PROVE  UNCHANGED Promise!vars
  <2>1. state' = state /\ err' = err /\ signal' = signal /\ bound' = bound
    BY <1>5 DEF Receive, SelectDone, CheckClosed, HandlerStart, HandlerStop, HandlerReturns,
                CloseHandler, caller, world
  <2>2. PICK p \in Loc \ {"record", "exited"} : pc' = Put(pc, f, p)
    BY <1>5 DEF Receive, SelectDone, CheckClosed, HandlerStart, HandlerStop, HandlerReturns,
                CloseHandler, Goto, Loc, StartPhase, StopPhase, EndPhase
  <2>3. pc[f] \notin {"record", "exited"}
    BY <1>5 DEF Receive, SelectDone, CheckClosed, HandlerStart, HandlerStop, HandlerReturns,
                CloseHandler
  <2>4. Kept' = Kept /\ Over' = Over
    BY <2>1, <2>2, <2>3, LoopIsHidden
  <2> QED
    BY <2>1, <2>4 DEF Promise!vars, Kept, Over
<1>6. CASE (\E f \in Frontends : Cancel(f)) \/ CancelParent \/ UNCHANGED vars
  <2>1. state' = state /\ err' = err /\ signal' = signal /\ bound' = bound /\ pc' = pc
    BY <1>6 DEF Cancel, CancelParent, vars, caller, world
  <2> QED
    BY <2>1, SameMappings DEF Promise!vars, Kept, Over
<1>7. ASSUME NEW f \in Frontends, EndStart(f) \/ EndStop(f) \/ Record(f)
      PROVE  Promise!Next \/ UNCHANGED Promise!vars
  BY <1>7, EndSettles, RecordFinishes DEF Promise!Next
<1>8. ASSUME NEW f \in Frontends, NEW ok \in BOOLEAN, Unbind(f, ok) PROVE Promise!Next
  BY <1>8, UnbindIsPromised DEF Promise!Next
<1> QED
  BY <1>1, <1>2, <1>3, <1>4, <1>5, <1>6, <1>7, <1>8 DEF Next, Loop, OwnLoop

LEMMA InitIsPromised == Init => Promise!Init
<1> SUFFICES ASSUME Init PROVE Promise!Init
  OBVIOUS
<1>1. \A f \in Frontends : bound[f] /\ pc[f] = "select"
  BY DEF Init
<1>2. Over = [f \in Frontends |-> FALSE]
  BY <1>1 DEF Over
<1>3. Kept = [f \in Frontends |-> "held"]
  BY <1>1 DEF Kept
<1> QED
  BY <1>2, <1>3 DEF Init, Promise!Init, Kept, Over

\* Callers see the lifecycle of state.go as the code keeps it and nothing else:
\* every step of loop, mailbox and contexts is one of FrontendLifecycle, or none.
THEOREM StepsKeepPromise == Spec => Promise!Init /\ [][Promise!Next]_(Promise!vars)
<1> QED
  BY InitIsPromised, StepIsPromised, Invariance, PTL DEF Spec

-----------------------------------------------------------------------------
(* The static handlers.                                                   *)

-----------------------------------------------------------------------------
(* Every step is one of Frontend's, or none.                               *)

\* A step of a caller or of the loop between two calls is one of Frontend's.
LEMMA OwnSteps ==
  ASSUME NEW f \in Frontends, Caller(f) \/ StaticLoop(f)
  PROVE  UNCHANGED handler /\ Next
<1>1. CASE Caller(f)
  BY <1>1 DEF Caller, Next
<1>2. CASE StaticLoop(f)
  BY <1>2 DEF StaticLoop, Loop, OwnLoop, Next
<1> QED
  BY <1>1, <1>2

\* What the handler returns to the loop is what Frontend expects of it.
LEMMA Returns ==
  ASSUME NEW f \in Frontends, NEW e \in BOOLEAN, NEW l \in {"up", "down"}, Return(f, e, l),
         pc[f] \in {"starting", "stopping", "closeHandler"},
         pc[f] = "starting" /\ ~e => l = "up", pc[f] = "stopping" /\ ~e => l = "down"
  PROVE  Next
<1> USE DEF Return, Goto, Put, caller, Next, Loop, OwnLoop
<1>1. CASE pc[f] = "starting"
  <2>1. HandlerStart(f)
    BY <1>1 DEF HandlerStart, HandlerReturns
  <2> QED
    BY <2>1
<1>2. CASE pc[f] = "stopping"
  <2>1. HandlerStop(f)
    BY <1>2 DEF HandlerStop, HandlerReturns
  <2> QED
    BY <2>1
<1>3. CASE pc[f] = "closeHandler"
  <2>1. CloseHandler(f)
    BY <1>3 DEF CloseHandler
  <2> QED
    BY <2>1
<1> QED
  BY <1>1, <1>2, <1>3

\* A signal is a Tick, or dropped when the loop reads no more.
LEMMA Raises ==
  ASSUME TypeOK, NEW f \in Frontends, Raise(f)
  PROVE  Next \/ UNCHANGED vars
<1>1. CASE pc[f] \in {"record", "exited"}
  BY <1>1 DEF Raise, Put, vars, TypeOK
<1>2. CASE pc[f] \notin {"record", "exited"}
  <2>1. Tick(f)
    BY <1>2 DEF Raise, Put, Tick, caller, TypeOK
  <2> QED
    BY <2>1 DEF Next
<1> QED
  BY <1>1, <1>2

\* HTTPHandler.Start either fails or leaves a server.
LEMMA StartEnds ==
  ASSUME StaticTypeOK, NEW f \in Frontends, StartServer(f)
  PROVE  \E e \in BOOLEAN :
           /\ Return(f, e, IF e THEN "down" ELSE "up")
           /\ server[f] => ~e
           /\ server' = Put(server, f, server[f] \/ ~e)
           /\ socket' = IF server[f] \/ e THEN socket ELSE Put(socket, f, "open")
<1>1. stale[f] \in BOOLEAN
  BY DEF StaticTypeOK
<1>2. (IF server[f] THEN {FALSE} ELSE {TRUE, stale[f]}) \subseteq {e \in BOOLEAN : server[f] => ~e}
  BY <1>1
<1> QED
  BY <1>2 DEF StartServer

\* What a server and a ticker do between two calls does not concern the loop,
\* nor does the beginning of a shutdown.
LEMMA Simulates == TypeOK /\ StaticTypeOK /\ Held /\ [StaticNext]_staticVars => [Next]_vars
<1> SUFFICES ASSUME TypeOK, StaticTypeOK, Held, [StaticNext]_staticVars PROVE Next \/ UNCHANGED vars
  BY DEF vars
<1>1. ASSUME NEW f \in Frontends, Caller(f) \/ StaticLoop(f) PROVE Next
  BY <1>1, OwnSteps
<1>2. ASSUME NEW f \in Frontends, Command(f) PROVE Next
  <2>1. /\ pc[f] \in {"starting", "stopping", "closeHandler"}
        /\ Wanted(f) = "start" <=> pc[f] = "starting"
    BY <1>2 DEF Command, Wanted
  <2> QED
    BY <1>2, <2>1, Returns DEF Command
<1>3. ASSUME NEW f \in Frontends, StartServer(f) PROVE Next
  <2>1. PICK e \in BOOLEAN : Return(f, e, IF e THEN "down" ELSE "up")
    BY <1>3, StartEnds
  <2> QED
    BY <1>3, <2>1, Returns DEF StartServer
<1>4. ASSUME NEW f \in Frontends, StopNothing(f) PROVE Next
  BY <1>4, Returns DEF StopNothing, Stopping
<1>5. ASSUME NEW f \in Frontends, ShutdownReturns(f) PROVE Next
  BY <1>5, Returns DEF ShutdownReturns, Held
<1>6. ASSUME NEW f \in Frontends, ShutdownServer(f) \/ Goroutines(f) \/ Breaks(f) \/ Accept(f)
      PROVE  UNCHANGED vars
  BY <1>6 DEF ShutdownServer, Goroutines, Obey, Serves, CloseStale, Breaks, Accept
<1>7. ASSUME NEW f \in Frontends, Ticks(f) \/ Served(f) PROVE Next \/ UNCHANGED vars
  BY <1>7, Raises DEF Ticks, Served
<1>8. CASE StaticCancelParent
  BY <1>8 DEF StaticCancelParent, Next
<1>9. CASE UNCHANGED staticVars
  BY <1>9 DEF staticVars
<1> QED
  BY <1>1, <1>2, <1>3, <1>4, <1>5, <1>6, <1>7, <1>8, <1>9 DEF StaticNext, Handler

-----------------------------------------------------------------------------
(* What the invariant says of one frontend, step by step.                  *)

\* The handler's own variables keep their types.
LEMMA StaticNextTypeOK == StaticTypeOK /\ [StaticNext]_staticVars => StaticTypeOK'
<1> SUFFICES ASSUME StaticTypeOK, [StaticNext]_staticVars PROVE StaticTypeOK'
  OBVIOUS
<1> USE DEF StaticTypeOK, handler, always, http, Put
<1>1. ASSUME NEW f \in Frontends, Command(f) PROVE StaticTypeOK'
  BY <1>1 DEF Command, Wanted
<1>2. ASSUME NEW f \in Frontends, StartServer(f) PROVE StaticTypeOK'
  <2>1. PICK e \in BOOLEAN :
          /\ server' = Put(server, f, server[f] \/ ~e)
          /\ socket' = IF server[f] \/ e THEN socket ELSE Put(socket, f, "open")
    BY <1>2, StartEnds
  <2> QED
    BY <1>2, <2>1 DEF StartServer
<1>3. ASSUME NEW f \in Frontends, ShutdownServer(f) \/ ShutdownReturns(f) PROVE StaticTypeOK'
  BY <1>3 DEF ShutdownServer, ShutdownReturns
<1>4. ASSUME NEW f \in Frontends, Goroutines(f) \/ Breaks(f) PROVE StaticTypeOK'
  BY <1>4 DEF Goroutines, Obey, Serves, CloseStale, Breaks
<1>5. ASSUME NEW f \in Frontends, Accept(f) \/ Served(f) PROVE StaticTypeOK'
  BY <1>5, StaticFrontendAssumption DEF Accept, Served
<1>6. ASSUME UNCHANGED handler PROVE StaticTypeOK'
  BY <1>6
<1> QED
  BY <1>1, <1>2, <1>3, <1>4, <1>5, <1>6
     DEF StaticNext, Handler, Caller, StaticLoop, StopNothing, Ticks, StaticCancelParent, staticVars

HeldAt(f) ==
  /\ pc[f] = "stopped" /\ ~failed[f] => Deaf(f)
  /\ socket[f] # "none" => server[f]
  /\ stopping[f] => pc[f] \in {"stopping", "closeHandler"} /\ server[f] /\ socket[f] = "none"
  /\ IF kind[f] = "always"
     THEN /\ ~server[f] /\ busy[f] = 0
          /\ command[f] = "start" \/ (running[f] /\ command[f] = "none") => listener[f] = "up"
     ELSE ~running[f] /\ command[f] = "none"
DeafAt(f) == state[f] = "Stopped" \/ listener[f] = "closed" => Deaf(f)
GoodAt(f) == HeldAt(f) /\ DeafAt(f)

\* A step of one frontend moves nothing of another.
LEMMA Elsewhere ==
  ASSUME TypeOK, StaticTypeOK, NEW f \in Frontends, NEW g \in Frontends \ {f}, GoodAt(g),
         \/ Caller(f) \/ StaticLoop(f) \/ Handler(f) \/ Goroutines(f)
         \/ Ticks(f)  \/ Breaks(f) \/ Accept(f) \/ Served(f)
  PROVE  GoodAt(g)'
<1> DEFINE Handlers == /\ kind'[g] = kind[g] /\ running'[g] = running[g]
                       /\ command'[g] = command[g] /\ server'[g] = server[g]
                       /\ socket'[g] = socket[g] /\ busy'[g] = busy[g]
                       /\ stopping'[g] = stopping[g]
           Loops    == /\ state'[g] = state[g] /\ pc'[g] = pc[g]
                       /\ failed'[g] = failed[g] /\ listener'[g] = listener[g]
<1> USE DEF TypeOK, StaticTypeOK
<1>1. ASSUME Handlers, Loops PROVE GoodAt(g)'
  BY <1>1 DEF GoodAt, HeldAt, DeafAt, Deaf
<1>2. ASSUME UNCHANGED vars \/ Raise(f) \/ \E e \in BOOLEAN, l \in {"up", "down"} : Return(f, e, l)
      PROVE  Loops
  BY <1>2 DEF vars, Raise, Return, Put
<1>3. CASE Caller(f) \/ StaticLoop(f)
  <2> USE DEF Put, Goto, caller, world
  <2>1. Handlers
    BY <1>3 DEF Caller, StaticLoop, handler, always, http
  <2>2. CASE Caller(f)
    BY <1>1, <2>1, <2>2 DEF Caller, Start, Stop, Close, Cancel, Submit
  <2>3. CASE Receive(f) \/ SelectDone(f) \/ CheckClosed(f) \/ WarmSignal(f)
    BY <1>1, <2>1, <2>3 DEF Receive, SelectDone, CheckClosed, WarmSignal
  <2>4. CASE EndStart(f) \/ EndStop(f)
    BY <1>1, <2>1, <2>4 DEF EndStart, EndStop, Abandon, Complete
  <2>5. CASE EndMark(f) \/ Record(f) \/ \E ok \in BOOLEAN : Unbind(f, ok)
    BY <1>1, <2>1, <2>5 DEF EndMark, Record, Unbind
  <2> QED
    BY <1>3, <2>2, <2>3, <2>4, <2>5 DEF StaticLoop
<1>4. CASE Command(f)
  BY <1>1, <1>2, <1>4 DEF Command, http, Put
<1>5. CASE StartServer(f)
  <2>1. PICK e \in BOOLEAN :
          /\ Return(f, e, IF e THEN "down" ELSE "up")
          /\ server' = Put(server, f, server[f] \/ ~e)
          /\ socket' = IF server[f] \/ e THEN socket ELSE Put(socket, f, "open")
    BY <1>5, StartEnds
  <2> QED
    BY <1>1, <1>2, <1>5, <2>1 DEF StartServer, always, Put
<1>6. CASE StopNothing(f) \/ ShutdownServer(f) \/ ShutdownReturns(f)
  BY <1>1, <1>2, <1>6 DEF StopNothing, ShutdownServer, ShutdownReturns, handler, always, http, Put
<1>7. CASE Goroutines(f) \/ Breaks(f)
  BY <1>1, <1>2, <1>7 DEF Goroutines, Obey, Serves, CloseStale, Breaks, always, http, Put
<1>8. CASE Ticks(f) \/ Accept(f) \/ Served(f)
  BY <1>1, <1>2, <1>8 DEF Ticks, Accept, Served, handler, always, http, Put
<1> QED
  BY <1>3, <1>4, <1>5, <1>6, <1>7, <1>8 DEF Handler

\* Callers, and the loop between two calls of the handler, keep it for their own
\* frontend: it is Stopped only after a Stop, which has left the handler deaf.
LEMMA OwnKeeps ==
  ASSUME TypeOK, NEW f \in Frontends, GoodAt(f), Caller(f) \/ StaticLoop(f)
  PROVE  GoodAt(f)'
<1> DEFINE Keeps == /\ state'[f] = "Stopped" => state[f] = "Stopped" \/ (pc[f] = "stopped" /\ ~failed[f])
                    /\ pc'[f] = "stopped" => pc[f] = "stopped" /\ failed'[f] = failed[f]
                    /\ pc[f] \in {"stopping", "closeHandler"} => pc'[f] = pc[f]
                    /\ listener'[f] = listener[f]
<1>1. /\ kind'[f] = kind[f] /\ running'[f] = running[f] /\ command'[f] = command[f]
      /\ server'[f] = server[f] /\ socket'[f] = socket[f] /\ busy'[f] = busy[f]
      /\ stopping'[f] = stopping[f]
  BY DEF Caller, StaticLoop, handler, always, http
<1>2. Keeps
  <2> USE DEF TypeOK, Put, Goto, caller, world
  <2>1. CASE Caller(f)
    BY <2>1 DEF Caller, Start, Stop, Close, Cancel, Submit
  <2>2. CASE Receive(f) \/ SelectDone(f) \/ CheckClosed(f) \/ WarmSignal(f)
    BY <2>2 DEF Receive, SelectDone, CheckClosed, WarmSignal
  <2>3. CASE EndStart(f) \/ EndStop(f)
    BY <2>3 DEF EndStart, EndStop, Abandon, Complete
  <2>4. CASE EndMark(f) \/ Record(f) \/ \E ok \in BOOLEAN : Unbind(f, ok)
    BY <2>4 DEF EndMark, Record, Unbind
  <2> QED
    BY <2>1, <2>2, <2>3, <2>4 DEF StaticLoop
<1> HIDE DEF Keeps
<1>3. Deaf(f)' <=> Deaf(f)
  BY <1>1 DEF Deaf
<1> QED
  BY <1>1, <1>2, <1>3 DEF Keeps, GoodAt, HeldAt, DeafAt

\* A call of the handler begins and ends where the loop waits for it; while it
\* starts, the frontend is neither Stopped nor closed.
LEMMA HandlerKeeps ==
  ASSUME IInv, StaticTypeOK, NEW f \in Frontends, GoodAt(f), Handler(f)
  PROVE  GoodAt(f)'
<1> USE DEF IInv, TypeOK, StaticTypeOK, Put
<1>1. pc[f] = "starting" => state[f] # "Stopped" /\ listener[f] # "closed"
  BY DEF OneJob, Shutdown, StartPhase
<1>2. pc[f] = "stopping" => state[f] # "Stopped" /\ listener[f] # "closed"
  BY DEF OneJob, Shutdown, StopPhase
<1>3. pc[f] = "closeHandler" => state[f] # "Stopped" /\ listener[f] # "closed"
  BY DEF Shutdown, EndPhase
<1>4. ASSUME NEW e \in BOOLEAN, NEW l \in {"up", "down"}, Return(f, e, l)
      PROVE  /\ state'[f] = state[f] /\ failed'[f] = e
             /\ listener'[f] = IF pc[f] = "closeHandler" THEN "closed" ELSE l
             /\ pc[f] = "starting" => pc'[f] = "started"
             /\ pc[f] = "stopping" => pc'[f] = "stopped"
             /\ pc[f] = "closeHandler" => pc'[f] = "unbind"
  BY <1>4 DEF Return
<1>5. CASE Command(f)
  <2>1. /\ pc[f] \in {"starting", "stopping", "closeHandler"} /\ kind[f] = "always"
        /\ Wanted(f) = CASE pc[f] = "starting" -> "start"
                         [] pc[f] = "stopping" -> "stop"
                         [] OTHER              -> "close"
    BY <1>5 DEF Command, Wanted
  <2>2. /\ command'[f] = Wanted(f) /\ kind' = kind /\ running' = running /\ UNCHANGED http
        /\ Return(f, FALSE, IF Wanted(f) = "start" THEN "up" ELSE "down")
    BY <1>5, <2>1 DEF Command
  <2>3. /\ server'[f] = server[f] /\ socket'[f] = socket[f] /\ busy'[f] = busy[f]
        /\ stopping'[f] = stopping[f]
    BY <2>2 DEF http
  <2>4. ~server[f] /\ socket[f] = "none" /\ ~stopping[f] /\ busy[f] = 0
    BY <2>1 DEF GoodAt, HeldAt
  <2> QED
    BY <1>1, <1>2, <1>3, <1>4, <2>1, <2>2, <2>3, <2>4 DEF GoodAt, HeldAt, DeafAt, Deaf
<1>6. CASE StartServer(f)
  <2>1. PICK e \in BOOLEAN :
          /\ Return(f, e, IF e THEN "down" ELSE "up")
          /\ server' = Put(server, f, server[f] \/ ~e)
          /\ socket' = IF server[f] \/ e THEN socket ELSE Put(socket, f, "open")
    <3> HIDE DEF IInv, TypeOK, StaticTypeOK, Put
    <3> QED
      BY <1>6, StartEnds
  <2>2. pc[f] = "starting" /\ kind[f] = "http"
    BY <1>6 DEF StartServer
  <2>3. /\ kind'[f] = kind[f] /\ running'[f] = running[f] /\ command'[f] = command[f]
        /\ busy'[f] = busy[f] /\ stopping'[f] = stopping[f]
    BY <1>6 DEF StartServer, always
  <2>4. server'[f] \/ (server'[f] = server[f] /\ socket'[f] = socket[f])
    BY <2>1
  <2>5. stopping[f] = FALSE /\ ~running[f] /\ command[f] = "none"
    BY <2>2 DEF GoodAt, HeldAt
  <2> QED
    BY <1>1, <1>4, <2>1, <2>2, <2>3, <2>4, <2>5 DEF GoodAt, HeldAt, DeafAt, Deaf
<1>7. CASE StopNothing(f) \/ ShutdownReturns(f)
  <2>1. /\ pc[f] \in {"stopping", "closeHandler"} /\ kind[f] = "http" /\ socket[f] = "none"
    BY <1>7 DEF StopNothing, Stopping, ShutdownReturns, GoodAt, HeldAt
  <2>2. /\ Return(f, FALSE, "down")
        /\ ~server'[f] /\ ~stopping'[f] /\ socket'[f] = "none" /\ kind'[f] = "http"
        /\ running'[f] = running[f] /\ command'[f] = command[f]
    BY <1>7, <2>1 DEF StopNothing, Stopping, ShutdownReturns, handler, always, http
  <2> QED
    BY <1>2, <1>3, <1>4, <2>1, <2>2 DEF GoodAt, HeldAt, DeafAt, Deaf
<1>8. CASE ShutdownServer(f)
  <2>1. /\ pc[f] \in {"stopping", "closeHandler"} /\ kind[f] = "http" /\ server[f]
        /\ state[f] # "Stopped" /\ listener[f] # "closed"
    BY <1>2, <1>3, <1>8 DEF ShutdownServer, Stopping
  <2>2. /\ pc'[f] = pc[f] /\ state'[f] = state[f] /\ listener'[f] = listener[f]
        /\ kind'[f] = kind[f] /\ server'[f] = server[f] /\ socket'[f] = "none"
        /\ running'[f] = running[f] /\ command'[f] = command[f]
    BY <1>8 DEF ShutdownServer, vars, always
  <2> QED
    BY <2>1, <2>2 DEF GoodAt, HeldAt, DeafAt, Deaf
<1> QED
  BY <1>5, <1>6, <1>7, <1>8 DEF Handler

\* What goes on between two calls touches neither server nor state; a command is
\* obeyed once and stop never starts a ticker.
LEMMA GoroutinesKeep ==
  ASSUME TypeOK, StaticTypeOK, NEW f \in Frontends, GoodAt(f),
         Goroutines(f) \/ Ticks(f) \/ Breaks(f) \/ Accept(f) \/ Served(f)
  PROVE  GoodAt(f)'
<1> USE DEF TypeOK, StaticTypeOK, Put, GoodAt, HeldAt, DeafAt, Deaf
<1>1. CASE Obey(f)
  BY <1>1 DEF Obey, vars, http
<1>2. CASE Serves(f) \/ CloseStale(f) \/ Breaks(f)
  BY <1>2 DEF Serves, CloseStale, Breaks, vars, always
<1>3. CASE Ticks(f)
  BY <1>3 DEF Ticks, Raise, handler, always, http
<1>4. CASE Accept(f)
  BY <1>4 DEF Accept, vars, always
<1>5. CASE Served(f)
  BY <1>5 DEF Served, Raise, always
<1> QED
  BY <1>1, <1>2, <1>3, <1>4, <1>5 DEF Goroutines

-----------------------------------------------------------------------------
(* The theorems.                                                           *)

\* The invariant holds in the initial states and no step breaks it.
LEMMA InitStaticIInv == StaticInit => StaticIInv
<1> SUFFICES ASSUME StaticInit PROVE StaticIInv
  OBVIOUS
<1>1. IInv
  BY InitIInv DEF StaticInit
<1>2. StaticTypeOK
  BY StaticFrontendAssumption DEF StaticInit, StaticTypeOK
<1>3. StoppedIsDeaf /\ Held
  BY DEF StaticInit, Init, StoppedIsDeaf, Held, Deaf
<1> QED
  BY <1>1, <1>2, <1>3 DEF StaticIInv

LEMMA NextStaticIInv == StaticIInv /\ [StaticNext]_staticVars => StaticIInv'
<1> SUFFICES ASSUME StaticIInv, [StaticNext]_staticVars PROVE StaticIInv'
  OBVIOUS
<1>1. IInv /\ TypeOK /\ StaticTypeOK /\ StoppedIsDeaf /\ Held
  BY DEF StaticIInv, IInv
<1>2. IInv'
  BY <1>1, Simulates, NextIInv
<1>3. StaticTypeOK'
  BY <1>1, StaticNextTypeOK
<1>4. \A g \in Frontends : GoodAt(g)
  BY <1>1 DEF StoppedIsDeaf, Held, GoodAt, HeldAt, DeafAt
<1>5. ASSUME NEW g \in Frontends PROVE GoodAt(g)'
  <2>1. ASSUME NEW f \in Frontends, Caller(f) \/ StaticLoop(f) PROVE GoodAt(g)'
    BY <1>1, <1>4, <2>1, OwnKeeps, Elsewhere
  <2>2. ASSUME NEW f \in Frontends, Handler(f) PROVE GoodAt(g)'
    BY <1>1, <1>4, <2>2, HandlerKeeps, Elsewhere
  <2>3. ASSUME NEW f \in Frontends,
               Goroutines(f) \/ Ticks(f) \/ Breaks(f) \/ Accept(f) \/ Served(f)
        PROVE  GoodAt(g)'
    BY <1>1, <1>4, <2>3, GoroutinesKeep, Elsewhere
  <2>4. CASE StaticCancelParent
    BY <1>4, <2>4 DEF StaticCancelParent, CancelParent, caller, world, handler, always, http,
                      GoodAt, HeldAt, DeafAt, Deaf
  <2>5. CASE UNCHANGED staticVars
    BY <1>4, <2>5 DEF staticVars, vars, handler, always, http, GoodAt, HeldAt, DeafAt, Deaf
  <2> QED
    BY <2>1, <2>2, <2>3, <2>4, <2>5 DEF StaticNext
<1>6. StoppedIsDeaf' /\ Held'
  BY <1>5 DEF StoppedIsDeaf, Held, GoodAt, HeldAt, DeafAt
<1> QED
  BY <1>2, <1>3, <1>6 DEF StaticIInv

\* However starts, stops, requests that do not end and sockets that are not yet
\* served fall together, a Stopped frontend accepts nothing.
THEOREM Safe == StaticSpec => []StaticIInv
<1> QED
  BY InitStaticIInv, NextStaticIInv, PTL DEF StaticSpec

\* Every step of a frontend with a static handler is a step of the event loop of
\* module Frontend, or none.
THEOREM StepsAreFrontends == StaticSpec => Init /\ [][Next]_vars
<1>1. StaticInit => Init
  BY DEF StaticInit
<1>2. StaticIInv /\ [StaticNext]_staticVars => [Next]_vars
  BY Simulates DEF StaticIInv, IInv
<1> QED
  BY <1>1, <1>2, InitStaticIInv, NextStaticIInv, PTL DEF StaticSpec

\* The ticker of static:always signals only while the handler is started, although
\* Start, Stop and Close do not wait until it has obeyed.
THEOREM NoLateTick == StaticSpec => TicksOnlyWhileUp
<1>1. ASSUME StaticIInv, StaticNext, NEW f \in Frontends, kind[f] = "always", ~signal[f], signal'[f]
      PROVE  listener[f] = "up"
  <2> USE DEF Put
  <2>1. TypeOK /\ StaticTypeOK /\ Held
    BY <1>1 DEF StaticIInv, IInv
  <2>2. signal \in [Frontends -> BOOLEAN]
    BY <2>1 DEF TypeOK
  <2>3. ASSUME NEW g \in Frontends, Caller(g) \/ StaticLoop(g) PROVE FALSE
    BY <1>1, <2>2, <2>3
       DEF Caller, StaticLoop, Start, Stop, Submit, Close, Cancel, Receive, SelectDone,
           CheckClosed, WarmSignal, EndStart, EndStop, EndMark, Record, Unbind,
           Put, world
  <2>4. ASSUME NEW g \in Frontends, Handler(g) PROVE FALSE
    BY <1>1, <2>4
       DEF Handler, Command, StartServer, StopNothing, ShutdownServer, ShutdownReturns, Return, vars
  <2>5. ASSUME NEW g \in Frontends, Goroutines(g) \/ Breaks(g) \/ Accept(g) PROVE FALSE
    BY <1>1, <2>5 DEF Goroutines, Obey, Serves, CloseStale, Breaks, Accept, vars
  <2>6. CASE StaticCancelParent
    BY <1>1, <2>6 DEF StaticCancelParent, CancelParent, world
  <2>7. ASSUME NEW g \in Frontends, Ticks(g) \/ Served(g) PROVE listener[f] = "up"
    <3>1. g = f
      BY <1>1, <2>2, <2>7 DEF Ticks, Served, Raise
    <3>2. busy[f] = 0
      BY <1>1, <2>1 DEF Held
    <3>3. Ticks(f)
      BY <2>7, <3>1, <3>2 DEF Served
    <3> QED
      BY <1>1, <2>1, <3>3 DEF Ticks, Held
  <2> QED
    BY <1>1, <2>3, <2>4, <2>5, <2>6, <2>7 DEF StaticNext
<1>2. StaticIInv /\ [StaticNext]_staticVars =>
        [\A f \in Frontends : kind[f] = "always" /\ ~signal[f] /\ signal'[f] => listener[f] = "up"]_staticVars
  BY <1>1
<1> QED
  BY <1>2, Safe, PTL DEF StaticSpec, TicksOnlyWhileUp

\* A frontend with a static handler keeps the promise of FrontendLifecycle, whatever
\* its goroutines and requests do: what Gateway builds on holds of the handlers there are.
THEOREM StaticKeepsPromise == StaticSpec => Promise!Init /\ [][Promise!Next]_(Promise!vars)
<1>1. StaticInit => Promise!Init
  BY InitIsPromised DEF StaticInit
<1>2. StaticIInv /\ [StaticNext]_staticVars => [Promise!Next]_(Promise!vars)
  BY Simulates, StepIsPromised DEF StaticIInv, IInv
<1> QED
  BY <1>1, <1>2, Safe, PTL DEF StaticSpec
=============================================================================
