---------------------------- MODULE TargetProofs ----------------------------
(* Proofs about modules Target and CmdTarget, for any set of targets.        *)
EXTENDS CmdTarget, TLAPS

\* New leaves every target in a state of the invariant.
LEMMA InitIInv == Init => IInv
<1> SUFFICES ASSUME Init PROVE IInv
  OBVIOUS
<1> USE DEF Init
<1>1. TypeOK
  BY DEF TypeOK, States, Loc
<1>2. OneJob
  BY DEF OneJob, JobOf, WarmPhase, DrainPhase
<1>3. Shutdown
  BY DEF Shutdown, EndPhase
<1>4. SettledIsHonest /\ HandlerHonest
  BY DEF SettledIsHonest, HandlerHonest
<1> QED
  BY <1>1, <1>2, <1>3, <1>4 DEF IInv

\* Enabling or disabling keeps the group a group, refused or not, and moves
\* nothing but the routed flag of that target.
LEMMA SwitchGroupEffect ==
  ASSUME TypeOK, NEW t \in Targets, NEW on \in BOOLEAN, SwitchGroup(t, on)
  PROVE  /\ err' \in [Targets -> BOOLEAN]
         /\ group' \in [Targets -> [open : BOOLEAN, routed : BOOLEAN]]
         /\ \A u \in Targets : group'[u].open = group[u].open
         /\ \A u \in Targets \ {t} : group'[u] = group[u] /\ err'[u] = err[u]
         /\ ~err'[t] => group'[t].routed = on
<1> USE DEF TypeOK, Put
<1>1. CASE /\ group[t].open
           /\ group' = [group EXCEPT ![t].routed = on]
           /\ err'   = Put(err, t, FALSE)
  <2> DEFINE g == [group[t] EXCEPT !.routed = on]
  <2>1. g \in [open : BOOLEAN, routed : BOOLEAN] /\ g.open = group[t].open /\ g.routed = on
    OBVIOUS
  <2>2. group' = [group EXCEPT ![t] = g]
    BY <1>1
  <2> HIDE DEF g
  <2>3. err' \in [Targets -> BOOLEAN] /\ \A u \in Targets \ {t} : err'[u] = err[u]
    BY <1>1
  <2>4. group' \in [Targets -> [open : BOOLEAN, routed : BOOLEAN]]
    BY <2>1, <2>2
  <2>5. \A u \in Targets \ {t} : group'[u] = group[u]
    BY <2>2
  <2>6. group'[t] = g
    BY <2>2
  <2> QED
    BY <2>1, <2>3, <2>4, <2>5, <2>6
<1>2. CASE /\ ~group[t].open \/ group[t].routed # on
           /\ err' = Put(err, t, TRUE)
           /\ UNCHANGED group
  BY <1>2
<1> QED
  BY <1>1, <1>2 DEF SwitchGroup

\* Every step keeps the types; a switch of the group keeps the group a group.
LEMMA NextTypeOK == TypeOK /\ OneJob /\ [Next]_vars => TypeOK'
<1> SUFFICES ASSUME TypeOK, OneJob, [Next]_vars PROVE TypeOK'
  OBVIOUS
<1> USE DEF TypeOK, States, Loc, WarmPhase, DrainPhase, EndPhase, Put,
            caller, local, world
<1>1. ASSUME NEW t \in Targets, Warm(t) PROVE TypeOK'
  BY <1>1 DEF Warm, Submit
<1>2. ASSUME NEW t \in Targets, Drain(t) PROVE TypeOK'
  BY <1>2 DEF Drain, Submit
<1>3. ASSUME NEW t \in Targets, Close(t) PROVE TypeOK'
  BY <1>3 DEF Close
<1>4. ASSUME NEW t \in Targets, Cancel(t) PROVE TypeOK'
  BY <1>4 DEF Cancel
<1>5. ASSUME NEW t \in Targets, Receive(t) PROVE TypeOK'
  BY <1>5 DEF Receive, Goto
<1>6. ASSUME NEW t \in Targets, SelectDone(t) PROVE TypeOK'
  BY <1>6 DEF SelectDone, Goto
<1>7. ASSUME NEW t \in Targets, CheckClosed(t) PROVE TypeOK'
  BY <1>7 DEF CheckClosed, Goto
<1>8. ASSUME NEW t \in Targets, HandlerWarm(t) PROVE TypeOK'
  <2>1. PICK e \in BOOLEAN, b \in {"up", "down"} :
          failed' = Put(failed, t, e) /\ backend' = Put(backend, t, b)
    BY <1>8 DEF HandlerWarm, HandlerReturns
  <2> QED
    BY <1>8, <2>1 DEF HandlerWarm, HandlerReturns, Goto
<1>9. ASSUME NEW t \in Targets, HandlerDrain(t) PROVE TypeOK'
  <2>1. PICK e \in BOOLEAN, b \in {"up", "down"} :
          failed' = Put(failed, t, e) /\ backend' = Put(backend, t, b)
    BY <1>9 DEF HandlerDrain, HandlerReturns
  <2> QED
    BY <1>9, <2>1 DEF HandlerDrain, HandlerReturns, Goto
<1>10. ASSUME NEW t \in Targets, EndWarm(t) PROVE TypeOK'
  <2>1. CASE Abandon(t)
    BY <1>10, <2>1 DEF EndWarm, Abandon, Goto
  <2>2. CASE HandlerFailed(t, "Inactive")
    BY <1>10, <2>2 DEF EndWarm, HandlerFailed, Goto
  <2>3. CASE HandlerSucceeded(t, "Active", TRUE)
    <3>1. state' \in [Targets -> States]
      BY <2>3 DEF HandlerSucceeded
    <3>2. /\ err' \in [Targets -> BOOLEAN]
          /\ group' \in [Targets -> [open : BOOLEAN, routed : BOOLEAN]]
      BY <2>3, SwitchGroupEffect DEF HandlerSucceeded
    <3> QED
      BY <1>10, <3>1, <3>2 DEF EndWarm, Goto
  <2> QED
    BY <1>10, <2>1, <2>2, <2>3 DEF EndWarm
<1>11. ASSUME NEW t \in Targets, EndDrain(t) PROVE TypeOK'
  <2>1. CASE Abandon(t)
    BY <1>11, <2>1 DEF EndDrain, Abandon, Goto
  <2>2. CASE HandlerFailed(t, "Active")
    BY <1>11, <2>2 DEF EndDrain, HandlerFailed, Goto
  <2>3. CASE HandlerSucceeded(t, "Inactive", FALSE)
    <3>1. state' \in [Targets -> States]
      BY <2>3 DEF HandlerSucceeded
    <3>2. /\ err' \in [Targets -> BOOLEAN]
          /\ group' \in [Targets -> [open : BOOLEAN, routed : BOOLEAN]]
      BY <2>3, SwitchGroupEffect DEF HandlerSucceeded
    <3> QED
      BY <1>11, <3>1, <3>2 DEF EndDrain, Goto
  <2> QED
    BY <1>11, <2>1, <2>2, <2>3 DEF EndDrain
<1>12. ASSUME NEW t \in Targets, EndMark(t) PROVE TypeOK'
  BY <1>12 DEF EndMark, Goto
<1>13. ASSUME NEW t \in Targets, CloseHandler(t) PROVE TypeOK'
  BY <1>13 DEF CloseHandler, Goto
<1>14. ASSUME NEW t \in Targets, CloseGroup(t) PROVE TypeOK'
  <2>1. PICK left \in {FALSE, group[t].routed} :
          /\ group'  = Put(group, t, [open |-> FALSE, routed |-> left])
          /\ failed' = Put(failed, t, failed[t] \/ left)
    BY <1>14 DEF CloseGroup
  <2>2. left \in BOOLEAN /\ (failed[t] \/ left) \in BOOLEAN
    OBVIOUS
  <2>3. group' \in [Targets -> [open : BOOLEAN, routed : BOOLEAN]]
    BY <2>1, <2>2
  <2>4. failed' \in [Targets -> BOOLEAN]
    BY <2>1, <2>2
  <2> QED
    BY <1>14, <2>3, <2>4 DEF CloseGroup, Goto
<1>15. ASSUME NEW t \in Targets, Record(t) PROVE TypeOK'
  BY <1>15 DEF Record, Goto
<1>16. CASE CancelParent
  BY <1>16 DEF CancelParent
<1>17. CASE UNCHANGED vars
  BY <1>17 DEF vars
<1> QED
  BY <1>1, <1>2, <1>3, <1>4, <1>5, <1>6, <1>7, <1>8, <1>9, <1>10, <1>11, <1>12,
     <1>13, <1>14, <1>15, <1>16, <1>17 DEF Next, Loop

\* Callers queue a job only where none is, the loop settles the state when it ends
\* one: a job and the state that announces it come and go together.
LEMMA NextOneJob == TypeOK /\ OneJob /\ [Next]_vars => OneJob'
<1> SUFFICES ASSUME TypeOK, OneJob, [Next]_vars PROVE OneJob'
  OBVIOUS
<1> USE DEF TypeOK, OneJob, JobOf, WarmPhase, DrainPhase, Put, caller, local, world
<1>1. ASSUME NEW t \in Targets, Warm(t) PROVE OneJob'
  <2>1. requests[t] = << >> /\ pc[t] \notin WarmPhase \cup DrainPhase
    BY <1>1 DEF Warm
  <2>2. Append(requests[t], "Warming") = <<"Warming">>
    BY <2>1
  <2>3. requests' = [requests EXCEPT ![t] = <<"Warming">>]
    BY <1>1, <2>2 DEF Warm, Submit
  <2>4. state' = [state EXCEPT ![t] = "Warming"] /\ pc' = pc
    BY <1>1 DEF Warm, Submit
  <2> QED
    BY <2>1, <2>3, <2>4
<1>2. ASSUME NEW t \in Targets, Drain(t) PROVE OneJob'
  <2>1. requests[t] = << >> /\ pc[t] \notin WarmPhase \cup DrainPhase
    BY <1>2 DEF Drain
  <2>2. Append(requests[t], "Draining") = <<"Draining">>
    BY <2>1
  <2>3. requests' = [requests EXCEPT ![t] = <<"Draining">>]
    BY <1>2, <2>2 DEF Drain, Submit
  <2>4. state' = [state EXCEPT ![t] = "Draining"] /\ pc' = pc
    BY <1>2 DEF Drain, Submit
  <2> QED
    BY <2>1, <2>3, <2>4
<1>3. ASSUME NEW t \in Targets, Close(t) PROVE OneJob'
  BY <1>3 DEF Close
<1>4. ASSUME NEW t \in Targets, Cancel(t) PROVE OneJob'
  BY <1>4 DEF Cancel
<1>5. ASSUME NEW t \in Targets, Receive(t) PROVE OneJob'
  BY <1>5 DEF Receive, Goto
<1>6. ASSUME NEW t \in Targets, SelectDone(t) PROVE OneJob'
  BY <1>6 DEF SelectDone, Goto
<1>7. ASSUME NEW t \in Targets, CheckClosed(t) PROVE OneJob'
  BY <1>7 DEF CheckClosed, Goto
<1>8. ASSUME NEW t \in Targets, HandlerWarm(t) PROVE OneJob'
  BY <1>8 DEF HandlerWarm, HandlerReturns, Goto
<1>9. ASSUME NEW t \in Targets, HandlerDrain(t) PROVE OneJob'
  BY <1>9 DEF HandlerDrain, HandlerReturns, Goto
<1>10. ASSUME NEW t \in Targets, EndWarm(t) PROVE OneJob'
  <2>1. /\ requests' = requests /\ requests[t] = << >>
        /\ pc' = [pc EXCEPT ![t] = "select"]
    BY <1>10 DEF EndWarm, Goto
  <2>2. \/ state[t] = "Closed" /\ state' = state
        \/ \E s \in {"Active", "Inactive"} : state' = [state EXCEPT ![t] = s]
    BY <1>10 DEF EndWarm, Abandon, HandlerFailed, HandlerSucceeded
  <2> QED
    BY <2>1, <2>2
<1>11. ASSUME NEW t \in Targets, EndDrain(t) PROVE OneJob'
  <2>1. /\ requests' = requests /\ requests[t] = << >>
        /\ pc' = [pc EXCEPT ![t] = "select"]
    BY <1>11 DEF EndDrain, Goto
  <2>2. \/ state[t] = "Closed" /\ state' = state
        \/ \E s \in {"Active", "Inactive"} : state' = [state EXCEPT ![t] = s]
    BY <1>11 DEF EndDrain, Abandon, HandlerFailed, HandlerSucceeded
  <2> QED
    BY <2>1, <2>2
<1>12. ASSUME NEW t \in Targets, EndMark(t) PROVE OneJob'
  BY <1>12 DEF EndMark, Goto
<1>13. ASSUME NEW t \in Targets, CloseHandler(t) PROVE OneJob'
  BY <1>13 DEF CloseHandler, Goto
<1>14. ASSUME NEW t \in Targets, CloseGroup(t) PROVE OneJob'
  BY <1>14 DEF CloseGroup, Goto
<1>15. ASSUME NEW t \in Targets, Record(t) PROVE OneJob'
  BY <1>15 DEF Record, Goto
<1>16. CASE CancelParent
  BY <1>16 DEF CancelParent
<1>17. CASE UNCHANGED vars
  BY <1>17 DEF vars
<1> QED
  BY <1>1, <1>2, <1>3, <1>4, <1>5, <1>6, <1>7, <1>8, <1>9, <1>10, <1>11, <1>12,
     <1>13, <1>14, <1>15, <1>16, <1>17 DEF Next, Loop

\* Marking, cancelling, ending and giving the group back happen in that order.
LEMMA NextShutdown == TypeOK /\ Shutdown /\ [Next]_vars => Shutdown'
<1> SUFFICES ASSUME TypeOK, Shutdown, [Next]_vars PROVE Shutdown'
  OBVIOUS
<1> USE DEF TypeOK, Shutdown, WarmPhase, DrainPhase, EndPhase, Put, caller, local, world
<1>1. ASSUME NEW t \in Targets, Warm(t) PROVE Shutdown'
  BY <1>1 DEF Warm, Submit
<1>2. ASSUME NEW t \in Targets, Drain(t) PROVE Shutdown'
  BY <1>2 DEF Drain, Submit
<1>3. ASSUME NEW t \in Targets, Close(t) PROVE Shutdown'
  BY <1>3 DEF Close
<1>4. ASSUME NEW t \in Targets, Cancel(t) PROVE Shutdown'
  BY <1>4 DEF Cancel
<1>5. ASSUME NEW t \in Targets, Receive(t) PROVE Shutdown'
  BY <1>5 DEF Receive, Goto
<1>6. ASSUME NEW t \in Targets, SelectDone(t) PROVE Shutdown'
  BY <1>6 DEF SelectDone, Goto
<1>7. ASSUME NEW t \in Targets, CheckClosed(t) PROVE Shutdown'
  BY <1>7 DEF CheckClosed, Goto
<1>8. ASSUME NEW t \in Targets, HandlerWarm(t) PROVE Shutdown'
  BY <1>8 DEF HandlerWarm, HandlerReturns, Goto
<1>9. ASSUME NEW t \in Targets, HandlerDrain(t) PROVE Shutdown'
  BY <1>9 DEF HandlerDrain, HandlerReturns, Goto
<1>10. ASSUME NEW t \in Targets, EndWarm(t) PROVE Shutdown'
  <2>1. CASE Abandon(t)
    BY <1>10, <2>1 DEF EndWarm, Abandon, Goto
  <2>2. CASE HandlerFailed(t, "Inactive")
    BY <1>10, <2>2 DEF EndWarm, HandlerFailed, Goto
  <2>3. CASE HandlerSucceeded(t, "Active", TRUE)
    <3>1. \A u \in Targets : group'[u].open = group[u].open
      BY <2>3, SwitchGroupEffect DEF HandlerSucceeded
    <3> QED
      BY <1>10, <2>3, <3>1 DEF EndWarm, HandlerSucceeded, Goto
  <2> QED
    BY <1>10, <2>1, <2>2, <2>3 DEF EndWarm
<1>11. ASSUME NEW t \in Targets, EndDrain(t) PROVE Shutdown'
  <2>1. CASE Abandon(t)
    BY <1>11, <2>1 DEF EndDrain, Abandon, Goto
  <2>2. CASE HandlerFailed(t, "Active")
    BY <1>11, <2>2 DEF EndDrain, HandlerFailed, Goto
  <2>3. CASE HandlerSucceeded(t, "Inactive", FALSE)
    <3>1. \A u \in Targets : group'[u].open = group[u].open
      BY <2>3, SwitchGroupEffect DEF HandlerSucceeded
    <3> QED
      BY <1>11, <2>3, <3>1 DEF EndDrain, HandlerSucceeded, Goto
  <2> QED
    BY <1>11, <2>1, <2>2, <2>3 DEF EndDrain
<1>12. ASSUME NEW t \in Targets, EndMark(t) PROVE Shutdown'
  BY <1>12 DEF EndMark, Goto
<1>13. ASSUME NEW t \in Targets, CloseHandler(t) PROVE Shutdown'
  BY <1>13 DEF CloseHandler, Goto
<1>14. ASSUME NEW t \in Targets, CloseGroup(t) PROVE Shutdown'
  <2>1. PICK left \in BOOLEAN : group' = Put(group, t, [open |-> FALSE, routed |-> left])
    BY <1>14 DEF CloseGroup
  <2> QED
    BY <1>14, <2>1 DEF CloseGroup, Goto
<1>15. ASSUME NEW t \in Targets, Record(t) PROVE Shutdown'
  BY <1>15 DEF Record, Goto
<1>16. CASE CancelParent
  BY <1>16 DEF CancelParent
<1>17. CASE UNCHANGED vars
  BY <1>17 DEF vars
<1> QED
  BY <1>1, <1>2, <1>3, <1>4, <1>5, <1>6, <1>7, <1>8, <1>9, <1>10, <1>11, <1>12,
     <1>13, <1>14, <1>15, <1>16, <1>17 DEF Next, Loop

\* A settled state is reached only from a handler that succeeded, and a group
\* that was not switched leaves an error.
LEMMA NextHonest == IInv /\ [Next]_vars => (SettledIsHonest /\ HandlerHonest)'
<1> SUFFICES ASSUME TypeOK, OneJob, Shutdown, SettledIsHonest, HandlerHonest, [Next]_vars
             PROVE  (SettledIsHonest /\ HandlerHonest)'
  BY DEF IInv
<1> DEFINE Goal == (SettledIsHonest /\ HandlerHonest)'
<1> USE DEF TypeOK, OneJob, Shutdown, SettledIsHonest, HandlerHonest,
            WarmPhase, DrainPhase, EndPhase, Put, caller, local, world
<1>1. ASSUME NEW t \in Targets, Warm(t) PROVE Goal
  <2>1. /\ state' = [state EXCEPT ![t] = "Warming"] /\ err' = [err EXCEPT ![t] = FALSE]
        /\ UNCHANGED <<pc, failed, backend, group>> /\ state[t] # "Closed"
    BY <1>1 DEF Warm, Submit
  <2>2. pc[t] # "exited"
    BY <2>1
  <2>3. SettledIsHonest'
    BY <2>1, <2>2
  <2>4. HandlerHonest'
    BY <2>1
  <2> QED
    BY <2>3, <2>4
<1>2. ASSUME NEW t \in Targets, Drain(t) PROVE Goal
  <2>1. /\ state' = [state EXCEPT ![t] = "Draining"] /\ err' = [err EXCEPT ![t] = FALSE]
        /\ UNCHANGED <<pc, failed, backend, group>> /\ state[t] # "Closed"
    BY <1>2 DEF Drain, Submit
  <2>2. pc[t] # "exited"
    BY <2>1
  <2>3. SettledIsHonest'
    BY <2>1, <2>2
  <2>4. HandlerHonest'
    BY <2>1
  <2> QED
    BY <2>3, <2>4
<1>3. ASSUME NEW t \in Targets, Close(t) PROVE Goal
  BY <1>3 DEF Close
<1>4. ASSUME NEW t \in Targets, Cancel(t) PROVE Goal
  BY <1>4 DEF Cancel
<1>5. ASSUME NEW t \in Targets, Receive(t) PROVE Goal
  BY <1>5 DEF Receive, Goto
<1>6. ASSUME NEW t \in Targets, SelectDone(t) PROVE Goal
  BY <1>6 DEF SelectDone, Goto
<1>7. ASSUME NEW t \in Targets, CheckClosed(t) PROVE Goal
  BY <1>7 DEF CheckClosed, Goto
<1>8. ASSUME NEW t \in Targets, HandlerWarm(t) PROVE Goal
  BY <1>8 DEF HandlerWarm, HandlerReturns, Goto
<1>9. ASSUME NEW t \in Targets, HandlerDrain(t) PROVE Goal
  BY <1>9 DEF HandlerDrain, HandlerReturns, Goto
<1>10. ASSUME NEW t \in Targets, EndWarm(t) PROVE Goal
  <2>1. CASE Abandon(t)
    BY <1>10, <2>1 DEF EndWarm, Abandon, Goto
  <2>2. CASE HandlerFailed(t, "Inactive")
    BY <1>10, <2>2 DEF EndWarm, HandlerFailed, Goto
  <2>3. CASE HandlerSucceeded(t, "Active", TRUE)
    <3>1. /\ \A u \in Targets \ {t} : group'[u] = group[u] /\ err'[u] = err[u]
          /\ ~err'[t] => group'[t].routed = TRUE
      BY <2>3, SwitchGroupEffect DEF HandlerSucceeded
    <3>2. /\ state' = [state EXCEPT ![t] = "Active"] /\ pc' = [pc EXCEPT ![t] = "select"]
          /\ UNCHANGED <<backend, failed>> /\ backend[t] = "up"
      BY <1>10, <2>3 DEF EndWarm, HandlerSucceeded, Goto
    <3>3. SettledIsHonest'
      BY <3>1, <3>2
    <3>4. HandlerHonest'
      BY <3>1, <3>2
    <3> QED
      BY <3>3, <3>4
  <2> QED
    BY <1>10, <2>1, <2>2, <2>3 DEF EndWarm
<1>11. ASSUME NEW t \in Targets, EndDrain(t) PROVE Goal
  <2>1. CASE Abandon(t)
    BY <1>11, <2>1 DEF EndDrain, Abandon, Goto
  <2>2. CASE HandlerFailed(t, "Active")
    BY <1>11, <2>2 DEF EndDrain, HandlerFailed, Goto
  <2>3. CASE HandlerSucceeded(t, "Inactive", FALSE)
    <3>1. /\ \A u \in Targets \ {t} : group'[u] = group[u] /\ err'[u] = err[u]
          /\ ~err'[t] => group'[t].routed = FALSE
      BY <2>3, SwitchGroupEffect DEF HandlerSucceeded
    <3>2. /\ state' = [state EXCEPT ![t] = "Inactive"] /\ pc' = [pc EXCEPT ![t] = "select"]
          /\ UNCHANGED <<backend, failed>> /\ backend[t] = "down"
      BY <1>11, <2>3 DEF EndDrain, HandlerSucceeded, Goto
    <3>3. SettledIsHonest'
      BY <3>1, <3>2
    <3>4. HandlerHonest'
      BY <3>1, <3>2
    <3> QED
      BY <3>3, <3>4
  <2> QED
    BY <1>11, <2>1, <2>2, <2>3 DEF EndDrain
<1>12. ASSUME NEW t \in Targets, EndMark(t) PROVE Goal
  BY <1>12 DEF EndMark, Goto
<1>13. ASSUME NEW t \in Targets, CloseHandler(t) PROVE Goal
  <2>1. PICK e \in BOOLEAN : failed' = Put(failed, t, e)
    BY <1>13 DEF CloseHandler
  <2>2. state[t] = "Closed"
    BY <1>13 DEF CloseHandler
  <2>3. SettledIsHonest'
    BY <1>13, <2>2 DEF CloseHandler, Goto
  <2>4. HandlerHonest'
    BY <1>13, <2>1 DEF CloseHandler, Goto
  <2> QED
    BY <2>3, <2>4
<1>14. ASSUME NEW t \in Targets, CloseGroup(t) PROVE Goal
  <2>1. PICK left \in BOOLEAN : /\ group'  = Put(group, t, [open |-> FALSE, routed |-> left])
                                /\ failed' = Put(failed, t, failed[t] \/ left)
    BY <1>14 DEF CloseGroup
  <2> QED
    BY <1>14, <2>1 DEF CloseGroup, Goto
<1>15. ASSUME NEW t \in Targets, Record(t) PROVE Goal
  <2>1. err' = [err EXCEPT ![t] = failed[t]] /\ pc' = [pc EXCEPT ![t] = "exited"]
    BY <1>15 DEF Record, Goto
  <2>2. state[t] = "Closed" /\ (~failed[t] => ~group[t].routed)
    BY <1>15 DEF Record
  <2>3. SettledIsHonest'
    BY <1>15, <2>1, <2>2 DEF Record
  <2>4. HandlerHonest'
    BY <1>15, <2>1 DEF Record
  <2> QED
    BY <2>3, <2>4
<1>16. CASE CancelParent
  BY <1>16 DEF CancelParent
<1>17. CASE UNCHANGED vars
  BY <1>17 DEF vars
<1> QED
  BY <1>1, <1>2, <1>3, <1>4, <1>5, <1>6, <1>7, <1>8, <1>9, <1>10, <1>11, <1>12,
     <1>13, <1>14, <1>15, <1>16, <1>17 DEF Next, Loop

LEMMA NextIInv == IInv /\ [Next]_vars => IInv'
  BY NextTypeOK, NextOneJob, NextShutdown, NextHonest DEF IInv

\* The inductive invariant holds in every reachable state, whatever the number
\* of targets: jobs and states agree, shutdown runs in order, and a settled
\* target without an error is what its state says.
THEOREM Invariance == Spec => []IInv
<1> QED
  BY InitIInv, NextIInv, PTL DEF Spec

\* Warm and Drain never block on the mailbox while they hold the lock
\* (target.go:190 and :211).
THEOREM NoBlockingSend == Spec => []MailboxHasRoom
<1>1. IInv => MailboxHasRoom
  <2> SUFFICES ASSUME OneJob, NEW t \in Targets
               PROVE  /\ Len(requests[t]) <= 1
                      /\ state[t] \in {"Inactive", "Active"} => requests[t] = << >>
    BY DEF IInv, MailboxHasRoom
  <2>1. requests[t] \in {<< >>, <<"Warming">>, <<"Draining">>}
    BY DEF OneJob
  <2>2. Len(requests[t]) <= 1
    <3>1. CASE requests[t] = << >>
      BY <3>1
    <3>2. CASE requests[t] = <<"Warming">>
      BY <3>2
    <3>3. CASE requests[t] = <<"Draining">>
      BY <3>3
    <3> QED
      BY <2>1, <3>1, <3>2, <3>3
  <2> QED
    BY <2>2 DEF OneJob
<1> QED
  BY <1>1, Invariance, PTL

\* A settled target whose Error() is nil is what State() says it is.
THEOREM Honesty == Spec => []SettledIsHonest
<1>1. IInv => SettledIsHonest
  BY DEF IInv
<1> QED
  BY <1>1, Invariance, PTL

\* Close wins the race with a warm or drain in flight: the test repeated in the
\* completing critical section (target.go:254 and :294) is enough.
THEOREM CloseWins == Spec => ClosedIsFinal
<1> DEFINE Final(u) == state[u] = "Closed" =>
             state'[u] = "Closed" /\ (group'[u].routed => group[u].routed)
<1>1. ASSUME TypeOK, OneJob, Next, NEW u \in Targets PROVE Final(u)
  <2> USE <1>1 DEF TypeOK, Put, caller, local, world
  <2>1. ASSUME NEW t \in Targets, Warm(t) \/ Drain(t) PROVE Final(u)
    BY <2>1 DEF Warm, Drain, Submit
  <2>2. ASSUME NEW t \in Targets, Close(t) \/ Cancel(t) PROVE Final(u)
    BY <2>2 DEF Close, Cancel
  <2>3. ASSUME NEW t \in Targets, Receive(t) \/ SelectDone(t) \/ CheckClosed(t) PROVE Final(u)
    BY <2>3 DEF Receive, SelectDone, CheckClosed
  <2>4. ASSUME NEW t \in Targets, HandlerWarm(t) \/ HandlerDrain(t) PROVE Final(u)
    BY <2>4 DEF HandlerWarm, HandlerDrain, HandlerReturns
  <2>5. ASSUME NEW t \in Targets, EndWarm(t) \/ EndDrain(t) PROVE Final(u)
    <3>1. CASE Abandon(t)
      BY <3>1 DEF Abandon
    <3>2. CASE HandlerFailed(t, "Inactive") \/ HandlerFailed(t, "Active")
      BY <3>2 DEF HandlerFailed
    <3>3. ASSUME NEW on \in BOOLEAN, NEW next, HandlerSucceeded(t, next, on) PROVE Final(u)
      BY <3>3, SwitchGroupEffect DEF HandlerSucceeded
    <3> QED
      BY <2>5, <3>1, <3>2, <3>3 DEF EndWarm, EndDrain
  <2>6. ASSUME NEW t \in Targets, EndMark(t) \/ CloseHandler(t) \/ Record(t) PROVE Final(u)
    BY <2>6 DEF EndMark, CloseHandler, Record
  <2>7. ASSUME NEW t \in Targets, CloseGroup(t) PROVE Final(u)
    <3>1. PICK left \in {FALSE, group[t].routed} :
            group' = Put(group, t, [open |-> FALSE, routed |-> left])
      BY <2>7 DEF CloseGroup
    <3> QED
      BY <2>7, <3>1 DEF CloseGroup
  <2>8. CASE CancelParent
    BY <2>8 DEF CancelParent
  <2> QED
    BY <1>1, <2>1, <2>2, <2>3, <2>4, <2>5, <2>6, <2>7, <2>8 DEF Next, Loop
<1>2. IInv /\ [Next]_vars =>
        [\A t \in Targets : state[t] = "Closed" =>
           state'[t] = "Closed" /\ (group'[t].routed => group[t].routed)]_vars
  BY <1>1 DEF IInv
<1> QED
  BY <1>2, Invariance, PTL DEF Spec, ClosedIsFinal

-----------------------------------------------------------------------------
(* The promise, step by step.                                              *)

\* What callers see of the group and of the loop, and that a step which leaves
\* both alone leaves alone what is promised of them.
Routed == [t \in Targets |-> group[t].routed]
Open   == [t \in Targets |-> group[t].open]
Over   == [t \in Targets |-> pc[t] = "exited"]

LEMMA SameRoutes ==
  ASSUME group' = group
  PROVE  Routed' = Routed /\ Open' = Open
  BY DEF Routed, Open

LEMMA NotOver ==
  ASSUME TypeOK, NEW t \in Targets, NEW p, pc' = Put(pc, t, p), pc[t] # "exited", p # "exited"
  PROVE  Over' = Over
  BY DEF TypeOK, Put, Over

\* Enabling or disabling switches what is promised of DNAT or leaves it.
LEMMA SwitchIsSettle ==
  ASSUME TypeOK, NEW t \in Targets, NEW on \in BOOLEAN, SwitchGroup(t, on)
  PROVE  /\ Open' = Open
         /\ \/ Routed' = [Routed EXCEPT ![t] = on] /\ err' = [err EXCEPT ![t] = FALSE]
            \/ Routed' = Routed /\ err' = [err EXCEPT ![t] = TRUE]
<1>1. CASE group[t].open /\ group' = [group EXCEPT ![t].routed = on] /\ err' = Put(err, t, FALSE)
  <2>1. group' = [group EXCEPT ![t] = [group[t] EXCEPT !.routed = on]]
    BY <1>1
  <2>2. \A u \in Targets : /\ group'[u].open = group[u].open
                          /\ group'[u].routed = IF u = t THEN on ELSE group[u].routed
    BY <2>1 DEF TypeOK
  <2>3. Open' = Open /\ Routed' = [Routed EXCEPT ![t] = on]
    BY <2>2 DEF Open, Routed
  <2> QED
    BY <1>1, <2>3 DEF Put
<1>2. CASE err' = Put(err, t, TRUE) /\ UNCHANGED group
  BY <1>2, SameRoutes DEF Put
<1> QED
  BY <1>1, <1>2 DEF SwitchGroup

\* The error that Record leaves is one when DNAT is left behind.
LEMMA RecordFinishes ==
  ASSUME IInv, NEW t \in Targets, Record(t)
  PROVE  Promise!Finish(t)
<1> USE DEF IInv, TypeOK
<1>1. /\ pc[t] = "record" /\ state[t] = "Closed" /\ ~group[t].open
      /\ ~failed[t] => ~group[t].routed
  BY DEF Record, Shutdown, HandlerHonest, EndPhase
<1>2. /\ Routed' = Routed /\ Open' = Open /\ state' = state
      /\ Over' = [Over EXCEPT ![t] = TRUE] /\ Over[t] = FALSE
  BY <1>1, SameRoutes DEF Record, Goto, Put, Over, world
<1>3. err' \in {[err EXCEPT ![t] = e] : e \in {Routed[t], TRUE}}
  BY <1>1 DEF Record, Put, Routed
<1>4. state[t] = "Closed" /\ ~Open[t]
  BY <1>1 DEF Open
<1> QED
  BY <1>2, <1>3, <1>4 DEF Promise!Finish, Routed, Open, Over

\* A group is closed once, by a Closed target; DNAT goes with it or is left.
LEMMA CloseGroupReleases ==
  ASSUME IInv, NEW t \in Targets, CloseGroup(t)
  PROVE  Promise!Release(t)
<1> USE DEF IInv, TypeOK
<1>1. pc[t] = "closeGroup" /\ state[t] = "Closed" /\ group[t].open
  BY DEF CloseGroup, Shutdown, EndPhase
<1>2. PICK left \in {FALSE, group[t].routed} : group' = Put(group, t, [open |-> FALSE, routed |-> left])
  BY DEF CloseGroup
<1>3. \A u \in Targets : /\ group'[u].open = IF u = t THEN FALSE ELSE group[u].open
                        /\ group'[u].routed = IF u = t THEN left ELSE group[u].routed
  BY <1>2 DEF Put
<1>4. Open' = [Open EXCEPT ![t] = FALSE] /\ Open[t]
  BY <1>1, <1>3 DEF Open
<1>5. Routed' = [Routed EXCEPT ![t] = FALSE] \/ Routed' = Routed
  BY <1>3 DEF Routed
<1>6. state' = state /\ err' = err /\ Over' = Over
  BY <1>1, NotOver DEF CloseGroup, Goto, caller
<1> QED
  BY <1>1, <1>4, <1>5, <1>6 DEF Promise!Release, Routed, Open, Over

\* A loop that comes back from the handler finds the state it was called for,
\* or Closed.
LEMMA JobInHand ==
  ASSUME TypeOK, OneJob, NEW t \in Targets, state[t] # "Closed"
  PROVE  /\ pc[t] = "warmed"  => state[t] = "Warming"
         /\ pc[t] = "drained" => state[t] = "Draining"
<1>1. ASSUME pc[t] \in WarmPhase \cup DrainPhase PROVE requests[t] = << >>
  BY <1>1 DEF OneJob
<1>2. state[t] \in {"Inactive", "Active", "Warming", "Draining"}
  BY DEF TypeOK, States
<1>3. << >> # <<"Warming">> /\ << >> # <<"Draining">>
  OBVIOUS
<1>4. CASE pc[t] = "warmed"
  <2>1. pc[t] \in WarmPhase /\ pc[t] \notin DrainPhase
    BY <1>4 DEF WarmPhase, DrainPhase
  <2>2. state[t] \notin {"Inactive", "Active"}
    BY <2>1 DEF OneJob
  <2>3. state[t] # "Draining"
    BY <1>1, <1>3, <2>1 DEF OneJob, JobOf
  <2> QED
    BY <1>2, <1>4, <2>2, <2>3
<1>5. CASE pc[t] = "drained"
  <2>1. pc[t] \in DrainPhase /\ pc[t] \notin WarmPhase
    BY <1>5 DEF WarmPhase, DrainPhase
  <2>2. state[t] \notin {"Inactive", "Active"}
    BY <2>1 DEF OneJob
  <2>3. state[t] # "Warming"
    BY <1>1, <1>3, <2>1 DEF OneJob, JobOf
  <2> QED
    BY <1>2, <1>5, <2>2, <2>3
<1> QED
  BY <1>4, <1>5

\* The end of a job settles it, unless the target was closed meanwhile.
LEMMA EndSettles ==
  ASSUME IInv, NEW t \in Targets, EndWarm(t) \/ EndDrain(t)
  PROVE  Promise!SettleWarm(t) \/ Promise!SettleDrain(t) \/ UNCHANGED Promise!vars
<1> USE DEF IInv, TypeOK
<1>1. Over' = Over
  BY NotOver DEF EndWarm, EndDrain, Goto
<1>2. CASE Abandon(t)
  BY <1>1, <1>2, SameRoutes DEF Abandon, Promise!vars, Routed, Open, Over
<1>3. CASE EndWarm(t) /\ ~Abandon(t)
  <2>1. state[t] = "Warming"
    BY <1>3, JobInHand DEF EndWarm, HandlerFailed, HandlerSucceeded
  <2>2. CASE HandlerFailed(t, "Inactive")
    BY <1>1, <2>1, <2>2, SameRoutes
       DEF HandlerFailed, Put, Promise!SettleWarm, Promise!Settle, Routed, Open, Over
  <2>3. CASE HandlerSucceeded(t, "Active", TRUE)
    BY <1>1, <2>1, <2>3, SwitchIsSettle
       DEF HandlerSucceeded, Put, Promise!SettleWarm, Promise!Settle, Routed, Open, Over
  <2> QED
    BY <1>3, <2>2, <2>3 DEF EndWarm
<1>4. CASE EndDrain(t) /\ ~Abandon(t)
  <2>1. state[t] = "Draining"
    BY <1>4, JobInHand DEF EndDrain, HandlerFailed, HandlerSucceeded
  <2>2. CASE HandlerFailed(t, "Active")
    BY <1>1, <2>1, <2>2, SameRoutes
       DEF HandlerFailed, Put, Promise!SettleDrain, Promise!Settle, Routed, Open, Over
  <2>3. CASE HandlerSucceeded(t, "Inactive", FALSE)
    BY <1>1, <2>1, <2>3, SwitchIsSettle
       DEF HandlerSucceeded, Put, Promise!SettleDrain, Promise!Settle, Routed, Open, Over
  <2> QED
    BY <1>4, <2>2, <2>3 DEF EndDrain
<1> QED
  BY <1>2, <1>3, <1>4

\* Every other step is a call of Warm, Drain or Close, the mark of the loop that
\* has found its context done, or none of the callers' business.
LEMMA StepIsPromised == IInv /\ [Next]_vars => [Promise!Next]_(Promise!vars)
<1> SUFFICES ASSUME IInv, [Next]_vars PROVE Promise!Next \/ UNCHANGED Promise!vars
  OBVIOUS
<1> USE DEF IInv, TypeOK
<1>1. ASSUME NEW t \in Targets, Warm(t) \/ Drain(t) PROVE Promise!Next
  <2>1. Routed' = Routed /\ Open' = Open /\ Over' = Over
    BY <1>1, SameRoutes DEF Warm, Drain, Submit, world, local, Over
  <2> QED
    BY <1>1, <2>1 DEF Warm, Drain, Submit, Put, Promise!Next, Promise!Warm, Promise!Drain,
                      Promise!Request, Routed, Open, Over
<1>2. ASSUME NEW t \in Targets, Close(t) PROVE Promise!Next
  <2>1. Routed' = Routed /\ Open' = Open /\ Over' = Over
    BY <1>2, SameRoutes DEF Close, world, local, Over
  <2> QED
    BY <1>2, <2>1 DEF Close, Put, Promise!Next, Promise!Close, Routed, Open, Over
<1>3. ASSUME NEW t \in Targets, EndMark(t) PROVE Promise!Next \/ UNCHANGED Promise!vars
  <2>1. Routed' = Routed /\ Open' = Open /\ Over' = Over
    BY <1>3, SameRoutes, NotOver DEF EndMark, Goto, world
  <2>2. CASE state[t] = "Closed"
    <3>1. state' = state
      BY <1>3, <2>2 DEF EndMark, Put
    <3> QED
      BY <1>3, <2>1, <3>1 DEF EndMark, Promise!vars, Routed, Open, Over
  <2>3. CASE state[t] # "Closed"
    BY <1>3, <2>1, <2>3 DEF EndMark, Put, Promise!Next, Promise!Close, Routed, Open, Over
  <2> QED
    BY <2>2, <2>3
<1>4. ASSUME NEW t \in Targets, \/ Receive(t) \/ SelectDone(t) \/ CheckClosed(t)
                                \/ HandlerWarm(t) \/ HandlerDrain(t) \/ CloseHandler(t)
      PROVE  UNCHANGED Promise!vars
  <2>1. state' = state /\ err' = err /\ group' = group
    BY <1>4 DEF Receive, SelectDone, CheckClosed, HandlerWarm, HandlerDrain, HandlerReturns,
                CloseHandler, caller, world
  <2>2. Over' = Over
    BY <1>4, NotOver DEF Receive, SelectDone, CheckClosed, HandlerWarm, HandlerDrain,
                         HandlerReturns, CloseHandler, Goto
  <2> QED
    BY <2>1, <2>2, SameRoutes DEF Promise!vars, Routed, Open, Over
<1>5. CASE (\E t \in Targets : Cancel(t)) \/ CancelParent \/ UNCHANGED vars
  <2>1. state' = state /\ err' = err /\ group' = group /\ pc' = pc
    BY <1>5 DEF Cancel, CancelParent, vars, caller, local, world
  <2> QED
    BY <2>1, SameRoutes DEF Over, Promise!vars, Routed, Open
<1>6. ASSUME NEW t \in Targets, EndWarm(t) \/ EndDrain(t) \/ CloseGroup(t) \/ Record(t)
      PROVE  Promise!Next \/ UNCHANGED Promise!vars
  BY <1>6, EndSettles, CloseGroupReleases, RecordFinishes DEF Promise!Next, Promise!Work
<1> QED
  BY <1>1, <1>2, <1>3, <1>4, <1>5, <1>6 DEF Next, Loop

LEMMA InitIsPromised == Init => Promise!Init
<1> SUFFICES ASSUME Init PROVE Promise!Init
  OBVIOUS
<1>1. \A t \in Targets : group[t].routed = FALSE /\ group[t].open = TRUE /\ pc[t] # "exited"
  BY DEF Init
<1>2. Over = [t \in Targets |-> FALSE]
  BY <1>1 DEF Over
<1>3. Routed = [t \in Targets |-> FALSE] /\ Open = [t \in Targets |-> TRUE]
  BY <1>1 DEF Routed, Open
<1> QED
  BY <1>2, <1>3 DEF Init, Promise!Init, Routed, Open, Over

\* Callers see the lifecycle of state.go and nothing else: whatever loop, mailbox
\* and contexts do is a step of TargetLifecycle, or none.
THEOREM StepsKeepPromise == Spec => Promise!Init /\ [][Promise!Next]_(Promise!vars)
<1> QED
  BY InitIsPromised, StepIsPromised, Invariance, PTL DEF Spec

-----------------------------------------------------------------------------
(* The command of static:cmd.                                             *)

\* A step of a caller or of the loop between two calls is one of Target's.
LEMMA OwnSteps ==
  ASSUME NEW t \in Targets, Caller(t) \/ CmdLoop(t)
  PROVE  UNCHANGED handler /\ Next
<1>1. CASE Caller(t)
  BY <1>1 DEF Caller, Next
<1>2. CASE CmdLoop(t)
  BY <1>2 DEF CmdLoop, Loop, Next
<1> QED
  BY <1>1, <1>2

\* What the handler returns to the loop is what Target expects of it.
LEMMA Returns ==
  ASSUME NEW t \in Targets, NEW e \in BOOLEAN, NEW b \in {"up", "down"}, Return(t, e, b),
         pc[t] \in {"warming", "draining", "closeHandler"},
         pc[t] = "warming" /\ ~e => b = "up", pc[t] = "draining" /\ ~e => b = "down"
  PROVE  Next
<1>1. CASE pc[t] = "warming"
  <2>1. HandlerWarm(t)
    BY <1>1 DEF Return, HandlerWarm, HandlerReturns, Goto, Put, caller
  <2> QED
    BY <2>1 DEF Loop, Next
<1>2. CASE pc[t] = "draining"
  <2>1. HandlerDrain(t)
    BY <1>2 DEF Return, HandlerDrain, HandlerReturns, Goto, Put, caller
  <2> QED
    BY <2>1 DEF Loop, Next
<1>3. CASE pc[t] = "closeHandler"
  <2>1. CloseHandler(t)
    BY <1>3 DEF Return, CloseHandler, Goto, Put, caller
  <2> QED
    BY <2>1 DEF Loop, Next
<1> QED
  BY <1>1, <1>2, <1>3

\* Every step is one of Target's, or none: the interrupt, the kill and whatever
\* the command does are within one call of the handler.
LEMMA Simulates == Held /\ [CmdNext]_cmdVars => [Next]_vars
<1> SUFFICES ASSUME Held, [CmdNext]_cmdVars PROVE Next \/ UNCHANGED vars
  BY DEF vars
<1>1. ASSUME NEW t \in Targets, Caller(t) \/ CmdLoop(t) PROVE Next
  BY <1>1, OwnSteps
<1>2. ASSUME NEW t \in Targets, StartCommand(t) PROVE Next
  BY <1>2, Returns DEF StartCommand
<1>3. ASSUME NEW t \in Targets, DrainNothing(t) PROVE Next
  BY <1>3, Returns DEF DrainNothing, Draining
<1>4. ASSUME NEW t \in Targets, DrainDone(t) PROVE Next
  BY <1>4, Returns DEF DrainDone, Held
<1>5. ASSUME NEW t \in Targets, Timeout(t) PROVE Next \/ UNCHANGED vars
  <2>1. pc[t] \in {"draining", "closeHandler"}
    BY <1>5 DEF Timeout, Held
  <2> QED
    BY <1>5, <2>1, Returns DEF Timeout
<1>6. ASSUME NEW t \in Targets, Interrupt(t) \/ Exits(t) \/ Reports(t) PROVE UNCHANGED vars
  BY <1>6 DEF Interrupt, Exits, Reports
<1>7. CASE CmdCancelParent
  BY <1>7 DEF CmdCancelParent, Next
<1>8. CASE UNCHANGED cmdVars
  BY <1>8 DEF cmdVars
<1> QED
  BY <1>1, <1>2, <1>3, <1>4, <1>5, <1>6, <1>7, <1>8 DEF CmdNext, Handler

\* The handler's own variables keep their types.
LEMMA CmdNextTypeOK == CmdTypeOK /\ [CmdNext]_cmdVars => CmdTypeOK'
<1> SUFFICES ASSUME CmdTypeOK, [CmdNext]_cmdVars PROVE CmdTypeOK'
  OBVIOUS
<1> USE DEF CmdTypeOK, handler, Put
<1>1. ASSUME NEW t \in Targets, StartCommand(t) PROVE CmdTypeOK'
  BY <1>1 DEF StartCommand
<1>2. ASSUME NEW t \in Targets, DrainNothing(t) \/ Interrupt(t) \/ DrainDone(t) PROVE CmdTypeOK'
  BY <1>2 DEF DrainNothing, Interrupt, DrainDone
<1>3. ASSUME NEW t \in Targets, Timeout(t) PROVE CmdTypeOK'
  BY <1>3 DEF Timeout
<1>4. ASSUME NEW t \in Targets, Exits(t) \/ Reports(t) PROVE CmdTypeOK'
  BY <1>4 DEF Exits, Reports
<1>5. ASSUME UNCHANGED handler PROVE CmdTypeOK'
  BY <1>5
<1> QED
  BY <1>1, <1>2, <1>3, <1>4, <1>5 DEF CmdNext, Handler, Caller, CmdLoop, CmdCancelParent, cmdVars

\* What the invariant says of one target.
HeldAt(t) ==
  /\ proc[t] # "none" <=> cmd[t] \/ stop[t] # "idle"
  /\ stop[t] # "idle" => pc[t] \in {"draining", "closeHandler"} /\ ~cmd[t]
  /\ cmd[t] => /\ requests[t] # <<"Warming">>
               /\ pc[t] \notin {"warm", "warming", "drained"}
               /\ pc[t] = "warmed" => ~failed[t]
  /\ pc[t] = "drained" => ~failed[t]
NothingAt(t) ==
  state[t] = "Inactive" \/ backend[t] = "closed" \/ pc[t] = "warming" =>
    proc[t] = "none" /\ ~cmd[t]
GoodAt(t) == HeldAt(t) /\ NothingAt(t)


\* The handler and the command move nothing of another target.
LEMMA HandlerElsewhere ==
  ASSUME TypeOK, CmdTypeOK, NEW t \in Targets, NEW u \in Targets \ {t}, GoodAt(u),
         Handler(t) \/ Exits(t) \/ Reports(t)
  PROVE  GoodAt(u)'
<1> DEFINE Same == /\ cmd'[u] = cmd[u] /\ stop'[u] = stop[u] /\ proc'[u] = proc[u]
                   /\ state'[u] = state[u] /\ requests'[u] = requests[u] /\ pc'[u] = pc[u]
                   /\ failed'[u] = failed[u] /\ backend'[u] = backend[u]
<1> USE DEF TypeOK, CmdTypeOK, Put, Return, handler, vars
<1>1. CASE StartCommand(t)
  <2>1. PICK e \in BOOLEAN :
          /\ Return(t, e, IF e THEN "down" ELSE "up")
          /\ cmd'  = Put(cmd, t, ~e)
          /\ proc' = IF cmd[t] \/ e THEN proc ELSE Put(proc, t, "running")
    BY <1>1 DEF StartCommand
  <2> QED
    BY <1>1, <2>1 DEF StartCommand, GoodAt, HeldAt, NothingAt
<1>2. CASE DrainNothing(t) \/ Interrupt(t)
  BY <1>2 DEF DrainNothing, Interrupt, GoodAt, HeldAt, NothingAt
<1>3. CASE DrainDone(t)
  BY <1>3 DEF DrainDone, GoodAt, HeldAt, NothingAt
<1>4. CASE Timeout(t)
  BY <1>4 DEF Timeout, GoodAt, HeldAt, NothingAt
<1>5. CASE Exits(t) \/ Reports(t)
  BY <1>5 DEF Exits, Reports, GoodAt, HeldAt, NothingAt
<1> QED
  BY <1>1, <1>2, <1>3, <1>4, <1>5 DEF Handler

\* A step of the handler or of the command keeps it for its own target.
LEMMA HandlerKeeps ==
  ASSUME IInv, CmdTypeOK, NEW t \in Targets, GoodAt(t), Handler(t) \/ Exits(t) \/ Reports(t)
  PROVE  GoodAt(t)'
<1> USE DEF CmdTypeOK, IInv, TypeOK, HeldAt, NothingAt, GoodAt, Put, Return, handler, vars
<1>1. CASE StartCommand(t)
  <2>1. /\ pc[t] = "warming" /\ state[t] # "Inactive" /\ backend[t] # "closed"
        /\ requests[t] # <<"Warming">>
    <3>1. pc[t] = "warming"
      BY <1>1 DEF StartCommand
    <3>2. pc[t] \in WarmPhase /\ pc[t] \notin {"closeGroup", "record", "exited"}
      BY <3>1 DEF WarmPhase
    <3>3. requests[t] = << >> /\ state[t] # "Inactive"
      BY <3>2 DEF OneJob
    <3>4. backend[t] # "closed"
      BY <3>2 DEF Shutdown
    <3> QED
      BY <3>1, <3>3, <3>4
  <2>2. proc[t] = "none" /\ ~cmd[t] /\ stop[t] = "idle"
    BY <2>1
  <2>3. PICK e \in BOOLEAN :
          /\ Return(t, e, IF e THEN "down" ELSE "up")
          /\ cmd'  = Put(cmd, t, ~e)
          /\ proc' = IF cmd[t] \/ e THEN proc ELSE Put(proc, t, "running")
    BY <1>1 DEF StartCommand
  <2>4. /\ pc'[t] = "warmed" /\ failed'[t] = e /\ state'[t] = state[t]
        /\ requests'[t] = requests[t] /\ backend'[t] # "closed"
    BY <2>1, <2>3
  <2>5. cmd'[t] = ~e /\ stop'[t] = "idle" /\ proc'[t] = IF e THEN "none" ELSE "running"
    BY <1>1, <2>2, <2>3 DEF StartCommand
  <2> QED
    BY <2>1, <2>4, <2>5
<1>2. CASE DrainNothing(t)
  BY <1>2 DEF DrainNothing, Draining
<1>3. CASE Interrupt(t)
  <2>1. state[t] # "Inactive" /\ backend[t] # "closed"
    BY <1>3 DEF Interrupt, Draining
  <2> QED
    BY <1>3, <2>1 DEF Interrupt, Draining
<1>4. CASE DrainDone(t)
  BY <1>4 DEF DrainDone
<1>5. CASE Timeout(t)
  BY <1>5 DEF Timeout
<1>6. CASE Exits(t) \/ Reports(t)
  BY <1>6 DEF Exits, Reports
<1> QED
  BY <1>1, <1>2, <1>3, <1>4, <1>5, <1>6 DEF Handler

\* Callers and the loop move nothing of another target.
LEMMA OwnElsewhere ==
  ASSUME TypeOK, NEW t \in Targets, NEW u \in Targets \ {t}, GoodAt(u), Caller(t) \/ CmdLoop(t)
  PROVE  GoodAt(u)'
<1> USE DEF TypeOK, handler, Put, Goto, caller, local, world
<1>1. /\ cmd'[u] = cmd[u] /\ stop'[u] = stop[u] /\ proc'[u] = proc[u]
  BY DEF Caller, CmdLoop
<1>2. /\ state'[u] = state[u] /\ requests'[u] = requests[u] /\ pc'[u] = pc[u]
      /\ failed'[u] = failed[u] /\ backend'[u] = backend[u]
  <2>1. CASE Caller(t)
    BY <2>1 DEF Caller, Warm, Drain, Close, Cancel, Submit
  <2>2. CASE Receive(t) \/ SelectDone(t) \/ CheckClosed(t)
    BY <2>2 DEF Receive, SelectDone, CheckClosed
  <2>3. CASE EndWarm(t)
    BY <2>3 DEF EndWarm, Abandon, HandlerFailed, HandlerSucceeded
  <2>4. CASE EndDrain(t)
    BY <2>4 DEF EndDrain, Abandon, HandlerFailed, HandlerSucceeded
  <2>5. CASE EndMark(t) \/ CloseGroup(t) \/ Record(t)
    BY <2>5 DEF EndMark, CloseGroup, Record
  <2> QED
    BY <2>1, <2>2, <2>3, <2>4, <2>5 DEF CmdLoop
<1> QED
  BY <1>1, <1>2 DEF GoodAt, HeldAt, NothingAt

\* A caller's step keeps it for its own target.
LEMMA CallerKeeps ==
  ASSUME IInv, NEW t \in Targets, GoodAt(t), Caller(t)
  PROVE  GoodAt(t)'
<1> USE DEF IInv, TypeOK, Put, caller, local, world
<1>1. cmd'[t] = cmd[t] /\ stop'[t] = stop[t] /\ proc'[t] = proc[t]
  BY DEF Caller, handler
<1>2. CASE Warm(t)
  <2>1. ~cmd[t] /\ state'[t] = "Warming"
    BY <1>2 DEF GoodAt, NothingAt, Warm, Submit
  <2>2. pc'[t] = pc[t] /\ failed'[t] = failed[t] /\ backend'[t] = backend[t]
    BY <1>2 DEF Warm, Submit
  <2> QED
    BY <1>1, <2>1, <2>2 DEF GoodAt, HeldAt, NothingAt
<1>3. CASE Drain(t)
  <2>1. requests[t] = << >>
    BY <1>3 DEF Drain, OneJob
  <2>2. requests'[t] = Append(requests[t], "Draining") /\ state'[t] = "Draining"
    BY <1>3 DEF Drain, Submit
  <2>3. requests'[t] # <<"Warming">>
    BY <2>1, <2>2
  <2>4. pc'[t] = pc[t] /\ failed'[t] = failed[t] /\ backend'[t] = backend[t]
    BY <1>3 DEF Drain, Submit
  <2> QED
    BY <1>1, <2>2, <2>3, <2>4 DEF GoodAt, HeldAt, NothingAt
<1>4. CASE Close(t) \/ Cancel(t)
  <2>1. /\ state'[t] \in {state[t], "Closed"} /\ requests'[t] = requests[t] /\ pc'[t] = pc[t]
        /\ failed'[t] = failed[t] /\ backend'[t] = backend[t]
    BY <1>4 DEF Close, Cancel
  <2> QED
    BY <1>1, <2>1 DEF GoodAt, HeldAt, NothingAt
<1> QED
  BY <1>2, <1>3, <1>4 DEF Caller

\* An empty mailbox holds no request.
LEMMA EmptyIsNotOne == ASSUME NEW r, Len(r) = 0 PROVE r # <<"Warming">>
<1> QED
  OBVIOUS

\* Taking the only request leaves an empty mailbox.
LEMMA MailboxOfOne ==
  ASSUME NEW s, s \in {<<"Warming">>, <<"Draining">>}
  PROVE  Tail(s) # <<"Warming">> /\ (Head(s) = "Warming" => s = <<"Warming">>)
<1>1. Len(Tail(s)) = 0
  OBVIOUS
<1>2. Tail(s) # <<"Warming">>
  BY <1>1, EmptyIsNotOne
<1>3. Head(s) = "Warming" => s = <<"Warming">>
  <2>1. Head(<<"Draining">>) = "Draining"
    OBVIOUS
  <2> QED
    BY <2>1
<1> QED
  BY <1>2, <1>3

\* So does a step of the loop between two calls of the handler.
LEMMA LoopKeeps ==
  ASSUME IInv, NEW t \in Targets, GoodAt(t), CmdLoop(t)
  PROVE  GoodAt(t)'
<1> USE DEF IInv, TypeOK, Put, Goto, caller, local, world
<1>1. cmd'[t] = cmd[t] /\ stop'[t] = stop[t] /\ proc'[t] = proc[t]
  BY DEF CmdLoop, handler
<1>2. CASE Receive(t)
  <2>1. requests[t] \in {<<"Warming">>, <<"Draining">>}
    BY <1>2 DEF Receive, OneJob
  <2>2. requests'[t] = Tail(requests[t]) /\ pc[t] = "select"
        /\ pc'[t] = IF Head(requests[t]) = "Warming" THEN "warm" ELSE "drain"
    BY <1>2 DEF Receive
  <2>3. requests'[t] # <<"Warming">> /\ pc'[t] \in {"warm", "drain"}
        /\ (pc'[t] = "warm" => requests[t] = <<"Warming">>)
    BY <2>1, <2>2, MailboxOfOne
  <2>4. state'[t] = state[t] /\ failed'[t] = failed[t] /\ backend'[t] = backend[t]
    BY <1>2 DEF Receive
  <2> QED
    BY <1>1, <2>2, <2>3, <2>4 DEF GoodAt, HeldAt, NothingAt
<1>3. CASE SelectDone(t) \/ CheckClosed(t) \/ EndMark(t) \/ CloseGroup(t) \/ Record(t)
  <2>1. /\ state'[t] \in {state[t], "Closed"} /\ requests'[t] = requests[t]
        /\ backend'[t] = backend[t]
        /\ pc[t] \notin {"draining", "warmed", "drained"}
        /\ pc[t] = "closeHandler" => pc'[t] = pc[t]
        /\ pc'[t] \notin {"warm", "warmed", "drained"}
        /\ pc'[t] = "warming" => pc[t] = "warm"
    BY <1>3 DEF SelectDone, CheckClosed, EndMark, CloseGroup, Record
  <2> QED
    BY <1>1, <2>1 DEF GoodAt, HeldAt, NothingAt
<1>4. CASE EndWarm(t)
  <2>1. /\ pc[t] = "warmed" /\ pc'[t] = "select" /\ requests'[t] = requests[t]
        /\ backend'[t] = backend[t]
        /\ state'[t] = "Inactive" => failed[t] \/ state[t] = "Inactive"
    BY <1>4 DEF EndWarm, Abandon, HandlerFailed, HandlerSucceeded
  <2> QED
    BY <1>1, <2>1 DEF GoodAt, HeldAt, NothingAt
<1>5. CASE EndDrain(t)
  <2>1. pc[t] = "drained" /\ pc'[t] = "select" /\ backend'[t] = backend[t]
    BY <1>5 DEF EndDrain
  <2> QED
    BY <1>1, <2>1 DEF GoodAt, HeldAt, NothingAt
<1> QED
  BY <1>2, <1>3, <1>4, <1>5 DEF CmdLoop

\* The invariant holds in the initial states and no step breaks it.
LEMMA InitCmdIInv == CmdInit => CmdIInv
<1> SUFFICES ASSUME CmdInit PROVE CmdIInv
  OBVIOUS
<1>1. IInv
  BY InitIInv DEF CmdInit
<1>2. CmdTypeOK
  BY DEF CmdInit, CmdTypeOK
<1>3. Held /\ NothingLeftRunning
  BY DEF CmdInit, Init, Held, NothingLeftRunning
<1> QED
  BY <1>1, <1>2, <1>3 DEF CmdIInv

LEMMA NextCmdIInv == CmdIInv /\ [CmdNext]_cmdVars => CmdIInv'
<1> SUFFICES ASSUME CmdIInv, [CmdNext]_cmdVars PROVE CmdIInv'
  OBVIOUS
<1>1. IInv /\ CmdTypeOK /\ Held /\ NothingLeftRunning
  BY DEF CmdIInv
<1>2. [Next]_vars
  BY <1>1, Simulates
<1>3. IInv'
  BY <1>1, <1>2, NextIInv
<1>4. CmdTypeOK'
  BY <1>1, CmdNextTypeOK
<1>5. \A u \in Targets : GoodAt(u)
  BY <1>1 DEF Held, NothingLeftRunning, GoodAt, HeldAt, NothingAt
<1>6. ASSUME NEW u \in Targets PROVE GoodAt(u)'
  <2>1. TypeOK
    BY <1>1 DEF IInv
  <2>2. ASSUME NEW t \in Targets, Handler(t) \/ Exits(t) \/ Reports(t) PROVE GoodAt(u)'
    BY <1>1, <1>5, <2>1, <2>2, HandlerKeeps, HandlerElsewhere
  <2>3. ASSUME NEW t \in Targets, Caller(t) \/ CmdLoop(t) PROVE GoodAt(u)'
    BY <1>1, <1>5, <2>1, <2>3, CallerKeeps, LoopKeeps, OwnElsewhere
  <2>4. CASE CmdCancelParent
    BY <1>5, <2>4 DEF CmdCancelParent, CancelParent, handler, caller, local, world,
                      GoodAt, HeldAt, NothingAt
  <2>5. CASE UNCHANGED cmdVars
    BY <1>5, <2>5 DEF cmdVars, handler, vars, GoodAt, HeldAt, NothingAt
  <2> QED
    BY <2>2, <2>3, <2>4, <2>5 DEF CmdNext
<1>7. Held' /\ NothingLeftRunning'
  BY <1>6 DEF Held, NothingLeftRunning, GoodAt, HeldAt, NothingAt
<1> QED
  BY <1>3, <1>4, <1>7 DEF CmdIInv

\* However Warm, Drain, Close, the exit of the command, the timeout and the kill
\* fall together, no command of any target is left running.
THEOREM Safe == CmdSpec => []CmdIInv
<1> QED
  BY InitCmdIInv, NextCmdIInv, PTL DEF CmdSpec

\* Every step of a target that runs a command is a step of the event loop of
\* module Target, or none.
THEOREM StepsAreTargets == CmdSpec => Init /\ [][Next]_vars
<1>1. CmdInit => Init
  BY DEF CmdInit
<1>2. CmdIInv /\ [CmdNext]_cmdVars => [Next]_vars
  BY Simulates DEF CmdIInv
<1> QED
  BY <1>1, <1>2, InitCmdIInv, NextCmdIInv, PTL DEF CmdSpec

\* A target that runs a command keeps the promise of TargetLifecycle, whatever the
\* command does: what Gateway builds on holds of the handler there is.
THEOREM CommandsKeepPromise == CmdSpec => Promise!Init /\ [][Promise!Next]_(Promise!vars)
<1>1. CmdInit => Promise!Init
  BY InitIsPromised DEF CmdInit
<1>2. CmdIInv /\ [CmdNext]_cmdVars => [Promise!Next]_(Promise!vars)
  BY Simulates, StepIsPromised DEF CmdIInv, IInv
<1> QED
  BY <1>1, <1>2, Safe, PTL DEF CmdSpec
=============================================================================
