----------------------------- MODULE IpcProofs -----------------------------
(* Proofs about module Ipc, for any roles, tags and bounds.                  *)
EXTENDS Ipc, TLAPS

\* What is left of a queue.
LEMMA TailOf ==
  ASSUME NEW S, NEW s \in Seq(S), s # << >>
  PROVE  /\ Head(s) \in S /\ Head(s) = s[1]
         /\ Tail(s) \in Seq(S) /\ Len(Tail(s)) = Len(s) - 1 /\ Len(s) \in Nat \ {0}
         /\ \A k \in 1 .. Len(Tail(s)) : k + 1 \in 1 .. Len(s) /\ Tail(s)[k] = s[k + 1]
  OBVIOUS

\* A queue with one more.
LEMMA AppendTo ==
  ASSUME NEW S, NEW s \in Seq(S), NEW x \in S
  PROVE  /\ Append(s, x) \in Seq(S) /\ Len(Append(s, x)) = Len(s) + 1 /\ Len(s) \in Nat
         /\ \A k \in 1 .. Len(s) : Append(s, x)[k] = s[k]
         /\ Append(s, x)[Len(s) + 1] = x
  OBVIOUS

\* Packets are records of the three fields, and None is not one.
LEMMA PacketsAre ==
  /\ None \notin Packets /\ None \notin Tags /\ Cap \in Nat \ {0}
  /\ MaxId \in Nat \ {0} /\ Ids \subseteq 0 .. MaxId
  /\ \A p \in Packets : /\ p.kind \in {"req", "resp", "notif"}
                        /\ p.id \in 0 .. MaxId /\ p.tag \in Tags \cup {None}
  BY IpcAssumption DEF Packets, Ids

\* What is written is a packet.
LEMMA Written ==
  /\ Packet("notif", 0, None) \in Packets
  /\ \A i \in Ids, t \in Tags : Packet("req", i, t) \in Packets
  /\ \A p \in Packets : /\ Packet("resp", p.id, None) \in Packets
                        /\ Packet("resp", p.id, p.tag) \in Packets
                        /\ Packet("resp", p.id, p.tag).id = p.id
  BY PacketsAre DEF Packets, Packet

\* An identifier that is given out is one.
LEMMA Assigned == TypeOK => \A e \in Ends : AssignId(e) \in Ids
<1> SUFFICES ASSUME TypeOK, NEW e \in Ends PROVE AssignId(e) \in Ids
  OBVIOUS
<1>1. nextId[e] \in 0 .. MaxId /\ MaxId \in Nat \ {0}
  BY IpcAssumption DEF TypeOK
<1> QED
  BY <1>1 DEF AssignId, Ids

\* The end of a socket is the other end of its other end.
LEMMA Others == \A e \in Ends : Other(e) \in Ends /\ Other(e) # e
  BY DEF Ends, Other

\* A new connection is in a state of the invariant.
LEMMA InitIInv == Init => IInv
<1> SUFFICES ASSUME Init PROVE IInv
  OBVIOUS
<1>1. TypeOK
  BY IpcAssumption DEF Init, TypeOK
<1>2. LockIsUsed
  BY DEF Init, LockIsUsed, LockIsUsedAt
<1>3. OwesOnce
  BY IpcAssumption DEF Init, OwesOnce, OwesOnceAt
<1>4. EndsLast
  BY DEF Init, EndsLast
<1>5. OneExchange
  BY Others, IpcAssumption
     DEF Init, OneExchange, IsClientOf, GenuineAt, InRole, AsksAt, AnswersAt, OnceAt, InOnePlace,
         NoneTwice, Asked, Sent, Taken, Owed, Returning, Returned, Answerers, Askers
<1> QED
  BY <1>1, <1>2, <1>3, <1>4, <1>5 DEF IInv

\* Every step keeps the types.
LEMMA NextTypeOK == TypeOK /\ LockIsUsed /\ [Next]_vars => TypeOK'
<1> SUFFICES ASSUME TypeOK, LockIsUsed, [Next]_vars PROVE TypeOK'
  OBVIOUS
<1> USE DEF TypeOK, Put, wire, mutex, tables, queues, read, server, Unlock, Goto
<1>1. ASSUME NEW e \in Ends, NEW t \in Tags, Request(e, t) PROVE TypeOK'
  <2>1. AssignId(e) \in Ids
    BY Assigned
  <2>2. Packet("req", AssignId(e), t) \in Packets
    BY <2>1, Written
  <2>3. CASE outbox[e][AssignId(e)] # None
    BY <1>1, <2>1, <2>3, PacketsAre DEF Request
  <2>4. CASE outbox[e][AssignId(e)] = None
    <3>1. /\ Begin(e, "user", Packet("req", AssignId(e), t))
          /\ nextId' = Put(nextId, e, AssignId(e))
          /\ outbox' = [outbox EXCEPT ![e][AssignId(e)] = t]
          /\ UNCHANGED <<wire, inbox, queues, read, server, notes>>
      BY <1>1, <2>4 DEF Request
    <3> QED
      BY <2>1, <2>2, <3>1, PacketsAre DEF Begin
  <2> QED
    BY <2>3, <2>4
<1>2. ASSUME NEW e \in Ends, Notify(e) PROVE TypeOK'
  <2>1. Packet("notif", 0, None) \in Packets
    BY Written
  <2> QED
    BY <1>2, <2>1 DEF Notify, Begin
<1>3. ASSUME NEW e \in Ends, Close(e) PROVE TypeOK'
  BY <1>3 DEF Close
<1>4. ASSUME NEW e \in Ends, Write(e) PROVE TypeOK'
  <2>1. Append(pipe[Other(e)], out[e]) \in Seq(Packets)
    BY <1>4, AppendTo, Others DEF Write
  <2> QED
    BY <1>4, <2>1, Others DEF Write
<1>5. ASSUME NEW e \in Ends, WriteFails(e) PROVE TypeOK'
  BY <1>5 DEF WriteFails
<1>6. ASSUME NEW e \in Ends, Read(e) PROVE TypeOK'
  <2>1. Head(pipe[e]) \in Packets /\ Tail(pipe[e]) \in Seq(Packets)
    BY <1>6, TailOf DEF Read
  <2> QED
    BY <1>6, <2>1 DEF Read, Route
<1>7. ASSUME NEW e \in Ends, ReadFails(e) PROVE TypeOK'
  BY <1>7 DEF ReadFails
<1>8. ASSUME NEW e \in Ends, Deliver(e) PROVE TypeOK'
  <2>1. Append(notifs[e], cur[e]) \in Seq(Packets)
    BY <1>8, AppendTo DEF Deliver, LockIsUsed, LockIsUsedAt
  <2> QED
    BY <1>8, <2>1 DEF Deliver, AfterNotify, AfterMatch
<1>9. ASSUME NEW e \in Ends, Match(e) PROVE TypeOK'
  BY <1>9 DEF Match, AfterMatch
<1>10. ASSUME NEW e \in Ends, Dispatch(e) PROVE TypeOK'
  <2>1. cur[e] \in Packets
    BY <1>10 DEF Dispatch, LockIsUsed, LockIsUsedAt
  <2>2. cur[e].id \in 0 .. MaxId /\ Packet("resp", cur[e].id, None) \in Packets
    BY <2>1, Written, PacketsAre
  <2>3. CASE cur[e].id \in inbox[e]
    <3>1. /\ Begin(e, "reader", Packet("resp", cur[e].id, None)) /\ Goto(e, "refuse")
          /\ UNCHANGED <<wire, tables, queues, cur, server, notes>>
      BY <1>10, <2>3 DEF Dispatch
    <3> QED
      BY <2>2, <3>1 DEF Begin
  <2>4. CASE cur[e].id \notin inbox[e]
    <3>1. /\ Begin(e, "reader", None) /\ Goto(e, "send")
          /\ inbox' = Put(inbox, e, inbox[e] \cup {cur[e].id})
          /\ UNCHANGED <<wire, nextId, outbox, queues, cur, server, notes>>
      BY <1>10, <2>4 DEF Dispatch
    <3> QED
      BY <2>2, <3>1 DEF Begin
  <2> QED
    BY <2>3, <2>4
<1>11. ASSUME NEW e \in Ends, Send(e) PROVE TypeOK'
  <2>1. Append(reqs[e], cur[e]) \in Seq(Packets)
    BY <1>11, AppendTo DEF Send, LockIsUsed, LockIsUsedAt
  <2> QED
    BY <1>11, <2>1 DEF Send
<1>12. ASSUME NEW e \in Ends, End(e) PROVE TypeOK'
  BY <1>12 DEF End
<1>13. ASSUME NEW e \in Ends, ServeCancelled(e) \/ ServeClosed(e) PROVE TypeOK'
  BY <1>13 DEF ServeCancelled, ServeClosed
<1>14. ASSUME NEW e \in Ends, ServeRequest(e) PROVE TypeOK'
  <2>1. Head(reqs[e]) \in Packets /\ Tail(reqs[e]) \in Seq(Packets)
    BY <1>14, TailOf DEF ServeRequest
  <2> QED
    BY <1>14, <2>1 DEF ServeRequest
<1>15. ASSUME NEW e \in Ends, ServeNotification(e) PROVE TypeOK'
  <2>1. Tail(notifs[e]) \in Seq(Packets)
    BY <1>15, TailOf DEF ServeNotification
  <2> QED
    BY <1>15, <2>1 DEF ServeNotification
<1>16. ASSUME NEW e \in Ends, Respond(e) PROVE TypeOK'
  <2>1. job[e] \in Packets
    BY <1>16 DEF Respond, LockIsUsed, LockIsUsedAt
  <2>2. Packet("resp", job[e].id, job[e].tag) \in Packets
    BY <2>1, Written
  <2>3. CASE job[e].id \in inbox[e] \ {0}
    <3>1. /\ Begin(e, "serve", Packet("resp", job[e].id, job[e].tag))
          /\ serve' = Put(serve, e, "write")
          /\ UNCHANGED <<wire, tables, queues, read, job, cancelled, notes>>
      BY <1>16, <2>3 DEF Respond
    <3> QED
      BY <2>2, <3>1 DEF Begin
  <2>4. CASE job[e].id \notin inbox[e] \ {0}
    BY <1>16, <2>4 DEF Respond
  <2> QED
    BY <2>3, <2>4
<1>17. CASE Cancel
  BY <1>17 DEF Cancel
<1>18. CASE UNCHANGED vars
  BY <1>18 DEF vars
<1> QED
  BY <1>1, <1>2, <1>3, <1>4, <1>5, <1>6, <1>7, <1>8, <1>9, <1>10, <1>11, <1>12, <1>13,
     <1>14, <1>15, <1>16, <1>17, <1>18
     DEF Next, Reader, Serve

\* What the invariant says of an end is about these.
Local(e) == <<lock[e], out[e], inbox[e], notifs[e], reqs[e], reader[e], cur[e], serve[e], job[e]>>

LEMMA LocalAt ==
  ASSUME NEW e \in Ends, UNCHANGED Local(e)
  PROVE  /\ LockIsUsedAt(e) => LockIsUsedAt(e)'
         /\ OwesOnceAt(e) => OwesOnceAt(e)'
  BY DEF Local, LockIsUsedAt, OwesOnceAt

\* A step of one end.
Step(e) ==
  \/ \E t \in Tags : Request(e, t)
  \/ Notify(e) \/ Close(e) \/ Write(e) \/ WriteFails(e) \/ Reader(e) \/ Serve(e)

\* It leaves what the invariant says of the other one alone.
LEMMA StepIsLocal ==
  ASSUME TypeOK, NEW e \in Ends, NEW d \in Ends, d # e, Step(e)
  PROVE  UNCHANGED Local(d)
<1> USE DEF TypeOK, Put, wire, mutex, tables, queues, read, server, Unlock, Goto, Local
<1>1. ASSUME NEW t \in Tags, Request(e, t) PROVE UNCHANGED Local(d)
  BY <1>1 DEF Request, Begin
<1>2. ASSUME Notify(e) PROVE UNCHANGED Local(d)
  BY <1>2 DEF Notify, Begin
<1>3. ASSUME Close(e) PROVE UNCHANGED Local(d)
  BY <1>3 DEF Close
<1>4. ASSUME Write(e) PROVE UNCHANGED Local(d)
  BY <1>4 DEF Write
<1>5. ASSUME WriteFails(e) PROVE UNCHANGED Local(d)
  BY <1>5 DEF WriteFails
<1>6. ASSUME Read(e) PROVE UNCHANGED Local(d)
  BY <1>6 DEF Read
<1>7. ASSUME ReadFails(e) PROVE UNCHANGED Local(d)
  BY <1>7 DEF ReadFails
<1>8. ASSUME Deliver(e) PROVE UNCHANGED Local(d)
  BY <1>8 DEF Deliver
<1>9. ASSUME Match(e) PROVE UNCHANGED Local(d)
  BY <1>9 DEF Match
<1>10. ASSUME Dispatch(e) PROVE UNCHANGED Local(d)
  BY <1>10 DEF Dispatch, Begin
<1>11. ASSUME Send(e) PROVE UNCHANGED Local(d)
  BY <1>11 DEF Send
<1>12. ASSUME End(e) PROVE UNCHANGED Local(d)
  BY <1>12 DEF End
<1>13. ASSUME ServeCancelled(e) \/ ServeClosed(e) PROVE UNCHANGED Local(d)
  BY <1>13 DEF ServeCancelled, ServeClosed
<1>14. ASSUME ServeRequest(e) PROVE UNCHANGED Local(d)
  BY <1>14 DEF ServeRequest
<1>15. ASSUME ServeNotification(e) PROVE UNCHANGED Local(d)
  BY <1>15 DEF ServeNotification
<1>16. ASSUME Respond(e) PROVE UNCHANGED Local(d)
  BY <1>16 DEF Respond, Begin
<1> QED
  BY <1>1, <1>2, <1>3, <1>4, <1>5, <1>6, <1>7, <1>8, <1>9, <1>10, <1>11, <1>12, <1>13,
     <1>14, <1>15, <1>16
     DEF Step, Reader, Serve

\* Whoever takes the lock is about to use it, and gives it back.
LEMMA StepLockIsUsed ==
  ASSUME TypeOK, NEW e \in Ends, LockIsUsedAt(e), Step(e)
  PROVE  LockIsUsedAt(e)'
<1> USE DEF TypeOK, LockIsUsedAt, Put, wire, mutex, tables, queues, read, server, Unlock, Goto
<1>1. ASSUME NEW t \in Tags, Request(e, t) PROVE LockIsUsedAt(e)'
  <2>1. AssignId(e) \in Ids
    BY Assigned
  <2>2. Packet("req", AssignId(e), t) # None
    BY <2>1, Written, PacketsAre
  <2> QED
    BY <1>1, <2>2 DEF Request, Begin
<1>2. ASSUME Notify(e) PROVE LockIsUsedAt(e)'
  BY <1>2, Written, PacketsAre DEF Notify, Begin
<1>3. ASSUME Close(e) PROVE LockIsUsedAt(e)'
  BY <1>3 DEF Close
<1>4. ASSUME Write(e) PROVE LockIsUsedAt(e)'
  BY <1>4 DEF Write
<1>5. ASSUME WriteFails(e) PROVE LockIsUsedAt(e)'
  BY <1>5 DEF WriteFails
<1>6. ASSUME Read(e) PROVE LockIsUsedAt(e)'
  <2>1. Head(pipe[e]) # None
    BY <1>6, TailOf, PacketsAre DEF Read
  <2> QED
    BY <1>6, <2>1 DEF Read, Route
<1>7. ASSUME ReadFails(e) PROVE LockIsUsedAt(e)'
  BY <1>7 DEF ReadFails
<1>8. ASSUME Deliver(e) PROVE LockIsUsedAt(e)'
  BY <1>8 DEF Deliver, AfterNotify, AfterMatch
<1>9. ASSUME Match(e) PROVE LockIsUsedAt(e)'
  BY <1>9 DEF Match, AfterMatch
<1>10. ASSUME Dispatch(e) PROVE LockIsUsedAt(e)'
  <2>1. cur[e] # None /\ Packet("resp", cur[e].id, None) # None
    BY <1>10, Written, PacketsAre DEF Dispatch
  <2> QED
    BY <1>10, <2>1 DEF Dispatch, Begin
<1>11. ASSUME Send(e) PROVE LockIsUsedAt(e)'
  BY <1>11 DEF Send
<1>12. ASSUME End(e) PROVE LockIsUsedAt(e)'
  BY <1>12 DEF End
<1>13. ASSUME ServeCancelled(e) \/ ServeClosed(e) PROVE LockIsUsedAt(e)'
  BY <1>13 DEF ServeCancelled, ServeClosed
<1>14. ASSUME ServeRequest(e) PROVE LockIsUsedAt(e)'
  <2>1. Head(reqs[e]) # None
    BY <1>14, TailOf, PacketsAre DEF ServeRequest
  <2> QED
    BY <1>14, <2>1 DEF ServeRequest
<1>15. ASSUME ServeNotification(e) PROVE LockIsUsedAt(e)'
  BY <1>15 DEF ServeNotification
<1>16. ASSUME Respond(e) PROVE LockIsUsedAt(e)'
  <2>1. /\ Packet("resp", job[e].id, job[e].tag) # None
        /\ Packet("resp", job[e].id, job[e].tag).id = job[e].id
    BY <1>16, Written, PacketsAre DEF Respond
  <2> QED
    BY <1>16, <2>1 DEF Respond, Begin
<1> QED
  BY <1>1, <1>2, <1>3, <1>4, <1>5, <1>6, <1>7, <1>8, <1>9, <1>10, <1>11, <1>12, <1>13,
     <1>14, <1>15, <1>16
     DEF Step, Reader, Serve

\* No step makes two debts of one request, or forgets one.
LEMMA StepOwesOnce ==
  ASSUME TypeOK, NEW e \in Ends, LockIsUsedAt(e), OwesOnceAt(e), Step(e)
  PROVE  OwesOnceAt(e)'
<1> USE DEF TypeOK, LockIsUsedAt, OwesOnceAt, Put, wire, mutex, tables, queues, read, server, Unlock, Goto
<1>1. ASSUME NEW t \in Tags, Request(e, t) PROVE OwesOnceAt(e)'
  BY <1>1 DEF Request, Begin
<1>2. ASSUME Notify(e) PROVE OwesOnceAt(e)'
  BY <1>2 DEF Notify, Begin
<1>3. ASSUME Close(e) PROVE OwesOnceAt(e)'
  BY <1>3 DEF Close
<1>4. ASSUME Write(e) PROVE OwesOnceAt(e)'
  BY <1>4 DEF Write
<1>5. ASSUME WriteFails(e) PROVE OwesOnceAt(e)'
  BY <1>5 DEF WriteFails
<1>6. ASSUME Read(e) PROVE OwesOnceAt(e)'
  BY <1>6 DEF Read, Route
<1>7. ASSUME ReadFails(e) PROVE OwesOnceAt(e)'
  BY <1>7 DEF ReadFails
<1>8. ASSUME Deliver(e) PROVE OwesOnceAt(e)'
  <2>1. Len(notifs'[e]) <= Cap
    BY <1>8, AppendTo, IpcAssumption DEF Deliver
  <2> QED
    BY <1>8, <2>1 DEF Deliver, AfterNotify, AfterMatch
<1>9. ASSUME Match(e) PROVE OwesOnceAt(e)'
  BY <1>9 DEF Match, AfterMatch
<1>10. ASSUME Dispatch(e) PROVE OwesOnceAt(e)'
  BY <1>10 DEF Dispatch, Begin
<1>11. ASSUME Send(e) PROVE OwesOnceAt(e)'
  <2>1. cur[e] \in Packets
    BY <1>11 DEF Send
  <2>2. /\ Len(reqs'[e]) = Len(reqs[e]) + 1 /\ Len(reqs[e]) \in Nat
        /\ \A k \in 1 .. Len(reqs[e]) : reqs'[e][k] = reqs[e][k]
        /\ reqs'[e][Len(reqs[e]) + 1] = cur[e]
    BY <1>11, <2>1, AppendTo DEF Send
  <2>3. Len(reqs[e]) + 1 <= Cap
    BY <1>11, <2>2, IpcAssumption DEF Send
  <2> QED
    BY <1>11, <2>2, <2>3 DEF Send
<1>12. ASSUME End(e) PROVE OwesOnceAt(e)'
  BY <1>12 DEF End
<1>13. ASSUME ServeCancelled(e) \/ ServeClosed(e) PROVE OwesOnceAt(e)'
  BY <1>13 DEF ServeCancelled, ServeClosed
<1>14. ASSUME ServeRequest(e) PROVE OwesOnceAt(e)'
  <2>1. /\ Len(reqs'[e]) = Len(reqs[e]) - 1 /\ Len(reqs[e]) \in Nat \ {0}
        /\ \A k \in 1 .. Len(reqs'[e]) : k + 1 \in 1 .. Len(reqs[e]) /\ reqs'[e][k] = reqs[e][k + 1]
        /\ job'[e] = reqs[e][1]
    BY <1>14, TailOf DEF ServeRequest
  <2> QED
    BY <1>14, <2>1, IpcAssumption DEF ServeRequest
<1>15. ASSUME ServeNotification(e) PROVE OwesOnceAt(e)'
  <2>1. Len(notifs'[e]) <= Cap
    BY <1>15, TailOf, IpcAssumption DEF ServeNotification
  <2> QED
    BY <1>15, <2>1 DEF ServeNotification
<1>16. ASSUME Respond(e) PROVE OwesOnceAt(e)'
  BY <1>16 DEF Respond, Begin
<1> QED
  BY <1>1, <1>2, <1>3, <1>4, <1>5, <1>6, <1>7, <1>8, <1>9, <1>10, <1>11, <1>12, <1>13,
     <1>14, <1>15, <1>16
     DEF Step, Reader, Serve

\* No side of a connection opens again, and a reader ends when one is closed.
LEMMA StepEndsLast ==
  ASSUME TypeOK, NEW e \in Ends, LockIsUsedAt(e), EndsLast, Step(e)
  PROVE  EndsLast'
<1> USE DEF TypeOK, LockIsUsedAt, EndsLast, Put, wire, mutex, tables, queues, read, server, Unlock, Goto
<1> \A d \in Ends : Other(d) \in Ends
  BY Others
<1>1. ASSUME NEW t \in Tags, Request(e, t) PROVE EndsLast'
  BY <1>1 DEF Request, Begin
<1>2. ASSUME Notify(e) PROVE EndsLast'
  BY <1>2 DEF Notify, Begin
<1>3. ASSUME Close(e) PROVE EndsLast'
  BY <1>3 DEF Close
<1>4. ASSUME Write(e) PROVE EndsLast'
  BY <1>4 DEF Write
<1>5. ASSUME WriteFails(e) PROVE EndsLast'
  BY <1>5 DEF WriteFails
<1>6. ASSUME Read(e) PROVE EndsLast'
  BY <1>6 DEF Read, Route
<1>7. ASSUME ReadFails(e) PROVE EndsLast'
  BY <1>7 DEF ReadFails
<1>8. ASSUME Deliver(e) \/ Match(e) PROVE EndsLast'
  BY <1>8 DEF Deliver, Match, AfterNotify, AfterMatch
<1>9. ASSUME Dispatch(e) PROVE EndsLast'
  BY <1>9 DEF Dispatch, Begin
<1>10. ASSUME Send(e) \/ End(e) PROVE EndsLast'
  BY <1>10 DEF Send, End
<1>11. ASSUME Serve(e) PROVE EndsLast'
  <2>1. CASE ServeCancelled(e)
    BY <2>1 DEF ServeCancelled
  <2>2. CASE ServeRequest(e) \/ ServeClosed(e) \/ ServeNotification(e)
    BY <2>2 DEF ServeRequest, ServeClosed, ServeNotification
  <2>3. CASE Respond(e)
    BY <2>3 DEF Respond, Begin
  <2> QED
    BY <1>11, <2>1, <2>2, <2>3 DEF Serve
<1> QED
  BY <1>1, <1>2, <1>3, <1>4, <1>5, <1>6, <1>7, <1>8, <1>9, <1>10, <1>11 DEF Step, Reader

\* What OneExchange says of a client is about these, and about a reader and a
\* Serve that have something in hand.
Between(e) == <<outbox[e], pipe[e], pipe[Other(e)], lock[e], out[e], cur[e], serve[e],
                lock[Other(e)], out[Other(e)], cur[Other(e)],
                inbox[Other(e)], reqs[Other(e)], job[Other(e)]>>

LEMMA BetweenAt ==
  ASSUME NEW e \in Ends, NEW s, s = Other(e), GenuineAt(e), OnceAt(e), UNCHANGED Between(e),
         reader'[e] = reader[e] \/ reader'[e] \in {"read", "notify", "end", "done"},
         reader'[s] = reader[s] \/ reader'[s] \in {"read", "notify", "end", "done"},
         serve'[s] = serve[s] \/ serve'[s] \in {"select", "done"}
  PROVE  GenuineAt(e)' /\ OnceAt(e)'
<1>1. InRole(e)'
  BY DEF Between, GenuineAt, InRole, IsNote
<1>2. AsksAt(e)'
  BY DEF Between, GenuineAt, AsksAt, Genuine, IsNote
<1>3. AnswersAt(e)'
  BY DEF Between, GenuineAt, AnswersAt, Genuine, IsNote
<1>4. OnceAt(e)'
  BY DEF Between, OnceAt, InOnePlace, NoneTwice, Asked, Sent, Taken, Owed, Returning, Returned
<1> QED
  BY <1>1, <1>2, <1>3, <1>4 DEF GenuineAt

\* An exchange that is nowhere may begin, and one that is over be forgotten.
Nowhere(e, i) ==
  ~(Asked(e, i) \/ Sent(e, i) \/ Taken(e, i) \/ Owed(e, i) \/ Returning(e, i) \/ Returned(e, i))

\* What is between a client and its server besides the lock, the table and the
\* reader of the client.
Elsewhere(e) == <<pipe[e], pipe[Other(e)], cur[e], serve[e], lock[Other(e)],
                  out[Other(e)], reader[Other(e)], cur[Other(e)], inbox[Other(e)],
                  reqs[Other(e)], serve[Other(e)], job[Other(e)]>>

LEMMA PendingIsSomewhere ==
  ASSUME NEW e \in Ends, GenuineAt(e), lock[e] = "free", NEW i \in Ids, outbox[e][i] = None
  PROVE  Nowhere(e, i)
<1>1. 0 \notin Ids
  BY IpcAssumption DEF Ids
<1>2. ~Sent(e, i)
  BY <1>1 DEF Sent, GenuineAt, AsksAt, Genuine, IsNote
<1>3. ~Taken(e, i)
  BY DEF Taken, GenuineAt, AsksAt, Genuine
<1>4. ~Owed(e, i)
  BY DEF Owed, GenuineAt, AsksAt
<1>5. ~Returning(e, i)
  BY <1>1 DEF Returning, GenuineAt, AnswersAt, Genuine, IsNote
<1>6. ~Returned(e, i)
  BY DEF Returned, GenuineAt, AnswersAt, Genuine
<1> QED
  BY <1>2, <1>3, <1>4, <1>5, <1>6 DEF Nowhere, Asked

\* The table may change where no exchange is, but for the write of a request.
LEMMA TableAt ==
  ASSUME NEW e \in Ends, NEW s, s = Other(e), OwesOnceAt(s), GenuineAt(e), OnceAt(e),
         UNCHANGED Elsewhere(e),
         NEW i \in Ids, \A j \in Ids : j # i => outbox'[e][j] = outbox[e][j],
         ~(Sent(e, i) \/ Taken(e, i) \/ Owed(e, i) \/ Returning(e, i) \/ Returned(e, i)'),
         reader'[e] = reader[e] \/ reader'[e] = "read",
         \/ lock'[e] # "user"
         \/ lock'[e] = "user" /\ out'[e].id = i /\ Genuine(e, "req", out[e])'
  PROVE  GenuineAt(e)' /\ OnceAt(e)'
<1>1. 0 \notin Ids
  BY IpcAssumption DEF Ids
<1>2. InRole(e)'
  BY DEF Elsewhere, GenuineAt, InRole, IsNote
<1>3. \A k \in 1 .. Len(pipe'[s]) : IsNote(pipe'[s][k]) \/ Genuine(e, "req", pipe[s][k])'
  BY <1>1 DEF Elsewhere, GenuineAt, AsksAt, Genuine, IsNote, Sent
<1>4. reader'[s] \in {"dispatch", "send"} => Genuine(e, "req", cur[s])'
  BY DEF Elsewhere, GenuineAt, AsksAt, Genuine, Taken, Owed, OwesOnceAt
<1>5. \A k \in 1 .. Len(reqs'[s]) : Genuine(e, "req", reqs[s][k])'
  BY DEF Elsewhere, GenuineAt, AsksAt, Genuine, Owed, OwesOnceAt
<1>6. serve'[s] \in {"respond", "write"} => Genuine(e, "req", job[s])'
  BY DEF Elsewhere, GenuineAt, AsksAt, Genuine, Owed, OwesOnceAt
<1>7. \A j \in inbox'[s] : j \in Ids /\ outbox'[e][j] # None
  BY DEF Elsewhere, GenuineAt, AsksAt, Owed
<1>8. AsksAt(e)'
  BY <1>3, <1>4, <1>5, <1>6, <1>7 DEF AsksAt, IsNote
<1>9. AnswersAt(e)'
  BY <1>1 DEF Elsewhere, GenuineAt, AnswersAt, Genuine, IsNote, Returning, Returned
<1>10. NoneTwice(e)' /\ NoneTwice(s)'
  BY DEF Elsewhere, OnceAt, NoneTwice
<1>11. InOnePlace(e)'
  BY DEF Elsewhere, OnceAt, InOnePlace, Asked, Sent, Taken, Owed, Returning, Returned
<1> QED
  BY <1>2, <1>8, <1>9, <1>10, <1>11 DEF GenuineAt, OnceAt

\* A socket that takes a packet it does not hold, or gives one up, holds none twice.
LEMMA NotTwice ==
  ASSUME TypeOK, NEW d \in Ends, NoneTwice(d), NEW p \in Packets, pipe'[d] = Append(pipe[d], p),
         \A k \in 1 .. Len(pipe[d]) : p.id \in Ids => pipe[d][k].id # p.id
  PROVE  NoneTwice(d)'
<1>1. /\ Len(pipe'[d]) = Len(pipe[d]) + 1 /\ Len(pipe[d]) \in Nat
      /\ \A k \in 1 .. Len(pipe[d]) : pipe'[d][k] = pipe[d][k]
      /\ pipe'[d][Len(pipe[d]) + 1] = p
  BY AppendTo DEF TypeOK
<1> SUFFICES ASSUME NEW k \in 1 .. Len(pipe'[d]), NEW l \in 1 .. Len(pipe'[d]),
                    pipe'[d][k].id \in Ids, pipe'[d][k].id = pipe'[d][l].id
             PROVE  k = l
  BY DEF NoneTwice
<1>2. /\ k \in 1 .. Len(pipe[d]) \/ k = Len(pipe[d]) + 1
      /\ l \in 1 .. Len(pipe[d]) \/ l = Len(pipe[d]) + 1
  BY <1>1
<1>3. CASE k \in 1 .. Len(pipe[d]) /\ l \in 1 .. Len(pipe[d])
  BY <1>1, <1>3 DEF NoneTwice
<1>4. CASE k = Len(pipe[d]) + 1 /\ l \in 1 .. Len(pipe[d])
  BY <1>1, <1>4
<1>5. CASE l = Len(pipe[d]) + 1 /\ k \in 1 .. Len(pipe[d])
  BY <1>1, <1>5
<1> QED
  BY <1>2, <1>3, <1>4, <1>5

LEMMA NotTwiceLess ==
  ASSUME NEW d \in Ends, NoneTwice(d), Len(pipe[d]) \in Nat,
         \A k \in 1 .. Len(pipe'[d]) : k + 1 \in 1 .. Len(pipe[d]) /\ pipe'[d][k] = pipe[d][k + 1]
  PROVE  NoneTwice(d)'
<1> SUFFICES ASSUME NEW k \in 1 .. Len(pipe'[d]), NEW l \in 1 .. Len(pipe'[d]),
                    pipe'[d][k].id \in Ids, pipe'[d][k].id = pipe'[d][l].id
             PROVE  k = l
  BY DEF NoneTwice
<1>1. k + 1 = l + 1
  BY DEF NoneTwice
<1> QED
  BY <1>1

\* What a client does keeps its exchanges apart: it asks under an identifier
\* that is not pending, and frees one when no packet for it is left.
LEMMA ClientStep ==
  ASSUME TypeOK, NEW e \in Ends, NEW s, s = Other(e), IsClientOf(e),
         LockIsUsedAt(e), OwesOnceAt(s), GenuineAt(e), OnceAt(e), Step(e)
  PROVE  GenuineAt(e)' /\ OnceAt(e)'
<1>1. s \in Ends /\ s # e /\ e \notin Answerers /\ e \in Askers /\ 0 \notin Ids
  BY IpcAssumption DEF Ends, Other, Answerers, Askers, IsClientOf, Ids
<1> USE DEF Put, wire, mutex, tables, queues, read, server, Unlock, Goto
<1>2. ASSUME NEW t \in Tags, Request(e, t) PROVE GenuineAt(e)' /\ OnceAt(e)'
  <2>1. PICK i \in Ids : i = AssignId(e)
    BY Assigned
  <2>2. CASE outbox[e][i] # None
    BY <1>2, <2>1, <2>2, BetweenAt DEF Request, Between
  <2>3. CASE outbox[e][i] = None
    <3>1. /\ lock[e] = "free" /\ UNCHANGED Elsewhere(e) /\ reader'[e] = reader[e]
          /\ outbox'[e][i] = t /\ \A j \in Ids : j # i => outbox'[e][j] = outbox[e][j]
          /\ lock'[e] = "user" /\ out'[e] = Packet("req", i, t)
      BY <1>1, <1>2, <2>1, <2>3 DEF Request, Begin, TypeOK, Elsewhere
    <3>2. Genuine(e, "req", out[e])' /\ out'[e].id = i
      BY <3>1, IpcAssumption DEF Genuine, Packet
    <3>3. Nowhere(e, i)
      BY <2>3, <3>1, PendingIsSomewhere
    <3> QED
      BY <3>1, <3>2, <3>3, TableAt DEF Nowhere, Returned, Elsewhere
  <2> QED
    BY <2>2, <2>3
<1>3. ASSUME Notify(e) PROVE GenuineAt(e)' /\ OnceAt(e)'
  <2>1. /\ lock'[e] = "user" /\ out'[e] = Packet("notif", 0, None)
        /\ UNCHANGED Elsewhere(e) /\ reader'[e] = reader[e] /\ outbox'[e] = outbox[e]
    BY <1>1, <1>3 DEF Notify, Begin, TypeOK, Elsewhere
  <2>2. IsNote(out[e])' /\ out'[e].id = 0
    BY <2>1 DEF IsNote, Packet
  <2>3. InRole(e)'
    BY <2>1 DEF Elsewhere, GenuineAt, InRole, IsNote
  <2>4. AsksAt(e)'
    BY <2>1, <2>2 DEF Elsewhere, GenuineAt, AsksAt, Genuine, IsNote
  <2>5. AnswersAt(e)'
    BY <2>1 DEF Elsewhere, GenuineAt, AnswersAt, Genuine, IsNote
  <2>6. OnceAt(e)'
    BY <1>1, <2>1, <2>2
       DEF Elsewhere, OnceAt, InOnePlace, NoneTwice, Asked, Sent, Taken, Owed, Returning, Returned
  <2> QED
    BY <2>3, <2>4, <2>5, <2>6 DEF GenuineAt
<1>4. ASSUME Close(e) PROVE GenuineAt(e)' /\ OnceAt(e)'
  BY <1>4, BetweenAt DEF Close, Between
<1>5. ASSUME Write(e) PROVE GenuineAt(e)' /\ OnceAt(e)'
  <2>1. lock[e] = "user" /\ out[e] \in Packets
    BY <1>5 DEF Write, LockIsUsedAt, GenuineAt, InRole, TypeOK
  <2>2. /\ pipe'[s] = Append(pipe[s], out[e]) /\ pipe'[e] = pipe[e]
        /\ lock'[e] = "free" /\ outbox'[e] = outbox[e] /\ serve'[e] = serve[e]
        /\ reader'[e] = reader[e] /\ cur'[e] = cur[e] /\ lock'[s] = lock[s] /\ out'[s] = out[s]
        /\ reader'[s] = reader[s] /\ cur'[s] = cur[s] /\ inbox'[s] = inbox[s]
        /\ reqs'[s] = reqs[s] /\ serve'[s] = serve[s] /\ job'[s] = job[s]
    BY <1>1, <1>5, <2>1 DEF Write, TypeOK
  <2>3. /\ Len(pipe'[s]) = Len(pipe[s]) + 1 /\ Len(pipe[s]) \in Nat
        /\ \A k \in 1 .. Len(pipe[s]) : pipe'[s][k] = pipe[s][k]
        /\ pipe'[s][Len(pipe[s]) + 1] = out[e]
    BY <1>1, <2>1, <2>2, AppendTo DEF TypeOK
  <2>4. InRole(e)'
    BY <2>2 DEF GenuineAt, InRole, IsNote
  <2>5. \A k \in 1 .. Len(pipe'[s]) : IsNote(pipe'[s][k]) \/ Genuine(e, "req", pipe[s][k])'
    <3>1. ASSUME NEW k \in 1 .. Len(pipe[s])
          PROVE  IsNote(pipe'[s][k]) \/ Genuine(e, "req", pipe[s][k])'
      BY <2>2, <2>3 DEF GenuineAt, AsksAt, Genuine, IsNote
    <3>2. ASSUME NEW k, k = Len(pipe[s]) + 1
          PROVE  IsNote(pipe'[s][k]) \/ Genuine(e, "req", pipe[s][k])'
      BY <3>2, <2>1, <2>2, <2>3 DEF GenuineAt, AsksAt, Genuine, IsNote
    <3> QED
      BY <2>3, <3>1, <3>2
  <2>6. AsksAt(e)'
    BY <2>2, <2>5 DEF GenuineAt, AsksAt, Genuine, IsNote
  <2>7. AnswersAt(e)'
    BY <2>2 DEF GenuineAt, AnswersAt, Genuine, IsNote
  <2>8. out[e].id \in Ids => ~Sent(e, out[e].id) /\ Asked(e, out[e].id)
    BY <2>1 DEF OnceAt, InOnePlace, Asked
  <2>9. NoneTwice(s)'
    <3>1. \A k \in 1 .. Len(pipe[s]) : out[e].id \in Ids => pipe[s][k].id # out[e].id
      BY <2>8 DEF Sent
    <3> QED
      BY <1>1, <2>1, <2>2, <3>1, NotTwice DEF OnceAt
  <2>10. NoneTwice(e)'
    BY <2>2 DEF OnceAt, NoneTwice
  <2>11. \A i \in Ids : Sent(e, i)' => Sent(e, i) \/ Asked(e, i)
    BY <2>1, <2>3 DEF Sent, Asked
  <2>12. \A i \in Ids : /\ ~Asked(e, i)'
                       /\ Taken(e, i)' = Taken(e, i)
                       /\ Owed(e, i)' = Owed(e, i)
                       /\ Returning(e, i)' = Returning(e, i)
                       /\ Returned(e, i)' = Returned(e, i)
    BY <2>2 DEF Asked, Taken, Owed, Returning, Returned
  <2>13. InOnePlace(e)'
    BY <2>11, <2>12 DEF OnceAt, InOnePlace
  <2> QED
    BY <2>4, <2>6, <2>7, <2>9, <2>10, <2>13 DEF GenuineAt, OnceAt
<1>6. ASSUME WriteFails(e) PROVE GenuineAt(e)' /\ OnceAt(e)'
  <2>1. lock[e] = "user" /\ out[e] \in Packets
    BY <1>6 DEF WriteFails, LockIsUsedAt, GenuineAt, InRole, TypeOK
  <2>2. /\ lock'[e] = "free" /\ UNCHANGED Elsewhere(e) /\ reader'[e] = reader[e]
        /\ \A i \in Ids : i # out[e].id => outbox'[e][i] = outbox[e][i]
    BY <1>1, <1>6, <2>1 DEF WriteFails, TypeOK, Elsewhere
  <2>3. CASE IsNote(out[e])
    <3>1. outbox' = outbox
      BY <1>6, <2>3 DEF WriteFails, IsNote
    <3>2. GenuineAt(e)'
      BY <2>2, <3>1 DEF Elsewhere, GenuineAt, InRole, AsksAt, AnswersAt, Genuine, IsNote
    <3>3. OnceAt(e)'
      BY <2>2
         DEF Elsewhere, OnceAt, InOnePlace, NoneTwice, Asked, Sent, Taken, Owed, Returning, Returned
    <3> QED
      BY <3>2, <3>3
  <2>4. CASE Genuine(e, "req", out[e])
    <3>1. PICK i \in Ids : i = out[e].id
      BY <2>4 DEF Genuine
    <3>2. ~(Sent(e, i) \/ Taken(e, i) \/ Owed(e, i) \/ Returning(e, i) \/ Returned(e, i))
      BY <2>1, <3>1 DEF OnceAt, InOnePlace, Asked
    <3> QED
      BY <2>2, <3>1, <3>2, TableAt DEF Returned, Elsewhere
  <2> QED
    BY <2>1, <2>3, <2>4 DEF GenuineAt, AsksAt
<1>7. ASSUME Read(e) PROVE GenuineAt(e)' /\ OnceAt(e)'
  <2>1. /\ Len(pipe'[e]) = Len(pipe[e]) - 1 /\ Len(pipe[e]) \in Nat \ {0}
        /\ \A k \in 1 .. Len(pipe'[e]) : k + 1 \in 1 .. Len(pipe[e]) /\ pipe'[e][k] = pipe[e][k + 1]
        /\ cur'[e] = pipe[e][1] /\ reader'[e] = Route(e, pipe[e][1])
    BY <1>7, TailOf DEF Read, TypeOK
  <2>2. /\ pipe'[s] = pipe[s]
        /\ lock'[e] = lock[e] /\ out'[e] = out[e] /\ outbox'[e] = outbox[e] /\ serve'[e] = serve[e]
        /\ lock'[s] = lock[s] /\ out'[s] = out[s]
        /\ reader'[s] = reader[s] /\ cur'[s] = cur[s] /\ inbox'[s] = inbox[s]
        /\ reqs'[s] = reqs[s] /\ serve'[s] = serve[s] /\ job'[s] = job[s]
    BY <1>1, <1>7 DEF Read, TypeOK
  <2>3. \/ reader'[e] = "match" /\ Genuine(e, "resp", pipe[e][1])
        \/ reader'[e] = "notify"
    BY <1>1, <2>1 DEF GenuineAt, AnswersAt, Genuine, IsNote, Route
  <2>4. InRole(e)'
    BY <2>2, <2>3 DEF GenuineAt, InRole, IsNote
  <2>5. AsksAt(e)'
    BY <2>2 DEF GenuineAt, AsksAt, Genuine, IsNote
  <2>6. AnswersAt(e)'
    BY <2>1, <2>2, <2>3 DEF GenuineAt, AnswersAt, Genuine, IsNote
  <2>7. NoneTwice(e)'
    BY <2>1, NotTwiceLess DEF OnceAt
  <2>8. NoneTwice(s)'
    BY <2>2 DEF OnceAt, NoneTwice
  <2>9. \A i \in Ids : Returning(e, i)' \/ Returned(e, i)' => Returning(e, i)
    <3> SUFFICES ASSUME NEW i \in Ids, Returning(e, i)' \/ Returned(e, i)' PROVE Returning(e, i)
      OBVIOUS
    <3>1. CASE Returning(e, i)'
      <4>1. PICK k \in 1 .. Len(pipe'[e]) : pipe'[e][k].id = i
        BY <3>1 DEF Returning
      <4> QED
        BY <2>1, <4>1 DEF Returning
    <3>2. CASE Returned(e, i)'
      <4>1. 1 \in 1 .. Len(pipe[e]) /\ pipe[e][1].id = i
        BY <2>1, <3>2 DEF Returned
      <4> QED
        BY <4>1 DEF Returning
    <3> QED
      BY <3>1, <3>2
  <2>10. \A i \in Ids : Returned(e, i)' => ~Returning(e, i)'
    <3> SUFFICES ASSUME NEW i \in Ids, Returned(e, i)', NEW k \in 1 .. Len(pipe'[e]),
                        pipe'[e][k].id = i
                 PROVE  FALSE
      BY DEF Returning
    <3>1. pipe[e][1].id = i /\ pipe[e][k + 1].id = i /\ 1 \in 1 .. Len(pipe[e]) /\ k + 1 # 1
      BY <2>1 DEF Returned
    <3> QED
      BY <2>1, <3>1 DEF OnceAt, NoneTwice
  <2>11. InOnePlace(e)'
    BY <2>2, <2>9, <2>10 DEF OnceAt, InOnePlace, Asked, Sent, Taken, Owed
  <2> QED
    BY <2>4, <2>5, <2>6, <2>7, <2>8, <2>11 DEF GenuineAt, OnceAt
<1>8. ASSUME ReadFails(e) \/ Deliver(e) \/ End(e) PROVE GenuineAt(e)' /\ OnceAt(e)'
  BY <1>1, <1>8, BetweenAt DEF ReadFails, Deliver, End, AfterNotify, AfterMatch, IsClientOf, Between, TypeOK
<1>9. ASSUME Match(e) PROVE GenuineAt(e)' /\ OnceAt(e)'
  <2>1. PICK i \in Ids : i = cur[e].id
    BY <1>9 DEF Match, GenuineAt, AnswersAt, Genuine
  <2>2. /\ lock[e] = "free" /\ lock'[e] = "free" /\ reader'[e] = "read" /\ UNCHANGED Elsewhere(e)
        /\ \A j \in Ids : j # i => outbox'[e][j] = outbox[e][j]
    BY <1>1, <1>9, <2>1 DEF Match, AfterMatch, IsClientOf, TypeOK, Elsewhere
  <2>3. ~(Sent(e, i) \/ Taken(e, i) \/ Owed(e, i) \/ Returning(e, i))
    BY <1>9, <2>1 DEF Match, OnceAt, InOnePlace, Returned
  <2>4. ~Returned(e, i)'
    BY <2>2 DEF Returned
  <2> QED
    BY <2>2, <2>3, <2>4, TableAt
<1>10. ASSUME Dispatch(e) \/ Send(e) PROVE GenuineAt(e)' /\ OnceAt(e)'
  BY <1>10 DEF Dispatch, Send, GenuineAt, InRole
<1>11. ASSUME Serve(e) PROVE GenuineAt(e)' /\ OnceAt(e)'
  BY <1>11
     DEF Serve, ServeCancelled, ServeRequest, ServeClosed, ServeNotification, Respond, GenuineAt, InRole
<1> QED
  BY <1>2, <1>3, <1>4, <1>5, <1>6, <1>7, <1>8, <1>9, <1>10, <1>11 DEF Step, Reader

\* What a server does keeps them apart: it takes a request from the socket once,
\* registers it, and forgets it as the answer leaves; so it never refuses one.
LEMMA ServerStep ==
  ASSUME TypeOK, NEW e \in Ends, NEW s, s = Other(e), IsClientOf(e),
         LockIsUsedAt(s), OwesOnceAt(s), GenuineAt(e), OnceAt(e), Step(s)
  PROVE  GenuineAt(e)' /\ OnceAt(e)'
<1>1. /\ s \in Ends /\ s # e /\ s \notin Askers /\ s \in Answerers /\ 0 \notin Ids
      /\ Other(s) = e
  BY IpcAssumption DEF Ends, Other, Answerers, Askers, IsClientOf, Ids
<1> USE DEF Put, wire, mutex, tables, queues, read, server, Unlock, Goto
<1>2. ASSUME NEW t \in Tags, Request(s, t) PROVE GenuineAt(e)' /\ OnceAt(e)'
  BY <1>1, <1>2 DEF Request
<1>3. ASSUME Notify(s) PROVE GenuineAt(e)' /\ OnceAt(e)'
  <2>1. /\ lock'[s] = "user" /\ out'[s] = Packet("notif", 0, None) /\ lock[s] = "free"
        /\ outbox' = outbox /\ pipe' = pipe /\ reader' = reader /\ cur' = cur /\ inbox' = inbox
        /\ reqs' = reqs /\ serve' = serve /\ job' = job
        /\ lock'[e] = lock[e] /\ out'[e] = out[e]
    BY <1>1, <1>3 DEF Notify, Begin, TypeOK
  <2>2. IsNote(out[s])'
    BY <2>1 DEF IsNote, Packet
  <2>3. InRole(e)'
    BY <2>1, <2>2 DEF GenuineAt, InRole, IsNote, LockIsUsedAt
  <2>4. AsksAt(e)' /\ AnswersAt(e)'
    BY <2>1 DEF GenuineAt, AsksAt, AnswersAt, Genuine, IsNote
  <2>5. OnceAt(e)'
    BY <2>1 DEF OnceAt, InOnePlace, NoneTwice, Asked, Sent, Taken, Owed, Returning, Returned
  <2> QED
    BY <2>3, <2>4, <2>5 DEF GenuineAt
<1>4. ASSUME Close(s) PROVE GenuineAt(e)' /\ OnceAt(e)'
  BY <1>1, <1>4 DEF Close
<1>5. ASSUME Write(s) PROVE GenuineAt(e)' /\ OnceAt(e)'
  <2>1. out[s] \in Packets /\ lock[s] \in {"user", "serve"}
    BY <1>1, <1>5 DEF Write, LockIsUsedAt, GenuineAt, InRole, TypeOK
  <2>2. /\ pipe'[e] = Append(pipe[e], out[s]) /\ pipe'[s] = pipe[s]
        /\ lock'[s] = "free" /\ outbox' = outbox /\ reqs' = reqs /\ job' = job /\ cur' = cur
        /\ lock'[e] = lock[e] /\ out'[e] = out[e] /\ serve'[e] = serve[e] /\ reader' = reader
    BY <1>1, <1>5, <2>1 DEF Write, TypeOK
  <2>3. /\ Len(pipe'[e]) = Len(pipe[e]) + 1 /\ Len(pipe[e]) \in Nat
        /\ \A k \in 1 .. Len(pipe[e]) : pipe'[e][k] = pipe[e][k]
        /\ pipe'[e][Len(pipe[e]) + 1] = out[s]
    BY <1>1, <2>1, <2>2, AppendTo DEF TypeOK
  <2>4. \/ lock[s] = "user" /\ IsNote(out[s]) /\ inbox' = inbox /\ serve' = serve
        \/ /\ lock[s] = "serve" /\ Genuine(e, "resp", out[s]) /\ Owed(e, out[s].id)
           /\ serve'[s] = "select" /\ inbox'[s] = inbox[s] \ {out[s].id}
    <3>1. CASE lock[s] = "user"
      BY <1>1, <1>5, <3>1 DEF Write, GenuineAt, InRole
    <3>2. CASE lock[s] = "serve"
      <4>1. serve[s] = "write" /\ out[s] = Packet("resp", job[s].id, job[s].tag)
        BY <1>1, <3>2 DEF LockIsUsedAt, GenuineAt, InRole
      <4>2. Genuine(e, "resp", out[s]) /\ Owed(e, out[s].id)
        BY <4>1 DEF GenuineAt, AsksAt, Genuine, OwesOnceAt, Owed, Packet
      <4> QED
        BY <1>1, <1>5, <3>2, <4>2 DEF Write, TypeOK
    <3> QED
      BY <2>1, <3>1, <3>2
  <2>5. InRole(e)'
    BY <2>2, <2>4 DEF GenuineAt, InRole, IsNote, LockIsUsedAt
  <2>6. AsksAt(e)'
    BY <2>2, <2>4 DEF GenuineAt, AsksAt, Genuine, IsNote
  <2>7. AnswersAt(e)'
    BY <2>2, <2>3, <2>4 DEF GenuineAt, AnswersAt, Genuine, IsNote
  <2>8. \A i \in Ids : i = out[s].id => Owed(e, i) /\ ~Returning(e, i)
    BY <1>1, <2>4 DEF OnceAt, InOnePlace, IsNote
  <2>9. NoneTwice(e)'
    <3>1. \A k \in 1 .. Len(pipe[e]) : out[s].id \in Ids => pipe[e][k].id # out[s].id
      BY <2>8 DEF Returning
    <3> QED
      BY <2>1, <2>2, <3>1, NotTwice DEF OnceAt
  <2>10. NoneTwice(s)'
    BY <2>2 DEF OnceAt, NoneTwice
  <2>11. \A i \in Ids : Returning(e, i)' => Returning(e, i) \/ (i = out[s].id /\ ~Owed(e, i)')
    BY <1>1, <2>3, <2>4 DEF Returning, Owed, IsNote
  <2>12. \A i \in Ids : Owed(e, i)' => Owed(e, i)
    BY <2>4 DEF Owed
  <2>13. InOnePlace(e)'
    BY <2>2, <2>8, <2>11, <2>12 DEF OnceAt, InOnePlace, Asked, Sent, Taken, Returned
  <2> QED
    BY <2>5, <2>6, <2>7, <2>9, <2>10, <2>13 DEF GenuineAt, OnceAt
<1>6. ASSUME WriteFails(s) PROVE GenuineAt(e)' /\ OnceAt(e)'
  <2>1. /\ out[s] # None /\ lock[s] # "reader" /\ out[s].kind # "req"
    BY <1>1, <1>6 DEF WriteFails, LockIsUsedAt, GenuineAt, InRole, IsNote, Packet, TypeOK
  <2>2. /\ outbox' = outbox /\ pipe' = pipe /\ reader' = reader /\ cur' = cur /\ inbox' = inbox
        /\ reqs' = reqs /\ job' = job /\ serve'[e] = serve[e] /\ lock'[s] = "free"
        /\ lock'[e] = lock[e] /\ out'[e] = out[e]
        /\ (serve'[s] = serve[s] /\ serve[s] # "write") \/ serve'[s] = "done"
    BY <1>1, <1>6, <2>1 DEF WriteFails, TypeOK, LockIsUsedAt
  <2>3. InRole(e)'
    BY <2>2 DEF GenuineAt, InRole, IsNote
  <2>4. AsksAt(e)' /\ AnswersAt(e)'
    BY <2>2 DEF GenuineAt, AsksAt, AnswersAt, Genuine, IsNote
  <2>5. OnceAt(e)'
    BY <2>2 DEF OnceAt, InOnePlace, NoneTwice, Asked, Sent, Taken, Owed, Returning, Returned
  <2> QED
    BY <2>3, <2>4, <2>5 DEF GenuineAt
<1>7. ASSUME Read(s) PROVE GenuineAt(e)' /\ OnceAt(e)'
  <2>1. /\ Len(pipe'[s]) = Len(pipe[s]) - 1 /\ Len(pipe[s]) \in Nat \ {0}
        /\ \A k \in 1 .. Len(pipe'[s]) : k + 1 \in 1 .. Len(pipe[s]) /\ pipe'[s][k] = pipe[s][k + 1]
        /\ cur'[s] = pipe[s][1] /\ reader'[s] = Route(s, pipe[s][1])
    BY <1>1, <1>7, TailOf DEF Read, TypeOK
  <2>2. /\ pipe'[e] = pipe[e] /\ lock' = lock /\ out' = out /\ outbox' = outbox /\ serve' = serve
        /\ reader'[e] = reader[e] /\ cur'[e] = cur[e] /\ inbox' = inbox
        /\ reqs' = reqs /\ job' = job /\ reader[s] = "read"
    BY <1>1, <1>7 DEF Read, TypeOK
  <2>3. \/ reader'[s] = "dispatch" /\ Genuine(e, "req", pipe[s][1])
        \/ reader'[s] = "notify"
    BY <1>1, <2>1 DEF GenuineAt, AsksAt, Genuine, IsNote, Route
  <2>4. InRole(e)'
    BY <2>2, <2>3 DEF GenuineAt, InRole, IsNote
  <2>5. \A k \in 1 .. Len(pipe'[s]) : IsNote(pipe'[s][k]) \/ Genuine(e, "req", pipe[s][k])'
    <3> SUFFICES ASSUME NEW k \in 1 .. Len(pipe'[s])
                 PROVE  IsNote(pipe'[s][k]) \/ Genuine(e, "req", pipe[s][k])'
      OBVIOUS
    <3>1. IsNote(pipe[s][k + 1]) \/ Genuine(e, "req", pipe[s][k + 1])
      BY <2>1 DEF GenuineAt, AsksAt
    <3> QED
      BY <2>1, <2>2, <3>1 DEF Genuine, IsNote
  <2>6. AsksAt(e)'
    BY <2>1, <2>2, <2>3, <2>5 DEF GenuineAt, AsksAt, Genuine, IsNote
  <2>7. AnswersAt(e)'
    BY <2>2 DEF GenuineAt, AnswersAt, Genuine, IsNote
  <2>8. NoneTwice(s)'
    BY <1>1, <2>1, NotTwiceLess DEF OnceAt
  <2>9. NoneTwice(e)'
    BY <2>2 DEF OnceAt, NoneTwice
  <2>10. \A i \in Ids : Sent(e, i)' \/ Taken(e, i)' => Sent(e, i)
    <3> SUFFICES ASSUME NEW i \in Ids, Sent(e, i)' \/ Taken(e, i)' PROVE Sent(e, i)
      OBVIOUS
    <3>1. CASE Sent(e, i)'
      <4>1. PICK k \in 1 .. Len(pipe'[s]) : pipe'[s][k].id = i
        BY <3>1 DEF Sent
      <4> QED
        BY <2>1, <4>1 DEF Sent
    <3>2. CASE Taken(e, i)'
      <4>1. 1 \in 1 .. Len(pipe[s]) /\ pipe[s][1].id = i
        BY <2>1, <3>2 DEF Taken
      <4> QED
        BY <4>1 DEF Sent
    <3> QED
      BY <3>1, <3>2
  <2>11. \A i \in Ids : Taken(e, i)' => ~Sent(e, i)'
    <3> SUFFICES ASSUME NEW i \in Ids, Taken(e, i)', NEW k \in 1 .. Len(pipe'[s]),
                        pipe'[s][k].id = i
                 PROVE  FALSE
      BY DEF Sent
    <3>1. pipe[s][1].id = i /\ pipe[s][k + 1].id = i /\ 1 \in 1 .. Len(pipe[s]) /\ k + 1 # 1
      BY <2>1 DEF Taken
    <3> QED
      BY <2>1, <3>1 DEF OnceAt, NoneTwice
  <2>12. InOnePlace(e)'
    BY <2>2, <2>10, <2>11 DEF OnceAt, InOnePlace, Asked, Owed, Returning, Returned
  <2> QED
    BY <2>4, <2>6, <2>7, <2>8, <2>9, <2>12 DEF GenuineAt, OnceAt
<1>8. ASSUME ReadFails(s) \/ Deliver(s) \/ End(s) PROVE GenuineAt(e)' /\ OnceAt(e)'
  BY <1>1, <1>8, BetweenAt DEF ReadFails, Deliver, End, AfterNotify, AfterMatch, IsClientOf, Between, TypeOK
<1>9. ASSUME Match(s) PROVE GenuineAt(e)' /\ OnceAt(e)'
  BY <1>9 DEF Match, GenuineAt, InRole
<1>10. ASSUME Dispatch(s) PROVE GenuineAt(e)' /\ OnceAt(e)'
  <2>1. PICK i \in Ids : i = cur[s].id /\ Taken(e, i) /\ Genuine(e, "req", cur[s])
    BY <1>10 DEF Dispatch, GenuineAt, AsksAt, Genuine, Taken
  <2>2. ~Owed(e, i) /\ ~Returning(e, i) /\ ~Returned(e, i) /\ ~Sent(e, i) /\ ~Asked(e, i)
    BY <2>1 DEF OnceAt, InOnePlace
  <2>3. /\ pipe' = pipe /\ outbox' = outbox /\ serve' = serve /\ reqs' = reqs /\ job' = job
        /\ cur' = cur /\ lock'[e] = lock[e] /\ out'[e] = out[e] /\ reader'[e] = reader[e]
        /\ lock[s] = "free" /\ lock'[s] = "reader" /\ reader'[s] = "send"
        /\ inbox'[s] = inbox[s] \cup {i}
    BY <1>1, <1>10, <2>1, <2>2 DEF Dispatch, Begin, TypeOK, Owed
  <2>4. InRole(e)'
    BY <2>3 DEF GenuineAt, InRole, IsNote, LockIsUsedAt
  <2>5. AsksAt(e)'
    BY <2>1, <2>3 DEF GenuineAt, AsksAt, Genuine, IsNote
  <2>6. AnswersAt(e)'
    BY <2>3 DEF GenuineAt, AnswersAt, Genuine, IsNote
  <2>7. OnceAt(e)'
    BY <2>2, <2>3 DEF OnceAt, InOnePlace, NoneTwice, Asked, Sent, Taken, Owed, Returning, Returned
  <2> QED
    BY <2>4, <2>5, <2>6, <2>7 DEF GenuineAt
<1>11. ASSUME Send(s) PROVE GenuineAt(e)' /\ OnceAt(e)'
  <2>1. /\ Len(reqs'[s]) = Len(reqs[s]) + 1 /\ Len(reqs[s]) \in Nat
        /\ \A k \in 1 .. Len(reqs[s]) : reqs'[s][k] = reqs[s][k]
        /\ reqs'[s][Len(reqs[s]) + 1] = cur[s]
    BY <1>1, <1>11, AppendTo DEF Send, TypeOK, LockIsUsedAt
  <2>2. /\ pipe' = pipe /\ outbox' = outbox /\ serve' = serve /\ inbox' = inbox /\ job' = job
        /\ cur' = cur /\ lock'[e] = lock[e] /\ out'[e] = out[e] /\ reader'[e] = reader[e]
        /\ lock'[s] = "free" /\ reader[s] = "send" /\ reader'[s] = "read" /\ serve[s] # "write"
    BY <1>1, <1>11 DEF Send, TypeOK, LockIsUsedAt
  <2>3. InRole(e)'
    BY <2>2 DEF GenuineAt, InRole, IsNote
  <2>4. \A k \in 1 .. Len(reqs'[s]) : Genuine(e, "req", reqs[s][k])'
    <3>1. ASSUME NEW k \in 1 .. Len(reqs[s]) PROVE Genuine(e, "req", reqs[s][k])'
      BY <2>1, <2>2 DEF GenuineAt, AsksAt, Genuine
    <3>2. ASSUME NEW k, k = Len(reqs[s]) + 1 PROVE Genuine(e, "req", reqs[s][k])'
      BY <3>2, <2>1, <2>2 DEF GenuineAt, AsksAt, Genuine
    <3> QED
      BY <2>1, <3>1, <3>2
  <2>5. AsksAt(e)'
    BY <2>2, <2>4 DEF GenuineAt, AsksAt, Genuine, IsNote
  <2>6. AnswersAt(e)'
    BY <2>2 DEF GenuineAt, AnswersAt, Genuine, IsNote
  <2>7. OnceAt(e)'
    BY <2>2 DEF OnceAt, InOnePlace, NoneTwice, Asked, Sent, Taken, Owed, Returning, Returned
  <2> QED
    BY <2>3, <2>5, <2>6, <2>7 DEF GenuineAt
<1>12. ASSUME ServeCancelled(s) \/ ServeClosed(s) \/ ServeNotification(s)
       PROVE  GenuineAt(e)' /\ OnceAt(e)'
  BY <1>1, <1>12, BetweenAt DEF ServeCancelled, ServeClosed, ServeNotification, Between, TypeOK
<1>13. ASSUME ServeRequest(s) PROVE GenuineAt(e)' /\ OnceAt(e)'
  <2>1. /\ Len(reqs'[s]) = Len(reqs[s]) - 1 /\ Len(reqs[s]) \in Nat \ {0}
        /\ \A k \in 1 .. Len(reqs'[s]) : k + 1 \in 1 .. Len(reqs[s]) /\ reqs'[s][k] = reqs[s][k + 1]
        /\ job'[s] = reqs[s][1]
    BY <1>1, <1>13, TailOf DEF ServeRequest, TypeOK
  <2>2. /\ pipe' = pipe /\ outbox' = outbox /\ inbox' = inbox /\ cur' = cur /\ lock' = lock
        /\ out' = out /\ reader' = reader /\ serve'[e] = serve[e] /\ serve'[s] = "respond"
    BY <1>1, <1>13 DEF ServeRequest, TypeOK
  <2>3. InRole(e)'
    BY <2>2 DEF GenuineAt, InRole, IsNote
  <2>4. \A k \in 1 .. Len(reqs'[s]) : Genuine(e, "req", reqs[s][k])'
    BY <2>1, <2>2 DEF GenuineAt, AsksAt, Genuine
  <2>5. Genuine(e, "req", job[s])'
    BY <2>1, <2>2 DEF GenuineAt, AsksAt, Genuine
  <2>6. AsksAt(e)'
    BY <2>2, <2>4, <2>5 DEF GenuineAt, AsksAt, Genuine, IsNote
  <2>7. AnswersAt(e)'
    BY <2>2 DEF GenuineAt, AnswersAt, Genuine, IsNote
  <2>8. OnceAt(e)'
    BY <2>2 DEF OnceAt, InOnePlace, NoneTwice, Asked, Sent, Taken, Owed, Returning, Returned
  <2> QED
    BY <2>3, <2>6, <2>7, <2>8 DEF GenuineAt
<1>14. ASSUME Respond(s) PROVE GenuineAt(e)' /\ OnceAt(e)'
  <2>1. job[s].id \in inbox[s] /\ job[s].id # 0
    BY <1>1, <1>14 DEF Respond, GenuineAt, AsksAt, Genuine, OwesOnceAt
  <2>2. /\ pipe' = pipe /\ outbox' = outbox /\ inbox' = inbox /\ cur' = cur /\ reqs' = reqs
        /\ job' = job /\ reader' = reader /\ lock'[e] = lock[e] /\ out'[e] = out[e]
        /\ serve'[e] = serve[e] /\ serve[s] = "respond" /\ serve'[s] = "write"
        /\ lock'[s] = "serve" /\ out'[s] = Packet("resp", job[s].id, job[s].tag)
    BY <1>1, <1>14, <2>1 DEF Respond, Begin, TypeOK
  <2>3. InRole(e)'
    BY <2>2 DEF GenuineAt, InRole, IsNote
  <2>4. AsksAt(e)'
    BY <2>2 DEF GenuineAt, AsksAt, Genuine, IsNote
  <2>5. AnswersAt(e)'
    BY <2>2 DEF GenuineAt, AnswersAt, Genuine, IsNote
  <2>6. OnceAt(e)'
    BY <2>2 DEF OnceAt, InOnePlace, NoneTwice, Asked, Sent, Taken, Owed, Returning, Returned
  <2> QED
    BY <2>3, <2>4, <2>5, <2>6 DEF GenuineAt
<1> QED
  BY <1>2, <1>3, <1>4, <1>5, <1>6, <1>7, <1>8, <1>9, <1>10, <1>11, <1>12, <1>13, <1>14
     DEF Step, Reader, Serve

\* The invariant is inductive.
LEMMA NextIInv == IInv /\ [Next]_vars => IInv'
<1> SUFFICES ASSUME IInv, [Next]_vars PROVE IInv'
  OBVIOUS
<1>1. TypeOK /\ TypeOK'
  BY NextTypeOK DEF IInv
<1>2. CASE \E e \in Ends : Step(e)
  <2>1. PICK e \in Ends : Step(e)
    BY <1>2
  <2>2. LockIsUsedAt(e) /\ OwesOnceAt(e)
    BY DEF IInv, LockIsUsed, OwesOnce
  <2>3. LockIsUsedAt(e)' /\ OwesOnceAt(e)'
    BY <1>1, <2>1, <2>2, StepLockIsUsed, StepOwesOnce
  <2>4. ASSUME NEW d \in Ends, d # e PROVE LockIsUsedAt(d)' /\ OwesOnceAt(d)'
    <3>1. UNCHANGED Local(d)
      BY <1>1, <2>1, <2>4, StepIsLocal
    <3> QED
      BY <3>1, LocalAt DEF IInv, LockIsUsed, OwesOnce
  <2>5. EndsLast'
    BY <1>1, <2>1, <2>2, StepEndsLast DEF IInv
  <2>6. ASSUME NEW c \in Ends, IsClientOf(c) PROVE GenuineAt(c)' /\ OnceAt(c)'
    <3>1. /\ GenuineAt(c) /\ OnceAt(c) /\ LockIsUsedAt(c) /\ LockIsUsedAt(Other(c))
          /\ OwesOnceAt(Other(c)) /\ (e = c \/ e = Other(c))
      BY <2>6, Others DEF IInv, LockIsUsed, OwesOnce, OneExchange, Ends, Other
    <3> QED
      BY <1>1, <2>1, <2>6, <3>1, ClientStep, ServerStep
  <2> QED
    BY <1>1, <2>3, <2>4, <2>5, <2>6 DEF IInv, LockIsUsed, OwesOnce, OneExchange
<1>3. CASE Cancel \/ UNCHANGED vars
  <2>1. ASSUME NEW d \in Ends PROVE LockIsUsedAt(d)' /\ OwesOnceAt(d)'
    <3>1. UNCHANGED Local(d)
      BY <1>3 DEF Cancel, vars, wire, mutex, tables, queues, read, server, Local
    <3> QED
      BY <3>1, LocalAt DEF IInv, LockIsUsed, OwesOnce
  <2>2. EndsLast'
    BY <1>3 DEF Cancel, vars, wire, read, IInv, EndsLast
  <2>3. ASSUME NEW c \in Ends, IsClientOf(c) PROVE GenuineAt(c)' /\ OnceAt(c)'
    <3>1. UNCHANGED Between(c) /\ reader' = reader /\ serve' = serve
      BY <1>3 DEF Cancel, vars, wire, mutex, tables, queues, read, server, Between
    <3> QED
      BY <2>3, <3>1, BetweenAt DEF IInv, OneExchange
  <2> QED
    BY <1>1, <2>1, <2>2, <2>3 DEF IInv, LockIsUsed, OwesOnce, OneExchange
<1> QED
  BY <1>2, <1>3 DEF Next, Step

\* Every end keeps the discipline of its lock, and owes one answer to every
\* request it has taken, whatever the other end sends (base_server.go,
\* base_peer.go): Respond never meets "no incoming request is pending this
\* response" but for a notification that a peer took for a request.
THEOREM Disciplined == Spec => []IInv
<1>1. Init => IInv
  BY InitIInv
<1>2. IInv /\ [Next]_vars => IInv'
  BY NextIInv
<1> QED
  BY <1>1, <1>2, PTL DEF Spec

\* The table of an end changes by its own Request, Match and failed writes.
LEMMA TableChanges ==
  ASSUME TypeOK, [Next]_vars, NEW e \in Ends, outbox'[e] # outbox[e]
  PROVE  (\E t \in Tags : Request(e, t)) \/ Match(e) \/ WriteFails(e)
<1> USE DEF wire, mutex, tables, queues, read, server
<1>1. PICK d \in Ends : Step(d)
  BY DEF Next, Step, Cancel, vars
<1>2. (\E t \in Tags : Request(d, t)) \/ Match(d) \/ WriteFails(d)
  BY <1>1
     DEF Step, Reader, Serve, Notify, Close, Write, Read, ReadFails, Deliver, Dispatch, Send, End,
         ServeCancelled, ServeRequest, ServeClosed, ServeNotification, Respond
<1>3. d = e
  BY <1>2 DEF TypeOK, Request, Match, WriteFails, Put
<1> QED
  BY <1>2, <1>3

\* A client matches genuine answers, and a server asks nothing.
LEMMA StepAnswersMatch ==
  ASSUME IInv, [Next]_vars, NEW c \in Ends, IsClientOf(c), NEW e \in Ends, NEW i \in Ids,
         outbox[e][i] # None, outbox'[e][i] # outbox[e][i]
  PROVE  \/ reader[e] = "match" /\ cur[e] = Packet("resp", i, outbox[e][i])
         \/ lock[e] = "user" /\ out[e] = Packet("req", i, outbox[e][i]) /\ outbox'[e][i] = None
<1>1. /\ TypeOK /\ LockIsUsedAt(e) /\ GenuineAt(c) /\ (e = c \/ e = Other(c))
  BY DEF IInv, LockIsUsed, OneExchange, Ends, Other
<1>2. \A p \in Packets : \A kind, t : p.kind = kind /\ p.tag = t => p = Packet(kind, p.id, t)
  BY DEF Packets, Packet
<1>3. ASSUME NEW t \in Tags, Request(e, t) PROVE FALSE
  <2>1. AssignId(e) \in Ids
    BY <1>1, Assigned
  <2> QED
    BY <1>1, <1>3, <2>1 DEF Request, TypeOK
<1>4. CASE Match(e)
  <2>1. e = c
    BY <1>1, <1>4 DEF Match, GenuineAt, InRole
  <2>2. reader[e] = "match" /\ cur[e].id = i /\ cur[e] \in Packets
    BY <1>1, <1>4 DEF Match, TypeOK, LockIsUsedAt
  <2> QED
    BY <1>1, <1>2, <2>1, <2>2 DEF GenuineAt, AnswersAt, Genuine
<1>5. CASE WriteFails(e)
  <2>1. out[e] \in Packets /\ out[e].kind = "req" /\ out[e].id = i /\ outbox'[e][i] = None
    BY <1>1, <1>5 DEF WriteFails, TypeOK
  <2>2. e = c
    BY <1>1, <1>5, <2>1 DEF WriteFails, GenuineAt, InRole, LockIsUsedAt, IsNote, Packet, TypeOK
  <2>3. lock[e] = "user" /\ Genuine(e, "req", out[e])
    BY <1>1, <1>5, <2>1, <2>2
       DEF WriteFails, GenuineAt, InRole, AsksAt, LockIsUsedAt, IsNote, TypeOK
  <2> QED
    BY <1>2, <2>1, <2>3 DEF Genuine
<1> QED
  BY <1>1, <1>3, <1>4, <1>5, TableChanges

\* Between a client and a server every request gets the answer to what it asked
\* and no other's, however often identifiers wrap around (base_client.go:
\* assignID, matchResp; base_server.go: dispatchReq, Respond).  Two peers would
\* not do: they answer answers.
THEOREM AnswersBelong == (\E c \in Ends : IsClientOf(c)) => (Spec => AnswersMatch)
<1> SUFFICES ASSUME NEW c \in Ends, IsClientOf(c) PROVE Spec => AnswersMatch
  OBVIOUS
<1>1. IInv /\ [Next]_vars =>
        [\A e \in Ends, i \in Ids : outbox[e][i] # None /\ outbox'[e][i] # outbox[e][i] =>
           \/ reader[e] = "match" /\ cur[e] = Packet("resp", i, outbox[e][i])
           \/ lock[e] = "user" /\ out[e] = Packet("req", i, outbox[e][i]) /\ outbox'[e][i] = None
        ]_vars
  BY StepAnswersMatch
<1> QED
  BY <1>1, Disciplined, PTL DEF Spec, AnswersMatch
=============================================================================
