-------------------------------- MODULE Ipc --------------------------------
(***************************************************************************)
(* plugin/ctl/ipc and plugin/ctl/server.go: the two ends of one control    *)
(* connection.                                                             *)
(*                                                                         *)
(* Every end has a lock, a reader goroutine, a table of the requests it    *)
(* has sent (outbox) and of those it owes an answer (inbox), and bounded   *)
(* queues between the reader and its user.  Request, Notify and Respond    *)
(* write to the socket with the lock held, and a write waits while the     *)
(* socket is full; the reader takes the lock to match an answer, and sends *)
(* a request on a bounded queue while it holds it.  Server.Serve is the    *)
(* user of a server.                                                       *)
(*                                                                         *)
(* A client only asks, a server only answers, a peer does both.  Both ends *)
(* are built from this repository and use one codec, so that every body    *)
(* can be parsed.  The channel of a request has room for its one answer:   *)
(* taking it there concerns nobody else and is left out.                   *)
(***************************************************************************)
EXTENDS Naturals, Sequences, FiniteSets

CONSTANTS
  Role,       \* of each end: client, server or peer
  Tags,       \* what a request asks and its answer repeats
  None,       \* no packet, no tag
  MaxId,      \* the largest identifier: 2^32 - 1 in the code
  Cap,        \* of the queues of requests and notifications: 16 in the code
  PipeCap,    \* packets the socket holds in one direction
  Window,     \* requests a user has under way at most: 1 in proxygwctl
  Notes       \* notifications a user sends at most: 0 in proxygwctl

Ends == {"a", "b"}
Other(e) == IF e = "a" THEN "b" ELSE "a"
Ids  == 1 .. MaxId

Packet(kind, i, t) == [kind |-> kind, id |-> i, tag |-> t]
Packets == [kind : {"req", "resp", "notif"}, id : 0 .. MaxId, tag : Tags \cup {None}]

ASSUME IpcAssumption ==
  /\ Role \in [Ends -> {"client", "server", "peer"}]
  /\ None \notin Tags \cup Packets
  /\ MaxId \in Nat \ {0} /\ Cap \in Nat \ {0}
  /\ PipeCap \in Nat \ {0} /\ Window \in Nat /\ Notes \in [Ends -> Nat]

Askers    == {e \in Ends : Role[e] # "server"}
Answerers == {e \in Ends : Role[e] # "client"}

VARIABLES
  conn,       \* the end has not closed its side of the socket
  pipe,       \* packets on their way to the end
  lock,       \* who has the lock: free, user, serve or reader
  out,        \* the packet that the owner of the lock is writing
  nextId, outbox, inbox,
  notifs, reqs,
  reader,     \* where the reader is
  cur,        \* the packet it has in hand
  serve,      \* where Serve is
  job,        \* the request it has in hand
  cancelled,  \* the plugin's context is done
  notes       \* notifications the user may still send

wire   == <<conn, pipe>>
mutex  == <<lock, out>>
tables == <<nextId, outbox, inbox>>
queues == <<notifs, reqs>>
read   == <<reader, cur>>
server == <<serve, job, cancelled>>
vars   == <<wire, mutex, tables, queues, read, server, notes>>

Put(f, e, v) == [f EXCEPT ![e] = v]

\* The accept loop goes on after the plugin is unloaded: a connection may be
\* served with a context that is done from the start.
Init ==
  /\ conn   = [e \in Ends |-> TRUE]   /\ pipe   = [e \in Ends |-> << >>]
  /\ lock   = [e \in Ends |-> "free"] /\ out    = [e \in Ends |-> None]
  /\ nextId = [e \in Ends |-> 0]
  /\ outbox = [e \in Ends |-> [i \in Ids |-> None]]
  /\ inbox  = [e \in Ends |-> {}]
  /\ notifs = [e \in Ends |-> << >>]  /\ reqs   = [e \in Ends |-> << >>]
  /\ reader = [e \in Ends |-> "read"] /\ cur    = [e \in Ends |-> None]
  /\ serve  = [e \in Ends |-> IF e \in Answerers THEN "select" ELSE "done"]
  /\ job    = [e \in Ends |-> None]
  /\ notes  = Notes
  /\ cancelled \in BOOLEAN

-----------------------------------------------------------------------------
(* Writing, with the lock held from here to the end of the write.          *)

Begin(e, who, p) ==
  /\ lock[e] = "free"
  /\ lock' = Put(lock, e, who)
  /\ out'  = Put(out, e, p)

Unlock(e) ==
  /\ lock' = Put(lock, e, "free")
  /\ out'  = Put(out, e, None)

Pending(e) == {i \in Ids : outbox[e][i] # None}

\* Identifiers wrap around zero, which marks notifications.
AssignId(e) == IF nextId[e] = MaxId THEN 1 ELSE nextId[e] + 1

\* An identifier still in use is an error (and is spent).
Request(e, t) ==
  LET i == AssignId(e) IN
  /\ e \in Askers /\ lock[e] = "free" /\ Cardinality(Pending(e)) < Window
  /\ nextId' = Put(nextId, e, i)
  /\ IF outbox[e][i] # None
     THEN UNCHANGED <<outbox, mutex>>
     ELSE /\ outbox' = [outbox EXCEPT ![e][i] = t]
          /\ Begin(e, "user", Packet("req", i, t))
  /\ UNCHANGED <<wire, inbox, queues, read, server, notes>>

Notify(e) ==
  /\ notes[e] > 0
  /\ Begin(e, "user", Packet("notif", 0, None))
  /\ notes' = Put(notes, e, notes[e] - 1)
  /\ UNCHANGED <<wire, tables, queues, read, server>>

\* Mistake: leave an answered request in the table.
WriteKeepsInbox(e) ==
  /\ out[e] # None
  /\ conn[e] /\ conn[Other(e)] /\ Len(pipe[Other(e)]) < PipeCap
  /\ pipe' = Put(pipe, Other(e), Append(pipe[Other(e)], out[e]))
  /\ Unlock(e)
  /\ serve'  = IF lock[e] = "serve" THEN Put(serve, e, "select") ELSE serve
  /\ reader' = IF lock[e] = "reader" THEN Put(reader, e, "read") ELSE reader
  /\ UNCHANGED <<conn, tables, queues, cur, job, cancelled, notes>>

\* A write that is done: Respond forgets the request, Serve and the reader go
\* on.
Write(e) ==
  /\ out[e] # None
  /\ conn[e] /\ conn[Other(e)] /\ Len(pipe[Other(e)]) < PipeCap
  /\ pipe' = Put(pipe, Other(e), Append(pipe[Other(e)], out[e]))
  /\ Unlock(e)
  /\ inbox'  = IF lock[e] = "serve" THEN Put(inbox, e, inbox[e] \ {out[e].id}) ELSE inbox
  /\ serve'  = IF lock[e] = "serve" THEN Put(serve, e, "select") ELSE serve
  /\ reader' = IF lock[e] = "reader" THEN Put(reader, e, "read") ELSE reader
  /\ UNCHANGED <<conn, nextId, outbox, queues, cur, job, cancelled, notes>>

\* One that fails, because either side is closed: Request forgets what it has
\* registered, Serve and the reader give up.
WriteFails(e) ==
  /\ out[e] # None /\ ~(conn[e] /\ conn[Other(e)])
  /\ Unlock(e)
  /\ outbox' = IF out[e].kind = "req" THEN [outbox EXCEPT ![e][out[e].id] = None] ELSE outbox
  /\ serve'  = IF lock[e] = "serve" THEN Put(serve, e, "done") ELSE serve
  /\ reader' = IF lock[e] = "reader" THEN Put(reader, e, "end") ELSE reader
  /\ UNCHANGED <<wire, nextId, inbox, queues, cur, job, cancelled, notes>>

-----------------------------------------------------------------------------
(* The reader.                                                             *)

Goto(e, place) == reader' = Put(reader, e, place)

\* Where the reader takes a packet first.  Identifier zero is a notification,
\* whatever it says: also the refusal of one, which a peer sends.  Of the others a
\* client has no use for requests nor a server for answers.
Route(e, p) ==
  IF p.id = 0 THEN "notify"
  ELSE IF p.kind = "resp" THEN IF e \in Askers THEN "match" ELSE "read"
  ELSE IF e \in Answerers THEN "dispatch" ELSE "read"

\* A peer goes on from each place to the next one that concerns the packet: an
\* answer is matched after it was queued, and everything is dispatched at last.
AfterMatch(e)  == IF Role[e] = "peer" THEN "dispatch" ELSE "read"
AfterNotify(e) == IF Role[e] = "peer" /\ cur[e].kind = "resp" THEN "match" ELSE AfterMatch(e)

Read(e) ==
  /\ reader[e] = "read" /\ conn[e] /\ pipe[e] # << >>
  /\ cur'  = Put(cur, e, Head(pipe[e]))
  /\ pipe' = Put(pipe, e, Tail(pipe[e]))
  /\ Goto(e, Route(e, Head(pipe[e])))
  /\ UNCHANGED <<conn, mutex, tables, queues, server, notes>>

\* The side is closed, or the other one is and nothing is left to read.
ReadFails(e) ==
  /\ reader[e] = "read"
  /\ ~conn[e] \/ (~conn[Other(e)] /\ pipe[e] = << >>)
  /\ Goto(e, "end")
  /\ UNCHANGED <<wire, mutex, tables, queues, cur, server, notes>>

\* Notifications are queued without the lock.
Deliver(e) ==
  /\ reader[e] = "notify" /\ Len(notifs[e]) < Cap
  /\ notifs' = Put(notifs, e, Append(notifs[e], cur[e]))
  /\ Goto(e, AfterNotify(e))
  /\ UNCHANGED <<wire, mutex, tables, reqs, cur, server, notes>>

\* Mistake: leave the request registered.
MatchKeeps(e) ==
  /\ reader[e] = "match" /\ lock[e] = "free"
  /\ Goto(e, AfterMatch(e))
  /\ UNCHANGED <<wire, mutex, tables, queues, cur, server, notes>>

\* matchResp; an answer to nothing is dropped.
Match(e) ==
  /\ reader[e] = "match" /\ lock[e] = "free"
  /\ outbox' = [outbox EXCEPT ![e] = [i \in Ids |-> IF i = cur[e].id THEN None ELSE outbox[e][i]]]
  /\ Goto(e, AfterMatch(e))
  /\ UNCHANGED <<wire, mutex, nextId, inbox, queues, cur, server, notes>>

\* Mistake: do not register.
DispatchUnregistered(e) ==
  /\ reader[e] = "dispatch" /\ lock[e] = "free"
  /\ Begin(e, "reader", None) /\ Goto(e, "send")
  /\ UNCHANGED <<wire, tables, queues, cur, server, notes>>

\* dispatchReq: an identifier under way is answered with an error, any other is
\* registered and queued, with the lock held until there is room.
Dispatch(e) ==
  /\ reader[e] = "dispatch"
  /\ IF cur[e].id \in inbox[e]
     THEN /\ Begin(e, "reader", Packet("resp", cur[e].id, None))
          /\ Goto(e, "refuse")
          /\ UNCHANGED inbox
     ELSE /\ Begin(e, "reader", None)
          /\ Goto(e, "send")
          /\ inbox' = Put(inbox, e, inbox[e] \cup {cur[e].id})
  /\ UNCHANGED <<wire, nextId, outbox, queues, cur, server, notes>>

Send(e) ==
  /\ reader[e] = "send" /\ Len(reqs[e]) < Cap
  /\ reqs' = Put(reqs, e, Append(reqs[e], cur[e]))
  /\ Unlock(e)
  /\ Goto(e, "read")
  /\ UNCHANGED <<wire, tables, notifs, cur, server, notes>>

\* end closes the queues, and the channel of every pending request.
End(e) ==
  /\ reader[e] = "end" /\ lock[e] = "free"
  /\ Goto(e, "done")
  /\ UNCHANGED <<wire, mutex, tables, queues, cur, server, notes>>

-----------------------------------------------------------------------------
(* Serve.  A closed and empty queue of notifications lets the loop spin.    *)

ServeCancelled(e) ==
  /\ serve[e] = "select" /\ cancelled
  /\ conn'  = Put(conn, e, FALSE)
  /\ serve' = Put(serve, e, "done")
  /\ UNCHANGED <<pipe, mutex, tables, queues, read, job, cancelled, notes>>

ServeRequest(e) ==
  /\ serve[e] = "select" /\ reqs[e] # << >>
  /\ job'   = Put(job, e, Head(reqs[e]))
  /\ reqs'  = Put(reqs, e, Tail(reqs[e]))
  /\ serve' = Put(serve, e, "respond")
  /\ UNCHANGED <<wire, mutex, tables, notifs, read, cancelled, notes>>

\* Mistake: go on when the queue is closed.
ServeClosedSpins(e) ==
  /\ serve[e] = "select" /\ reqs[e] = << >> /\ reader[e] = "done"
  /\ UNCHANGED vars

ServeClosed(e) ==
  /\ serve[e] = "select" /\ reqs[e] = << >> /\ reader[e] = "done"
  /\ serve' = Put(serve, e, "done")
  /\ UNCHANGED <<wire, mutex, tables, queues, read, job, cancelled, notes>>

ServeNotification(e) ==
  /\ serve[e] = "select" /\ notifs[e] # << >>
  /\ notifs' = Put(notifs, e, Tail(notifs[e]))
  /\ UNCHANGED <<wire, mutex, tables, reqs, read, server, notes>>

\* handle and Respond.  An answer that nothing waits for is an error.
Respond(e) ==
  /\ serve[e] = "respond" /\ lock[e] = "free"
  /\ IF job[e].id \in inbox[e] \ {0}
     THEN /\ Begin(e, "serve", Packet("resp", job[e].id, job[e].tag))
          /\ serve' = Put(serve, e, "write")
     ELSE /\ serve' = Put(serve, e, "done")
          /\ UNCHANGED mutex
  /\ UNCHANGED <<wire, tables, queues, read, job, cancelled, notes>>

\* The user of a client or a peer closes it; a server is closed by Serve only.
Close(e) ==
  /\ e \in Askers /\ conn[e]
  /\ conn' = Put(conn, e, FALSE)
  /\ UNCHANGED <<pipe, mutex, tables, queues, read, server, notes>>

Cancel ==
  /\ ~cancelled /\ cancelled' = TRUE
  /\ UNCHANGED <<wire, mutex, tables, queues, read, serve, job, notes>>

Reader(e) ==
  \/ Read(e) \/ ReadFails(e) \/ Deliver(e) \/ Match(e) \/ Dispatch(e) \/ Send(e) \/ End(e)
Serve(e) ==
  \/ ServeCancelled(e) \/ ServeRequest(e) \/ ServeClosed(e) \/ ServeNotification(e)
  \/ Respond(e)

Next ==
  \/ \E e \in Ends : \/ \E t \in Tags : Request(e, t)
                     \/ Notify(e) \/ Close(e)
                     \/ Write(e) \/ WriteFails(e)
                     \/ Reader(e) \/ Serve(e)
  \/ Cancel

\* Goroutines that can run do.  Users may ask and fail time and again, but the
\* mutex is not withheld from the reader for ever; nor does select pass over a
\* context that is done.
Fairness ==
  /\ \A e \in Ends : WF_vars(Write(e) \/ WriteFails(e))
  /\ \A e \in Askers : SF_vars(Reader(e))
  /\ \A e \in Ends \ Askers : WF_vars(Reader(e))
  /\ \A e \in Answerers : WF_vars(Serve(e)) /\ SF_vars(ServeCancelled(e))

Spec == Init /\ [][Next]_vars /\ Fairness

-----------------------------------------------------------------------------
(* Invariants.                                                             *)

TypeOK ==
  /\ conn   \in [Ends -> BOOLEAN]         /\ pipe   \in [Ends -> Seq(Packets)]
  /\ lock   \in [Ends -> {"free", "user", "serve", "reader"}]
  /\ out    \in [Ends -> Packets \cup {None}]
  /\ nextId \in [Ends -> 0 .. MaxId]
  /\ outbox \in [Ends -> [Ids -> Tags \cup {None}]]
  /\ inbox  \in [Ends -> SUBSET (0 .. MaxId)]
  /\ notifs \in [Ends -> Seq(Packets)]    /\ reqs   \in [Ends -> Seq(Packets)]
  /\ reader \in [Ends -> {"read", "notify", "match", "dispatch", "send", "refuse", "end", "done"}]
  /\ cur    \in [Ends -> Packets \cup {None}]
  /\ serve  \in [Ends -> {"select", "respond", "write", "done"}]
  /\ job    \in [Ends -> Packets \cup {None}]
  /\ cancelled \in BOOLEAN                /\ notes  \in [Ends -> Nat]

\* The lock is in the hands of whoever is in the middle of using it.
LockIsUsedAt(e) ==
  /\ lock[e] = "reader" <=> reader[e] \in {"send", "refuse"}
  /\ lock[e] = "serve"  <=> serve[e] = "write"
  /\ lock[e] = "free"   => out[e] = None
  /\ lock[e] \in {"user", "serve"} \/ reader[e] = "refuse" => out[e] # None
  /\ reader[e] = "send" => out[e] = None
  /\ serve[e] = "write" => out[e].id = job[e].id
  /\ reader[e] \in {"notify", "match", "dispatch", "send", "refuse"} => cur[e] # None
  /\ serve[e] \in {"respond", "write"} => job[e] # None

LockIsUsed == \A e \in Ends : LockIsUsedAt(e)

\* Whatever a user still has to answer is registered, and once only: Respond
\* finds what it answers, whatever the other end sends.
OwesOnceAt(e) ==
  /\ \A k \in 1 .. Len(reqs[e]) :
       /\ reqs[e][k].id \in inbox[e]
       /\ \A l \in 1 .. Len(reqs[e]) : reqs[e][k].id = reqs[e][l].id => k = l
       /\ serve[e] \in {"respond", "write"} => reqs[e][k].id # job[e].id
       /\ reader[e] = "send" => reqs[e][k].id # cur[e].id
  /\ serve[e] \in {"respond", "write"} => job[e].id \in inbox[e]
  /\ reader[e] = "send" => cur[e].id \in inbox[e]
  /\ serve[e] \in {"respond", "write"} /\ reader[e] = "send" => job[e].id # cur[e].id
  /\ Len(reqs[e]) <= Cap /\ Len(notifs[e]) <= Cap

OwesOnce == \A e \in Ends : OwesOnceAt(e)

\* A reader gives up only when the connection is over.  end leaves the requests
\* it has told in the table: whoever asks after it must get an error from the
\* socket, for nobody would read the answer or close the channel.
EndsLast ==
  \A e \in Ends : reader[e] \in {"end", "done"} => ~(conn[e] /\ conn[Other(e)])

\* Where the exchange of client e with identifier i can be: in the write of the
\* request, in the socket, read by the server, in its hands, on its way back.
Asked(e, i)    == lock[e] = "user" /\ out[e].id = i
Sent(e, i)     == \E k \in 1 .. Len(pipe[Other(e)]) : pipe[Other(e)][k].id = i
Taken(e, i)    == reader[Other(e)] = "dispatch" /\ cur[Other(e)].id = i
Owed(e, i)     == i \in inbox[Other(e)]
Returning(e, i) == \E k \in 1 .. Len(pipe[e]) : pipe[e][k].id = i
Returned(e, i) == reader[e] = "match" /\ cur[e].id = i

IsNote(p) == p.kind = "notif" /\ p.id = 0

\* A packet of the exchange that is pending under its identifier.
Genuine(e, kind, p) ==
  p.kind = kind /\ p.id \in Ids /\ p.tag # None /\ p.tag = outbox[e][p.id]

\* A client and a server keep to their parts.
InRole(e) ==
  LET s == Other(e) IN
  /\ serve[e] = "done" /\ reader[e] \notin {"dispatch", "send", "refuse"}
  /\ reader[s] \notin {"match", "refuse"}
  /\ lock[s] = "user" => IsNote(out[s])
  /\ serve[s] = "write" => out[s] = Packet("resp", job[s].id, job[s].tag)

\* Every request on its way from a client e to a server is pending, and so is
\* every one the server has registered ...
AsksAt(e) ==
  LET s == Other(e) IN
  /\ lock[e] = "user" => IsNote(out[e]) \/ Genuine(e, "req", out[e])
  /\ \A k \in 1 .. Len(pipe[s]) : IsNote(pipe[s][k]) \/ Genuine(e, "req", pipe[s][k])
  /\ reader[s] \in {"dispatch", "send"} => Genuine(e, "req", cur[s])
  /\ \A k \in 1 .. Len(reqs[s]) : Genuine(e, "req", reqs[s][k])
  /\ serve[s] \in {"respond", "write"} => Genuine(e, "req", job[s])
  /\ \A i \in inbox[s] : i \in Ids /\ outbox[e][i] # None

\* ... and every answer on its way back.
AnswersAt(e) ==
  /\ \A k \in 1 .. Len(pipe[e]) : IsNote(pipe[e][k]) \/ Genuine(e, "resp", pipe[e][k])
  /\ reader[e] = "match" => Genuine(e, "resp", cur[e])

GenuineAt(e) == InRole(e) /\ AsksAt(e) /\ AnswersAt(e)

\* And there is one packet for it at most.
InOnePlace(e) ==
  \A i \in Ids :
    /\ Asked(e, i) => ~(Sent(e, i) \/ Taken(e, i) \/ Owed(e, i) \/ Returning(e, i) \/ Returned(e, i))
    /\ Sent(e, i)  => ~(Taken(e, i) \/ Owed(e, i) \/ Returning(e, i) \/ Returned(e, i))
    /\ Taken(e, i) => ~(Owed(e, i) \/ Returning(e, i) \/ Returned(e, i))
    /\ Owed(e, i)  => ~(Returning(e, i) \/ Returned(e, i))
    /\ Returning(e, i) => ~Returned(e, i)

NoneTwice(d) ==
  \A k, l \in 1 .. Len(pipe[d]) :
    pipe[d][k].id \in Ids /\ pipe[d][k].id = pipe[d][l].id => k = l

OnceAt(e) == InOnePlace(e) /\ NoneTwice(e) /\ NoneTwice(Other(e))

\* Between a client and a server: a peer takes an answer for a request and
\* answers that.
IsClientOf(e) == Role[e] = "client" /\ Role[Other(e)] = "server"

OneExchange == \A e \in Ends : IsClientOf(e) => GenuineAt(e) /\ OnceAt(e)

IInv == TypeOK /\ LockIsUsed /\ OwesOnce /\ EndsLast /\ OneExchange

-----------------------------------------------------------------------------
(* What no step may do.                                                    *)

\* A request that is no longer pending was answered, by the answer to what it
\* asked and not by one to an earlier request with its identifier nor by a
\* refusal; or it could not be sent.
AnswersMatch ==
  [][\A e \in Ends, i \in Ids : outbox[e][i] # None /\ outbox'[e][i] # outbox[e][i] =>
       \/ reader[e] = "match" /\ cur[e] = Packet("resp", i, outbox[e][i])
       \/ lock[e] = "user" /\ out[e] = Packet("req", i, outbox[e][i]) /\ outbox'[e][i] = None
     ]_vars

-----------------------------------------------------------------------------
(* Progress.                                                               *)

\* Every request is answered, or its channel closed when the reader ends.
RequestsEnd ==
  \A e \in Askers, i \in Ids :
    outbox[e][i] # None ~> outbox[e][i] = None \/ reader[e] = "done"

\* server.go: "Serve processes requests until ctx is canceled or the connection
\* closes."
ServeEnds ==
  \A e \in Answerers : cancelled \/ ~conn[Other(e)] ~> serve[e] = "done"
=============================================================================
