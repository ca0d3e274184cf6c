--------------------------- MODULE StaticFrontend ---------------------------
(***************************************************************************)
(* plugin/static/frontends: always.go and http.go.                         *)
(*                                                                         *)
(* The event loop is that of module Frontend; this module puts the two     *)
(* handlers of the static plugin in the place of the one that Frontend     *)
(* leaves open.                                                            *)
(*                                                                         *)
(* AlwaysHandler has a goroutine with a ticker and gives it commands on a  *)
(* channel without room: the handler goes on when the command is taken,    *)
(* not when it is obeyed.  HTTPHandler has a server with a goroutine that  *)
(* serves its listening socket, and one for every request; a request that  *)
(* ends raises the signal.  Stop waits for requests, but not for ever.     *)
(***************************************************************************)
EXTENDS Frontend   \* Frontends are those of kind static:always or static:http

CONSTANT MaxBusy   \* requests a server has in hand at most, a bound for TLC

ASSUME StaticFrontendAssumption == MaxBusy \in Nat \ {0}

VARIABLES
  kind,      \* always or http
  alive,     \* the goroutine of AlwaysHandler runs
  running,   \* its ticker does
  command,   \* what it has taken from the channel and not yet obeyed, or none
  server,    \* h.server # nil
  socket,    \* its socket: none, open while Serve has not begun, served, broken
  stale,     \* the socket of an earlier server is still open
  busy,      \* requests in hand
  stopping   \* Stop waits in Shutdown

always     == <<alive, running, command>>
http       == <<server, socket, stale, busy, stopping>>
handler    == <<kind, always, http>>
staticVars == <<vars, handler>>

StaticInit ==
  /\ Init
  /\ kind \in [Frontends -> {"always", "http"}]
  /\ alive    = [f \in Frontends |-> kind[f] = "always"]
  /\ running  = [f \in Frontends |-> FALSE]
  /\ command  = [f \in Frontends |-> "none"]
  /\ server   = [f \in Frontends |-> FALSE]
  /\ socket   = [f \in Frontends |-> "none"]
  /\ stale    = [f \in Frontends |-> FALSE]
  /\ busy     = [f \in Frontends |-> 0]
  /\ stopping = [f \in Frontends |-> FALSE]

\* The handler returns to the loop, and the listener is what it says.
Return(f, e, l) ==
  /\ failed'   = Put(failed, f, e)
  /\ pc'       = Put(pc, f, CASE pc[f] = "starting" -> "started"
                              [] pc[f] = "stopping" -> "stopped"
                              [] OTHER              -> "unbind")
  /\ listener' = Put(listener, f, IF pc[f] = "closeHandler" THEN "closed" ELSE l)
  /\ UNCHANGED <<state, err, requests, ctxDone, closing, signal, bound>>

\* A signal is dropped when one waits already; as in Frontend it concerns nobody
\* once the loop reads no more.
Raise(f) ==
  /\ signal' = Put(signal, f, signal[f] \/ pc[f] \notin {"record", "exited"})
  /\ UNCHANGED <<state, err, requests, pc, failed, ctxDone, closing, listener, bound>>

-----------------------------------------------------------------------------
(* static:always                                                           *)

\* Start, Stop and Close hand the goroutine a command and return.
Wanted(f) == CASE pc[f] = "starting"     -> "start"
               [] pc[f] = "stopping"     -> "stop"
               [] pc[f] = "closeHandler" -> "close"
               [] OTHER                  -> "none"

Command(f) ==
  /\ kind[f] = "always" /\ Wanted(f) # "none" /\ alive[f] /\ command[f] = "none"
  /\ command' = Put(command, f, Wanted(f))
  /\ Return(f, FALSE, IF Wanted(f) = "start" THEN "up" ELSE "down")
  /\ UNCHANGED <<kind, alive, running, http>>

\* Mistake: end the ticker only.
ObeyStays(f) ==
  /\ command[f] # "none"
  /\ command' = Put(command, f, "none")
  /\ running' = Put(running, f, command[f] = "start")
  /\ UNCHANGED <<vars, kind, alive, http>>

Obey(f) ==
  /\ command[f] # "none"
  /\ command' = Put(command, f, "none")
  /\ alive'   = Put(alive, f, command[f] # "close")
  /\ running' = Put(running, f, command[f] = "start")
  /\ UNCHANGED <<vars, kind, http>>

\* Mistake: a channel with room, where a command waits while the ticker goes on.
TicksOn(f) ==
  /\ alive[f] /\ running[f]
  /\ Raise(f)
  /\ UNCHANGED handler

Ticks(f) ==
  /\ alive[f] /\ command[f] = "none" /\ running[f]
  /\ Raise(f)
  /\ UNCHANGED handler

-----------------------------------------------------------------------------
(* static:http                                                             *)

\* Start listens, which may fail and does while the address is in use.
StartServer(f) ==
  /\ kind[f] = "http" /\ pc[f] = "starting"
  /\ \E e \in IF server[f] THEN {FALSE} ELSE {TRUE, stale[f]} :
       /\ Return(f, e, IF e THEN "down" ELSE "up")
       /\ server' = Put(server, f, server[f] \/ ~e)
       /\ socket' = IF server[f] \/ e THEN socket ELSE Put(socket, f, "open")
  /\ UNCHANGED <<kind, always, stale, busy, stopping>>

\* The goroutine begins to serve; a socket whose server has been shut down is
\* closed instead.
Serves(f) ==
  /\ socket[f] = "open"
  /\ socket' = Put(socket, f, "served")
  /\ UNCHANGED <<vars, kind, always, server, stale, busy, stopping>>

CloseStale(f) ==
  /\ stale[f]
  /\ stale' = Put(stale, f, FALSE)
  /\ UNCHANGED <<vars, kind, always, server, socket, busy, stopping>>

\* Serve fails by itself: the goroutine closes the server and nobody is told.
Breaks(f) ==
  /\ socket[f] = "served"
  /\ socket' = Put(socket, f, "broken")
  /\ UNCHANGED <<vars, kind, always, server, stale, busy, stopping>>

Accept(f) ==
  /\ socket[f] = "served" /\ busy[f] < MaxBusy
  /\ busy' = Put(busy, f, busy[f] + 1)
  /\ UNCHANGED <<vars, kind, always, server, socket, stale, stopping>>

Served(f) ==
  /\ busy[f] > 0
  /\ busy' = Put(busy, f, busy[f] - 1)
  /\ Raise(f)
  /\ UNCHANGED <<kind, always, server, socket, stale, stopping>>

\* Stop, and Close, which calls it.
Stopping(f) == kind[f] = "http" /\ pc[f] \in {"stopping", "closeHandler"} /\ ~stopping[f]

StopNothing(f) ==
  /\ Stopping(f) /\ ~server[f]
  /\ Return(f, FALSE, "down")
  /\ UNCHANGED handler

\* Mistake: drop the server without a shutdown.
ShutdownForgotten(f) ==
  /\ Stopping(f) /\ server[f]
  /\ server' = Put(server, f, FALSE)
  /\ Return(f, FALSE, "down")
  /\ UNCHANGED <<kind, always, socket, stale, busy, stopping>>

\* Shutdown closes the socket that is served and waits for the requests.
ShutdownServer(f) ==
  /\ Stopping(f) /\ server[f]
  /\ stopping' = Put(stopping, f, TRUE)
  /\ stale'    = Put(stale, f, stale[f] \/ socket[f] = "open")
  /\ socket'   = Put(socket, f, "none")
  /\ UNCHANGED <<vars, kind, always, server, busy>>

\* Mistake: wait for the requests without a timeout.
ShutdownWaits(f) ==
  /\ stopping[f] /\ busy[f] = 0
  /\ stopping' = Put(stopping, f, FALSE)
  /\ server'   = Put(server, f, FALSE)
  /\ Return(f, FALSE, "down")
  /\ UNCHANGED <<kind, always, socket, stale, busy>>

\* The requests have ended, or five seconds are over.
ShutdownReturns(f) ==
  /\ stopping[f]
  /\ stopping' = Put(stopping, f, FALSE)
  /\ server'   = Put(server, f, FALSE)
  /\ Return(f, FALSE, "down")
  /\ UNCHANGED <<kind, always, socket, stale, busy>>

Handler(f) ==
  \/ Command(f)
  \/ StartServer(f) \/ StopNothing(f) \/ ShutdownServer(f) \/ ShutdownReturns(f)

Goroutines(f) == Obey(f) \/ Serves(f) \/ CloseStale(f)

-----------------------------------------------------------------------------
(* The rest is Frontend's: callers, and the loop between two calls.         *)

Caller(f) == UNCHANGED handler /\ (Start(f) \/ Stop(f) \/ Close(f) \/ Cancel(f))

StaticLoop(f) ==
  /\ UNCHANGED handler
  /\ \/ Receive(f)  \/ SelectDone(f) \/ CheckClosed(f)
     \/ EndStart(f) \/ EndStop(f)    \/ EndMark(f) \/ Record(f)
     \/ WarmSignal(f) \/ \E ok \in BOOLEAN : Unbind(f, ok)

StaticCancelParent == UNCHANGED handler /\ CancelParent

StaticNext ==
  \/ \E f \in Frontends : \/ Caller(f) \/ StaticLoop(f) \/ Handler(f) \/ Goroutines(f)
                          \/ Ticks(f)  \/ Breaks(f) \/ Accept(f) \/ Served(f)
  \/ StaticCancelParent

\* Goroutines that can run do, and Shutdown's timeout fires; no request need
\* ever end.  The select of the loop is as fair as Frontend has it.
StaticFairness ==
  \A f \in Frontends :
    /\ WF_staticVars(StaticLoop(f) \/ Handler(f)) /\ WF_staticVars(Caller(f) /\ Cancel(f))
    /\ WF_staticVars(Obey(f)) /\ WF_staticVars(Serves(f) \/ CloseStale(f))
    /\ SF_staticVars(UNCHANGED handler /\ SelectDone(f))
    /\ SF_staticVars(UNCHANGED handler /\ Receive(f))
    /\ SF_staticVars(UNCHANGED handler /\ WarmSignal(f))

StaticSpec == StaticInit /\ [][StaticNext]_staticVars /\ StaticFairness

-----------------------------------------------------------------------------
(* Properties.                                                             *)

StaticTypeOK ==
  /\ kind     \in [Frontends -> {"always", "http"}]
  /\ alive    \in [Frontends -> BOOLEAN]   /\ running \in [Frontends -> BOOLEAN]
  /\ command  \in [Frontends -> {"none", "start", "stop", "close"}]
  /\ server   \in [Frontends -> BOOLEAN]   /\ stale \in [Frontends -> BOOLEAN]
  /\ socket   \in [Frontends -> {"none", "open", "served", "broken"}]
  /\ busy     \in [Frontends -> 0 .. MaxBusy]
  /\ stopping \in [Frontends -> BOOLEAN]

\* Nothing of the handler is on: no server, no socket but a stale one that nobody
\* serves, and the ticker is off or about to be.
Deaf(f) ==
  /\ ~server[f] /\ socket[f] = "none"
  /\ command[f] # "start"
  /\ running[f] => command[f] \in {"stop", "close"}

\* A Stopped frontend, and one whose handler is closed, accepts nothing.
StoppedIsDeaf ==
  \A f \in Frontends : state[f] = "Stopped" \/ listener[f] = "closed" => Deaf(f)

\* What StoppedIsDeaf rests on: Stop leaves the handler deaf, a socket belongs to
\* a server, Shutdown is within a call of Stop or Close, the ticker is on at the
\* loop's word only, and neither handler touches what is the other's.
Held ==
  \A f \in Frontends :
    /\ pc[f] = "stopped" /\ ~failed[f] => Deaf(f)
    /\ socket[f] # "none" => server[f]
    /\ stopping[f] => pc[f] \in {"stopping", "closeHandler"} /\ server[f] /\ socket[f] = "none"
    /\ IF kind[f] = "always"
       THEN /\ ~server[f] /\ busy[f] = 0
            /\ command[f] = "start" \/ (running[f] /\ command[f] = "none") => listener[f] = "up"
       ELSE ~running[f] /\ command[f] = "none"

StaticIInv == IInv /\ StaticTypeOK /\ StoppedIsDeaf /\ Held

\* The signals of static:always are those of a ticker that is on: Stop and Close
\* do not return before the goroutine has seen the command, so that none comes
\* after them however late it obeys.
TicksOnlyWhileUp ==
  [][\A f \in Frontends :
       kind[f] = "always" /\ ~signal[f] /\ signal'[f] => listener[f] = "up"]_staticVars

\* With these handlers the event loop is that of Frontend, its liveness
\* included: Start, Stop and Close return, whatever the requests do.
IsAFrontend == Spec

\* A frontend that has exited keeps neither the goroutine of its handler nor its
\* socket.  A request that hangs keeps its own goroutine (busy).
Released ==
  \A f \in Frontends :
    pc[f] = "exited" ~> ~alive[f] /\ socket[f] = "none" /\ ~stale[f]
=============================================================================
