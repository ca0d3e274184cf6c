------------------------------ MODULE Registry ------------------------------
(***************************************************************************)
(* pkg/engine/engine.go and cmd/proxygw/main.go: what is registered under  *)
(* which name, and the order in which the daemon goes down.                *)
(*                                                                         *)
(* Objects are targets and frontends, one for each constructor call that   *)
(* ever gets as far as making a handler; Target and Frontend say what they *)
(* do while they live.  Here they are born open, become closed (their own  *)
(* Close, or a context that is done), and are over when their loop has     *)
(* returned.  A name outlives its object: the engine keeps a dead target   *)
(* until it is deleted, and the dataplane keeps the group of a deleted one *)
(* until its loop is over.                                                 *)
(*                                                                         *)
(* Every engine operation runs under e.lock and is one step: what an       *)
(* object does between two calls it makes could as well be done before or  *)
(* after it.                                                               *)
(***************************************************************************)

CONSTANTS
  TargetNames, FrontendNames,
  TargetKinds, FrontendKinds,
  EndpointNames,
  Targets, Frontends,          \* the objects
  None                         \* nothing is registered under a name

ASSUME ObjectsAssumption ==
  /\ Targets \cap Frontends = {}
  /\ None \notin Targets \cup Frontends

VARIABLES
  targetCtors, frontendCtors,  \* the kinds registered
  endpoints,                   \* t.endpoints of each target, by name
  targets, frontends,          \* e.targets and e.frontends, by name
  groups,                      \* the dataplane's groups by name: whose they are
  state,                       \* of each object
  target,                      \* f.target of each frontend
  mapped,                      \* frontends whose mapping is in a group
  wg,                          \* objects that a goroutine of e.wg waits for
  closed,                      \* e.closed
  signalled,                   \* the daemon's context is done
  daemon                       \* how far run has come

offers == <<targetCtors, frontendCtors, endpoints>>
names == <<targets, frontends>>
lives == <<groups, state, target, mapped, wg>>
phase == <<closed, signalled, daemon>>
vars  == <<offers, names, lives, phase>>

Objects == Targets \cup Frontends

\* An object that has not been made, one whose handler was made and dropped or
\* made and closed, and the three states of one that was returned to a caller.
States == {"unborn", "dropped", "refused", "open", "closed", "over"}
Alive(o) == state[o] \in {"open", "closed"}

\* e.ctx is a child of the daemon's and cancelled by Engine.Close.
EngineDone == signalled \/ closed

Init ==
  /\ targetCtors = {} /\ frontendCtors = {}
  /\ endpoints = [t \in Targets |-> {}]
  /\ targets   = [n \in TargetNames |-> None]
  /\ frontends = [n \in FrontendNames |-> None]
  /\ groups    = [n \in TargetNames |-> None]
  /\ state     = [o \in Objects |-> "unborn"]
  /\ target    = [f \in Frontends |-> None]
  /\ mapped    = {} /\ wg = {}
  /\ closed    = FALSE /\ signalled = FALSE
  /\ daemon    = "starting"

-----------------------------------------------------------------------------
(* Kinds.  Plugins register them while the daemon starts; the API allows   *)
(* it at any time.                                                         *)

AddTargetKind(k) ==
  /\ ~closed /\ k \notin targetCtors
  /\ targetCtors' = targetCtors \cup {k}
  /\ UNCHANGED <<frontendCtors, endpoints, names, lives, phase>>

AddFrontendKind(k) ==
  /\ ~closed /\ k \notin frontendCtors
  /\ frontendCtors' = frontendCtors \cup {k}
  /\ UNCHANGED <<targetCtors, endpoints, names, lives, phase>>

\* The loop over the targets (frontends) refuses nothing: a kind can go while
\* objects of it live.
DelTargetKind(k) ==
  /\ ~closed /\ k \in targetCtors
  /\ targetCtors' = targetCtors \ {k}
  /\ UNCHANGED <<frontendCtors, endpoints, names, lives, phase>>

DelFrontendKind(k) ==
  /\ ~closed /\ k \in frontendCtors
  /\ frontendCtors' = frontendCtors \ {k}
  /\ UNCHANGED <<targetCtors, endpoints, names, lives, phase>>

-----------------------------------------------------------------------------
(* Targets.                                                                *)

\* A handler was made for object o and nothing else came of it.
Fail(o, s) ==
  /\ state' = [state EXCEPT ![o] = s]
  /\ UNCHANGED <<offers, names, groups, target, mapped, wg, phase>>

\* The group, the target with its endpoints, its registration, and the goroutine
\* that waits for it.
Birth(t, n) ==
  /\ \E E \in SUBSET EndpointNames : endpoints' = [endpoints EXCEPT ![t] = E]
  /\ groups'  = [groups EXCEPT ![n] = t]
  /\ state'   = [state EXCEPT ![t] = "open"]
  /\ targets' = [targets EXCEPT ![n] = t]
  /\ wg'      = wg \cup {t}
  /\ UNCHANGED <<targetCtors, frontendCtors, frontends, target, mapped, phase>>

\* The kind is one of those registered.  The dataplane refuses a name that
\* it still has, and the handler is dropped; an invalid endpoint makes target.New
\* fail, and handler and group are closed.
NewTarget(n, t) ==
  /\ ~closed /\ targets[n] = None
  /\ targetCtors # {}
  /\ state[t] = "unborn"
  /\ \/ groups[n] # None /\ Fail(t, "dropped")
     \/ groups[n] = None /\ Fail(t, "refused")
     \/ groups[n] = None /\ Birth(t, n)

\* Only a target whose state is Closed is forgotten.
\* Mistake: forget any.
DelTargetUnchecked(n) ==
  /\ ~closed /\ targets[n] # None
  /\ targets' = [targets EXCEPT ![n] = None]
  /\ UNCHANGED <<offers, frontends, lives, phase>>

DelTarget(n) ==
  /\ ~closed /\ targets[n] # None
  /\ state[targets[n]] # "open"
  /\ targets' = [targets EXCEPT ![n] = None]
  /\ UNCHANGED <<offers, frontends, lives, phase>>

\* One whose address is that of another is refused, which is no step here.
AddEndpoint(t, e) ==
  /\ state[t] = "open" /\ e \notin endpoints[t]
  /\ endpoints' = [endpoints EXCEPT ![t] = @ \cup {e}]
  /\ UNCHANGED <<targetCtors, frontendCtors, names, lives, phase>>

\* Frontends that are bound to it stay.
RemoveEndpoint(t, e) ==
  /\ state[t] = "open" /\ e \in endpoints[t]
  /\ endpoints' = [endpoints EXCEPT ![t] = @ \ {e}]
  /\ UNCHANGED <<targetCtors, frontendCtors, names, lives, phase>>

-----------------------------------------------------------------------------
(* Frontends.                                                              *)

\* The target must be registered and not Closed.  The handler is dropped when
\* the target has no endpoint e, and closed when the group refuses the mapping.
NewFrontend(n, m, e, f) ==
  /\ ~closed /\ frontends[n] = None
  /\ targets[m] # None /\ state[targets[m]] = "open"
  /\ frontendCtors # {}
  /\ state[f] = "unborn"
  /\ \/ e \notin endpoints[targets[m]] /\ Fail(f, "dropped")
     \/ e \in endpoints[targets[m]] /\ Fail(f, "refused")
     \/ /\ e \in endpoints[targets[m]]
        /\ state'     = [state EXCEPT ![f] = "open"]
        /\ target'    = [target EXCEPT ![f] = targets[m]]
        /\ mapped'    = mapped \cup {f}
        /\ frontends' = [frontends EXCEPT ![n] = f]
        /\ wg'        = wg \cup {f}
        /\ UNCHANGED <<offers, targets, groups, phase>>

DelFrontend(n) ==
  /\ ~closed /\ frontends[n] # None
  /\ state[frontends[n]] # "open"
  /\ frontends' = [frontends EXCEPT ![n] = None]
  /\ UNCHANGED <<offers, targets, lives, phase>>

-----------------------------------------------------------------------------
(* What objects do.                                                        *)

\* Its owner closes an object, or its loop finds its context done: a child of
\* the engine's.
Close(o) ==
  /\ state[o] = "open"
  /\ state' = [state EXCEPT ![o] = "closed"]
  /\ UNCHANGED <<offers, names, groups, target, mapped, wg, phase>>

\* Mistake: the context is nobody's child.
ObeyNobody(o) == FALSE /\ Close(o)

Obey(o) == EngineDone /\ Close(o)

\* The loop of a target returns: its group is closed and its mappings with it.
\* Mistake: leave the group.
EndTargetOnly(t) ==
  /\ state[t] = "closed"
  /\ state' = [state EXCEPT ![t] = "over"]
  /\ UNCHANGED <<offers, names, groups, target, mapped, wg, phase>>

EndTarget(t) ==
  /\ state[t] = "closed"
  /\ state'  = [state EXCEPT ![t] = "over"]
  /\ groups' = [n \in TargetNames |-> IF groups[n] = t THEN None ELSE groups[n]]
  /\ mapped' = {f \in mapped : target[f] # t}
  /\ UNCHANGED <<offers, names, target, wg, phase>>

\* The loop of a frontend returns: its mapping leaves the group of the target it
\* was born with, unless the dataplane fails or the group has gone before it.
EndFrontend(f) ==
  /\ state[f] = "closed"
  /\ state' = [state EXCEPT ![f] = "over"]
  /\ mapped' \in {mapped, mapped \ {f}}
  /\ UNCHANGED <<offers, names, groups, target, wg, phase>>

\* Wait of the object returns: its context is done and its loop over.
\* Mistake: return when the context is done.
JoinEarly(o) ==
  /\ o \in wg /\ (state[o] = "over" \/ state[o] = "closed")
  /\ wg' = wg \ {o}
  /\ UNCHANGED <<offers, names, groups, state, target, mapped, phase>>

Join(o) ==
  /\ o \in wg /\ state[o] = "over"
  /\ wg' = wg \ {o}
  /\ UNCHANGED <<offers, names, groups, state, target, mapped, phase>>

-----------------------------------------------------------------------------
(* The engine and the daemon.                                              *)

\* A caller, or the poll loop that found the context done.
CloseEngine ==
  /\ ~closed /\ closed' = TRUE
  /\ UNCHANGED <<offers, names, lives, signalled, daemon>>

Signal ==
  /\ ~signalled /\ signalled' = TRUE
  /\ UNCHANGED <<offers, names, lives, closed, daemon>>

Goto(from, to) == daemon = from /\ daemon' = to

\* Plugins are loaded and the configuration is applied.
Serve ==
  /\ Goto("starting", "serving")
  /\ UNCHANGED <<offers, names, lives, closed, signalled>>

\* A plugin or a target of the configuration fails, or the signal arrives: the
\* engine is closed.
Leave ==
  /\ Goto("starting", "waiting") \/ (signalled /\ Goto("serving", "waiting"))
  /\ closed' = TRUE
  /\ UNCHANGED <<offers, names, lives, signalled>>

\* Engine.Wait returns, then the plugins are unloaded, then the dataplane is
\* closed and all its groups with it.
Waited ==
  /\ wg = {} /\ Goto("waiting", "unloading")
  /\ UNCHANGED <<offers, names, lives, closed, signalled>>

Unload ==
  /\ Goto("unloading", "closing")
  /\ UNCHANGED <<offers, names, lives, closed, signalled>>

CloseDataplane ==
  /\ Goto("closing", "gone")
  /\ groups' = [n \in TargetNames |-> None]
  /\ mapped' = {}
  /\ UNCHANGED <<offers, names, state, target, wg, closed, signalled>>

Callers ==
  \/ \E k \in TargetKinds : AddTargetKind(k) \/ DelTargetKind(k)
  \/ \E k \in FrontendKinds : AddFrontendKind(k) \/ DelFrontendKind(k)
  \/ \E n \in TargetNames : DelTarget(n) \/ \E t \in Targets : NewTarget(n, t)
  \/ \E n \in FrontendNames :
       \/ DelFrontend(n)
       \/ \E m \in TargetNames, e \in EndpointNames, f \in Frontends : NewFrontend(n, m, e, f)
  \/ \E t \in Targets, e \in EndpointNames : AddEndpoint(t, e) \/ RemoveEndpoint(t, e)
  \/ \E o \in Objects : Close(o)

Loops ==
  \/ \E o \in Objects   : Obey(o) \/ Join(o)
  \/ \E t \in Targets   : EndTarget(t)
  \/ \E f \in Frontends : EndFrontend(f)

Daemon == Serve \/ Leave \/ Waited \/ Unload \/ CloseDataplane

Next == Callers \/ Loops \/ CloseEngine \/ Signal \/ Daemon

\* Loops that can go on do; the daemon's start ends and so does each step of its
\* way down.
Fairness ==
  /\ \A o \in Objects   : WF_vars(Obey(o)) /\ WF_vars(Join(o))
  /\ \A t \in Targets   : WF_vars(EndTarget(t))
  /\ \A f \in Frontends : WF_vars(EndFrontend(f))
  /\ WF_vars(Daemon)

Spec == Init /\ [][Next]_vars /\ Fairness

-----------------------------------------------------------------------------
(* Invariants.                                                             *)

TypeOK ==
  /\ targetCtors \subseteq TargetKinds /\ frontendCtors \subseteq FrontendKinds
  /\ endpoints \in [Targets -> SUBSET EndpointNames]
  /\ targets   \in [TargetNames -> Targets \cup {None}]
  /\ frontends \in [FrontendNames -> Frontends \cup {None}]
  /\ groups    \in [TargetNames -> Targets \cup {None}]
  /\ state     \in [Objects -> States]
  /\ target    \in [Frontends -> Targets \cup {None}]
  /\ mapped \subseteq Frontends /\ wg \subseteq Objects
  /\ closed \in BOOLEAN /\ signalled \in BOOLEAN
  /\ daemon \in {"starting", "serving", "waiting", "unloading", "closing", "gone"}

\* The engine and the dataplane mean the same target by a name, and nobody
\* else's: a live object can be found under its name until it is closed, and no
\* target takes over the group of one that is still winding down.
NamesAgree ==
  /\ \A n \in TargetNames :
       /\ targets[n] # None => state[targets[n]] \in {"open", "closed", "over"}
       /\ groups[n] # None => /\ Alive(groups[n])
                              /\ targets[n] \in {groups[n], None}
  /\ \A n, m \in TargetNames : groups[n] # None /\ groups[n] = groups[m] => n = m
  /\ \A t \in Targets : state[t] = "open" => \E n \in TargetNames : targets[n] = t /\ groups[n] = t
  /\ \A f \in Frontends : state[f] = "open" => \E n \in FrontendNames : frontends[n] = f
  /\ \A n \in FrontendNames : frontends[n] # None => state[frontends[n]] \in {"open", "closed", "over"}

\* Mappings are in the groups of live targets only; that of an open frontend is
\* there for as long as its target lives, whoever has its target's name by then
\* and whatever has become of its endpoint.
RoutesFollowTargets ==
  \A f \in Frontends :
    /\ state[f] = "open" => target[f] # None /\ state[target[f]] \in {"open", "closed", "over"}
    /\ state[f] = "open" /\ Alive(target[f]) => f \in mapped
    /\ f \in mapped => \E n \in TargetNames : groups[n] # None /\ groups[n] = target[f]

\* Whatever lives is waited for, and the daemon goes on when nothing is left.
Counted ==
  /\ \A o \in Objects : Alive(o) => o \in wg
  /\ \A o \in wg : state[o] \in {"open", "closed", "over"}
  /\ daemon \notin {"starting", "serving"} => closed
  /\ daemon \in {"unloading", "closing", "gone"} => wg = {}

IInv == TypeOK /\ NamesAgree /\ RoutesFollowTargets /\ Counted

\* Plugins are unloaded and the dataplane is closed over nobody's head: by then
\* every target and frontend has ended, those created while the signal was on
\* its way included, and no new one comes.
NobodyOutlives ==
  daemon \in {"unloading", "closing", "gone"} => \A o \in Objects : ~Alive(o)

-----------------------------------------------------------------------------
(* Progress.                                                               *)

\* A signal ends the daemon, whatever is created, closed or deleted meanwhile.
ShutdownEnds == signalled ~> daemon = "gone"

\* The name of a target that was deleted comes back.
NamesComeBack ==
  \A n \in TargetNames : targets[n] = None ~> groups[n] = None \/ targets[n] # None
=============================================================================
