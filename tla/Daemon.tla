------------------------------- MODULE Daemon -------------------------------
(***************************************************************************)
(* cmd/proxygw/main.go: the daemon from its configuration to its exit      *)
(* status.  It opens the dataplane, loads the plugins, lets each register  *)
(* its kinds with the engine, makes the targets and then the frontends of  *)
(* the configuration, waits for a signal, and takes everything down again: *)
(* from wherever it has come to when a step fails.                         *)
(*                                                                         *)
(* The signal may come at any time once it is listened for.  It reaches    *)
(* the engine's loop and every target and frontend by their contexts, next *)
(* to run, which sees it only while it serves.                             *)
(*                                                                         *)
(* Registry has the engine's operations and what the dataplane knows;      *)
(* here an engine call is made once, by run, and its outcome is what       *)
(* matters.                                                                *)
(***************************************************************************)
EXTENDS Config

CONSTANTS
  Configs,  \* the configurations the daemon may be started with
  Plugins   \* pluginDecls in their order, with what registry and OnLoad give

IsSequence(s) == s \in Seq({s[i] : i \in DOMAIN s})

\* What YAML can be read into, whether Validate accepts it or not.
ASSUME ConfigsAssumption ==
  \A c \in Configs :
    /\ IsSequence(c.targets) /\ IsSequence(c.frontends)
    /\ \A i \in DOMAIN c.targets :
         LET endpoints == c.targets[i].endpoints IN
           IsSequence(endpoints) /\ \A j \in DOMAIN endpoints : endpoints[j].address \in Address
    /\ \A i \in DOMAIN c.frontends :
         /\ c.frontends[i].proto \in Protocols \cup BadProtocols
         /\ c.frontends[i].listen \in Address
         /\ c.frontends[i].ttl \in TTLs

ASSUME PluginsAssumption ==
  IsSequence(Plugins) /\ \A p \in 1 .. Len(Plugins) :
    /\ Plugins[p].found \in BOOLEAN   \* registered under the source that is named
    /\ Plugins[p].hook \in BOOLEAN    \* it has an OnLoad
    \* without one it has no way to export a kind
    /\ ~(Plugins[p].found /\ Plugins[p].hook) => Plugins[p].targets = {} /\ Plugins[p].frontends = {}

VARIABLES
  config,     \* the document
  phase,      \* where run is
  next,       \* the plugin, target or frontend that is its turn
  todo,       \* kinds of the plugin at hand that are not registered yet
  loaded,     \* loadedPlugins
  unloaded,   \* those OnUnload has been called for, in this order
  hooked,     \* history: plugins whose OnLoad has succeeded
  ctors,      \* e.targetCtors and e.frontendCtors
  live,       \* targets and frontends whose loop has not returned
  bound,      \* mappings in the groups of the targets
  refused,    \* history: frontends whose handler could not be made, or whose
              \* mapping the kernel refused for a target that was warm already
  dplane,     \* none, up, closed (Close has been called, whatever it returned)
  closed,     \* e.closed
  signalled,  \* the signal context is done
  err         \* run's result, if it returned now

plugins == <<todo, loaded, unloaded, hooked, ctors>>
objects == <<live, bound, refused>>
outside == <<dplane, closed, signalled>>
vars    == <<config, phase, next, plugins, objects, outside, err>>

EngineDone == signalled \/ closed

Kind(sort, k) == <<sort, k>>
Exported(p) == {Kind("target", k) : k \in Plugins[p].targets}
                 \cup {Kind("frontend", k) : k \in Plugins[p].frontends}

Target(n)   == <<"target", n>>
Frontend(n) == <<"frontend", n>>

Init ==
  /\ config \in Configs
  /\ phase = "config" /\ next = 1
  /\ todo = {} /\ loaded = << >> /\ unloaded = << >> /\ hooked = {} /\ ctors = {}
  /\ live = {} /\ bound = {} /\ refused = {}
  /\ dplane = "none" /\ closed = FALSE /\ signalled = FALSE
  /\ err = FALSE

-----------------------------------------------------------------------------
(* The way up.                                                             *)

Goto(place) == phase' = place /\ next' = 1

\* run returns with an error, or takes down what there is first.
GiveUp(place) == Goto(place) /\ err' = TRUE

\* The document cannot be read or is not valid, or the log cannot be opened.
LoadConfig ==
  /\ phase = "config"
  /\ \/ ValidConfig(config) /\ Goto("dataplane") /\ UNCHANGED err
     \/ GiveUp("over")
  /\ UNCHANGED <<config, plugins, objects, outside>>

OpenDataplane ==
  /\ phase = "dataplane"
  /\ \/ dplane' = "up" /\ Goto("plugins") /\ UNCHANGED err
     \/ dplane' = dplane /\ GiveUp("over")
  /\ UNCHANGED <<config, plugins, objects, closed, signalled>>

\* OnLoad returns.
LoadPlugin(p) ==
  /\ todo' = Exported(p)
  /\ hooked' = hooked \cup {p}
  /\ loaded' = Append(loaded, p)
  /\ phase' = "kinds"
  /\ UNCHANGED <<next, err>>

\* A plugin that is not registered is passed over, and so is one without OnLoad,
\* which is not unloaded either.
NextPlugin ==
  /\ phase = "plugins"
  /\ IF next > Len(Plugins)
     THEN Goto("targets") /\ UNCHANGED <<todo, loaded, hooked, err>>
     ELSE IF Plugins[next].found /\ Plugins[next].hook
     THEN \/ LoadPlugin(next)
          \/ GiveUp("leaving") /\ UNCHANGED <<todo, loaded, hooked>>
     ELSE next' = next + 1 /\ UNCHANGED <<phase, todo, loaded, hooked, err>>
  /\ UNCHANGED <<config, unloaded, ctors, objects, outside>>

\* AddFrontendKind, AddTargetKind: one after the other, in the order of a map,
\* the frontends' before the targets'.  A closed engine and a kind that it has
\* are errors.
RegisterKind(kind) ==
  /\ phase = "kinds" /\ kind \in todo
  /\ kind[1] = "target" => \A k \in todo : k[1] = "target"
  /\ IF closed \/ kind \in ctors
     THEN GiveUp("leaving") /\ UNCHANGED <<todo, ctors>>
     ELSE /\ ctors' = ctors \cup {kind}
          /\ todo'  = todo \ {kind}
          /\ UNCHANGED <<phase, next, err>>
  /\ UNCHANGED <<config, loaded, unloaded, hooked, objects, outside>>

KindsRegistered ==
  /\ phase = "kinds" /\ todo = {}
  /\ phase' = "plugins" /\ next' = next + 1
  /\ UNCHANGED <<config, plugins, objects, outside, err>>

\* Engine.NewTarget.
CanMake(t) ==
  /\ ~closed
  /\ Target(t.name) \notin live
  /\ Kind("target", t.kind) \in ctors
  /\ \A j \in 1 .. Len(t.endpoints) : EndpointIsValid(t.endpoints[j])

\* A target that cannot be made, for whatever reason, ends the daemon.
MakeTarget(t) ==
  \/ CanMake(t) /\ live' = live \cup {Target(t.name)} /\ next' = next + 1 /\ UNCHANGED <<phase, err>>
  \/ GiveUp("leaving") /\ UNCHANGED live

NextTarget ==
  /\ phase = "targets"
  /\ IF next > Len(config.targets)
     THEN Goto("frontends") /\ UNCHANGED <<live, err>>
     ELSE MakeTarget(config.targets[next])
  /\ UNCHANGED <<config, plugins, bound, refused, outside>>

\* The mapping of a frontend: its own protocol and the address of its endpoint.
MappingOf(f) ==
  LET endpoint == Named(Named(config.targets, f.target).endpoints, f.endpoint)
  IN  [proto |-> f.proto, src |-> f.listen, dst |-> endpoint.address, ttl |-> f.ttl]

\* What AddMappings records: the mapping, in the group of the target.
BindingOf(f) == [frontend |-> f.name, target |-> f.target, mapping |-> MappingOf(f)]

\* Engine.NewFrontend as far as the group: there is a target that lives, with
\* this endpoint, and a kind.
CanBind(f) ==
  /\ ~closed
  /\ Frontend(f.name) \notin live
  /\ Target(f.target) \in live
  /\ f.endpoint \in Names(Named(config.targets, f.target).endpoints)
  /\ Kind("frontend", f.kind) \in ctors

\* addMappings looks at the groups of all targets.
\* Mistake: look the source up among the keys of the groups.
IsNewKey(m) == Validate(m) /\ \A b \in bound : b.mapping.proto = m.proto => b.mapping.src # m.src

IsFree(m) == Validate(m) /\ \A b \in bound : ~Overlaps(m, b.mapping)

\* Mistake: leave out the rest, too.
SkipTheRest == next' = Len(config.frontends) + 1

Skip == next' = next + 1

\* A frontend that cannot be made is logged and left out.  The handler may fail in
\* any case; AddMappings of a mapping that is free fails when the group is enabled
\* and the kernel refuses the batch.  One that is made is asked to start, which its
\* own loop does, and which can be rejected only when it has been told to end: that
\* is logged and changes nothing here.
MakeFrontend(f) ==
  \/ /\ CanBind(f) /\ IsFree(MappingOf(f))
     /\ live'  = live \cup {Frontend(f.name)}
     /\ bound' = bound \cup {BindingOf(f)}
     /\ next'  = next + 1
     /\ UNCHANGED refused
  \/ /\ CanBind(f) => IsFree(MappingOf(f))
     /\ refused' = refused \cup {f.name}
     /\ Skip /\ UNCHANGED <<live, bound>>
  \/ /\ CanBind(f) /\ ~IsFree(MappingOf(f))
     /\ Skip /\ UNCHANGED objects

NextFrontend ==
  /\ phase = "frontends"
  /\ IF next > Len(config.frontends)
     THEN Goto("serving") /\ UNCHANGED objects
     ELSE MakeFrontend(config.frontends[next]) /\ UNCHANGED phase
  /\ UNCHANGED <<config, plugins, outside, err>>

-----------------------------------------------------------------------------
(* The way down.                                                           *)

StopServing ==
  /\ phase = "serving" /\ signalled
  /\ Goto("leaving")
  /\ UNCHANGED <<config, plugins, objects, outside, err>>

\* closeEngine: Close, then Wait.
\* Mistake: only wait.
WaitOnly ==
  /\ phase = "leaving"
  /\ Goto("waiting")
  /\ UNCHANGED <<config, plugins, objects, outside, err>>

CloseEngine ==
  /\ phase = "leaving"
  /\ closed' = TRUE
  /\ Goto("waiting")
  /\ UNCHANGED <<config, plugins, objects, dplane, signalled, err>>

\* Mistake: do not wait.
WaitForNobody ==
  /\ phase = "waiting"
  /\ Goto("unloading")
  /\ UNCHANGED <<config, plugins, objects, outside, err>>

Waited ==
  /\ phase = "waiting" /\ live = {}
  /\ Goto("unloading")
  /\ UNCHANGED <<config, plugins, objects, outside, err>>

\* The last loaded comes first, and an error of one does not keep the others.
Unload ==
  /\ phase = "unloading" /\ Len(unloaded) < Len(loaded)
  /\ unloaded' = Append(unloaded, loaded[Len(loaded) - Len(unloaded)])
  /\ err' \in {err, TRUE}
  /\ UNCHANGED <<config, phase, next, todo, loaded, hooked, ctors, objects, outside>>

\* An error of Close is logged: what may then be left in the kernel is said by
\* Connft.
CloseDataplane ==
  /\ phase = "unloading" /\ Len(unloaded) = Len(loaded)
  /\ dplane' = "closed"
  /\ Goto("over")
  /\ UNCHANGED <<config, plugins, objects, closed, signalled, err>>

-----------------------------------------------------------------------------
(* Next to run: the signal, the engine's loop, and those of the objects.   *)

Signal ==
  /\ phase \notin {"config", "over"} /\ ~signalled
  /\ signalled' = TRUE
  /\ UNCHANGED <<config, phase, next, plugins, objects, dplane, closed, err>>

\* The poll loop closes the engine on its way out.
EndEngine ==
  /\ EngineDone /\ ~closed
  /\ closed' = TRUE
  /\ UNCHANGED <<config, phase, next, plugins, objects, dplane, signalled, err>>

\* The mappings of a target go with its group, that of a frontend by its own
\* hand.
EndObject(o) ==
  /\ o \in live /\ EngineDone
  /\ live'  = live \ {o}
  /\ bound' = {b \in bound : Target(b.target) # o /\ Frontend(b.frontend) # o}
  /\ UNCHANGED <<config, phase, next, plugins, refused, outside, err>>

Run ==
  \/ LoadConfig \/ OpenDataplane
  \/ NextPlugin \/ KindsRegistered \/ \E kind \in todo : RegisterKind(kind)
  \/ NextTarget \/ NextFrontend
  \/ StopServing \/ CloseEngine \/ Waited \/ Unload \/ CloseDataplane

Next == Run \/ Signal \/ EndEngine \/ \E o \in live : EndObject(o)

AnyObject ==
  UNION {{Target(n) : n \in Names(c.targets)} \cup {Frontend(n) : n \in Names(c.frontends)} : c \in Configs}

\* run goes on while it can, and so do the loops that have been told to end.
Fairness == WF_vars(Run) /\ WF_vars(EndEngine) /\ \A o \in AnyObject : WF_vars(EndObject(o))

Spec == Init /\ [][Next]_vars /\ Fairness

-----------------------------------------------------------------------------
(* Invariants.                                                             *)

Indexes == 1 .. Len(Plugins)
AnyKind == UNION {Exported(p) : p \in Indexes}

TypeOK ==
  /\ config \in Configs
  /\ phase \in {"config", "dataplane", "plugins", "kinds", "targets", "frontends",
                "serving", "leaving", "waiting", "unloading", "over"}
  /\ next \in Nat
  /\ todo \subseteq AnyKind /\ ctors \subseteq AnyKind
  /\ loaded \in Seq(Indexes) /\ unloaded \in Seq(Indexes) /\ hooked \subseteq Indexes
  /\ live \subseteq AnyObject
  /\ \A b \in bound : b.mapping \in AnyMapping
  /\ dplane \in {"none", "up", "closed"}
  /\ closed \in BOOLEAN /\ signalled \in BOOLEAN /\ err \in BOOLEAN

\* However far the daemon came: when it has gone every plugin whose OnLoad
\* succeeded has been unloaded, once, also one whose kinds were refused; nothing
\* it made lives, and a dataplane that was opened has been told to close.
NothingLeft ==
  phase = "over" =>
    /\ \A p \in hooked : \E i \in 1 .. Len(unloaded) : unloaded[i] = p
    /\ \A i, j \in 1 .. Len(unloaded) : unloaded[i] = unloaded[j] => i = j
    /\ live = {} /\ dplane # "up"

\* As long as a target or frontend lives, the plugin its handler comes from is
\* loaded, and so is every plugin that was loaded before that one.
HandlersBacked ==
  \A o \in live :
    \E i \in 1 .. Len(loaded) :
      /\ Kind(o[1], Named(IF o[1] = "target" THEN config.targets ELSE config.frontends, o[2]).kind)
           \in Exported(loaded[i])
      /\ \A j \in 1 .. i, k \in 1 .. Len(unloaded) : unloaded[k] # loaded[j]

\* An accepted configuration can be applied as far as its names go: no target
\* is made twice, and each frontend finds its target and endpoint, unless a
\* signal has come in between.
NamesResolve ==
  ~EngineDone =>
    /\ phase = "targets" /\ next <= Len(config.targets) =>
         Target(config.targets[next].name) \notin live
    /\ phase = "frontends" /\ next <= Len(config.frontends) =>
         LET f == config.frontends[next]
         IN  /\ Frontend(f.name) \notin live /\ Target(f.target) \in live
             /\ f.endpoint \in Names(Named(config.targets, f.target).endpoints)

\* An exit status of zero means that the daemon was told to stop and had a valid
\* configuration with every kind that its targets are of.
StatusIsHonest ==
  phase = "over" /\ ~err =>
    /\ signalled
    /\ ValidConfig(config)
    /\ \A i \in 1 .. Len(config.targets) : Kind("target", config.targets[i].kind) \in ctors

\* Plugins are loaded in their order, each at most once, and unloaded in the
\* opposite one, when nothing lives any more.
PluginsInOrder ==
  /\ hooked = {loaded[i] : i \in 1 .. Len(loaded)}
  /\ \A i, j \in 1 .. Len(loaded) : loaded[i] = loaded[j] => i = j
  /\ phase \in {"config", "dataplane"} => loaded = << >>
  /\ phase = "plugins" => \A i \in 1 .. Len(loaded) : loaded[i] < next
  /\ phase = "kinds"   => \A i \in 1 .. Len(loaded) : loaded[i] <= next
  /\ Len(unloaded) <= Len(loaded)
  /\ \A i \in 1 .. Len(unloaded) : unloaded[i] = loaded[Len(loaded) - i + 1]
  /\ phase \notin {"unloading", "over"} => unloaded = << >>
  /\ phase = "over" => Len(unloaded) = Len(loaded)

\* The dataplane is there from the first plugin to the last; configurations
\* that were not accepted come no further than their test.
InPlace ==
  /\ next # 0
  /\ dplane = "up" <=> phase \notin {"config", "dataplane", "over"}
  /\ phase \notin {"config", "over"} => ValidConfig(config)

\* Kinds come from plugins that were loaded, objects from the configuration and
\* of such a kind; every mapping is that of a frontend that lives.
ObjectsBacked ==
  /\ todo \cup ctors \subseteq UNION {Exported(p) : p \in hooked}
  /\ live \subseteq {Target(n) : n \in Names(config.targets)}
                      \cup {Frontend(n) : n \in Names(config.frontends)}
  /\ \A i \in 1 .. Len(config.targets) :
       Target(config.targets[i].name) \in live => Kind("target", config.targets[i].kind) \in ctors
  /\ \A i \in 1 .. Len(config.frontends) :
       Frontend(config.frontends[i].name) \in live => Kind("frontend", config.frontends[i].kind) \in ctors
  /\ \A b \in bound : \E i \in 1 .. Len(config.frontends) :
       Frontend(config.frontends[i].name) \in live /\ b = BindingOf(config.frontends[i])

\* No two mappings overlap; until the daemon ends a frontend that lives has its own.
MappingsApart ==
  /\ \A b, c \in bound : Overlaps(b.mapping, c.mapping) => b = c
  /\ ~EngineDone => \A i \in 1 .. Len(config.frontends) :
       Frontend(config.frontends[i].name) \in live => BindingOf(config.frontends[i]) \in bound

\* What has been made of the configuration so far: before the targets and after
\* the wait nothing, then targets up to the next, then frontends up to the next.
MadeSoFar ==
  /\ phase \notin {"targets", "frontends", "serving", "leaving", "waiting"} => live = {}
  /\ phase = "targets" =>
       /\ live \subseteq {Target(config.targets[i].name) : i \in 1 .. next - 1}
       /\ next <= Len(config.targets) + 1
  /\ phase = "frontends" =>
       /\ \A i \in next .. Len(config.frontends) : Frontend(config.frontends[i].name) \notin live
       /\ next <= Len(config.frontends) + 1

\* While nobody has asked it to stop none of that is missing but for a reason.
IsServed(i) ==
  LET f == config.frontends[i] IN
    \/ Frontend(f.name) \in live \/ f.name \in refused
    \/ ~Validate(MappingOf(f))
    \/ \E j \in 1 .. i - 1 :
         /\ Frontend(config.frontends[j].name) \in live
         /\ Overlaps(MappingOf(f), MappingOf(config.frontends[j]))

NoneMissing ==
  /\ phase \in {"targets", "frontends", "serving"} =>
       \A i \in 1 .. Len(config.targets) :
         phase # "targets" \/ i < next =>
           /\ Kind("target", config.targets[i].kind) \in ctors
           /\ ~EngineDone => Target(config.targets[i].name) \in live
  /\ phase \in {"frontends", "serving"} /\ ~EngineDone =>
       \A i \in 1 .. Len(config.frontends) : phase = "serving" \/ i < next => IsServed(i)

\* Without an error run goes down only when the signal has come while it served.
DownForAReason ==
  phase \in {"leaving", "waiting", "unloading", "over"} /\ ~err =>
    /\ signalled
    /\ ValidConfig(config)
    /\ \A i \in 1 .. Len(config.targets) : Kind("target", config.targets[i].kind) \in ctors

IInv ==
  /\ TypeOK /\ NothingLeft /\ HandlersBacked /\ NamesResolve /\ StatusIsHonest
  /\ PluginsInOrder /\ InPlace /\ ObjectsBacked /\ MappingsApart /\ MadeSoFar /\ NoneMissing
  /\ DownForAReason

\* While nobody has asked it to stop, a daemon that serves has all its targets,
\* and lacks a frontend only if its handler could not be made or the kernel refused
\* its mapping (refused), its mapping is not valid, or one that comes before it in
\* the configuration has what it needs.
AllServed ==
  phase = "serving" /\ ~EngineDone =>
    /\ \A i \in 1 .. Len(config.targets) : Target(config.targets[i].name) \in live
    /\ \A i \in 1 .. Len(config.frontends) : IsServed(i)

\* From the document to the packet: until the daemon ends, and whichever targets are
\* warm, a packet goes to the endpoint of the one frontend that lives, is bound to a
\* warm target and listens for it, and nowhere if there is none; also where the document
\* has a wildcard and an address on one port.
RoutedAsConfigured ==
  ~EngineDone => \A warm \in SUBSET Names(config.targets), p \in Packet :
    LET Owns(i) == LET f == config.frontends[i] IN
                     Frontend(f.name) \in live /\ f.target \in warm /\ Matches(MappingOf(f), p)
        owners  == {i \in 1 .. Len(config.frontends) : Owns(i)}
    IN  /\ Translations(Elements({b.mapping : b \in {c \in bound : c.target \in warm}}), p)
             = {MappingOf(config.frontends[i]).dst : i \in owners}
        /\ \A i, j \in owners : i = j

-----------------------------------------------------------------------------
(* Progress.                                                               *)

\* Whatever fails on the way up and whenever the signal comes, the daemon goes
\* down and comes to an end.
Ends == signalled \/ err ~> phase = "over"
=============================================================================
