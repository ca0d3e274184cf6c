---------------------------- MODULE DaemonProofs ----------------------------
(* Proofs about modules Config and Daemon, for any configurations and plugins. *)
EXTENDS Daemon, MappingProofs

-----------------------------------------------------------------------------
(* Sequences, names and objects.                                           *)

LEMMA SequenceIs ==
  ASSUME NEW s, IsSequence(s)
  PROVE  Len(s) \in Nat /\ DOMAIN s = 1 .. Len(s)
  BY DEF IsSequence

\* The configuration and its parts have lengths.
LEMMA Lengths ==
  ASSUME TypeOK
  PROVE  /\ Len(config.targets) \in Nat /\ Len(config.frontends) \in Nat /\ Len(Plugins) \in Nat
         /\ Len(loaded) \in Nat /\ Len(unloaded) \in Nat
  BY SequenceIs, ConfigsAssumption, PluginsAssumption DEF TypeOK

\* What a name stands for has that name, and is the only one when names are
\* distinct.
LEMMA NamedHasName ==
  ASSUME NEW s, NEW n \in Names(s)
  PROVE  \E i \in 1 .. Len(s) : s[i].name = n /\ Named(s, n) = s[i]
<1> DEFINE i == CHOOSE i \in 1 .. Len(s) : s[i].name = n
<1>1. \E j \in 1 .. Len(s) : s[j].name = n
  BY DEF Names
<1>2. i \in 1 .. Len(s) /\ s[i].name = n
  BY <1>1
<1> QED
  BY <1>2 DEF Named

LEMMA NamedIsOnly ==
  ASSUME NEW s, Distinct(s), NEW i \in 1 .. Len(s)
  PROVE  Named(s, s[i].name) = s[i]
<1>1. s[i].name \in Names(s)
  BY DEF Names
<1>2. PICK j \in 1 .. Len(s) : s[j].name = s[i].name /\ Named(s, s[i].name) = s[j]
  BY <1>1, NamedHasName
<1>3. j = i
  BY <1>2 DEF Distinct
<1> QED
  BY <1>2, <1>3

\* Targets and frontends are told apart, and so are two of one sort by their names.
LEMMA ObjectsApart ==
  ASSUME NEW n, NEW m
  PROVE  /\ Target(n) # Frontend(m)
         /\ Target(n) = Target(m) => n = m
         /\ Frontend(n) = Frontend(m) => n = m
         /\ Target(n)[1] = "target" /\ Target(n)[2] = n
         /\ Frontend(n)[1] = "frontend" /\ Frontend(n)[2] = n
  BY DEF Target, Frontend

-----------------------------------------------------------------------------
(* What the inductive part of the invariant is enough for.                 *)

Inductive ==
  /\ TypeOK
  /\ PluginsInOrder /\ InPlace /\ ObjectsBacked /\ MappingsApart /\ MadeSoFar /\ NoneMissing
  /\ DownForAReason

\* Everything loaded has been unloaded, once, when the daemon has gone.
LEMMA NothingIsLeft == Inductive => NothingLeft
<1> SUFFICES ASSUME Inductive, phase = "over" PROVE NothingLeft
  BY DEF NothingLeft
<1>1. /\ Len(unloaded) = Len(loaded) /\ Len(loaded) \in Nat
      /\ \A i \in 1 .. Len(unloaded) : unloaded[i] = loaded[Len(loaded) - i + 1]
      /\ \A i, j \in 1 .. Len(loaded) : loaded[i] = loaded[j] => i = j
      /\ hooked = {loaded[i] : i \in 1 .. Len(loaded)}
  BY Lengths DEF Inductive, PluginsInOrder
<1>2. ASSUME NEW p \in hooked PROVE \E i \in 1 .. Len(unloaded) : unloaded[i] = p
  <2>1. PICK i \in 1 .. Len(loaded) : loaded[i] = p
    BY <1>1, <1>2
  <2>2. Len(loaded) - i + 1 \in 1 .. Len(unloaded) /\ Len(loaded) - (Len(loaded) - i + 1) + 1 = i
    BY <1>1
  <2> QED
    BY <1>1, <2>1, <2>2
<1>3. ASSUME NEW i \in 1 .. Len(unloaded), NEW j \in 1 .. Len(unloaded), unloaded[i] = unloaded[j]
      PROVE  i = j
  <2>1. /\ Len(loaded) - i + 1 \in 1 .. Len(loaded) /\ Len(loaded) - j + 1 \in 1 .. Len(loaded)
        /\ loaded[Len(loaded) - i + 1] = loaded[Len(loaded) - j + 1]
    BY <1>1, <1>3
  <2>2. Len(loaded) - i + 1 = Len(loaded) - j + 1
    BY <1>1, <2>1
  <2> QED
    BY <1>1, <2>2
<1>4. live = {} /\ dplane # "up"
  BY DEF Inductive, InPlace, MadeSoFar
<1> QED
  BY <1>2, <1>3, <1>4 DEF NothingLeft

\* The kind of an object that lives is known, and so exported by a plugin that
\* was loaded; nothing is unloaded before the last object has gone.
LEMMA HandlersAreBacked == Inductive => HandlersBacked
<1> SUFFICES ASSUME Inductive, NEW o \in live
             PROVE  \E i \in 1 .. Len(loaded) :
                      /\ Kind(o[1], Named(IF o[1] = "target" THEN config.targets
                                                             ELSE config.frontends, o[2]).kind)
                           \in Exported(loaded[i])
                      /\ \A j \in 1 .. i, k \in 1 .. Len(unloaded) : unloaded[k] # loaded[j]
  BY DEF HandlersBacked
<1> DEFINE s == IF o[1] = "target" THEN config.targets ELSE config.frontends
<1>1. phase \notin {"config", "over", "unloading"}
  BY DEF Inductive, MadeSoFar
<1>2. unloaded = << >>
  BY <1>1 DEF Inductive, PluginsInOrder
<1>3. Distinct(config.targets) /\ Distinct(config.frontends)
  BY <1>1 DEF Inductive, InPlace, ValidConfig
<1>4. Kind(o[1], Named(s, o[2]).kind) \in ctors
  <2>1. CASE \E n \in Names(config.targets) : o = Target(n)
    <3>1. PICK i \in 1 .. Len(config.targets) : o = Target(config.targets[i].name)
      BY <2>1 DEF Names
    <3>2. o[1] = "target" /\ o[2] = config.targets[i].name
      BY <3>1, ObjectsApart
    <3>3. Named(s, o[2]) = config.targets[i]
      BY <1>3, <3>2, NamedIsOnly
    <3> QED
      BY <3>1, <3>2, <3>3 DEF Inductive, ObjectsBacked
  <2>2. CASE \E n \in Names(config.frontends) : o = Frontend(n)
    <3>1. PICK i \in 1 .. Len(config.frontends) : o = Frontend(config.frontends[i].name)
      BY <2>2 DEF Names
    <3>2. o[1] = "frontend" /\ o[2] = config.frontends[i].name
      BY <3>1, ObjectsApart
    <3>3. Named(s, o[2]) = config.frontends[i]
      BY <1>3, <3>2, NamedIsOnly
    <3> QED
      BY <3>1, <3>2, <3>3 DEF Inductive, ObjectsBacked
  <2> QED
    BY <2>1, <2>2 DEF Inductive, ObjectsBacked
<1>5. PICK p \in hooked : Kind(o[1], Named(s, o[2]).kind) \in Exported(p)
  BY <1>4 DEF Inductive, ObjectsBacked
<1>6. PICK i \in 1 .. Len(loaded) : loaded[i] = p
  BY <1>5 DEF Inductive, PluginsInOrder
<1> QED
  BY <1>2, <1>5, <1>6

\* Names are distinct and point at targets that have been made.
LEMMA NamesDoResolve == Inductive => NamesResolve
<1> SUFFICES ASSUME Inductive, ~EngineDone PROVE NamesResolve
  BY DEF NamesResolve
<1>0. Len(config.targets) \in Nat /\ Len(config.frontends) \in Nat /\ next \in Nat /\ next # 0
  BY Lengths DEF Inductive, TypeOK, InPlace
<1>1. ASSUME phase = "targets", next <= Len(config.targets)
      PROVE  Target(config.targets[next].name) \notin live
  <2>1. Distinct(config.targets)
    BY <1>1 DEF Inductive, InPlace, ValidConfig
  <2>2. ASSUME NEW i \in 1 .. next - 1 PROVE config.targets[i].name # config.targets[next].name
    BY <1>0, <1>1, <2>1, <2>2 DEF Distinct
  <2> QED
    BY <1>1, <2>2, ObjectsApart DEF Inductive, MadeSoFar
<1>2. ASSUME phase = "frontends", next <= Len(config.frontends)
      PROVE  LET f == config.frontends[next]
             IN  /\ Frontend(f.name) \notin live /\ Target(f.target) \in live
                 /\ f.endpoint \in Names(Named(config.targets, f.target).endpoints)
  <2> DEFINE f == config.frontends[next]
  <2>1. next \in 1 .. Len(config.frontends) /\ next \in next .. Len(config.frontends)
    BY <1>0, <1>2
  <2>2. HasTargetEndpoint(config, f.target, f.endpoint)
    BY <1>2, <2>1 DEF Inductive, InPlace, ValidConfig, ValidFrontend
  <2>3. PICK i \in 1 .. Len(config.targets) : config.targets[i].name = f.target
    BY <2>2 DEF HasTargetEndpoint, Names
  <2>4. Target(f.target) \in live
    BY <1>2, <2>3 DEF Inductive, NoneMissing
  <2>5. Frontend(f.name) \notin live
    BY <1>2, <2>1 DEF Inductive, MadeSoFar
  <2> QED
    BY <2>2, <2>4, <2>5 DEF HasTargetEndpoint
<1> QED
  BY <1>1, <1>2 DEF NamesResolve

LEMMA StatusIsSo == Inductive => StatusIsHonest
  BY DEF Inductive, DownForAReason, StatusIsHonest

LEMMA InductiveIsEnough == IInv <=> Inductive
  BY NothingIsLeft, HandlersAreBacked, NamesDoResolve, StatusIsSo DEF IInv, Inductive

-----------------------------------------------------------------------------
(* The inductive part, conjunct by conjunct: types.                        *)

Flags ==
  /\ dplane \in {"none", "up", "closed"}
  /\ closed \in BOOLEAN /\ signalled \in BOOLEAN /\ err \in BOOLEAN

Ranges ==
  /\ config \in Configs
  /\ phase \in {"config", "dataplane", "plugins", "kinds", "targets", "frontends",
                "serving", "leaving", "waiting", "unloading", "over"}
  /\ next \in Nat
  /\ todo \subseteq AnyKind /\ ctors \subseteq AnyKind
  /\ loaded \in Seq(Indexes) /\ unloaded \in Seq(Indexes) /\ hooked \subseteq Indexes
  /\ live \subseteq AnyObject
  /\ \A b \in bound : b.mapping \in AnyMapping

LEMMA TypeIsFlagsAndRanges == TypeOK <=> Flags /\ Ranges
  BY Zenon DEF TypeOK, Flags, Ranges

LEMMA InitInductive == Init => Inductive
<1> SUFFICES ASSUME Init PROVE Inductive
  OBVIOUS
<1> USE DEF Init
<1>1. Flags
  BY DEF Flags
<1>2. Ranges
  BY DEF Ranges
<1>3. PluginsInOrder
  BY DEF PluginsInOrder
<1>4. InPlace /\ ObjectsBacked /\ MappingsApart /\ MadeSoFar /\ NoneMissing /\ DownForAReason
  BY DEF InPlace, ObjectsBacked, MappingsApart, MadeSoFar, NoneMissing, DownForAReason
<1> QED
  BY <1>1, <1>2, <1>3, <1>4, TypeIsFlagsAndRanges DEF Inductive

\* What a target or a frontend of the configuration is made into.
LEMMA MadeIsObject ==
  ASSUME TypeOK
  PROVE  /\ \A i \in 1 .. Len(config.targets) : Target(config.targets[i].name) \in AnyObject
         /\ \A i \in 1 .. Len(config.frontends) : Frontend(config.frontends[i].name) \in AnyObject
<1>1. config \in Configs
  BY TypeIsFlagsAndRanges DEF Ranges
<1>2. /\ \A i \in 1 .. Len(config.targets) : config.targets[i].name \in Names(config.targets)
      /\ \A i \in 1 .. Len(config.frontends) : config.frontends[i].name \in Names(config.frontends)
  BY DEF Names
<1>3. \A n \in Names(config.targets) : Target(n) \in AnyObject
  BY <1>1 DEF AnyObject
<1>4. \A n \in Names(config.frontends) : Frontend(n) \in AnyObject
  BY <1>1 DEF AnyObject
<1> QED
  BY <1>2, <1>3, <1>4

LEMMA MappingIsMapping ==
  ASSUME TypeOK, ObjectsBacked, NEW i \in 1 .. Len(config.frontends), CanBind(config.frontends[i])
  PROVE  MappingOf(config.frontends[i]) \in AnyMapping
<1> DEFINE f == config.frontends[i]
           t == Named(config.targets, f.target)
           e == Named(t.endpoints, f.endpoint)
<1>1. config \in Configs /\ DOMAIN config.targets = 1 .. Len(config.targets)
      /\ DOMAIN config.frontends = 1 .. Len(config.frontends)
  BY SequenceIs, ConfigsAssumption DEF TypeOK
<1>2. f.target \in Names(config.targets) /\ f.endpoint \in Names(t.endpoints)
  <2>1. Target(f.target) \in live /\ f.endpoint \in Names(t.endpoints)
    BY DEF CanBind
  <2> QED
    BY <2>1, ObjectsApart DEF ObjectsBacked
<1>3. PICK j \in 1 .. Len(config.targets) : t = config.targets[j]
  BY <1>2, NamedHasName
<1>4. PICK k \in 1 .. Len(t.endpoints) : e = t.endpoints[k]
  BY <1>2, NamedHasName
<1>5. e.address \in Address
  <2>1. IsSequence(t.endpoints) /\ \A x \in DOMAIN t.endpoints : t.endpoints[x].address \in Address
    BY <1>1, <1>3, ConfigsAssumption
  <2> QED
    BY <1>4, <2>1, SequenceIs
<1>6. f.proto \in Protocols \cup BadProtocols /\ f.listen \in Address /\ f.ttl \in TTLs
  BY <1>1, ConfigsAssumption
<1>7. MappingOf(f) = [proto |-> f.proto, src |-> f.listen, dst |-> e.address, ttl |-> f.ttl]
  BY DEF MappingOf
<1> QED
  BY <1>5, <1>6, <1>7 DEF AnyMapping

LEMMA NextFlags == Flags /\ [Next]_vars => Flags'
<1> SUFFICES ASSUME Flags, [Next]_vars PROVE Flags'
  OBVIOUS
<1> USE DEF Flags, plugins, objects, outside, Goto, GiveUp
<1>1. CASE Run
  BY <1>1 DEF Run, LoadConfig, OpenDataplane, NextPlugin, LoadPlugin, KindsRegistered, RegisterKind,
              NextTarget, MakeTarget, NextFrontend, StopServing, CloseEngine, Waited, Unload,
              CloseDataplane
<1>2. CASE Signal \/ EndEngine \/ \E o \in live : EndObject(o)
  BY <1>2 DEF Signal, EndEngine, EndObject
<1> QED
  BY <1>1, <1>2 DEF Next, vars

LEMMA NextRanges == Inductive /\ [Next]_vars => Ranges'
<1> SUFFICES ASSUME Inductive, [Next]_vars PROVE Ranges'
  OBVIOUS
<1>1. TypeOK /\ Ranges /\ ObjectsBacked /\ next # 0
  BY TypeIsFlagsAndRanges DEF Inductive, InPlace
<1>2. /\ Len(config.targets) \in Nat /\ Len(config.frontends) \in Nat /\ Len(Plugins) \in Nat
      /\ Len(loaded) \in Nat /\ Len(unloaded) \in Nat
  BY <1>1, Lengths
<1> USE DEF Ranges, plugins, objects, outside, Goto, GiveUp
<1>3. CASE LoadConfig \/ OpenDataplane
  BY <1>1, <1>3 DEF LoadConfig, OpenDataplane
<1>4. CASE NextPlugin
  <2>1. CASE LoadPlugin(next) /\ next <= Len(Plugins)
    <3>1. next \in Indexes
      BY <1>1, <1>2, <2>1 DEF Indexes
    <3>2. Exported(next) \subseteq AnyKind
      BY <3>1 DEF AnyKind
    <3> QED
      BY <1>1, <1>4, <2>1, <3>1, <3>2 DEF NextPlugin, LoadPlugin
  <2>2. CASE ~(LoadPlugin(next) /\ next <= Len(Plugins))
    BY <1>1, <1>2, <1>4, <2>2 DEF NextPlugin
  <2> QED
    BY <2>1, <2>2
<1>5. CASE (\E kind \in todo : RegisterKind(kind)) \/ KindsRegistered
  BY <1>1, <1>5 DEF RegisterKind, KindsRegistered
<1>6. CASE NextTarget
  <2>1. live' \subseteq AnyObject
    <3>1. ASSUME MakeTarget(config.targets[next]), next <= Len(config.targets) PROVE live' \subseteq AnyObject
      BY <1>1, <1>2, <3>1, MadeIsObject DEF MakeTarget
    <3> QED
      BY <1>1, <1>2, <1>6, <3>1 DEF NextTarget
  <2> QED
    BY <1>1, <1>6, <2>1 DEF NextTarget, MakeTarget
<1>7. CASE NextFrontend
  <2>1. CASE MakeFrontend(config.frontends[next]) /\ next <= Len(config.frontends)
    <3>1. next \in 1 .. Len(config.frontends)
      BY <1>1, <1>2, <2>1
    <3>2. live' \subseteq AnyObject
      BY <1>1, <2>1, <3>1, MadeIsObject DEF MakeFrontend
    <3>3. ASSUME NEW b \in bound', b \notin bound PROVE b.mapping \in AnyMapping
      <4>1. /\ CanBind(config.frontends[next])
            /\ b.mapping = MappingOf(config.frontends[next])
        BY <2>1, <3>3 DEF MakeFrontend, BindingOf
      <4> QED
        BY <1>1, <3>1, <4>1, MappingIsMapping
    <3>4. next' \in Nat
      BY <1>1, <2>1 DEF MakeFrontend, Skip
    <3> QED
      BY <1>1, <1>7, <2>1, <3>2, <3>3, <3>4 DEF NextFrontend
  <2>2. CASE ~(MakeFrontend(config.frontends[next]) /\ next <= Len(config.frontends))
    BY <1>1, <1>2, <1>7, <2>2 DEF NextFrontend
  <2> QED
    BY <2>1, <2>2
<1>8. CASE StopServing \/ CloseEngine \/ Waited \/ CloseDataplane
  BY <1>1, <1>8 DEF StopServing, CloseEngine, Waited, CloseDataplane
<1>9. CASE Unload
  <2>1. Len(loaded) - Len(unloaded) \in 1 .. Len(loaded)
    BY <1>2, <1>9 DEF Unload
  <2>2. loaded[Len(loaded) - Len(unloaded)] \in Indexes
    BY <1>1, <2>1
  <2> QED
    BY <1>1, <1>9, <2>2 DEF Unload
<1>10. CASE Signal \/ EndEngine \/ \E o \in live : EndObject(o)
  BY <1>1, <1>10 DEF Signal, EndEngine, EndObject
<1>11. CASE UNCHANGED vars
  BY <1>1, <1>11 DEF vars
<1> QED
  BY <1>3, <1>4, <1>5, <1>6, <1>7, <1>8, <1>9, <1>10, <1>11 DEF Next, Run

LEMMA NextTypeOK == Inductive /\ [Next]_vars => TypeOK'
<1> SUFFICES ASSUME Inductive, [Next]_vars PROVE TypeOK'
  OBVIOUS
<1>1. Flags' /\ Ranges'
  BY NextFlags, NextRanges, TypeIsFlagsAndRanges DEF Inductive
<1> QED
  BY Zenon, <1>1 DEF TypeOK, Flags, Ranges

\* The loading and unloading of plugins.
LEMMA NextPluginsInOrder == Inductive /\ [Next]_vars => PluginsInOrder'
<1> SUFFICES ASSUME Inductive, [Next]_vars PROVE PluginsInOrder'
  OBVIOUS
<1>1. TypeOK /\ PluginsInOrder
  BY DEF Inductive
<1>2. Len(loaded) \in Nat /\ Len(unloaded) \in Nat /\ Len(Plugins) \in Nat /\ next \in Nat
      /\ \A i \in 1 .. Len(loaded) : loaded[i] \in Nat
  BY <1>1, Lengths, TypeIsFlagsAndRanges DEF Ranges, Indexes
<1> USE DEF PluginsInOrder, plugins, Goto, GiveUp
<1>3. CASE NextPlugin
  <2>1. CASE LoadPlugin(next) /\ next <= Len(Plugins)
    <3>1. /\ loaded' = Append(loaded, next) /\ hooked' = hooked \cup {next}
          /\ phase = "plugins" /\ phase' = "kinds" /\ next' = next /\ unloaded' = unloaded
      BY <1>3, <2>1 DEF NextPlugin, LoadPlugin
    <3>2. /\ Len(loaded') = Len(loaded) + 1 /\ loaded'[Len(loaded) + 1] = next
          /\ \A i \in 1 .. Len(loaded) : loaded'[i] = loaded[i]
      BY <1>1, <1>2, <3>1 DEF TypeOK
    <3>3. \A i \in 1 .. Len(loaded) : loaded[i] < next
      BY <1>1, <3>1
    <3>4. \A i \in 1 .. Len(loaded') : i \in 1 .. Len(loaded) \/ i = Len(loaded) + 1
      BY <1>2, <3>2
    <3>5. hooked' = {loaded'[i] : i \in 1 .. Len(loaded')}
      BY <1>1, <1>2, <3>1, <3>2, <3>4
    <3>6. \A i, j \in 1 .. Len(loaded') : loaded'[i] = loaded'[j] => i = j
      BY <1>1, <1>2, <3>2, <3>3, <3>4
    <3>7. \A i \in 1 .. Len(loaded') : loaded'[i] <= next'
      BY <1>2, <3>1, <3>2, <3>3, <3>4
    <3>8. unloaded' = << >>
      BY <1>1, <3>1
    <3> QED
      BY <1>2, <3>1, <3>2, <3>5, <3>6, <3>7, <3>8
  <2>2. ASSUME ~(LoadPlugin(next) /\ next <= Len(Plugins)) PROVE PluginsInOrder'
    <3>1. /\ loaded' = loaded /\ hooked' = hooked /\ unloaded' = unloaded /\ unloaded = << >>
          /\ \/ phase' = "plugins" /\ next' = next + 1
             \/ phase' \in {"targets", "leaving"}
      BY <1>1, <1>2, <1>3, <2>2 DEF NextPlugin
    <3>2. \A i \in 1 .. Len(loaded) : loaded[i] < next
      BY <1>1, <1>3 DEF NextPlugin
    <3> QED
      BY <1>1, <1>2, <3>1, <3>2
  <2> QED
    BY <2>1, <2>2
<1>4. CASE (\E kind \in todo : RegisterKind(kind)) \/ KindsRegistered
  <2>1. /\ loaded' = loaded /\ hooked' = hooked /\ unloaded' = unloaded /\ phase = "kinds"
        /\ \/ phase' = "kinds" /\ next' = next
           \/ phase' = "plugins" /\ next' = next + 1
           \/ phase' = "leaving"
    BY <1>4 DEF RegisterKind, KindsRegistered
  <2>2. \A i \in 1 .. Len(loaded) : loaded[i] <= next
    BY <1>1, <2>1
  <2> QED
    BY <1>1, <1>2, <2>1, <2>2
<1>5. CASE Unload
  <2> DEFINE n == Len(unloaded)
  <2>1. /\ unloaded' = Append(unloaded, loaded[Len(loaded) - n]) /\ n < Len(loaded)
        /\ loaded' = loaded /\ hooked' = hooked /\ phase' = "unloading"
    BY <1>5 DEF Unload
  <2>2. /\ Len(unloaded') = n + 1 /\ unloaded'[n + 1] = loaded[Len(loaded) - n]
        /\ \A i \in 1 .. n : unloaded'[i] = unloaded[i]
    BY <1>1, <1>2, <2>1 DEF TypeOK
  <2>3. \A i \in 1 .. Len(unloaded') : unloaded'[i] = loaded'[Len(loaded') - i + 1]
    <3>1. ASSUME NEW i \in 1 .. n PROVE unloaded'[i] = loaded'[Len(loaded') - i + 1]
      BY <1>1, <2>1, <2>2
    <3>2. unloaded'[n + 1] = loaded'[Len(loaded') - (n + 1) + 1]
      <4>1. Len(loaded) - (n + 1) + 1 = Len(loaded) - n
        BY <1>2
      <4> QED
        BY <2>1, <2>2, <4>1
    <3>3. \A i \in 1 .. Len(unloaded') : i \in 1 .. n \/ i = n + 1
      BY <1>2, <2>2
    <3> QED
      BY <3>1, <3>2, <3>3
  <2> QED
    BY <1>1, <1>2, <2>1, <2>2, <2>3
<1>6. CASE CloseDataplane
  BY <1>1, <1>6 DEF CloseDataplane
<1>7. ASSUME loaded' = loaded, unloaded' = unloaded, hooked' = hooked,
             \/ phase' = phase /\ (next' = next \/ phase \notin {"plugins", "kinds"})
             \/ /\ phase \in {"config", "dataplane", "targets", "frontends", "serving", "leaving", "waiting"}
                /\ phase' \in {"dataplane", "plugins", "frontends", "serving", "leaving", "waiting",
                               "unloading", "over"},
             phase' \in {"dataplane", "plugins", "over"} => (phase' = phase \/ phase \in {"config", "dataplane"})
      PROVE  PluginsInOrder'
  <2>1. CASE phase' = phase
    BY <1>1, <1>7, <2>1
  <2>2. CASE phase' # phase /\ phase \in {"config", "dataplane"}
    <3>1. loaded = << >> /\ unloaded = << >>
      BY <1>1, <2>2
    <3> QED
      BY <1>1, <1>7, <3>1
  <2>3. CASE phase' # phase /\ phase \notin {"config", "dataplane"}
    BY <1>1, <1>7, <2>3
  <2> QED
    BY <2>1, <2>2, <2>3
<1>8. CASE LoadConfig \/ OpenDataplane
  BY <1>7, <1>8 DEF LoadConfig, OpenDataplane
<1>9. CASE NextTarget \/ NextFrontend
  BY <1>7, <1>9 DEF NextTarget, MakeTarget, NextFrontend
<1>10. CASE StopServing \/ CloseEngine \/ Waited
  BY <1>7, <1>10 DEF StopServing, CloseEngine, Waited
<1>11. CASE Signal \/ EndEngine \/ (\E o \in live : EndObject(o)) \/ UNCHANGED vars
  BY <1>7, <1>11 DEF Signal, EndEngine, EndObject, vars
<1> QED
  BY <1>3, <1>4, <1>5, <1>6, <1>8, <1>9, <1>10, <1>11 DEF Next, Run

-----------------------------------------------------------------------------
(* What run has made, what was refused, and how it ends.                   *)

\* The document does not change, a kind stays, a refusal is remembered, and the
\* engine that has been told to end does not forget.
LEMMA NextKeeps ==
  ASSUME [Next]_vars
  PROVE  /\ config' = config /\ ctors \subseteq ctors' /\ refused \subseteq refused'
         /\ EngineDone => EngineDone'
<1> USE DEF plugins, objects, outside, Goto, GiveUp, EngineDone
<1>1. CASE LoadConfig \/ OpenDataplane
  BY <1>1 DEF LoadConfig, OpenDataplane
<1>2. CASE NextPlugin \/ KindsRegistered \/ \E kind \in todo : RegisterKind(kind)
  BY <1>2 DEF NextPlugin, LoadPlugin, KindsRegistered, RegisterKind
<1>3. CASE NextTarget \/ NextFrontend
  BY <1>3 DEF NextTarget, NextFrontend, MakeFrontend
<1>4. CASE StopServing \/ CloseEngine \/ Waited \/ CloseDataplane
  BY <1>4 DEF StopServing, CloseEngine, Waited, CloseDataplane
<1>5. CASE Unload
  BY <1>5 DEF Unload
<1>6. CASE Signal \/ EndEngine \/ (\E o \in live : EndObject(o)) \/ UNCHANGED vars
  BY <1>6 DEF Signal, EndEngine, EndObject, vars
<1> QED
  BY <1>1, <1>2, <1>3, <1>4, <1>5, <1>6 DEF Next, Run

LEMMA NextInPlace == Inductive /\ [Next]_vars => InPlace'
<1> SUFFICES ASSUME Inductive, [Next]_vars PROVE InPlace'
  OBVIOUS
<1>1. InPlace /\ next \in Nat /\ config' = config
  BY NextKeeps, TypeIsFlagsAndRanges DEF Inductive, Ranges
<1> USE DEF InPlace, plugins, objects, outside, Goto, GiveUp
<1>2. CASE LoadConfig \/ OpenDataplane
  BY <1>1, <1>2 DEF LoadConfig, OpenDataplane, Inductive, TypeOK
<1>3. CASE NextPlugin \/ KindsRegistered \/ \E kind \in todo : RegisterKind(kind)
  BY <1>1, <1>3 DEF NextPlugin, LoadPlugin, KindsRegistered, RegisterKind
<1>4. CASE NextTarget \/ NextFrontend
  BY <1>1, <1>4 DEF NextTarget, MakeTarget, NextFrontend, MakeFrontend, Skip
<1>5. CASE StopServing \/ CloseEngine \/ Waited \/ CloseDataplane
  BY <1>1, <1>5 DEF StopServing, CloseEngine, Waited, CloseDataplane
<1>6. CASE Unload
  BY <1>1, <1>6 DEF Unload
<1>7. CASE Signal \/ EndEngine \/ (\E o \in live : EndObject(o)) \/ UNCHANGED vars
  BY <1>1, <1>7 DEF Signal, EndEngine, EndObject, vars
<1> QED
  BY <1>2, <1>3, <1>4, <1>5, <1>6, <1>7 DEF Next, Run

\* What a step does to the objects: it leaves them alone, makes the next target
\* or frontend of an accepted configuration, or ends one once the engine is done.
LEMMA NextObjects ==
  ASSUME Inductive, [Next]_vars
  PROVE  \/ live' = live /\ bound' = bound
         \/ /\ phase = "targets" /\ next \in 1 .. Len(config.targets)
            /\ CanMake(config.targets[next]) /\ phase' = phase /\ next' = next + 1
            /\ live' = live \cup {Target(config.targets[next].name)} /\ bound' = bound
         \/ /\ phase = "frontends" /\ next \in 1 .. Len(config.frontends)
            /\ phase' = phase /\ next' = next + 1
            /\ LET f == config.frontends[next] IN
                 /\ CanBind(f) /\ IsFree(MappingOf(f))
                 /\ live' = live \cup {Frontend(f.name)} /\ bound' = bound \cup {BindingOf(f)}
         \/ /\ EngineDone /\ UNCHANGED <<phase, next>>
            /\ \E o \in live : EndObject(o)
<1>1. /\ Len(config.targets) \in Nat /\ Len(config.frontends) \in Nat /\ next \in Nat /\ next # 0
  BY Lengths, TypeIsFlagsAndRanges DEF Inductive, Ranges, InPlace
<1> USE DEF objects
<1>2. CASE LoadConfig \/ OpenDataplane
  BY <1>2 DEF LoadConfig, OpenDataplane
<1>3. CASE NextPlugin \/ KindsRegistered \/ \E kind \in todo : RegisterKind(kind)
  BY <1>3 DEF NextPlugin, KindsRegistered, RegisterKind
<1>4. CASE NextTarget
  BY <1>1, <1>4 DEF NextTarget, MakeTarget
<1>5. CASE NextFrontend
  <2>1. CASE MakeFrontend(config.frontends[next]) /\ next <= Len(config.frontends) /\ phase' = phase
    BY <1>1, <1>5, <2>1 DEF NextFrontend, MakeFrontend
  <2>2. CASE UNCHANGED objects
    BY <2>2
  <2> QED
    BY <1>1, <1>5, <2>1, <2>2 DEF NextFrontend
<1>6. CASE StopServing \/ CloseEngine \/ Waited \/ Unload \/ CloseDataplane
  BY <1>6 DEF StopServing, CloseEngine, Waited, Unload, CloseDataplane
<1>7. CASE Signal \/ EndEngine \/ UNCHANGED vars
  BY <1>7 DEF Signal, EndEngine, vars
<1>8. CASE \E o \in live : EndObject(o)
  BY <1>8 DEF EndObject
<1> QED
  BY <1>2, <1>3, <1>4, <1>5, <1>6, <1>7, <1>8 DEF Next, Run

\* Every kind comes from a plugin whose OnLoad has succeeded.
LEMMA NextKinds ==
  ASSUME Inductive, [Next]_vars
  PROVE  todo' \cup ctors' \subseteq UNION {Exported(p) : p \in hooked'}
<1> DEFINE All(h) == UNION {Exported(p) : p \in h}
<1>1. todo \subseteq All(hooked) /\ ctors \subseteq All(hooked)
  BY DEF Inductive, ObjectsBacked
<1>2. SUFFICES todo' \subseteq All(hooked') /\ ctors' \subseteq All(hooked')
  OBVIOUS
<1> USE DEF plugins, Goto, GiveUp
<1>3. CASE NextPlugin /\ LoadPlugin(next) /\ ctors' = ctors
  <2>1. todo' = Exported(next) /\ hooked' = hooked \cup {next}
    BY <1>3 DEF LoadPlugin
  <2>2. All(hooked) \subseteq All(hooked') /\ Exported(next) \subseteq All(hooked')
    BY <2>1
  <2> QED
    BY <1>1, <1>3, <2>1, <2>2
<1>4. CASE \E kind \in todo : RegisterKind(kind)
  <2>1. todo' \subseteq todo /\ ctors' \subseteq ctors \cup todo /\ hooked' = hooked
    BY <1>4 DEF RegisterKind
  <2> HIDE DEF All
  <2> QED
    BY <1>1, <2>1
<1>5. ASSUME UNCHANGED <<todo, ctors, hooked>>
      PROVE  todo' \subseteq All(hooked') /\ ctors' \subseteq All(hooked')
  <2> HIDE DEF All
  <2> QED
    BY <1>1, <1>5
<1> HIDE DEF All
<1>6. CASE NextPlugin
  <2>1. ctors' = ctors /\ (LoadPlugin(next) \/ UNCHANGED <<todo, hooked>>)
    BY <1>6 DEF NextPlugin
  <2> QED
    BY <1>3, <1>5, <1>6, <2>1
<1>7. CASE LoadConfig \/ OpenDataplane \/ KindsRegistered \/ NextTarget \/ NextFrontend
  BY <1>5, <1>7 DEF LoadConfig, OpenDataplane, KindsRegistered, NextTarget, NextFrontend
<1>8. CASE StopServing \/ CloseEngine \/ Waited \/ Unload \/ CloseDataplane
  BY <1>5, <1>8 DEF StopServing, CloseEngine, Waited, Unload, CloseDataplane
<1>9. CASE Signal \/ EndEngine \/ (\E o \in live : EndObject(o)) \/ UNCHANGED vars
  BY <1>5, <1>9 DEF Signal, EndEngine, EndObject, vars
<1> QED
  BY <1>4, <1>6, <1>7, <1>8, <1>9 DEF Next, Run

LEMMA NextObjectsBacked == Inductive /\ [Next]_vars => ObjectsBacked'
<1> SUFFICES ASSUME Inductive, [Next]_vars PROVE ObjectsBacked'
  OBVIOUS
<1> DEFINE T(i) == config.targets[i]
           F(i) == config.frontends[i]
           TI == 1 .. Len(config.targets)
           FI == 1 .. Len(config.frontends)
           OfConfig == {Target(n) : n \in Names(config.targets)} \cup {Frontend(n) : n \in Names(config.frontends)}
           Mapped(l, b) == \E i \in FI : Frontend(F(i).name) \in l /\ b = BindingOf(F(i))
           Backed(l, m, c) ==
             /\ l \subseteq OfConfig
             /\ \A i \in TI : Target(T(i).name) \in l => Kind("target", T(i).kind) \in c
             /\ \A i \in FI : Frontend(F(i).name) \in l => Kind("frontend", F(i).kind) \in c
             /\ \A b \in m : Mapped(l, b)
<1>1. ObjectsBacked /\ config' = config /\ ctors \subseteq ctors'
  BY NextKeeps DEF Inductive
<1>2. Backed(live, bound, ctors)
  BY <1>1 DEF ObjectsBacked
<1>3. SUFFICES Backed(live', bound', ctors')
  BY <1>1, NextKinds DEF ObjectsBacked, BindingOf, MappingOf
<1>4. CASE live' = live /\ bound' = bound
  BY <1>1, <1>2, <1>4
<1>5. ASSUME phase = "targets", next \in TI, CanMake(T(next)),
             live' = live \cup {Target(T(next).name)}, bound' = bound
      PROVE  Backed(live', bound', ctors')
  <2>1. Distinct(config.targets)
    BY <1>5 DEF Inductive, InPlace, ValidConfig
  <2>2. Target(T(next).name) \in OfConfig
    BY <1>5 DEF Names
  <2>3. ASSUME NEW i \in TI, Target(T(i).name) \in live' PROVE Kind("target", T(i).kind) \in ctors'
    <3>1. CASE Target(T(i).name) \in live
      BY <1>1, <1>2, <3>1
    <3>2. CASE Target(T(i).name) = Target(T(next).name)
      <4>1. i = next
        BY <1>5, <2>1, <3>2, ObjectsApart DEF Distinct
      <4> QED
        BY <1>1, <1>5, <4>1 DEF CanMake
    <3> QED
      BY <1>5, <2>3, <3>1, <3>2
  <2>4. \A i \in FI : Frontend(F(i).name) \in live' => Frontend(F(i).name) \in live
    BY <1>5, ObjectsApart
  <2>5. \A b \in bound' : Mapped(live', b)
    BY <1>2, <1>5
  <2> QED
    BY <1>1, <1>2, <1>5, <2>2, <2>3, <2>4, <2>5
<1>6. ASSUME phase = "frontends", next \in FI, CanBind(F(next)),
             live' = live \cup {Frontend(F(next).name)}, bound' = bound \cup {BindingOf(F(next))}
      PROVE  Backed(live', bound', ctors')
  <2>1. Distinct(config.frontends)
    BY <1>6 DEF Inductive, InPlace, ValidConfig
  <2>2. Frontend(F(next).name) \in OfConfig
    BY <1>6 DEF Names
  <2>3. ASSUME NEW i \in FI, Frontend(F(i).name) \in live' PROVE Kind("frontend", F(i).kind) \in ctors'
    <3>1. CASE Frontend(F(i).name) \in live
      BY <1>1, <1>2, <3>1
    <3>2. CASE Frontend(F(i).name) = Frontend(F(next).name)
      <4>1. i = next
        BY <1>6, <2>1, <3>2, ObjectsApart DEF Distinct
      <4> QED
        BY <1>1, <1>6, <4>1 DEF CanBind
    <3> QED
      BY <1>6, <2>3, <3>1, <3>2
  <2>4. \A i \in TI : Target(T(i).name) \in live' => Target(T(i).name) \in live
    BY <1>6, ObjectsApart
  <2>5. ASSUME NEW b \in bound' PROVE Mapped(live', b)
    <3>1. CASE b \in bound
      BY <1>2, <1>6, <3>1
    <3>2. CASE b \notin bound
      BY <1>6, <2>5, <3>2
    <3> QED
      BY <3>1, <3>2
  <2> QED
    BY <1>1, <1>2, <1>6, <2>2, <2>3, <2>4, <2>5
<1>7. ASSUME NEW o \in live, EndObject(o) PROVE Backed(live', bound', ctors')
  <2>1. /\ live' = live \ {o}
        /\ bound' = {b \in bound : Target(b.target) # o /\ Frontend(b.frontend) # o}
    BY <1>7 DEF EndObject
  <2>2. ASSUME NEW b \in bound' PROVE Mapped(live', b)
    <3>1. b \in bound /\ Frontend(b.frontend) # o
      BY <2>1, <2>2
    <3>2. PICK i \in FI : Frontend(F(i).name) \in live /\ b = BindingOf(F(i))
      BY <1>2, <3>1
    <3>3. b.frontend = F(i).name
      BY <3>2 DEF BindingOf
    <3> QED
      BY <2>1, <3>1, <3>2, <3>3
  <2> QED
    BY <1>1, <1>2, <2>1, <2>2
<1> QED
  BY <1>4, <1>5, <1>6, <1>7, NextObjects

\* addMappings admits only what overlaps nothing, and only an ending gives up a
\* mapping of a frontend that lives.
LEMMA NextMappingsApart == Inductive /\ [Next]_vars => MappingsApart'
<1> SUFFICES ASSUME Inductive, [Next]_vars PROVE MappingsApart'
  OBVIOUS
<1> DEFINE F(i) == config.frontends[i]
           FI == 1 .. Len(config.frontends)
           Apart(m) == \A b, c \in m : Overlaps(b.mapping, c.mapping) => b = c
           Own(l, m) == \A i \in FI : Frontend(F(i).name) \in l => BindingOf(F(i)) \in m
<1>1. config' = config /\ (~EngineDone' => ~EngineDone)
  BY NextKeeps
<1>2. Apart(bound) /\ (~EngineDone => Own(live, bound))
  BY DEF Inductive, MappingsApart
<1>3. SUFFICES Apart(bound') /\ (~EngineDone' => Own(live', bound'))
  BY <1>1 DEF MappingsApart, BindingOf, MappingOf
<1>4. CASE live' = live /\ bound' = bound
  BY <1>1, <1>2, <1>4
<1>5. ASSUME NEW n, live' = live \cup {Target(n)}, bound' = bound
      PROVE  Apart(bound') /\ (~EngineDone' => Own(live', bound'))
  <2>1. \A i \in FI : Frontend(F(i).name) \in live' => Frontend(F(i).name) \in live
    BY <1>5, ObjectsApart
  <2> QED
    BY <1>1, <1>2, <1>5, <2>1
<1>6. ASSUME phase = "frontends", next \in FI, IsFree(MappingOf(F(next))),
             live' = live \cup {Frontend(F(next).name)}, bound' = bound \cup {BindingOf(F(next))}
      PROVE  Apart(bound') /\ (~EngineDone' => Own(live', bound'))
  <2>1. BindingOf(F(next)).mapping = MappingOf(F(next))
    BY DEF BindingOf
  <2>2. \A b \in bound : ~Overlaps(BindingOf(F(next)).mapping, b.mapping)
                       /\ ~Overlaps(b.mapping, BindingOf(F(next)).mapping)
    BY <1>6, <2>1, OverlapsBothWays DEF IsFree
  <2>3. Apart(bound')
    BY <1>2, <1>6, <2>2
  <2>4. Distinct(config.frontends)
    BY <1>6 DEF Inductive, InPlace, ValidConfig
  <2>5. ASSUME ~EngineDone', NEW i \in FI, Frontend(F(i).name) \in live' PROVE BindingOf(F(i)) \in bound'
    <3>1. CASE Frontend(F(i).name) \in live
      BY <1>1, <1>2, <1>6, <2>5, <3>1
    <3>2. CASE F(i).name = F(next).name
      <4>1. i = next
        BY <1>6, <2>4, <3>2 DEF Distinct
      <4> QED
        BY <1>6, <4>1
    <3> QED
      BY <1>6, <2>5, <3>1, <3>2, ObjectsApart
  <2> QED
    BY <2>3, <2>5
<1>7. ASSUME EngineDone, NEW o \in live, EndObject(o)
      PROVE  Apart(bound') /\ (~EngineDone' => Own(live', bound'))
  <2>1. bound' \subseteq bound
    BY <1>7 DEF EndObject
  <2> QED
    BY <1>1, <1>2, <1>7, <2>1
<1> QED
  BY <1>4, <1>5, <1>6, <1>7, NextObjects

LEMMA NextMadeSoFar == Inductive /\ [Next]_vars => MadeSoFar'
<1> SUFFICES ASSUME Inductive, [Next]_vars PROVE MadeSoFar'
  OBVIOUS
<1> DEFINE T(i) == config.targets[i]
           F(i) == config.frontends[i]
<1>1. MadeSoFar /\ config' = config
  BY NextKeeps DEF Inductive
<1>2. /\ Len(config.targets) \in Nat /\ Len(config.frontends) \in Nat /\ next \in Nat /\ next # 0
  BY Lengths, TypeIsFlagsAndRanges DEF Inductive, Ranges, InPlace
<1> USE DEF plugins, objects, outside, Goto, GiveUp
<1>3. CASE LoadConfig \/ OpenDataplane \/ NextPlugin \/ KindsRegistered \/ \E kind \in todo : RegisterKind(kind)
  <2>1. /\ phase \in {"config", "dataplane", "plugins", "kinds"} /\ live' = live
        /\ phase' # "frontends" /\ (phase' = "targets" => next' = 1)
    BY <1>3 DEF LoadConfig, OpenDataplane, NextPlugin, LoadPlugin, KindsRegistered, RegisterKind
  <2>2. live' = {}
    BY <1>1, <2>1 DEF MadeSoFar
  <2> QED
    BY <1>1, <1>2, <2>1, <2>2 DEF MadeSoFar
<1>4. CASE NextTarget
  <2>1. phase = "targets" /\ live \subseteq {Target(T(i).name) : i \in 1 .. next - 1}
    BY <1>1, <1>4 DEF NextTarget, MadeSoFar
  <2>2. CASE phase' = "frontends" /\ live' = live /\ next' = 1
    <3>1. \A i \in 1 .. Len(config.frontends) : Frontend(F(i).name) \notin live
      BY <2>1, ObjectsApart
    <3> QED
      BY <1>1, <1>2, <2>2, <3>1 DEF MadeSoFar
  <2>3. CASE phase' = "leaving"
    BY <2>3 DEF MadeSoFar
  <2>4. CASE /\ phase' = "targets" /\ next <= Len(config.targets) /\ next' = next + 1
             /\ live' = live \cup {Target(T(next).name)}
    <3>1. next \in 1 .. next' - 1 /\ \A i \in 1 .. next - 1 : i \in 1 .. next' - 1
      BY <1>2, <2>4
    <3>2. live' \subseteq {Target(T(i).name) : i \in 1 .. next' - 1}
      BY <2>1, <2>4, <3>1
    <3>3. next' <= Len(config.targets) + 1
      BY <1>2, <2>4
    <3> QED
      BY <1>1, <2>4, <3>2, <3>3 DEF MadeSoFar
  <2> QED
    BY <1>2, <1>4, <2>1, <2>2, <2>3, <2>4 DEF NextTarget, MakeTarget
<1>5. CASE NextFrontend
  <2>1. /\ phase = "frontends" /\ \A i \in next .. Len(config.frontends) : Frontend(F(i).name) \notin live
    BY <1>1, <1>5 DEF NextFrontend, MadeSoFar
  <2>2. CASE phase' = "serving"
    BY <2>2 DEF MadeSoFar
  <2>3. CASE /\ phase' = "frontends" /\ next <= Len(config.frontends) /\ next' = next + 1
             /\ live' = live \cup {Frontend(F(next).name)}
    <3>1. Distinct(config.frontends)
      BY <2>1 DEF Inductive, InPlace, ValidConfig
    <3>2. ASSUME NEW i \in next' .. Len(config.frontends) PROVE Frontend(F(i).name) \notin live'
      <4>1. /\ i \in next .. Len(config.frontends) /\ i # next
            /\ i \in 1 .. Len(config.frontends) /\ next \in 1 .. Len(config.frontends)
        BY <1>2, <2>3, <3>2
      <4>2. F(i).name # F(next).name
        BY <3>1, <4>1 DEF Distinct
      <4> QED
        BY <2>1, <2>3, <4>1, <4>2, ObjectsApart
    <3>3. next' <= Len(config.frontends) + 1
      BY <1>2, <2>3
    <3> QED
      BY <1>1, <2>3, <3>2, <3>3 DEF MadeSoFar
  <2>4. CASE phase' = "frontends" /\ next <= Len(config.frontends) /\ next' = next + 1 /\ live' = live
    <3>1. \A i \in next' .. Len(config.frontends) : i \in next .. Len(config.frontends)
      BY <1>2, <2>4
    <3>2. next' <= Len(config.frontends) + 1
      BY <1>2, <2>4
    <3> QED
      BY <1>1, <2>1, <2>4, <3>1, <3>2 DEF MadeSoFar
  <2> QED
    BY <1>2, <1>5, <2>1, <2>2, <2>3, <2>4 DEF NextFrontend, MakeFrontend, Skip
<1>6. CASE StopServing \/ CloseEngine \/ Waited \/ CloseDataplane
  BY <1>1, <1>6 DEF StopServing, CloseEngine, Waited, CloseDataplane, MadeSoFar
<1>7. CASE Unload
  BY <1>1, <1>7 DEF Unload, MadeSoFar
<1>8. CASE Signal \/ EndEngine \/ UNCHANGED vars
  BY <1>1, <1>8 DEF Signal, EndEngine, vars, MadeSoFar
<1>9. CASE \E o \in live : EndObject(o)
  <2>1. live' \subseteq live /\ phase' = phase /\ next' = next
    BY <1>9 DEF EndObject
  <2> QED
    BY <1>1, <2>1 DEF MadeSoFar
<1> QED
  BY <1>3, <1>4, <1>5, <1>6, <1>7, <1>8, <1>9 DEF Next, Run

\* What a step does to run's place while it serves or is about to: it goes on to
\* the next target or frontend or, when that was the last one, one phase further.
LEMMA NextPlace ==
  ASSUME Inductive, [Next]_vars, phase' \in {"targets", "frontends", "serving"}
  PROVE  \/ phase' = "targets" /\ next' = 1
         \/ phase' = phase /\ UNCHANGED next
         \/ NextTarget \/ NextFrontend
<1> USE DEF plugins, objects, outside, Goto, GiveUp
<1>1. CASE LoadConfig \/ OpenDataplane \/ NextPlugin \/ KindsRegistered \/ \E kind \in todo : RegisterKind(kind)
  BY <1>1 DEF LoadConfig, OpenDataplane, NextPlugin, LoadPlugin, KindsRegistered, RegisterKind
<1>2. CASE StopServing \/ CloseEngine \/ Waited \/ CloseDataplane
  BY <1>2 DEF StopServing, CloseEngine, Waited, CloseDataplane
<1>3. CASE Unload
  BY <1>3 DEF Unload
<1>4. CASE Signal \/ EndEngine \/ (\E o \in live : EndObject(o)) \/ UNCHANGED vars
  BY <1>4 DEF Signal, EndEngine, EndObject, vars
<1> QED
  BY <1>1, <1>2, <1>3, <1>4 DEF Next, Run

\* Nothing that lives is lost while the engine is not done.
LEMMA NothingLost ==
  ASSUME Inductive, [Next]_vars, ~EngineDone'
  PROVE  live \subseteq live' /\ ~EngineDone
<1>1. ~EngineDone
  BY NextKeeps
<1> QED
  BY <1>1, NextObjects

\* Every target the daemon has come past has a known kind, and lives while the
\* engine is not done.
LEMMA NextTargetsServed ==
  ASSUME Inductive, [Next]_vars, phase' \in {"targets", "frontends", "serving"},
         NEW i \in 1 .. Len(config.targets), phase' # "targets" \/ i < next'
  PROVE  /\ Kind("target", config.targets[i].kind) \in ctors'
         /\ ~EngineDone' => Target(config.targets[i].name) \in live'
<1>1. /\ Len(config.targets) \in Nat /\ Len(config.frontends) \in Nat /\ next \in Nat /\ next # 0
  BY Lengths, TypeIsFlagsAndRanges DEF Inductive, Ranges, InPlace
<1>2. ctors \subseteq ctors' /\ (~EngineDone' => live \subseteq live' /\ ~EngineDone)
  BY NextKeeps, NothingLost
<1>3. ASSUME phase \in {"targets", "frontends", "serving"}, phase # "targets" \/ i < next
      PROVE  /\ Kind("target", config.targets[i].kind) \in ctors'
             /\ ~EngineDone' => Target(config.targets[i].name) \in live'
  <2>1. /\ Kind("target", config.targets[i].kind) \in ctors
        /\ ~EngineDone => Target(config.targets[i].name) \in live
    BY <1>3 DEF Inductive, NoneMissing
  <2> QED
    BY <1>2, <2>1
<1>4. CASE phase' = "targets" /\ next' = 1
  BY <1>4
<1>5. CASE phase' = phase /\ next' = next
  BY <1>3, <1>5
<1>6. CASE NextTarget
  <2>1. phase = "targets"
    BY <1>6 DEF NextTarget
  <2>2. CASE next > Len(config.targets)
    BY <1>1, <1>3, <2>1, <2>2
  <2>3. CASE next <= Len(config.targets) /\ i = next
    <3>1. CanMake(config.targets[next]) /\ live' = live \cup {Target(config.targets[next].name)}
      BY <1>1, <1>6, <2>3 DEF NextTarget, MakeTarget, GiveUp, Goto
    <3> QED
      BY <1>2, <2>3, <3>1 DEF CanMake
  <2>4. CASE next <= Len(config.targets) /\ i # next
    <3>1. next' = next + 1 /\ phase' = "targets"
      BY <1>1, <1>6, <2>4 DEF NextTarget, MakeTarget, GiveUp, Goto
    <3> QED
      BY <1>1, <1>3, <2>1, <2>4, <3>1
  <2> QED
    BY <1>1, <2>2, <2>3, <2>4
<1>7. CASE NextFrontend
  BY <1>3, <1>7 DEF NextFrontend
<1> QED
  BY <1>4, <1>5, <1>6, <1>7, NextPlace

\* Every frontend the daemon has come past lives, or does not for one of the three
\* reasons: the mapping in its way is that of a frontend before it, as no other
\* frontend has one yet.
LEMMA NextFrontendsServed ==
  ASSUME Inductive, [Next]_vars, phase' \in {"frontends", "serving"}, ~EngineDone',
         NEW i \in 1 .. Len(config.frontends), phase' = "serving" \/ i < next'
  PROVE  IsServed(i)'
<1> DEFINE F(j) == config.frontends[j]
           Served(l, r) ==
             \/ Frontend(F(i).name) \in l \/ F(i).name \in r
             \/ ~Validate(MappingOf(F(i)))
             \/ \E j \in 1 .. i - 1 : Frontend(F(j).name) \in l /\ Overlaps(MappingOf(F(i)), MappingOf(F(j)))
<1>1. /\ Len(config.targets) \in Nat /\ Len(config.frontends) \in Nat /\ next \in Nat /\ next # 0
  BY Lengths, TypeIsFlagsAndRanges DEF Inductive, Ranges, InPlace
<1>2. config' = config /\ refused \subseteq refused' /\ live \subseteq live' /\ ~EngineDone
  BY NextKeeps, NothingLost
<1>3. SUFFICES Served(live', refused')
  BY <1>2 DEF IsServed, MappingOf
<1>4. ASSUME phase = "serving" \/ (phase = "frontends" /\ i < next)
      PROVE  Served(live', refused')
  <2>1. Served(live, refused)
    BY <1>2, <1>4 DEF Inductive, NoneMissing, IsServed
  <2> QED
    BY <1>2, <2>1
<1>5. CASE phase' = phase /\ next' = next
  BY <1>4, <1>5
<1>6. CASE NextTarget
  <2>1. phase' = "frontends" /\ next' = 1
    BY <1>6 DEF NextTarget, MakeTarget, GiveUp, Goto
  <2> QED
    BY <2>1
<1>7. CASE NextFrontend
  <2>1. phase = "frontends"
    BY <1>7 DEF NextFrontend
  <2>2. CASE next > Len(config.frontends)
    BY <1>1, <1>4, <2>1, <2>2
  <2>3. CASE next <= Len(config.frontends) /\ i # next
    <3>1. next' = next + 1 /\ phase' = "frontends"
      BY <1>1, <1>7, <2>3 DEF NextFrontend, MakeFrontend, Skip
    <3> QED
      BY <1>1, <1>4, <2>1, <2>3, <3>1
  <2>4. CASE next <= Len(config.frontends) /\ i = next
    <3>1. MakeFrontend(F(i))
      BY <1>1, <1>7, <2>4 DEF NextFrontend
    <3>2. CASE CanBind(F(i)) /\ ~IsFree(MappingOf(F(i))) /\ Validate(MappingOf(F(i)))
      <4>1. PICK b \in bound : Overlaps(MappingOf(F(i)), b.mapping)
        BY <3>2 DEF IsFree
      <4>2. PICK j \in 1 .. Len(config.frontends) :
              Frontend(F(j).name) \in live /\ b.mapping = MappingOf(F(j))
        BY DEF Inductive, ObjectsBacked, BindingOf
      <4>3. j \in 1 .. i - 1
        <5>1. j \notin next .. Len(config.frontends)
          BY <2>1, <4>2 DEF Inductive, MadeSoFar
        <5> QED
          BY <1>1, <2>4, <5>1
      <4> QED
        BY <1>2, <4>1, <4>2, <4>3
    <3>3. CASE ~Validate(MappingOf(F(i)))
      BY <3>3
    <3>4. CASE Frontend(F(i).name) \in live' \/ F(i).name \in refused'
      BY <3>4
    <3> QED
      BY <3>1, <3>2, <3>3, <3>4 DEF MakeFrontend
  <2> QED
    BY <1>1, <2>2, <2>3, <2>4
<1> QED
  BY <1>5, <1>6, <1>7, NextPlace

LEMMA NextNoneMissing == Inductive /\ [Next]_vars => NoneMissing'
<1> SUFFICES ASSUME Inductive, [Next]_vars PROVE NoneMissing'
  OBVIOUS
<1>1. config' = config
  BY NextKeeps
<1>2. ASSUME phase' \in {"targets", "frontends", "serving"}, NEW i \in 1 .. Len(config.targets),
             phase' # "targets" \/ i < next'
      PROVE  /\ Kind("target", config.targets[i].kind) \in ctors'
             /\ ~EngineDone' => Target(config.targets[i].name) \in live'
  BY <1>2, NextTargetsServed
<1>3. ASSUME phase' \in {"frontends", "serving"}, ~EngineDone', NEW i \in 1 .. Len(config.frontends),
             phase' = "serving" \/ i < next'
      PROVE  IsServed(i)'
  BY <1>3, NextFrontendsServed
<1> QED
  BY <1>1, <1>2, <1>3 DEF NoneMissing

LEMMA NextDownForAReason == Inductive /\ [Next]_vars => DownForAReason'
<1> SUFFICES ASSUME Inductive, [Next]_vars PROVE DownForAReason'
  OBVIOUS
<1> DEFINE Told == /\ signalled
                   /\ ValidConfig(config)
                   /\ \A i \in 1 .. Len(config.targets) : Kind("target", config.targets[i].kind) \in ctors
<1>1. DownForAReason /\ config' = config /\ ctors \subseteq ctors'
  BY NextKeeps DEF Inductive
<1> USE DEF plugins, objects, outside, Goto, GiveUp
<1>2. ASSUME Told, signalled' PROVE DownForAReason'
  BY <1>1, <1>2 DEF DownForAReason
<1>3. CASE LoadConfig \/ OpenDataplane
  BY <1>3 DEF LoadConfig, OpenDataplane, DownForAReason
<1>4. CASE NextPlugin \/ KindsRegistered \/ \E kind \in todo : RegisterKind(kind)
  BY <1>4 DEF NextPlugin, LoadPlugin, KindsRegistered, RegisterKind, DownForAReason
<1>5. CASE NextTarget \/ NextFrontend
  BY <1>5 DEF NextTarget, MakeTarget, NextFrontend, DownForAReason
<1>6. CASE StopServing
  <2>1. phase = "serving" /\ signalled /\ signalled'
    BY <1>6 DEF StopServing
  <2>2. Told
    BY <2>1 DEF Inductive, InPlace, NoneMissing
  <2> QED
    BY <1>2, <2>1, <2>2
<1>7. CASE CloseEngine \/ Waited \/ CloseDataplane
  <2>1. phase \in {"leaving", "waiting", "unloading"} /\ signalled' = signalled /\ err' = err
    BY <1>7 DEF CloseEngine, Waited, CloseDataplane
  <2> QED
    BY <1>1, <1>2, <2>1 DEF DownForAReason
<1>8. CASE Unload
  <2>1. phase = "unloading" /\ signalled' = signalled
    BY <1>8 DEF Unload
  <2>2. ~err' => ~err
    BY Zenon, <1>8 DEF Unload
  <2> QED
    BY <1>1, <1>2, <2>1, <2>2 DEF DownForAReason
<1>9. CASE Signal \/ EndEngine \/ (\E o \in live : EndObject(o)) \/ UNCHANGED vars
  <2>1. phase' = phase /\ err' = err /\ (signalled => signalled')
    BY <1>9 DEF Signal, EndEngine, EndObject, vars
  <2> QED
    BY <1>1, <1>2, <2>1 DEF DownForAReason
<1> QED
  BY <1>3, <1>4, <1>5, <1>6, <1>7, <1>8, <1>9 DEF Next, Run

LEMMA NextInductive == Inductive /\ [Next]_vars => Inductive'
  BY NextTypeOK, NextPluginsInOrder, NextInPlace, NextObjectsBacked, NextMappingsApart,
     NextMadeSoFar, NextNoneMissing, NextDownForAReason DEF Inductive

-----------------------------------------------------------------------------
(* The theorems.                                                           *)

\* The invariant of the daemon, for any configurations and plugins: in particular
\* nothing is left of one that has gone, no object outlives the plugin of its
\* handler, names resolve, and an exit status of zero is honest.
THEOREM Invariance == Spec => []IInv
<1>1. Init => Inductive
  BY InitInductive
<1>2. Inductive /\ [Next]_vars => Inductive'
  BY NextInductive
<1>3. Inductive => IInv
  BY InductiveIsEnough
<1> QED
  BY <1>1, <1>2, <1>3, PTL DEF Spec

\* A daemon that serves lacks nothing of its configuration without a reason: one
\* frontend that run leaves out does not take others with it.
THEOREM Served == Spec => []AllServed
<1>1. IInv => AllServed
  <2> SUFFICES ASSUME IInv, phase = "serving", ~EngineDone
               PROVE  /\ \A i \in 1 .. Len(config.targets) : Target(config.targets[i].name) \in live
                      /\ \A i \in 1 .. Len(config.frontends) : IsServed(i)
    BY DEF AllServed
  <2> QED
    BY DEF IInv, NoneMissing
<1> QED
  BY <1>1, Invariance, PTL

\* Every packet goes where the document says, for any document and any set of warm
\* targets: the rules give it the translation of the one frontend it is for.
THEOREM Routed == Spec => []RoutedAsConfigured
<1> DEFINE F(i) == config.frontends[i]
           FI == 1 .. Len(config.frontends)
<1>1. ASSUME Inductive, ~EngineDone, NEW warm \in SUBSET Names(config.targets), NEW p \in Packet
      PROVE  LET owners  == {i \in FI : /\ Frontend(F(i).name) \in live /\ F(i).target \in warm
                                        /\ Matches(MappingOf(F(i)), p)}
                 inForce == {b.mapping : b \in {c \in bound : c.target \in warm}}
             IN  /\ Translations(Elements(inForce), p) = {MappingOf(F(i)).dst : i \in owners}
                 /\ \A i, j \in owners : i = j
  <2> DEFINE Owns(i) == /\ Frontend(F(i).name) \in live /\ F(i).target \in warm
                        /\ Matches(MappingOf(F(i)), p)
             owners  == {i \in FI : Owns(i)}
             inForce == {b.mapping : b \in {c \in bound : c.target \in warm}}
  <2>1. \A i : /\ BindingOf(F(i)).mapping = MappingOf(F(i)) /\ BindingOf(F(i)).target = F(i).target
              /\ BindingOf(F(i)).frontend = F(i).name
    BY DEF BindingOf
  <2>2. \A b, c \in bound : Overlaps(b.mapping, c.mapping) => b = c
    BY <1>1 DEF Inductive, MappingsApart
  <2>3. inForce \subseteq AnyMapping /\ \A m, x \in inForce : Overlaps(m, x) => m = x
    BY <1>1, <2>2, TypeIsFlagsAndRanges DEF Inductive, Ranges
  <2>4. \A i \in FI : Frontend(F(i).name) \in live => BindingOf(F(i)) \in bound
    BY <1>1 DEF Inductive, MappingsApart
  <2>5. ASSUME NEW i \in owners PROVE MappingOf(F(i)) \in inForce
    BY <2>1, <2>4
  <2>6. ASSUME NEW m \in inForce, Matches(m, p) PROVE \E i \in owners : m = MappingOf(F(i))
    <3>1. PICK b \in bound : b.target \in warm /\ m = b.mapping
      OBVIOUS
    <3>2. PICK i \in FI : Frontend(F(i).name) \in live /\ b = BindingOf(F(i))
      BY <1>1 DEF Inductive, ObjectsBacked
    <3> QED
      BY <2>1, <2>6, <3>1, <3>2
  <2>7. {m.dst : m \in {x \in inForce : Matches(x, p)}} = {MappingOf(F(i)).dst : i \in owners}
    <3> HIDE DEF inForce
    <3> QED
      BY <2>5, <2>6
  <2>8. ASSUME NEW i \in owners, NEW j \in owners PROVE i = j
    <3>1. /\ BindingOf(F(i)) \in bound /\ BindingOf(F(j)) \in bound
          /\ Overlaps(MappingOf(F(i)), MappingOf(F(j)))
      BY <2>3, <2>4, <2>5, BothMatchOverlap
    <3>2. F(i).name = F(j).name
      BY <2>1, <2>2, <3>1
    <3>3. phase \notin {"config", "over"}
      BY <1>1 DEF Inductive, MadeSoFar
    <3>4. Distinct(config.frontends)
      BY <1>1, <3>3 DEF Inductive, InPlace, ValidConfig
    <3> QED
      BY <3>2, <3>4 DEF Distinct
  <2> HIDE DEF inForce
  <2>9. Translations(Elements(inForce), p) = {m.dst : m \in {x \in inForce : Matches(x, p)}}
    BY <2>3, TranslatesOnce
  <2> QED
    BY <2>7, <2>8, <2>9 DEF inForce
<1>2. IInv => RoutedAsConfigured
  BY <1>1, InductiveIsEnough DEF RoutedAsConfigured
<1> QED
  BY <1>2, Invariance, PTL
=============================================================================
