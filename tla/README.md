# A TLA+ verification of proxygw

proxygw is a daemon that sits in front of expensive backends. A *frontend*
listens for traffic (or just ticks) and asks the *target* it is bound to to
warm up; a warm target has DNAT enabled in the *dataplane*; the *engine* polls
the dataplane for idle groups and drains targets that have been idle for too
long. Almost everything interesting happens between goroutines that share a
few locks, a mailbox of capacity one and a context.

## 1. Inventory

| component | source | state it keeps | operations |
|---|---|---|---|
| target | `pkg/target` | lifecycle state and last error under a lock, `requests` (channel, capacity 1), a context, the handler, its dataplane group, its timeout and endpoints | `New`, `Warm`, `Drain`, `Close`, `Wait`, `SetTimeout`, `AddEndpoint`, `RemoveEndpoint`; an event loop that calls the handler without the lock |
| frontend | `pkg/frontend` | the same shape; its mapping in the group of its target | `New`, `Start`, `Stop`, `Close`, `Wait`; an event loop that also serves warm signals |
| engine | `pkg/engine` | registries of kinds, targets and frontends, `lastSeen` per target, `closed`, a wait group | `Add/Del*Kind`, `New/Del/Get*`, `Close`, `Wait`; a poll loop (`StaleGroups`, `detectTimeouts`) |
| dataplane contract | `pkg/dataplane` | `Mapping`, the `Group` and `Dataplane` interfaces | `Validate`, `Overlaps` |
| connft | `pkg/dataplane/connft` | groups with mappings by source and by destination, `enabled`, `closed`, timeout objects; the nftables table (four DNAT maps) and conntrack | `NewGroup`, `Add/Del/ClearMappings`, `Enable`, `Disable`, `SetTimeout`, `Close`, `StaleGroups` |
| config | `pkg/config` | none; a document is checked once and then applied | `Validate`, parsing of durations and names |
| static plugin | `plugin/static` | handlers: `always` (a command loop with a ticker), `http` (a server), `cmd` (a child process), `none` | the handler interfaces |
| ctl plugin | `plugin/ctl` | a Unix socket, one server per connection | `listenLoop`, `Serve`, `handle` |
| ipc | `plugin/ctl/ipc` | request identifiers, pending maps, bounded queues | client, server, peer, codecs |
| daemon | `cmd/proxygw` | how far `run` has come, which plugins are loaded | `run`, load and unload of plugins, `applyConfig`, `closeEngine` |
| plugin registry | `internal/plugin` | a map filled before `main` | `Register`, `Find` |
| proxygwctl | `cmd/proxygwctl` | none | one status request |
| generator | `cmd/proxygw/gen` | none | build-time code generation |

How they interact:

* callers (the daemon, plugins, the engine's poll loop) call `Warm`, `Drain`,
  `Start`, `Stop` and `Close` from any goroutine; these set the state under the
  component's lock and, with the lock held, put a request in its mailbox;
* the event loop of a target or frontend takes requests, calls the handler
  *without* the lock, and takes the lock again to record what came of it; a
  target then switches its dataplane group while it holds its lock;
* a frontend calls `target.Warm()` from its loop, and `AddMappings` and
  `DelMappings` on the group of its target when it is created and when it ends;
* the engine holds its own lock while it constructs resources and while it
  drains idle targets: the lock order is engine, then target or frontend, then
  dataplane;
* the contexts of all targets and frontends are children of the engine's, which
  is a child of the daemon's signal context: a signal cancels everything at
  once, before `Engine.closed` is set.

What is hard to get right, and hard to test:

* the window between dropping a lock and taking it again, in which `Close` or a
  cancellation arrives while a handler is at work;
* a channel send with the lock held, which must never block;
* a `select` in which shutdown competes with requests and warm signals;
* `Close` in two steps (mark, then cancel) next to a cancellation from above
  that marks nothing;
* dataplane operations that fail, and what state is then reported;
* mappings of many groups, of which at most one may match any packet, and whose
  two indexes and kernel entries must agree although a flush can fail;
* staleness information that is older than the warm-up it is applied to;
* names that are deleted and registered again while the old object winds down;
* start-up that fails, or is told to stop, after any of its steps, with the
  engine's poll loop and whatever was made already ending on their own;
* ipc: bounded queues filled by one goroutine and emptied by another that needs
  a lock the first one holds; identifiers that are given out again;
* handlers that return before what they started or stopped has happened: a
  command that ignores its interrupt, a goroutine that obeys later, requests that
  outlive the server's shutdown.

The properties that make each component correct are the properties of the runs
below; `PROJECT.json` lists every hazard at its line with the properties that
cover it.

## 2. Modules

| module | role | models |
|---|---|---|
| `Target` | detailed | the event loop of `pkg/target`, its callers, its contexts |
| `TargetLifecycle` | abstract | what a target promises to its callers; refined by `Target` |
| `TargetProofs` | proofs | about `Target` and `CmdTarget` |
| `Frontend` | detailed | the event loop of `pkg/frontend`, its callers, its warm signals |
| `FrontendLifecycle` | abstract | what a frontend promises; refined by `Frontend` |
| `FrontendProofs` | proofs | about `Frontend` and `StaticFrontend` |
| `Mapping` | pure operators | `Validate`, `Overlaps`, the keys and translations of the compiled rules |
| `Connft` | detailed | groups, indexes, timeouts, the nftables table, crashes and restarts |
| `MappingProofs` | proofs | about `Mapping` |
| `ConnftProofs` | proofs | about `Connft` |
| `Gateway` | composition | the engine's poll loop and shutdown over the two lifecycles |
| `GatewayProofs` | proofs | about `Gateway` |
| `Registry` | detailed | names, kinds, endpoints, the wait group and the order of the daemon's way down |
| `RegistryProofs` | proofs | about `Registry` |
| `Ipc` | detailed, composition | the two ends of a control connection, and `Server.Serve` |
| `IpcProofs` | proofs | about `Ipc` |
| `CmdTarget` | composition, refinement | `Target` with `CmdHandler` and its command; implements `Target` |
| `StaticFrontend` | composition, refinement | `Frontend` with `AlwaysHandler` or `HTTPHandler`; implements `Frontend` |
| `Config` | pure operators | which configurations and endpoints are accepted |
| `Daemon` | detailed | `run`: plugins, configuration, signal, and the way down from wherever it has come to |
| `DaemonProofs` | proofs | about `Config` and `Daemon` |
| `MC...` | TLC | one per module that is checked, with its `.cfg` files |

### Target and Frontend

One action per critical section, per handler call and per receive of the
`select`. What the code does with the lock held is one step; between dropping
the lock and taking it again any other action may happen. `pc` names the place
of the event loop: `select`; `warm` (job received), `warming` (past the
read-locked check), `warmed` (handler returned); likewise for `drain`; `end`,
`closeHandler`, `closeGroup`, `record`, `exited` for `endBlocking`. `Close` is
two actions (`Close`, `Cancel`) because the code unlocks between them.
`CancelParent` is the engine's context.

The handler returns any result. After an error the backend may be up or down;
after success it is what was asked for, which is what the interface promises and
`CmdTarget` and `StaticFrontend` show of the handlers of `plugin/static`. `err` is a
Boolean: the code only ever tests it against nil. The dataplane group of a
target is reduced to `open` and `routed`; `Enable` and `Disable` may be refused
except where the code of `connft` returns at once.

In `Frontend` the target is outside: `WarmSignal` and `Unbind(f, ok)` are the
frontend's half of steps that `Gateway` joins with the target's half.

### Mapping and Connft

An address is a family, a host and a port; hosts are model values, with one
unspecified address per family. `Overlaps` is translated as the code writes it, and
that is weaker than the comment above `Mapping`: it compares address and port
literally, so a wildcard source does not stand for the hosts it covers, and a host may
be source and destination on different ports (section 4). What the literal comparison
is good for is what the kernel needs of it: `TranslatesOnce`, that mappings which do
not overlap give every packet at most one way. How far the comment's "domain(f) is
disjoint with codomain(f)" holds is proved, too: `Forwarded(m)` is the packet a
translation by `m` results in, and it is no packet for another mapping unless that one
has a wildcard source.
The rule bytecode of `connft_nft_rules.go` is modelled by the translation it
performs: `Key` (where a mapping is stored) and `Translations` (what the four
map look-ups can do to a packet).

`Connft` has one action per exported operation. All run under the dataplane's
lock; a `Flush` commits a batch or refuses all of it. Three shadows of the same
fact are kept as the code keeps them: `mappingsBySrc`, `mappingsByDst` and the
kernel's elements. `ktimers` are the timeout rules with their owner, `left` is
history: what a closed group or a dead process left behind.

### Gateway

Targets and frontends appear as `TargetLifecycle` and `FrontendLifecycle`,
which the detailed modules are shown to implement, liveness included; steps that
belong to two of them are conjunctions. Time is counted in poll periods and is
saturated one period past the timeout. Traffic is one flow per frontend that
starts while DNAT is live and ends at any time. `SetTimeout` takes no lock and may
come between any two steps of a sweep. The poll loop is split where
the code takes no lock or another lock: the read of conntrack (`Dump`, which may
fail), matching under the dataplane's lock (`Match`), and the sweep under the
engine's lock, one `Visit` per target. `quiet` and `fresh` are history.

### Registry

What is registered under which name, seen from the engine and from the
dataplane. An object is a target or a frontend, made once; it is born `open`,
becomes `closed` by its own `Close` or because its context is done, and is
`over` when its loop has returned (`Target` and `Frontend` say what it does in
between). A constructor that fails after it made a handler leaves the object
`dropped` (nobody closes the handler) or `refused` (it was closed). The engine's
maps are `targets` and `frontends`, the dataplane's is `groups`; the first
forgets a target at `DelTarget`, the second when the loop is over. A frontend
keeps the target it was born with (`target`), whoever has that target's name
later. `wg` is the engine's wait group. Each engine operation runs under
`e.lock` and is one action. A kind only decides whether a constructor is found,
so `NewTarget` asks for some registered kind. `endpoints` are names: `AddEndpoint`
refuses some of them for their address, and the frontends bound to one that is
removed keep their mapping. The daemon's `run` is a phase:
`starting`, `serving`, `waiting`, `unloading`, `closing`, `gone`.

### Config and Daemon

A configuration is a sequence of targets and one of frontends, as records of what
`Validate` looks at; `ValidConfig` is `Validate`, field by field and in its order of
conditions. `Daemon` runs `run` with a document, valid or not: `phase` is where it
is, `next` the plugin, target or frontend whose turn it is. Any step may fail the
way the code lets it (`GiveUp` to the place the deferred calls begin at; a target
that cannot be made ends the daemon, a frontend is left out). Next to `run` act the
signal, the poll loop that closes the engine (`EndEngine`) and the loops of what
has been made (`EndObject`), so that `run` may find the engine closed, or a target
gone, at every step. `refused` and `hooked` are history; a frontend is `refused` when its
handler could not be made, or when the target's group was enabled and the kernel
refused the batch of `AddMappings`. `frontend.Start()` (`main.go:233`) only asks the
frontend's loop to start and is rejected only when that loop has been told to end,
which is logged and changes nothing `Daemon` speaks of. `dplane` is closed when
`Close` has been called: its error is logged, and what may then be left in the kernel
is `left` of `Connft`. Where `Registry` has all
callers of the engine and forgets what they want, `Daemon` has one caller that
wants the configuration; the order of shutdown is in both. `bound` is what `AddMappings` has
recorded. `RoutedAsConfigured` asks what the compiled rules make of it for every set of
targets that may be warm; that the kernel has just the mappings of enabled groups is
`KernelIsLive` of `Connft`.

### CmdTarget and StaticFrontend

Each extends the event loop (`EXTENDS Target`, `EXTENDS Frontend`), leaves out the
steps in which the environment would answer for the handler, and puts the handler there. `Return`
is the end of a handler call: it sets what the loop sees (`pc`, `failed`) and what
`Target` or `Frontend` believes of the outside (`backend`, `listener`). That the
result is a `Target` (a `Frontend`) is then a property: `IsATarget`,
`IsAFrontend`, liveness included. `Target` lets a handler take its time but not
hang; these modules show that this one does not.

In `CmdTarget` `proc` is the child process and the goroutine in `Cmd.Wait`, `cmd`
and `stop` are the handler. `Drain` is up to three steps: the interrupt
(`Interrupt`), then either the report (`DrainDone`) or the end of the five seconds
(`Timeout`), whose kill may come too late, then the report again. A process that
has been killed exits; nothing makes another one exit.

In `StaticFrontend` a frontend is of either kind (`kind`, chosen at the start).
`AlwaysHandler`: the channel of commands has no room, so `Command` (the handler's
send and the goroutine's receive) is one step and `Obey` another one.
`HTTPHandler`: `socket` is the one the server listens on: open before `Serve` has
registered it, then served. `Shutdown` closes only a served one; an open one
becomes `stale` and is closed when `Serve` finds out (`CloseStale`); meanwhile a
new `Start` may find the address in use. Requests (`busy`) need not end.
`Frontend.Tick` allows a signal in every state up to `exited`, since requests
outlive `Stop`.

### Ipc

One connection, with an end `a` and an end `b`, each a client, a server or a
peer. `conn` and `pipe` are the socket (`pipe[e]` holds the packets on their way
to `e`). `Request`, `Notify` and `Respond` hold the lock while they write: `lock`
says who has it and `out` is the packet, `Write` and `WriteFails` are the return
from the socket. `reader` and `cur` are the read loop: `notify`, `match` and
`dispatch` are places where it is about to do so, in `send` it holds the lock and
waits for room in the queue, in `refuse` it writes an error. A peer goes from one
place to the next: what has identifier zero is a notification first, whatever it says,
an answer is matched, and everything is dispatched (`Route`, `AfterNotify`,
`AfterMatch`). `serve` and `job`
are `Server.Serve`. A packet is a kind, an identifier and a tag that stands for
its body: a request's tag is what is asked, and the answer repeats it.

## 3. Checks

| run | bounds | shows |
|---|---|---|
| `target` | 1 target | `MailboxHasRoom`, `IInv`, `SettledIsHonest`, `ClosedIsFinal`, `ShutdownCompletes`; `Target` implements `TargetLifecycle` (`KeepsPromise`), so that requests settle |
| `frontend` | 1 frontend | the same six for frontends, and `RequestsSettle`: settled, or left with an error |
| `frontend_stuck_stopping` | 1 frontend | violation: Stopping although no stop is in progress |
| `connft` | 2 groups, 4 mappings, a timeout or none, batches of 2 | `IInv`, `OneTranslation` |
| `gateway` | 1 target, 1 frontend, a timeout of 0 or 1 periods | `IInv`, `DrainedOnlyWhenQuiet`, `IdleTargetsDrain`, `DemandIsServed`, `ShutdownCompletes` |
| `gateway_drained_early` | the same | violation: drained by a poll during which it was warmed |
| `registry` | 2 target names, 1 frontend name, 2 targets, 1 frontend, 1 kind of each, 1 endpoint name | `IInv`, `NobodyOutlives`, `ShutdownEnds`, `NamesComeBack` |
| `ipc` | a client and a server, 2 tags, identifiers up to 2, room for 1 packet in the socket and in each queue, 2 requests under way, 1 notification | `IInv`, `AnswersMatch`, `RequestsEnd`, `ServeEnds` |
| `ipc_serve_stuck` | the same with 3 requests under way, 1 tag, no notification | violation: `Serve` and the reader wait for each other |
| `cmd_target` | 1 target | `CmdIInv`; `CmdTarget` implements `Target` (`IsATarget`) |
| `static_frontend` | 1 frontend of either kind, 2 requests in hand | `StaticIInv`, `TicksOnlyWhileUp`, `Released`; it implements `Frontend` (`IsAFrontend`) |
| `daemon` | 8 documents (4 accepted) of up to 2 targets and 3 frontends, 3 plugins | `IInv`, `AllServed`, `RoutedAsConfigured`, `Ends` |

Why the bounds are enough. Targets do not touch each other and neither do
frontends, so one shows every race of a loop with its callers, and the theorems
of section 5 hold for any number of them. The mailbox, the
contexts and the contents of `requests` need no bound: that they stay small is
a property that is checked. In `Connft` two groups suffice, because every conflict is between one mapping and
another: of the four mappings one pair overlaps (by a wildcard), two pairs may
live side by side, one mapping has a timeout and one is invalid. What
`Overlaps` is for is a theorem about any mappings. In `Gateway`, a timeout of one
period is the least at which a target can be spared and then drained, and a second
value lets it change under the sweep; the
theorems below hold for any number of targets and any timeouts, so the
instance serves liveness. In `Registry` a second target can ask for the name of
one that is still winding down, take it while the frontend of the first still
lives, and be created while a signal is on its way; one object of each sort more repeats these cases, and
the theorems hold for any number.

The documents of `Daemon` are accepted ones with overlapping, invalid and free
mappings, accepted ones with a kind or an endpoint that only the engine refuses, and
ones that break a rule of `Validate` each. Of the plugins one has kinds, one has no
hooks and one has hooks only, which is what the repository's plugins are.

In `Ipc` the code's numbers (16 in a queue, 2^32 - 1 identifiers) are replaced by
the least that still wrap and fill. With `Cap` requests in the queue and one in
the hands of `Serve` there is room for `Cap + 1` under way; one more is held by
the reader, with the lock, and that is the deadlock of `ipc_serve_stuck`. The run
`ipc` therefore has `Window = Cap + 1`, the most with which `ServeEnds` holds
(proxygwctl has one). Notifications are at most what the queue of their
recipient holds: a client whose user never reads `Notifications()` stops reading
beyond that, and nothing in the repository sends any. In `CmdTarget` and
`StaticFrontend` resources do not touch each other; two requests in hand let one
end while another hangs.

Fairness. Weak fairness of a loop says that a goroutine that can run does run,
and that handlers return (a handler that hangs keeps its loop, which is what the
code does). Strong fairness of `SelectDone`, `Receive`, `WarmSignal` and
`PollDone` is Go's `select`: among ready branches it picks at random, so a
branch that is ready at every pass is taken at some pass. Weak fairness of
`Cancel` is the second half of a `Close` call. Callers, handlers' signals,
traffic, dataplane failures and shutdown have no fairness. In `Gateway` the
fairness of targets and frontends is that of their lifecycles, with one addition:
a done context closes the resource, which is `ShutdownCompletes` of the
detailed modules. In `Registry` the loops obey a done context and end, a `Wait`
whose condition holds returns, and the daemon takes its next step; registration,
deletion, closing and the signal are free. In `Daemon` likewise: `run` takes its
next step when it can, the poll loop closes an engine whose context is done, and
every loop that has been told to end does.

In `Ipc` goroutines that can run do: the owner of the lock finishes its write
when the socket has room or is closed, the reader and `Serve` go on. The reader
of a client has strong fairness, since its user may take the lock again and
again (Go's mutex does not starve a waiter), and so has the branch of `select`
that sees the cancelled context. Users ask, notify and close as they like. In
`CmdTarget` and `StaticFrontend` the handlers' goroutines and timers run and a
kill is carried out; commands and requests end only if they like. A `Serve` of
net/http that has been started gets to register its socket.

Deadlock is not checked where a daemon may stop: once every loop has exited
there is nothing left to do. That the loops do end is `ShutdownCompletes`.

## 4. What the code does differently from what it says

* `frontend_stuck_stopping`: a failed start leaves Stopping with no stop queued;
  from there neither `Start` nor `Stop` ever does anything again
  (`frontend.go:153`).
* `gateway_drained_early`: `lastSeen` is not renewed when a target becomes
  Active, so a target that was cold for its timeout is drained by the next poll
  unless a flow is already there (`target.go:90`).
* `ipc_serve_stuck`: the reader of a server sends on a full queue with the lock
  that `Respond` needs (`base_server.go:93`); `Serve` then ends neither on
  cancellation nor when the connection closes (`server.go:37`).

The models have more of this kind, which no run singles out:

* The rules of `mapping.go` are stronger than what `Overlaps` enforces, which compares
  addresses literally (`mapping.go:94`). From the wildcard, port 1, to h2:2 and from the
  wildcard, port 2, to h2:1 are accepted together, though the source of each covers the
  destination of the other: domain and codomain are not disjoint (`mapping.go:18`;
  theorem `WildcardsMeetDestinations`). Line 11 and rule (1) at line 78 ask for even
  more, addresses without their ports: h1:1 to h2:1 next to h2:2 to h1:3 is accepted
  as well.
* A warm signal is taken off `ShouldWarm` before `target.Warm` is tried, whose result
  is only logged (`frontend.go:294`): a Draining target refuses, goes Inactive and stays
  so until the handler asks again, although the repository's README has demand warm its
  target (lines 11 and 139). `DemandIsServed` says what remains true: a handler that
  goes on asking is served.
* `drainBlocking` goes Inactive before it disables DNAT and stays there when that
  fails, with the error recorded (`target.go:306`; `SettledIsHonest` therefore
  speaks of targets without an error).
* A group of `connft` whose mappings cannot be removed is closed all the same, and
  nobody can remove them any more (`connft_group.go:334`; the variable `left`).
* `addMappings` ignores the error of `ensureTimeoutSet` and records the mapping with
  its timeout (`connft_group.go:280`; `TimersBacked` says what is still true).
* After `DelTarget` of a closed target its name is free in the engine, but the
  dataplane refuses it until the target's loop is over (`engine.go:281`;
  `NamesComeBack`).
* `Endpoint.Overlaps` compares addresses literally (`endpoint.go:47`), although its
  comment says that a wildcard owns its port (`endpoint.go:24`), and `AddEndpoint`
  does not ask `IsValid`; `addMappings` refuses what comes of it, an unspecified
  destination. The mapping of a frontend has the frontend's protocol, whatever that of
  its endpoint is (`frontend.go:51`).
* `NewTarget` drops the handler it has made when `NewGroup` fails, and `NewFrontend` when
  the endpoint does not exist (`engine.go:235`; the state `dropped` of `Registry`).
* `Engine.Wait` returns at once while nothing is registered (`engine.go:84`), although
  its comment waits for shutdown; `run` calls it after `Close` only.
* When the first flush of `connft.New` fails, `Close` deletes a table that was never set
  (`connft.go:59`); the process ends with it.
* A frontend with a zone in its address is accepted by `Validate` and refused by the
  dataplane (document `Scoped` of `MCDaemon`; `AllServed` says what is served then).
* A peer dispatches notifications and answers as requests (`base_peer.go:154`).
* A server of net/http that fails by itself leaves its frontend Running
  (`http.go:57`, action `Breaks`).

## 5. Proofs

`TargetProofs`, for any set of targets: `Invariance` (`Spec => []IInv`) and from
it `NoBlockingSend`, `Honesty` and `CloseWins`. That the mailbox has room is not
inductive by itself. `OneJob` strengthens it: a queued or running job exists
exactly as long as the state announces it, so Inactive and Active, the states in
which a caller sends, exclude one. `Shutdown` adds that a Closed target is
cancelled or about to be and that the loop ends after the mark; `HandlerHonest`
carries a handler's success across the gap between its return and the lock.
Each conjunct has a lemma of its own with one step per action. `StepsKeepPromise`
is the safety half of `KeepsPromise`: every step of the loop is one of
`TargetLifecycle` or leaves what callers see alone.

`FrontendProofs` proves the same five theorems of `Frontend`, for any set of
frontends. A failed job leaves the opposite state with nothing queued, so its
`OneJob` is weaker: a state announces a job, or carries the error that explains
why there is none. `CloseWins` also covers the mapping: once given back it stays
out of the group.

`GatewayProofs`, for any targets, frontends, bindings and timeouts:
`Invariance`, and `SparesTheBusy` (`Spec => DrainedOnlyWhenQuiet`).
`LastSeenIsKept` is the core: `idle <= quiet` for every target, except for those
the poll under way has found busy and not visited yet. The proof splits the
invariant into the parts of targets, frontends and engine (`Parts`), shows that
every step is local to the parts (`NextIsLocal`), and treats each part alone.
The assumptions are the two the module declares: a binding is a target, and
the longest timeout is a natural number.

`MappingProofs`, for any hosts, ports, protocols and timeouts. `TranslatesOnce`: in a
set of mappings of which no two overlap, a packet finds the element of the one that
matches it, in whichever map, and none otherwise. `OverlapIsAmbiguity`: of two valid
mappings that name no address in common, `Overlaps` refuses exactly those that some
packet matches both of; `CommonPacket` builds that packet, for which there has to be a
host (`HostsAssumption`). `DisjointWhereNamed` and `WildcardsMeetDestinations` are the
two sides of the comment on disjointness: it holds of sources that name a host, and for
wildcards it does not.

`ConnftProofs`, for any groups, mappings and batches: `Invariance` (`Spec =>
[]IInv`) and from it `OneWay` (`Spec => []OneTranslation`), by `TranslatesOnce` over
what is live. `Adding`, `Removing` and
`Rewritten` say what an operation does to the indexes, `LiveAfter` what becomes of
the live mappings; with them each operation has one lemma. `IndexesAgree` and `NoOverlap`
need each other: a deletion is by source in one index and by destination in the
other, which is the same only while nothing overlaps. The assumptions are those of
`Mapping` and that what callers hand in is a mapping (`CandidatesAssumption`).

`RegistryProofs`, for any names, kinds and objects: `Invariance` and
`SafeShutdown` (`Spec => []NobodyOutlives`). `NobodyOutlives` is not inductive:
that nothing lives once the wait group is empty needs `Counted` (what lives is
waited for, and the engine is closed when `run` waits, so nothing is added).
`NamesAgree` and `RoutesFollowTargets` are proved together, since a mapping is in
a group only while that group's target lives. The assumption is that targets,
frontends and `None` are different things.

`IpcProofs`, for any roles of the two ends, peers included, and any sizes:
`Disciplined` (`Spec => []IInv`). `LockIsUsed` ties the lock to the places of the
reader and of `Serve`, which makes the steps of one end exclude each other;
`OwesOnce` says that the queue, the request in hand and the one the reader is
sending are distinct and registered; `EndsLast` that a reader ends with the
connection. What concerns one end is shown to be left alone by steps of the other
(`StepIsLocal`). The assumption is `IpcAssumption`: sizes are numbers and `None` is
neither a tag nor a packet.

`AnswersBelong`, between a client and a server, is `AnswersMatch`. Identifiers are used
again, so an answer is right only if nothing of an earlier request is still around
under its identifier. That is `OneExchange`: every packet of either end, wherever it
lies, carries what is pending under its identifier (`GenuineAt`), and what belongs to
a pending request is in one place at a time, from the client's lock over the
server's queue back to the client's reader (`OnceAt`). `Assigned` shows that a new
request takes an identifier under which nothing is pending, `PendingIsSomewhere` and
`TableAt` that then nothing lies under it, `ClientStep` and `ServerStep` that each
step moves at most one packet on. Two peers are left out because they answer answers.

`TargetProofs`, about `CmdTarget`, for any set of targets: `StepsAreTargets`, the safety
half of `IsATarget`, and `Safe` (`CmdSpec => []CmdIInv`). The two go together:
`Simulates` maps every step to one of `Target` or to none, given `Held` (the handler is
stopping a command only while the loop waits for it); so the invariant of `Target`
holds here by its own lemma (`NextIInv`), and with it `NothingLeftRunning`,
which rests on the one job of a target: a Warm is on its way only when whatever
came before has been drained. With `StepIsPromised` this gives `CommandsKeepPromise`:
the target with its command is a `TargetLifecycle` step by step, which is what `Gateway`
is built on.

`FrontendProofs`, about `StaticFrontend`, for any frontends and any number of requests:
`StepsAreFrontends`, the safety half of `IsAFrontend`, `Safe` (`StaticSpec =>
[]StaticIInv`) and `NoLateTick` (`StaticSpec => TicksOnlyWhileUp`). As for commands,
`Simulates` maps a step to one of `Frontend` or to none and `NextIInv` brings its invariant along. `StoppedIsDeaf` is not inductive: the loop
records Stopped a step after the handler has returned, and a socket outlives neither
its server nor the shutdown of it. `Held` says so; and that `listener` is up while a
start is pending or the ticker is on and nothing is pending is what `NoLateTick`
follows from. `StaticKeepsPromise` is what `CommandsKeepPromise` is for targets. The
assumption is that `MaxBusy` is a positive number.

`DaemonProofs`, for any configurations and any plugins: `Invariance` (`Spec => []IInv`),
`Served` (`Spec => []AllServed`) and `Routed` (`Spec => []RoutedAsConfigured`). What the daemon promises is about its end
and about names, and none of it is inductive. `Inductive` is: `PluginsInOrder`
(`unloaded` is the end of `loaded`, backwards, and nothing is in `loaded` twice),
`InPlace`, `ObjectsBacked` (what lives is in the configuration and its kind is known;
each mapping is that of a frontend that lives), `MappingsApart` (no two overlap, and
what lives has its own), `MadeSoFar` (nothing that `next` has not come to has been made), `NoneMissing` (nothing that it has come past is missing
without a reason) and `DownForAReason`. `InductiveIsEnough` shows that the other parts
of `IInv` follow: `NothingLeft` by counting backwards, `HandlersBacked` from the kind
to the plugin that exports it, `NamesResolve` from `ValidConfig` and what `NoneMissing`
says of the targets. `NextObjects` is what a step can do to targets and frontends, so
that `NextObjectsBacked`, `NothingLost`, `NextTargetsServed` and `NextFrontendsServed`
need not go through all actions. That a frontend is in the way only of those *after* it
takes `ObjectsBacked` and `MadeSoFar` together: a mapping in a group belongs to a
frontend that lives, and only what comes before `next` does. `Routed` goes from the
document to the packet: by `MappingsApart` the mappings of what lives do not overlap,
whichever of their targets are warm, so `TranslatesOnce` of `MappingProofs` applies to
them, and they are what the document says by `ObjectsBacked`. A name is looked up with
`CHOOSE`; that it stands for the element one means is `NamedIsOnly`, from the
distinctness `Validate` checks. The assumptions are that a document is made of
sequences, with addresses, protocols and timeouts where the code has those types
(`ConfigsAssumption`; whether `Validate` accepts any of it is left open), and that a
plugin without `OnLoad` exports no kind (`PluginsAssumption`).

Only model-checked: liveness, and with it the other half of the refinements
(`KeepsPromise`, `IsATarget`, `IsAFrontend`), whose steps are proved to be steps of
what they implement. Liveness is out of the prover's reach.
Only proved: what `Ipc` says of peers, of which the runs have none, and `Mapping` for all
pairs of mappings.

## 6. Plan

Written in this order: `Target` with its abstraction and proofs, `Frontend`
likewise, `Mapping`, `Connft`, `Gateway` with its proofs, `Registry` with its
proofs, `Ipc` with its proofs, `CmdTarget` with its proofs, `StaticFrontend` with its
proofs, proofs about `Mapping` and `Connft`, `Config` and `Daemon` with its proofs, the
refinements step by step. Left to do:

1. `Daemon` over the two lifecycles instead of `live`, so that the end of a target
   takes its steps there, too.
2. Addresses of endpoints: two names of one backend, a wildcard next to a host.

## 7. Not modelled

Wording of logs and errors; codecs and packet bodies; the status an answer
carries, which is read from getters of the engine; the generator, which runs at
build time; connecting and printing in `proxygwctl`; YAML and the parsing of `pkg/config`, which
are pure and touch no other component; the plugin registry beyond what `Find`
returns, a map that is filled before `main` and then only read. Rule bytecode beyond
the translation it performs. Clock time below a poll period. The accept
loop of the ctl plugin: it goes on after an error that is not `ErrClosed` with a
connection that is nil, on which `NewServer` panics (`init.go:24`); what it starts
for each connection is `Ipc`. A command's own children: a kill reaches the shell
that `cmd.go:115` starts and not what the shell has started.
