------------------------------- MODULE Connft -------------------------------
(***************************************************************************)
(* pkg/dataplane/connft: groups of DNAT mappings and the kernel tables     *)
(* they are written to.                                                    *)
(*                                                                         *)
(* Every operation runs under the dataplane's lock and is one step.  The   *)
(* kernel is written in batches: a batch is committed as a whole by Flush  *)
(* or not at all.  An operation that returns an error before it has        *)
(* changed anything is no step; an operation that goes on after a failed   *)
(* Flush is a step in which that Flush changes nothing.                    *)
(*                                                                         *)
(* A group is known by its name while it is registered.  The operations of *)
(* a closed group all return ErrClosed, so nothing of it is kept.          *)
(***************************************************************************)
EXTENDS Mapping, FiniteSets

CONSTANTS
  Names,       \* names of groups
  Candidates,  \* the mappings that callers try to add
  MaxBatch,    \* bound: mappings in one call
  Nobody       \* owner of the timeout rules that no group knows of any more

ASSUME CandidatesAssumption == Candidates \subseteq AnyMapping
ASSUME NobodyAssumption == Nobody \notin Names

VARIABLES
  status,         \* of the process: down, up, or closed (Connft.Close was called)
  groups,         \* d.groups, the names registered
  mappingsBySrc,  \* of each group, as the set of its values
  mappingsByDst,  \* likewise
  enabled,        \* of each group
  flowInfoBySrc,  \* the sources for which a group believes a timeout rule exists
  kernel,         \* the elements of the four DNAT maps
  ktimers,        \* the timeout rules in the kernel: owner and source
  left            \* history: elements whose group was closed, or whose process died

memory == <<groups, mappingsBySrc, mappingsByDst, enabled, flowInfoBySrc>>
tables == <<kernel, ktimers, left>>
vars   == <<status, memory, tables>>

\* The two keys (dnatKey) under which a group stores a mapping.
SrcKey(m) == <<m.src, m.proto>>
DstKey(m) == <<m.dst, m.proto>>

\* A map as a set of mappings: entries of S with a key of B are gone, or
\* replaced.
DropSrc(S, B) == {m \in S : \A b \in B : SrcKey(m) # SrcKey(b)}
DropDst(S, B) == {m \in S : \A b \in B : DstKey(m) # DstKey(b)}

Batches == {B \in SUBSET Candidates : B # {} /\ Cardinality(B) <= MaxBatch}

NoGroup ==
  /\ groups        = {}
  /\ mappingsBySrc = [n \in Names |-> {}]
  /\ mappingsByDst = [n \in Names |-> {}]
  /\ enabled       = [n \in Names |-> FALSE]
  /\ flowInfoBySrc = [n \in Names |-> {}]

\* The process has just started; an earlier one may have left its table.
Init ==
  /\ status = "down"
  /\ NoGroup
  /\ kernel = {} /\ ktimers = {} /\ left = {}

-----------------------------------------------------------------------------
(* The kernel: what Flush does with a batch, when it does not fail.        *)

\* Adding a key that is there with other data is refused.
AddElements(E) ==
  /\ \A e \in E, k \in kernel : e.key = k.key => e = k
  /\ kernel' = kernel \cup E
  /\ left'   = left

\* Deleting what is not there is refused.
DeleteElements(E) ==
  /\ E \subseteq kernel
  /\ kernel' = kernel \ E
  /\ left'   = left \ E

\* What becomes of the timeout rules T when the groups N are forgotten.
Disowned(T, N) == {r \in T : r[1] \notin N} \cup {<<Nobody, r[2]>> : r \in {t \in T : t[1] \in N}}

\* The timeout object of a source is shared by the rules of all groups that
\* have one for it: a group can delete its rule (and the object with it, in the
\* same batch) only while no other rule needs the object.
Deletable(n, K) == {k \in K : \A r \in ktimers : r[2] = k => r[1] = n}

-----------------------------------------------------------------------------
(* Connft.New, Connft.Close and the death of the process.                  *)

\* ensureTableAdded deletes the table an earlier process has left and creates
\* a new one.  If the second Flush fails the old table is gone all the same.
Open ==
  /\ status = "down"
  /\ status' \in {"up", "down"}
  /\ kernel' = {} /\ ktimers' = {} /\ left' = {}
  /\ UNCHANGED memory

\* Every group is closed, then the table is deleted; both may fail.
Close ==
  /\ status = "up"
  /\ status' = "closed"
  /\ \/ kernel' = {} /\ ktimers' = {} /\ left' = {}
     \/ \E F \in SUBSET {n \in groups : enabled[n]} :
          LET gone == UNION {Elements(mappingsBySrc[n]) : n \in {g \in groups : enabled[g]} \ F}
          IN  /\ kernel' = kernel \ gone
              /\ left'   = kernel'
              /\ \E T \in SUBSET ktimers : ktimers' = Disowned(T, Names)
  /\ groups'        = {}
  /\ mappingsBySrc' = [n \in Names |-> {}]
  /\ mappingsByDst' = [n \in Names |-> {}]
  /\ enabled'       = [n \in Names |-> FALSE]
  /\ flowInfoBySrc' = [n \in Names |-> {}]

\* The process ends, by a crash or after Close; the kernel keeps its tables.
Die ==
  /\ status # "down"
  /\ status' = "down"
  /\ left'   = kernel
  /\ groups'        = {}
  /\ mappingsBySrc' = [n \in Names |-> {}]
  /\ mappingsByDst' = [n \in Names |-> {}]
  /\ enabled'       = [n \in Names |-> FALSE]
  /\ flowInfoBySrc' = [n \in Names |-> {}]
  /\ ktimers' = Disowned(ktimers, Names)
  /\ UNCHANGED kernel

-----------------------------------------------------------------------------
(* The operations of a group.                                              *)

IsOpen(n) == status = "up" /\ n \in groups

NewGroup(n) ==
  /\ status = "up" /\ n \notin groups
  /\ groups' = groups \cup {n}
  /\ mappingsBySrc' = [mappingsBySrc EXCEPT ![n] = {}]
  /\ mappingsByDst' = [mappingsByDst EXCEPT ![n] = {}]
  /\ enabled'       = [enabled EXCEPT ![n] = FALSE]
  /\ flowInfoBySrc' = [flowInfoBySrc EXCEPT ![n] = {}]
  /\ UNCHANGED <<status, tables>>

\* Every mapping is valid and overlaps neither another one of the batch nor
\* one of any registered group.
\* Mistake: compare with the mappings of the same group only.
CompatibleWithOwn(n, B) ==
  \A m \in B :
    /\ Validate(m)
    /\ \A x \in B \ {m} : ~Overlaps(m, x)
    /\ \A x \in mappingsBySrc[n] : ~Overlaps(m, x)

Compatible(n, B) ==
  \A m \in B :
    /\ Validate(m)
    /\ \A x \in B \ {m} : ~Overlaps(m, x)
    /\ \A g \in groups : \A x \in mappingsBySrc[g] : ~Overlaps(m, x)

\* ensureTimeoutSet for every mapping of B; the errors are ignored, so it takes
\* effect for any part of B only.  A timeout of zero deletes the rule.
SetTimers(n, B) ==
  \E done \in SUBSET B :
    LET set  == {SrcKey(m) : m \in {b \in done : b.ttl # 0}}
        zero == {SrcKey(m) : m \in {b \in done : b.ttl = 0}}
        del  == Deletable(n, zero \cap flowInfoBySrc[n])
    IN  /\ flowInfoBySrc' = [flowInfoBySrc EXCEPT ![n] = (@ \ del) \cup set]
        /\ ktimers' = (ktimers \ ({n} \X del)) \cup ({n} \X set)

\* ensureTimeoutDeleted for every mapping of B, errors ignored as well.
DeleteTimers(n, B) ==
  \E done \in SUBSET B :
    LET del == Deletable(n, {SrcKey(m) : m \in done} \cap flowInfoBySrc[n])
    IN  /\ flowInfoBySrc' = [flowInfoBySrc EXCEPT ![n] = @ \ del]
        /\ ktimers' = ktimers \ ({n} \X del)

\* The DNAT of an enabled group is written first, and if that fails so does the
\* call.
AddMappings(n, B) ==
  /\ IsOpen(n)
  /\ Compatible(n, B)
  /\ IF enabled[n] THEN AddElements(Elements(B)) ELSE UNCHANGED <<kernel, left>>
  /\ mappingsBySrc' = [mappingsBySrc EXCEPT ![n] = DropSrc(@, B) \cup B]
  /\ mappingsByDst' = [mappingsByDst EXCEPT ![n] = DropDst(@, B) \cup B]
  /\ SetTimers(n, B)
  /\ UNCHANGED <<status, groups, enabled>>

\* The part delMappings shares with ClearMappings and Close: the DNAT of an
\* enabled group is removed first, then the mappings are forgotten.
\* Mistake: forget the mappings without looking at the DNAT.
ForgetOnly(n, B) ==
  /\ UNCHANGED <<kernel, left>>
  /\ mappingsBySrc' = [mappingsBySrc EXCEPT ![n] = DropSrc(@, B)]
  /\ mappingsByDst' = [mappingsByDst EXCEPT ![n] = DropDst(@, B)]
  /\ DeleteTimers(n, B)

Forget(n, B) ==
  /\ IF enabled[n] /\ B # {} THEN DeleteElements(Elements(B)) ELSE UNCHANGED <<kernel, left>>
  /\ mappingsBySrc' = [mappingsBySrc EXCEPT ![n] = DropSrc(@, B)]
  /\ mappingsByDst' = [mappingsByDst EXCEPT ![n] = DropDst(@, B)]
  /\ DeleteTimers(n, B)

\* The group holds each mapping with that source, protocol and destination; its
\* timeout does not matter.
Holds(n, B) ==
  \A m \in B : /\ Validate(m)
               /\ \E x \in mappingsBySrc[n] : SrcKey(x) = SrcKey(m) /\ x.dst = m.dst

DelMappings(n, B) ==
  /\ IsOpen(n)
  /\ Holds(n, B)
  /\ Forget(n, B)
  /\ UNCHANGED <<status, groups, enabled>>

ClearMappings(n) ==
  /\ IsOpen(n)
  /\ Forget(n, mappingsBySrc[n])
  /\ UNCHANGED <<status, groups, enabled>>

Enable(n) ==
  /\ IsOpen(n) /\ ~enabled[n]
  /\ AddElements(Elements(mappingsBySrc[n]))
  /\ enabled' = [enabled EXCEPT ![n] = TRUE]
  /\ UNCHANGED <<status, groups, mappingsBySrc, mappingsByDst, flowInfoBySrc, ktimers>>

Disable(n) ==
  /\ IsOpen(n) /\ enabled[n]
  /\ DeleteElements(Elements(mappingsBySrc[n]))
  /\ enabled' = [enabled EXCEPT ![n] = FALSE]
  /\ UNCHANGED <<status, groups, mappingsBySrc, mappingsByDst, flowInfoBySrc, ktimers>>

\* One mapping of the group gets timeout t; if the kernel refuses, nothing does.
SetTimeout(n, m, t) ==
  LET new == [m EXCEPT !.ttl = t] IN
  /\ IsOpen(n) /\ m \in mappingsBySrc[n] /\ m.ttl # t
  /\ mappingsBySrc' = [mappingsBySrc EXCEPT ![n] = DropSrc(@, {new}) \cup {new}]
  /\ mappingsByDst' = [mappingsByDst EXCEPT ![n] = DropDst(@, {new}) \cup {new}]
  /\ IF t # 0
     THEN /\ flowInfoBySrc' = [flowInfoBySrc EXCEPT ![n] = @ \cup {SrcKey(m)}]
          /\ ktimers' = ktimers \cup {<<n, SrcKey(m)>>}
     ELSE /\ SrcKey(m) \in flowInfoBySrc[n] => SrcKey(m) \in Deletable(n, {SrcKey(m)})
          /\ flowInfoBySrc' = [flowInfoBySrc EXCEPT ![n] = @ \ {SrcKey(m)}]
          /\ ktimers' = ktimers \ {<<n, SrcKey(m)>>}
  /\ UNCHANGED <<status, groups, enabled, kernel, left>>

\* The mappings are cleared, and whether or not that succeeds the group is
\* closed and its name is free again.
CloseGroup(n) ==
  /\ IsOpen(n)
  /\ \/ /\ IF enabled[n] THEN DeleteElements(Elements(mappingsBySrc[n]))
                         ELSE UNCHANGED <<kernel, left>>
        /\ \E del \in SUBSET Deletable(n, flowInfoBySrc[n]) :
             ktimers' = Disowned(ktimers \ ({n} \X del), {n})
     \/ /\ enabled[n] /\ mappingsBySrc[n] # {}
        /\ left' = left \cup Elements(mappingsBySrc[n])
        /\ ktimers' = Disowned(ktimers, {n})
        /\ UNCHANGED kernel
  /\ groups' = groups \ {n}
  /\ mappingsBySrc' = [mappingsBySrc EXCEPT ![n] = {}]
  /\ mappingsByDst' = [mappingsByDst EXCEPT ![n] = {}]
  /\ enabled'       = [enabled EXCEPT ![n] = FALSE]
  /\ flowInfoBySrc' = [flowInfoBySrc EXCEPT ![n] = {}]
  /\ UNCHANGED status

Next ==
  \/ Open \/ Close \/ Die
  \/ \E n \in Names :
       \/ NewGroup(n) \/ CloseGroup(n) \/ ClearMappings(n)
       \/ Enable(n)   \/ Disable(n)
       \/ \E B \in Batches : AddMappings(n, B) \/ DelMappings(n, B)
       \/ \E m \in mappingsBySrc[n], t \in TTLs : SetTimeout(n, m, t)

Spec == Init /\ [][Next]_vars

-----------------------------------------------------------------------------
(* Invariants.                                                             *)

TypeOK ==
  /\ status \in {"up", "down", "closed"}
  /\ groups \subseteq Names
  /\ mappingsBySrc \in [Names -> SUBSET AnyMapping]
  /\ mappingsByDst \in [Names -> SUBSET AnyMapping]
  /\ enabled \in [Names -> BOOLEAN]
  /\ flowInfoBySrc \in [Names -> SUBSET (Address \X Protocols)]

\* What only a registered group of a running process can have.
Known ==
  /\ status # "up" => groups = {}
  /\ \A n \in Names \ groups : mappingsBySrc[n] = {} /\ ~enabled[n] /\ flowInfoBySrc[n] = {}

\* The mappings whose DNAT is meant to be live.
Live == UNION {mappingsBySrc[n] : n \in {g \in Names : enabled[g]}}

\* Whatever Flush refuses, the DNAT maps hold the mappings of the enabled
\* groups, all of them, and nothing else but what a group that was closed (or a
\* process that died) could not take with it.
KernelIsLive == kernel = Elements(Live) \cup left

\* The index that staleness is computed from and the one that DNAT is computed
\* from never drift apart.
IndexesAgree == \A n \in Names : mappingsByDst[n] = mappingsBySrc[n]

\* Over all groups there are only valid mappings and no two that overlap.
Recorded == UNION {mappingsBySrc[n] : n \in Names}

NoOverlap ==
  /\ \A n \in Names : \A m \in mappingsBySrc[n] : Validate(m)
  /\ \A n, g \in Names : \A m \in mappingsBySrc[n], x \in mappingsBySrc[g] :
       Overlaps(m, x) => n = g /\ m = x

\* No packet can go two ways, and each goes where the mapping that matches it
\* says, whatever else is installed and whichever map is consulted first.
OneTranslation ==
  left = {} => \A p \in Packet :
    /\ Translations(kernel, p) = {m.dst : m \in {x \in Live : Matches(x, p)}}
    /\ \A m, x \in Live : Matches(m, p) /\ Matches(x, p) => m = x

\* A group never believes in a timeout rule that the kernel does not have.
TimersBacked == \A n \in Names : {n} \X flowInfoBySrc[n] \subseteq ktimers

IInv == TypeOK /\ Known /\ KernelIsLive /\ IndexesAgree /\ NoOverlap /\ TimersBacked
=============================================================================
