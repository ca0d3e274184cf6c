---------------------------- MODULE ConnftProofs ----------------------------
(* Proofs about module Connft, for any names, addresses and mappings.        *)
EXTENDS Connft, MappingProofs

-----------------------------------------------------------------------------
(* Mappings, their keys and their elements.                                *)

\* An element's key says as much as the source and the protocol do.
LEMMA KeyIsSource ==
  ASSUME NEW m \in AnyMapping, NEW x \in AnyMapping
  PROVE  Key(m) = Key(x) <=> SrcKey(m) = SrcKey(x)
<1>1. /\ m.src \in Address /\ x.src \in Address
  BY DEF AnyMapping
<1>2. m.src = x.src <=> /\ m.src.family = x.src.family
                        /\ m.src.host = x.src.host
                        /\ m.src.port = x.src.port
  BY <1>1 DEF Address
<1>3. Key(m) = Key(x) <=> m.src = x.src /\ m.proto = x.proto
  BY <1>2 DEF Key, IsUnspecified
<1> QED
  BY <1>3 DEF SrcKey

\* Two valid mappings of one source, or of one destination, overlap.
LEMMA SameKeyOverlaps ==
  ASSUME NEW m, NEW x, Validate(m), Validate(x),
         SrcKey(m) = SrcKey(x) \/ DstKey(m) = DstKey(x)
  PROVE  Overlaps(m, x)
  BY DEF Validate, Overlaps, SrcKey, DstKey

\* Whether mappings overlap and what they compile to does not depend on their
\* timeouts.
LEMMA TimeoutIsApart ==
  ASSUME NEW m \in AnyMapping, NEW t \in TTLs
  PROVE  LET new == [m EXCEPT !.ttl = t] IN
           /\ new \in AnyMapping
           /\ SrcKey(new) = SrcKey(m) /\ DstKey(new) = DstKey(m) /\ Element(new) = Element(m)
           /\ Validate(m) => Validate(new)
           /\ \A x : Overlaps(new, x) <=> Overlaps(m, x)
<1> DEFINE new == [m EXCEPT !.ttl = t]
<1>1. /\ new \in AnyMapping
      /\ new.src = m.src /\ new.dst = m.dst /\ new.proto = m.proto
  BY DEF AnyMapping
<1> HIDE DEF new
<1>2. SrcKey(new) = SrcKey(m) /\ DstKey(new) = DstKey(m)
  BY <1>1 DEF SrcKey, DstKey
<1>3. Element(new) = Element(m)
  BY <1>1 DEF Element, Key
<1>4. Validate(m) => Validate(new)
  BY <1>1 DEF Validate
<1>5. \A x : Overlaps(new, x) <=> Overlaps(m, x)
  BY <1>1 DEF Overlaps
<1> QED
  BY <1>1, <1>2, <1>3, <1>4, <1>5 DEF new

\* What IInv says but for the timeout rules.
Agreement == TypeOK /\ Known /\ KernelIsLive /\ IndexesAgree /\ NoOverlap

\* The invariant in two halves.
LEMMA Halves == IInv <=> Agreement /\ TimersBacked
  BY DEF IInv, Agreement

\* What is recorded is typed and valid.
LEMMA RecordedIsValid ==
  ASSUME Agreement, NEW n \in Names, NEW m \in mappingsBySrc[n]
  PROVE  m \in AnyMapping /\ Validate(m)
  BY DEF Agreement, TypeOK, NoOverlap

-----------------------------------------------------------------------------
(* What the operations do to the indexes.                                  *)

\* Mappings that pass the check replace nothing.
LEMMA Adding ==
  ASSUME Agreement, NEW n \in Names, NEW B \in Batches, IsOpen(n), Compatible(n, B)
  PROVE  /\ B \subseteq AnyMapping
         /\ \A m \in B : Validate(m)
         /\ \A m, x \in B : Overlaps(m, x) => m = x
         /\ \A m \in B, g \in Names : \A x \in mappingsBySrc[g] : ~Overlaps(m, x)
         /\ DropSrc(mappingsBySrc[n], B) = mappingsBySrc[n]
         /\ DropDst(mappingsByDst[n], B) = mappingsByDst[n]
<1>1. B \subseteq AnyMapping
  BY CandidatesAssumption DEF Batches
<1>2. \A m \in B : Validate(m)
  BY DEF Compatible
<1>3. \A m, x \in B : Overlaps(m, x) => m = x
  BY DEF Compatible
<1>4. ASSUME NEW m \in B, NEW g \in Names, NEW x \in mappingsBySrc[g]
      PROVE  ~Overlaps(m, x)
  <2>1. g \in groups
    BY DEF Agreement, Known
  <2> QED
    BY <2>1 DEF Compatible
<1>5. mappingsByDst[n] = mappingsBySrc[n]
  BY DEF Agreement, IndexesAgree
<1>6. \A x \in mappingsBySrc[n], m \in B : SrcKey(x) # SrcKey(m) /\ DstKey(x) # DstKey(m)
  BY <1>2, <1>4, RecordedIsValid, SameKeyOverlaps
<1>7. DropSrc(mappingsBySrc[n], B) = mappingsBySrc[n]
  BY <1>6 DEF DropSrc
<1>8. DropDst(mappingsByDst[n], B) = mappingsByDst[n]
  BY <1>5, <1>6 DEF DropDst
<1> QED
  BY <1>1, <1>2, <1>3, <1>4, <1>7, <1>8

\* Mappings that the group holds are removed from both indexes alike, and what
\* is removed is what has one of their elements, in whichever group.
LEMMA Removing ==
  ASSUME Agreement, NEW n \in Names, NEW B, B \subseteq AnyMapping, Holds(n, B)
  PROVE  /\ DropDst(mappingsByDst[n], B) = DropSrc(mappingsBySrc[n], B)
         /\ \A g \in Names : \A m \in mappingsBySrc[g] :
              Element(m) \in Elements(B) <=> g = n /\ m \notin DropSrc(mappingsBySrc[n], B)
<1>1. ASSUME NEW g \in Names, NEW m \in mappingsBySrc[g], NEW b \in B,
             SrcKey(m) = SrcKey(b) \/ DstKey(m) = DstKey(b)
      PROVE  g = n /\ SrcKey(m) = SrcKey(b) /\ m.dst = b.dst /\ m.proto = b.proto
  <2>1. PICK x \in mappingsBySrc[n] : SrcKey(x) = SrcKey(b) /\ x.dst = b.dst
    BY DEF Holds
  <2>2. x.proto = b.proto /\ DstKey(x) = DstKey(b)
    BY <2>1 DEF SrcKey, DstKey
  <2>3. Validate(x) /\ Validate(m)
    BY RecordedIsValid
  <2>4. Overlaps(m, x)
    BY <1>1, <2>1, <2>2, <2>3, SameKeyOverlaps
  <2>5. g = n /\ m = x
    BY <2>4 DEF Agreement, NoOverlap
  <2> QED
    BY <2>1, <2>2, <2>5
<1>2. \A m \in mappingsBySrc[n], b \in B : SrcKey(m) = SrcKey(b) <=> DstKey(m) = DstKey(b)
  BY <1>1 DEF DstKey
<1>3. DropDst(mappingsByDst[n], B) = DropSrc(mappingsBySrc[n], B)
  <2>1. mappingsByDst[n] = mappingsBySrc[n]
    BY DEF Agreement, IndexesAgree
  <2> QED
    BY <1>2, <2>1 DEF DropDst, DropSrc
<1>4. ASSUME NEW g \in Names, NEW m \in mappingsBySrc[g]
      PROVE  Element(m) \in Elements(B) <=> g = n /\ m \notin DropSrc(mappingsBySrc[n], B)
  <2>1. ASSUME NEW b \in B
        PROVE  Element(m) = Element(b) <=> SrcKey(m) = SrcKey(b)
    <3>1. m \in AnyMapping /\ b \in AnyMapping
      BY RecordedIsValid
    <3>2. Key(m) = Key(b) <=> SrcKey(m) = SrcKey(b)
      BY <3>1, KeyIsSource
    <3>3. SrcKey(m) = SrcKey(b) => m.dst = b.dst
      BY <1>1
    <3> QED
      BY <3>2, <3>3 DEF Element
  <2>2. Element(m) \in Elements(B) <=> \E b \in B : SrcKey(m) = SrcKey(b)
    BY <2>1 DEF Elements
  <2>3. \A b \in B : SrcKey(m) = SrcKey(b) => g = n
    BY <1>1
  <2> QED
    BY <2>2, <2>3 DEF DropSrc
<1> QED
  BY <1>3, <1>4

\* A group holds the mappings it has recorded.
LEMMA HoldsItsOwn ==
  ASSUME Agreement, NEW n \in Names
  PROVE  mappingsBySrc[n] \subseteq AnyMapping /\ Holds(n, mappingsBySrc[n])
  BY RecordedIsValid DEF Holds

-----------------------------------------------------------------------------
(* The timeout rules.                                                      *)

\* Setting timeouts, in whatever part it takes effect, and leaving alone the
\* rules that are shared, keeps what the groups believe true.
LEMMA SetTimersKeeps ==
  ASSUME TypeOK, TimersBacked, NEW n \in Names, NEW B, B \subseteq AnyMapping,
         \A m \in B : Validate(m), SetTimers(n, B)
  PROVE  /\ flowInfoBySrc' \in [Names -> SUBSET (Address \X Protocols)]
         /\ \A g \in Names \ {n} : flowInfoBySrc'[g] = flowInfoBySrc[g]
         /\ TimersBacked'
<1>1. PICK done \in SUBSET B :
        LET set  == {SrcKey(m) : m \in {b \in done : b.ttl # 0}}
            zero == {SrcKey(m) : m \in {b \in done : b.ttl = 0}}
            del  == Deletable(n, zero \cap flowInfoBySrc[n])
        IN  /\ flowInfoBySrc' = [flowInfoBySrc EXCEPT ![n] = (@ \ del) \cup set]
            /\ ktimers' = (ktimers \ ({n} \X del)) \cup ({n} \X set)
  BY DEF SetTimers
<1> DEFINE set == {SrcKey(m) : m \in {b \in done : b.ttl # 0}}
           del == Deletable(n, {SrcKey(m) : m \in {b \in done : b.ttl = 0}} \cap flowInfoBySrc[n])
<1>2. \A m \in B : SrcKey(m) \in Address \X Protocols
  BY DEF SrcKey, AnyMapping, Validate
<1>3. set \subseteq Address \X Protocols
  BY <1>2
<1>4. /\ flowInfoBySrc' = [flowInfoBySrc EXCEPT ![n] = (@ \ del) \cup set]
      /\ ktimers' = (ktimers \ ({n} \X del)) \cup ({n} \X set)
  BY <1>1
<1> HIDE DEF set, del
<1>5. flowInfoBySrc \in [Names -> SUBSET (Address \X Protocols)]
  BY DEF TypeOK
<1>6. /\ flowInfoBySrc' \in [Names -> SUBSET (Address \X Protocols)]
      /\ \A g \in Names \ {n} : flowInfoBySrc'[g] = flowInfoBySrc[g]
      /\ flowInfoBySrc'[n] = (flowInfoBySrc[n] \ del) \cup set
  BY <1>3, <1>4, <1>5
<1>7. ASSUME NEW g \in Names, NEW k \in flowInfoBySrc'[g]
      PROVE  <<g, k>> \in ktimers'
  <2>1. k \in flowInfoBySrc[g] => <<g, k>> \in ktimers
    BY DEF TimersBacked
  <2> QED
    BY <1>4, <1>6, <1>7, <2>1
<1> QED
  BY <1>6, <1>7 DEF TimersBacked

\* So does deleting them.
LEMMA DeleteTimersKeeps ==
  ASSUME TypeOK, TimersBacked, NEW n \in Names, NEW B, DeleteTimers(n, B)
  PROVE  /\ flowInfoBySrc' \in [Names -> SUBSET (Address \X Protocols)]
         /\ \A g \in Names \ {n} : flowInfoBySrc'[g] = flowInfoBySrc[g]
         /\ TimersBacked'
<1>1. PICK del :
        /\ flowInfoBySrc' = [flowInfoBySrc EXCEPT ![n] = @ \ del]
        /\ ktimers' = ktimers \ ({n} \X del)
  BY DEF DeleteTimers
<1>2. /\ flowInfoBySrc' \in [Names -> SUBSET (Address \X Protocols)]
      /\ \A g \in Names \ {n} : flowInfoBySrc'[g] = flowInfoBySrc[g]
      /\ flowInfoBySrc'[n] = flowInfoBySrc[n] \ del
  BY <1>1 DEF TypeOK
<1>3. ASSUME NEW g \in Names, NEW k \in flowInfoBySrc'[g]
      PROVE  <<g, k>> \in ktimers'
  <2>1. k \in flowInfoBySrc[g] => <<g, k>> \in ktimers
    BY DEF TimersBacked
  <2> QED
    BY <1>1, <1>2, <1>3, <2>1
<1> QED
  BY <1>2, <1>3 DEF TimersBacked

-----------------------------------------------------------------------------
(* The inductive invariant, one lemma for each kind of step.               *)

\* The mappings of a group are live when it is enabled, and those only.
LEMMA LiveIs ==
  ASSUME NEW m
  PROVE  m \in Live <=> \E g \in Names : enabled[g] /\ m \in mappingsBySrc[g]
  BY DEF Live

\* A process that has just started knows nothing.
LEMMA InitIInv == Init => IInv
<1> SUFFICES ASSUME Init PROVE IInv
  OBVIOUS
<1>1. TypeOK /\ Known
  BY DEF Init, NoGroup, TypeOK, Known
<1>2. Live = {}
  BY LiveIs DEF Init, NoGroup
<1>3. KernelIsLive
  BY <1>2 DEF Init, KernelIsLive, Elements
<1>4. IndexesAgree /\ NoOverlap /\ TimersBacked
  BY DEF Init, NoGroup, IndexesAgree, NoOverlap, TimersBacked
<1> QED
  BY <1>1, <1>3, <1>4 DEF IInv, Agreement

\* When everything is forgotten, what the kernel still has is left behind.
LEMMA Forgotten ==
  ASSUME status' \in {"down", "closed"}, groups' = {},
         mappingsBySrc' = [n \in Names |-> {}], mappingsByDst' = [n \in Names |-> {}],
         enabled' = [n \in Names |-> FALSE], flowInfoBySrc' = [n \in Names |-> {}],
         kernel' = left'
  PROVE  IInv'
<1>1. TypeOK' /\ Known'
  BY DEF TypeOK, Known
<1>2. Live' = {}
  BY DEF Live
<1>3. KernelIsLive'
  BY <1>2 DEF KernelIsLive, Elements
<1>4. IndexesAgree' /\ NoOverlap' /\ TimersBacked'
  BY DEF IndexesAgree, NoOverlap, TimersBacked
<1> QED
  BY <1>1, <1>3, <1>4 DEF IInv, Agreement

\* Starting, closing the dataplane, and dying.
LEMMA ProcessKeeps ==
  ASSUME IInv, Open \/ Close \/ Die
  PROVE  IInv'
<1>1. CASE Open
  <2>1. groups = {}
    BY <1>1 DEF Open, IInv, Agreement, Known
  <2>2. TypeOK' /\ Known'
    BY <1>1, <2>1 DEF Open, memory, IInv, Agreement, TypeOK, Known
  <2>3. Live' = {}
    BY <1>1, <2>1 DEF Open, memory, IInv, Agreement, Known, Live
  <2>4. KernelIsLive'
    BY <1>1, <2>3 DEF Open, KernelIsLive, Elements
  <2>5. IndexesAgree' /\ NoOverlap'
    BY <1>1 DEF Open, memory, IInv, Agreement, IndexesAgree, NoOverlap
  <2>6. TimersBacked'
    BY <1>1, <2>1 DEF Open, memory, IInv, Agreement, Known, TimersBacked
  <2> QED
    BY <2>2, <2>4, <2>5, <2>6 DEF IInv, Agreement
<1>2. CASE Close
  <2>1. kernel' = left'
    BY <1>2 DEF Close
  <2> QED
    BY <1>2, <2>1, Forgotten DEF Close
<1>3. CASE Die
  BY <1>3, Forgotten DEF Die
<1> QED
  BY <1>1, <1>2, <1>3

\* The mappings of one group are replaced by others that overlap nothing, and
\* the kernel follows.
LEMMA Rewritten ==
  ASSUME IInv, NEW n \in Names, IsOpen(n), NEW S, S \subseteq AnyMapping,
         mappingsBySrc' = [mappingsBySrc EXCEPT ![n] = S],
         mappingsByDst' = [mappingsByDst EXCEPT ![n] = S],
         UNCHANGED <<status, groups, enabled>>,
         \A m \in S : Validate(m),
         \A m, x \in S : Overlaps(m, x) => m = x,
         \A m \in S, g \in Names \ {n} : \A x \in mappingsBySrc[g] : ~Overlaps(m, x),
         flowInfoBySrc' \in [Names -> SUBSET (Address \X Protocols)],
         \A g \in Names \ {n} : flowInfoBySrc'[g] = flowInfoBySrc[g],
         KernelIsLive', TimersBacked'
  PROVE  IInv'
<1>1. /\ n \in groups /\ status = "up"
      /\ TypeOK /\ Known /\ IndexesAgree /\ NoOverlap
  BY DEF IsOpen, IInv, Agreement
<1>2. /\ mappingsBySrc'[n] = S /\ mappingsByDst'[n] = S
      /\ \A g \in Names \ {n} : /\ mappingsBySrc'[g] = mappingsBySrc[g]
                                /\ mappingsByDst'[g] = mappingsByDst[g]
  BY <1>1 DEF TypeOK
<1>3. TypeOK'
  BY <1>1 DEF TypeOK
<1>4. Known'
  BY <1>1, <1>2 DEF Known
<1>5. IndexesAgree'
  BY <1>1, <1>2 DEF IndexesAgree
<1>6. NoOverlap'
  <2>1. ASSUME NEW h \in Names, NEW m \in mappingsBySrc'[h]
        PROVE  Validate(m)
    BY <1>1, <1>2 DEF NoOverlap
  <2>2. ASSUME NEW h \in Names, NEW g \in Names,
               NEW m \in mappingsBySrc'[h], NEW x \in mappingsBySrc'[g], Overlaps(m, x)
        PROVE  h = g /\ m = x
    <3>1. CASE h = n /\ g = n
      BY <1>2, <2>2, <3>1
    <3>2. CASE h = n /\ g # n
      BY <1>2, <2>2, <3>2
    <3>3. CASE h # n /\ g = n
      BY <1>2, <2>2, <3>3, OverlapsBothWays
    <3>4. CASE h # n /\ g # n
      BY <1>1, <1>2, <2>2, <3>4 DEF NoOverlap
    <3> QED
      BY <3>1, <3>2, <3>3, <3>4
  <2> QED
    BY <2>1, <2>2 DEF NoOverlap
<1> QED
  BY <1>3, <1>4, <1>5, <1>6 DEF IInv, Agreement

\* What is live after that.
LEMMA LiveAfter ==
  ASSUME TypeOK, NEW n \in Names, NEW S,
         mappingsBySrc' = [mappingsBySrc EXCEPT ![n] = S], enabled' = enabled
  PROVE  \A m : m \in Live' <=> \/ enabled[n] /\ m \in S
                                \/ \E g \in Names \ {n} : enabled[g] /\ m \in mappingsBySrc[g]
<1>1. /\ mappingsBySrc'[n] = S
      /\ \A g \in Names \ {n} : mappingsBySrc'[g] = mappingsBySrc[g]
  BY DEF TypeOK
<1> QED
  BY <1>1 DEF Live

\* New mappings.
LEMMA AddMappingsKeeps ==
  ASSUME IInv, NEW n \in Names, NEW B \in Batches, AddMappings(n, B)
  PROVE  IInv'
<1> DEFINE S == mappingsBySrc[n] \cup B
<1>1. Agreement /\ TimersBacked /\ TypeOK /\ KernelIsLive /\ IsOpen(n) /\ Compatible(n, B)
  BY DEF IInv, Agreement, AddMappings
<1>2. /\ B \subseteq AnyMapping
      /\ \A m \in B : Validate(m)
      /\ \A m, x \in B : Overlaps(m, x) => m = x
      /\ \A m \in B, g \in Names : \A x \in mappingsBySrc[g] : ~Overlaps(m, x)
      /\ DropSrc(mappingsBySrc[n], B) = mappingsBySrc[n]
      /\ DropDst(mappingsByDst[n], B) = mappingsBySrc[n]
  BY <1>1, Adding DEF Agreement, IndexesAgree
<1>3. /\ mappingsBySrc' = [mappingsBySrc EXCEPT ![n] = S]
      /\ mappingsByDst' = [mappingsByDst EXCEPT ![n] = S]
      /\ UNCHANGED <<status, groups, enabled>>
  BY <1>1, <1>2 DEF AddMappings, TypeOK
<1>4. KernelIsLive'
  <2>1. \A m : m \in Live' <=> m \in Live \/ (enabled[n] /\ m \in B)
    <3>1. \A m : m \in Live' <=> \/ enabled[n] /\ m \in S
                                \/ \E g \in Names \ {n} : enabled[g] /\ m \in mappingsBySrc[g]
      <4> HIDE DEF S
      <4> QED
        BY <1>1, <1>3, LiveAfter
    <3> QED
      BY <3>1, LiveIs
  <2>2. CASE enabled[n]
    <3>1. kernel' = kernel \cup Elements(B) /\ left' = left
      BY <2>2 DEF AddMappings, AddElements
    <3>2. Live' = Live \cup B
      BY <2>1, <2>2
    <3> QED
      BY <1>1, <3>1, <3>2 DEF KernelIsLive, Elements
  <2>3. CASE ~enabled[n]
    <3>1. kernel' = kernel /\ left' = left
      BY <2>3 DEF AddMappings
    <3>2. Live' = Live
      BY <2>1, <2>3
    <3> QED
      BY <1>1, <3>1, <3>2 DEF KernelIsLive
  <2> QED
    BY <2>2, <2>3
<1>5. /\ flowInfoBySrc' \in [Names -> SUBSET (Address \X Protocols)]
      /\ \A g \in Names \ {n} : flowInfoBySrc'[g] = flowInfoBySrc[g]
      /\ TimersBacked'
  BY <1>1, <1>2, SetTimersKeeps DEF AddMappings
<1>6. /\ S \subseteq AnyMapping
      /\ \A m \in S : Validate(m)
  BY <1>1, <1>2, RecordedIsValid
<1>7. \A m, x \in S : Overlaps(m, x) => m = x
  <2>1. \A m, x \in mappingsBySrc[n] : Overlaps(m, x) => m = x
    BY <1>1 DEF Agreement, NoOverlap
  <2> QED
    BY <1>2, <2>1, OverlapsBothWays
<1>8. \A m \in S, g \in Names \ {n} : \A x \in mappingsBySrc[g] : ~Overlaps(m, x)
  <2>1. \A m \in mappingsBySrc[n], g \in Names \ {n} : \A x \in mappingsBySrc[g] : ~Overlaps(m, x)
    BY <1>1 DEF Agreement, NoOverlap
  <2> QED
    BY <1>2, <2>1
<1> HIDE DEF S
<1> QED
  BY <1>1, <1>3, <1>4, <1>5, <1>6, <1>7, <1>8, Rewritten

\* Mappings that the group holds are forgotten.
LEMMA ForgetKeeps ==
  ASSUME IInv, NEW n \in Names, NEW B, B \subseteq AnyMapping, IsOpen(n), Holds(n, B),
         Forget(n, B), UNCHANGED <<status, groups, enabled>>
  PROVE  IInv'
<1> DEFINE S == DropSrc(mappingsBySrc[n], B)
<1>1. Agreement /\ TimersBacked /\ TypeOK /\ KernelIsLive
  BY DEF IInv, Agreement
<1>2. S \subseteq mappingsBySrc[n]
  BY DEF DropSrc
<1>3. /\ DropDst(mappingsByDst[n], B) = S
      /\ \A g \in Names : \A m \in mappingsBySrc[g] :
           Element(m) \in Elements(B) <=> g = n /\ m \notin S
  BY <1>1, Removing
<1>4. /\ mappingsBySrc' = [mappingsBySrc EXCEPT ![n] = S]
      /\ mappingsByDst' = [mappingsByDst EXCEPT ![n] = S]
  BY <1>1, <1>3 DEF Forget, TypeOK
<1> HIDE DEF S
<1>5. \A m : m \in Live' <=> \/ enabled[n] /\ m \in S
                             \/ \E g \in Names \ {n} : enabled[g] /\ m \in mappingsBySrc[g]
  BY <1>1, <1>4, LiveAfter
<1>6. KernelIsLive'
  <2>1. CASE enabled[n] /\ B # {}
    <3>1. kernel' = kernel \ Elements(B) /\ left' = left \ Elements(B)
      BY <2>1 DEF Forget, DeleteElements
    <3>2. \A m : m \in Live' <=> m \in Live /\ Element(m) \notin Elements(B)
      BY <1>2, <1>3, <1>5, <2>1, LiveIs
    <3>3. Elements(Live') = Elements(Live) \ Elements(B)
      <4> HIDE DEF Live
      <4>1. \A e : e \in Elements(Live') <=> \E m : m \in Live' /\ e = Element(m)
        BY DEF Elements
      <4>2. \A e : e \in Elements(Live) <=> \E m : m \in Live /\ e = Element(m)
        BY DEF Elements
      <4> QED
        BY <3>2, <4>1, <4>2
    <3> QED
      BY <1>1, <3>1, <3>3 DEF KernelIsLive
  <2>2. CASE ~(enabled[n] /\ B # {})
    <3>1. kernel' = kernel /\ left' = left
      BY <2>2 DEF Forget
    <3>2. enabled[n] => S = mappingsBySrc[n]
      BY <1>3, <2>2, <1>2 DEF Elements
    <3>3. \A m : m \in Live' <=> m \in Live
      BY <1>5, <3>2, LiveIs
    <3>4. Live' = Live
      BY <3>3
    <3> QED
      BY <1>1, <3>1, <3>4 DEF KernelIsLive
  <2> QED
    BY <2>1, <2>2
<1>7. /\ flowInfoBySrc' \in [Names -> SUBSET (Address \X Protocols)]
      /\ \A g \in Names \ {n} : flowInfoBySrc'[g] = flowInfoBySrc[g]
      /\ TimersBacked'
  BY <1>1, DeleteTimersKeeps DEF Forget
<1>8. /\ S \subseteq AnyMapping
      /\ \A m \in S : Validate(m)
  BY <1>1, <1>2, RecordedIsValid
<1>9. /\ \A m, x \in S : Overlaps(m, x) => m = x
      /\ \A m \in S, g \in Names \ {n} : \A x \in mappingsBySrc[g] : ~Overlaps(m, x)
  BY <1>1, <1>2 DEF Agreement, NoOverlap
<1> QED
  BY <1>1, <1>4, <1>6, <1>7, <1>8, <1>9, Rewritten

\* One mapping gets another timeout.
LEMMA SetTimeoutKeeps ==
  ASSUME IInv, NEW n \in Names, NEW m \in mappingsBySrc[n], NEW t \in TTLs, SetTimeout(n, m, t)
  PROVE  IInv'
<1> DEFINE new == [m EXCEPT !.ttl = t]
           S == (mappingsBySrc[n] \ {m}) \cup {new}
<1>1. /\ Agreement /\ TimersBacked /\ TypeOK /\ KernelIsLive /\ IndexesAgree /\ NoOverlap
      /\ IsOpen(n)
  BY DEF IInv, Agreement, SetTimeout
<1>2. m \in AnyMapping /\ Validate(m)
  BY <1>1, RecordedIsValid
<1>3. /\ new \in AnyMapping /\ Validate(new)
      /\ SrcKey(new) = SrcKey(m) /\ DstKey(new) = DstKey(m) /\ Element(new) = Element(m)
      /\ \A x : Overlaps(new, x) <=> Overlaps(m, x)
  BY <1>2, TimeoutIsApart
<1>4. /\ mappingsBySrc' = [mappingsBySrc EXCEPT ![n] = DropSrc(@, {new}) \cup {new}]
      /\ mappingsByDst' = [mappingsByDst EXCEPT ![n] = DropDst(@, {new}) \cup {new}]
      /\ UNCHANGED <<status, groups, enabled, kernel, left>>
  BY DEF SetTimeout
<1>5. /\ \/ /\ flowInfoBySrc' = [flowInfoBySrc EXCEPT ![n] = @ \cup {SrcKey(m)}]
            /\ ktimers' = ktimers \cup {<<n, SrcKey(m)>>}
         \/ /\ flowInfoBySrc' = [flowInfoBySrc EXCEPT ![n] = @ \ {SrcKey(m)}]
            /\ ktimers' = ktimers \ {<<n, SrcKey(m)>>}
  BY DEF SetTimeout
<1> HIDE DEF new
<1>6. \A x \in mappingsBySrc[n] :
        /\ SrcKey(x) = SrcKey(m) <=> x = m
        /\ DstKey(x) = DstKey(m) <=> x = m
  BY <1>1, <1>2, RecordedIsValid, SameKeyOverlaps DEF NoOverlap
<1>7. /\ DropSrc(mappingsBySrc[n], {new}) = mappingsBySrc[n] \ {m}
      /\ DropDst(mappingsByDst[n], {new}) = mappingsBySrc[n] \ {m}
  BY <1>1, <1>3, <1>6 DEF DropSrc, DropDst, IndexesAgree
<1>8. /\ mappingsBySrc' = [mappingsBySrc EXCEPT ![n] = S]
      /\ mappingsByDst' = [mappingsByDst EXCEPT ![n] = S]
  BY <1>1, <1>4, <1>7 DEF TypeOK
<1>9. KernelIsLive'
  <2>1. \A y : y \in Live' <=> \/ enabled[n] /\ y \in S
                               \/ \E g \in Names \ {n} : enabled[g] /\ y \in mappingsBySrc[g]
    <3> HIDE DEF S
    <3> QED
      BY <1>1, <1>4, <1>8, LiveAfter
  <2>2. /\ \A y \in Live : y \in Live' \/ (y = m /\ new \in Live')
        /\ \A y \in Live' : y \in Live \/ (y = new /\ m \in Live)
    BY <2>1, LiveIs
  <2>3. Elements(Live') = Elements(Live)
    <3>1. \A e : e \in Elements(Live') <=> \E y : y \in Live' /\ e = Element(y)
      BY DEF Elements
    <3>2. \A e : e \in Elements(Live) <=> \E y : y \in Live /\ e = Element(y)
      BY DEF Elements
    <3> QED
      BY <1>3, <2>2, <3>1, <3>2
  <2> QED
    BY <1>1, <1>4, <2>3 DEF KernelIsLive
<1>10. TimersBacked'
  <2>1. \A g \in Names : \A k \in flowInfoBySrc[g] : <<g, k>> \in ktimers
    BY <1>1 DEF TimersBacked
  <2>2. flowInfoBySrc \in [Names -> SUBSET (Address \X Protocols)]
    BY <1>1 DEF TypeOK
  <2>3. ASSUME NEW g \in Names, NEW k \in flowInfoBySrc'[g]
        PROVE  <<g, k>> \in ktimers'
    BY <1>5, <2>1, <2>2, <2>3
  <2> QED
    BY <2>3 DEF TimersBacked
<1>11. /\ flowInfoBySrc' \in [Names -> SUBSET (Address \X Protocols)]
       /\ \A g \in Names \ {n} : flowInfoBySrc'[g] = flowInfoBySrc[g]
  <2>1. SrcKey(m) \in Address \X Protocols
    BY <1>2 DEF SrcKey, AnyMapping, Validate
  <2> QED
    BY <1>1, <1>5, <2>1 DEF TypeOK
<1>12. /\ S \subseteq AnyMapping
       /\ \A x \in S : Validate(x)
  BY <1>1, <1>3, RecordedIsValid
<1>13. \A x, y \in S : Overlaps(x, y) => x = y
  <2>1. \A x, y \in mappingsBySrc[n] : Overlaps(x, y) => x = y
    BY <1>1 DEF NoOverlap
  <2>2. \A x \in mappingsBySrc[n] \ {m} : ~Overlaps(new, x) /\ ~Overlaps(x, new)
    BY <1>3, <2>1, OverlapsBothWays
  <2> QED
    BY <2>1, <2>2
<1>14. \A x \in S, g \in Names \ {n} : \A y \in mappingsBySrc[g] : ~Overlaps(x, y)
  BY <1>1, <1>3 DEF NoOverlap
<1> HIDE DEF S
<1> QED
  BY <1>1, <1>4, <1>8, <1>9, <1>10, <1>11, <1>12, <1>13, <1>14, Rewritten

\* A group is switched in or out.
LEMMA SwitchKeeps ==
  ASSUME IInv, NEW n \in Names, Enable(n) \/ Disable(n)
  PROVE  IInv'
<1>1. /\ Agreement /\ TypeOK /\ Known /\ KernelIsLive /\ IndexesAgree /\ NoOverlap /\ TimersBacked
      /\ IsOpen(n) /\ n \in groups
  BY DEF IInv, Agreement, Enable, Disable, IsOpen
<1>2. UNCHANGED <<status, groups, mappingsBySrc, mappingsByDst, flowInfoBySrc, ktimers>>
  BY DEF Enable, Disable
<1>3. TypeOK' /\ Known'
  BY <1>1, <1>2 DEF Enable, Disable, TypeOK, Known
<1>4. IndexesAgree' /\ NoOverlap' /\ TimersBacked'
  BY <1>1, <1>2 DEF IndexesAgree, NoOverlap, TimersBacked
<1>5. \A m : m \in Live' <=> \E g \in Names : enabled'[g] /\ m \in mappingsBySrc[g]
  BY <1>2 DEF Live
<1>6. CASE Enable(n)
  <2>1. /\ enabled'[n] /\ ~enabled[n]
        /\ \A g \in Names \ {n} : enabled'[g] = enabled[g]
        /\ kernel' = kernel \cup Elements(mappingsBySrc[n]) /\ left' = left
    BY <1>1, <1>6 DEF Enable, AddElements, TypeOK
  <2>2. Live' = Live \cup mappingsBySrc[n]
    BY <1>5, <2>1, LiveIs
  <2>3. KernelIsLive'
    BY <1>1, <2>1, <2>2 DEF KernelIsLive, Elements
  <2> QED
    BY <1>3, <1>4, <2>3 DEF IInv, Agreement
<1>7. CASE Disable(n)
  <2> DEFINE E == Elements(mappingsBySrc[n])
  <2>1. /\ ~enabled'[n] /\ enabled[n]
        /\ \A g \in Names \ {n} : enabled'[g] = enabled[g]
        /\ kernel' = kernel \ E /\ left' = left \ E
    BY <1>1, <1>7 DEF Disable, DeleteElements, TypeOK
  <2>2. \A g \in Names : \A m \in mappingsBySrc[g] : Element(m) \in E <=> g = n
    <3>1. \A g \in Names : \A m \in mappingsBySrc[g] :
            Element(m) \in E <=> g = n /\ m \notin DropSrc(mappingsBySrc[n], mappingsBySrc[n])
      BY <1>1, HoldsItsOwn, Removing
    <3> QED
      BY <3>1 DEF DropSrc
  <2>3. \A m : m \in Live' <=> m \in Live /\ Element(m) \notin E
    BY <1>5, <2>1, <2>2, LiveIs
  <2>4. Elements(Live') = Elements(Live) \ E
    <3> HIDE DEF E
    <3>1. \A e : e \in Elements(Live') <=> \E m : m \in Live' /\ e = Element(m)
      BY DEF Elements
    <3>2. \A e : e \in Elements(Live) <=> \E m : m \in Live /\ e = Element(m)
      BY DEF Elements
    <3> QED
      BY <2>3, <3>1, <3>2
  <2>5. KernelIsLive'
    BY <1>1, <2>1, <2>4 DEF KernelIsLive
  <2> QED
    BY <1>3, <1>4, <2>5 DEF IInv, Agreement
<1> QED
  BY <1>6, <1>7

\* A new group starts empty, which is what an unknown name stands for.
LEMMA NewGroupKeeps ==
  ASSUME IInv, NEW n \in Names, NewGroup(n)
  PROVE  IInv'
<1>1. /\ TypeOK /\ Known /\ KernelIsLive /\ IndexesAgree /\ NoOverlap /\ TimersBacked
      /\ n \notin groups
  BY DEF IInv, Agreement, NewGroup
<1>2. mappingsBySrc[n] = {} /\ mappingsByDst[n] = {} /\ ~enabled[n] /\ flowInfoBySrc[n] = {}
  BY <1>1 DEF Known, IndexesAgree
<1>3. UNCHANGED <<mappingsBySrc, mappingsByDst, enabled, flowInfoBySrc, status, kernel, ktimers, left>>
  BY <1>1, <1>2 DEF NewGroup, TypeOK, tables
<1>4. groups' = groups \cup {n} /\ status = "up"
  BY DEF NewGroup
<1>5. TypeOK' /\ Known'
  BY <1>1, <1>3, <1>4 DEF TypeOK, Known
<1>6. KernelIsLive'
  BY <1>1, <1>3 DEF KernelIsLive, Live
<1>7. IndexesAgree' /\ NoOverlap' /\ TimersBacked'
  BY <1>1, <1>3 DEF IndexesAgree, NoOverlap, TimersBacked
<1> QED
  BY <1>5, <1>6, <1>7 DEF IInv, Agreement

\* A closed group takes its mappings with it or leaves them behind.
LEMMA CloseGroupKeeps ==
  ASSUME IInv, NEW n \in Names, CloseGroup(n)
  PROVE  IInv'
<1> DEFINE E == Elements(mappingsBySrc[n])
<1>1. /\ Agreement /\ TypeOK /\ Known /\ KernelIsLive /\ IndexesAgree /\ NoOverlap /\ TimersBacked
      /\ status = "up"
  BY DEF IInv, Agreement, CloseGroup, IsOpen
<1>2. /\ groups' = groups \ {n} /\ status' = status
      /\ mappingsBySrc' = [mappingsBySrc EXCEPT ![n] = {}]
      /\ mappingsByDst' = [mappingsByDst EXCEPT ![n] = {}]
      /\ enabled'       = [enabled EXCEPT ![n] = FALSE]
      /\ flowInfoBySrc' = [flowInfoBySrc EXCEPT ![n] = {}]
  BY DEF CloseGroup
<1>3. /\ mappingsBySrc'[n] = {} /\ mappingsByDst'[n] = {} /\ ~enabled'[n] /\ flowInfoBySrc'[n] = {}
      /\ \A g \in Names \ {n} : /\ mappingsBySrc'[g] = mappingsBySrc[g]
                                /\ mappingsByDst'[g] = mappingsByDst[g]
                                /\ enabled'[g] = enabled[g]
                                /\ flowInfoBySrc'[g] = flowInfoBySrc[g]
  BY <1>1, <1>2 DEF TypeOK
<1>4. TypeOK'
  BY <1>1, <1>2 DEF TypeOK
<1>5. Known'
  BY <1>1, <1>2, <1>3 DEF Known
<1>6. IndexesAgree'
  BY <1>1, <1>3 DEF IndexesAgree
<1>7. NoOverlap'
  BY <1>1, <1>3 DEF NoOverlap
<1>8. TimersBacked'
  <2>1. \A r \in ktimers : r[1] \notin {n} => r \in ktimers'
    BY DEF CloseGroup, Disowned
  <2>2. \A g \in Names \ {n} : \A k \in flowInfoBySrc[g] : <<g, k>> \in ktimers'
    BY <1>1, <2>1 DEF TimersBacked
  <2> QED
    BY <1>3, <2>2 DEF TimersBacked
<1>9. KernelIsLive'
  <2>1. \A m : m \in Live' <=> \E g \in Names \ {n} : enabled[g] /\ m \in mappingsBySrc[g]
    BY <1>3 DEF Live
  <2>2. /\ \A e : e \in Elements(Live') <=> \E m : m \in Live' /\ e = Element(m)
        /\ \A e : e \in Elements(Live) <=> \E m : m \in Live /\ e = Element(m)
        /\ \A e : e \in E <=> \E m \in mappingsBySrc[n] : e = Element(m)
    BY DEF Elements
  <2>3. \A g \in Names : \A m \in mappingsBySrc[g] : Element(m) \in E <=> g = n
    <3>1. \A g \in Names : \A m \in mappingsBySrc[g] :
            Element(m) \in E <=> g = n /\ m \notin DropSrc(mappingsBySrc[n], mappingsBySrc[n])
      BY <1>1, HoldsItsOwn, Removing
    <3> QED
      BY <3>1 DEF DropSrc
  <2> HIDE DEF E
  <2>4. enabled[n] => Elements(Live) = Elements(Live') \cup E
    BY <2>1, <2>2, LiveIs
  <2>5. Elements(Live') \cap E = {}
    BY <2>1, <2>2, <2>3
  <2>6. CASE enabled[n] /\ kernel' = kernel \ E /\ left' = left \ E
    BY <1>1, <2>4, <2>5, <2>6 DEF KernelIsLive
  <2>7. CASE ~enabled[n] /\ kernel' = kernel /\ left' = left
    <3>1. Live' = Live
      BY <2>1, <2>7, LiveIs
    <3> QED
      BY <1>1, <2>7, <3>1 DEF KernelIsLive
  <2>8. CASE enabled[n] /\ kernel' = kernel /\ left' = left \cup E
    BY <1>1, <2>4, <2>8 DEF KernelIsLive
  <2> QED
    BY <2>6, <2>7, <2>8 DEF CloseGroup, DeleteElements, E
<1> QED
  BY <1>4, <1>5, <1>6, <1>7, <1>8, <1>9 DEF IInv, Agreement

\* Every step keeps the invariant.
LEMMA NextIInv == IInv /\ [Next]_vars => IInv'
<1> SUFFICES ASSUME IInv, [Next]_vars PROVE IInv'
  OBVIOUS
<1>1. CASE Open \/ Close \/ Die
  BY <1>1, ProcessKeeps
<1>2. ASSUME NEW n \in Names, NewGroup(n) \/ CloseGroup(n)
      PROVE  IInv'
  BY <1>2, NewGroupKeeps, CloseGroupKeeps
<1>3. ASSUME NEW n \in Names, ClearMappings(n)
      PROVE  IInv'
  BY <1>3, Halves, HoldsItsOwn, ForgetKeeps DEF ClearMappings
<1>4. ASSUME NEW n \in Names, Enable(n) \/ Disable(n)
      PROVE  IInv'
  BY <1>4, SwitchKeeps
<1>5. ASSUME NEW n \in Names, NEW B \in Batches, AddMappings(n, B)
      PROVE  IInv'
  BY <1>5, AddMappingsKeeps
<1>6. ASSUME NEW n \in Names, NEW B \in Batches, DelMappings(n, B)
      PROVE  IInv'
  <2>1. B \subseteq AnyMapping
    BY CandidatesAssumption DEF Batches
  <2> QED
    BY <1>6, <2>1, ForgetKeeps DEF DelMappings
<1>7. ASSUME NEW n \in Names, NEW m \in mappingsBySrc[n], NEW t \in TTLs, SetTimeout(n, m, t)
      PROVE  IInv'
  BY <1>7, SetTimeoutKeeps
<1>8. CASE UNCHANGED vars
  <2>1. TypeOK' /\ Known'
    BY <1>8 DEF vars, memory, tables, IInv, Agreement, TypeOK, Known
  <2>2. KernelIsLive'
    BY <1>8 DEF vars, memory, tables, IInv, Agreement, KernelIsLive, Live
  <2>3. IndexesAgree' /\ NoOverlap' /\ TimersBacked'
    BY <1>8 DEF vars, memory, tables, IInv, Agreement, IndexesAgree, NoOverlap, TimersBacked
  <2> QED
    BY <2>1, <2>2, <2>3 DEF IInv, Agreement
<1> QED
  BY <1>1, <1>2, <1>3, <1>4, <1>5, <1>6, <1>7, <1>8 DEF Next

\* Whatever batches the kernel refuses and whenever the process dies, the DNAT
\* maps hold the mappings of the enabled groups and what closed groups left, the
\* two indexes of a group agree, no two mappings overlap, and a group that
\* believes in a timeout rule is right.
THEOREM Invariance == Spec => []IInv
  BY InitIInv, NextIInv, PTL DEF Spec

-----------------------------------------------------------------------------
(* What becomes of a packet.                                               *)

\* While nothing has been left behind, a packet is translated as the one live
\* mapping that matches it says, and not at all when none does.
THEOREM OneWay == Spec => []OneTranslation
<1>1. ASSUME Agreement PROVE OneTranslation
  <2>1. Live \subseteq AnyMapping
    BY <1>1, RecordedIsValid, LiveIs
  <2>2. \A m, x \in Live : Overlaps(m, x) => m = x
    BY <1>1, LiveIs DEF Agreement, NoOverlap
  <2>3. left = {} => kernel = Elements(Live)
    BY <1>1 DEF Agreement, KernelIsLive
  <2> HIDE DEF Live
  <2> QED
    BY <2>1, <2>2, <2>3, TranslatesOnce DEF OneTranslation
<1>2. IInv => OneTranslation
  BY <1>1, Halves
<1> QED
  BY Invariance, <1>2, PTL
=============================================================================
