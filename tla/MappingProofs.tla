--------------------------- MODULE MappingProofs ----------------------------
(* Proofs about module Mapping, for any addresses, protocols and timeouts:   *)
(* what overlapping is for.                                                  *)
EXTENDS Mapping, TLAPS

\* Overlapping does not depend on the order, and every mapping overlaps itself.
LEMMA OverlapsBothWays ==
  \A m, x : Overlaps(m, x) <=> Overlaps(x, m)
  BY DEF Overlaps

\* A mapping matches a packet when its element has one of the keys that the
\* rules look up.
LEMMA MatchesByKey ==
  ASSUME NEW m \in AnyMapping, NEW p \in Packet
  PROVE  Matches(m, p) <=> Key(m) = WildcardKey(p) \/ Key(m) = SpecificKey(p)
<1>1. p.dst.host # Unspecified
  BY HostsAssumption DEF Packet
<1>2. Key(m) = WildcardKey(p) <=> /\ IsUnspecified(m.src)
                                  /\ m.proto = p.proto
                                  /\ m.src.family = p.dst.family /\ m.src.port = p.dst.port
  BY DEF Key, WildcardKey
<1>3. Key(m) = SpecificKey(p) <=> /\ ~IsUnspecified(m.src)
                                  /\ m.proto = p.proto
                                  /\ m.src.family = p.dst.family /\ m.src.port = p.dst.port
                                  /\ m.src.host = p.dst.host
  BY DEF Key, SpecificKey
<1> QED
  BY <1>1, <1>2, <1>3 DEF Matches, IsUnspecified

\* Two mappings that match one packet overlap.
LEMMA BothMatchOverlap ==
  ASSUME NEW m \in AnyMapping, NEW x \in AnyMapping, NEW p \in Packet,
         Matches(m, p), Matches(x, p)
  PROVE  Overlaps(m, x)
<1>1. /\ m.proto = x.proto /\ m.src.family = x.src.family /\ m.src.port = x.src.port
      /\ IsUnspecified(m.src) \/ IsUnspecified(x.src) \/ m.src.host = x.src.host
  BY DEF Matches
<1>2. m.src \in Address /\ x.src \in Address
  BY DEF AnyMapping
<1>3. m.src.host = x.src.host => m.src = x.src
  BY <1>1, <1>2 DEF Address
<1> QED
  BY <1>1, <1>3 DEF Overlaps

\* A set of mappings of which no two overlap (mapping.go: Overlaps) is compiled to
\* elements (connft_nft_rules.go: compileSetElement) that give each packet the
\* translation of the one mapping that matches it, whichever map the rules look
\* into first, and none to a packet that no mapping matches.
THEOREM TranslatesOnce ==
  ASSUME NEW S, S \subseteq AnyMapping, \A m, x \in S : Overlaps(m, x) => m = x, NEW p \in Packet
  PROVE  /\ Translations(Elements(S), p) = {m.dst : m \in {x \in S : Matches(x, p)}}
         /\ \A m, x \in S : Matches(m, p) /\ Matches(x, p) => m = x
<1> DEFINE wild == {e \in Elements(S) : e.key = WildcardKey(p)}
           spec == {e \in Elements(S) : e.key = SpecificKey(p)}
<1>1. \A m, x \in S : Matches(m, p) /\ Matches(x, p) => m = x
  BY BothMatchOverlap
<1>2. \A m \in S : Matches(m, p) <=> Key(m) = WildcardKey(p) \/ Key(m) = SpecificKey(p)
  BY MatchesByKey
<1>3. /\ \A e : e \in wild <=> \E m \in S : e = Element(m) /\ Key(m) = WildcardKey(p)
      /\ \A e : e \in spec <=> \E m \in S : e = Element(m) /\ Key(m) = SpecificKey(p)
  BY DEF Elements, Element
<1>4. \A m : Element(m).val = m.dst
  BY DEF Element
<1>5. WildcardKey(p) # SpecificKey(p)
  BY DEF WildcardKey, SpecificKey
<1>6. Translations(Elements(S), p) = {e.val : e \in IF wild # {} THEN wild ELSE spec}
  BY DEF Translations
<1> HIDE DEF wild, spec
<1>7. CASE wild # {}
  <2>1. \A m \in S : Matches(m, p) <=> Key(m) = WildcardKey(p)
    BY <1>1, <1>2, <1>3, <1>5, <1>7
  <2>2. {e.val : e \in wild} = {m.dst : m \in {x \in S : Matches(x, p)}}
    BY <1>3, <1>4, <2>1
  <2> QED
    BY <1>1, <1>6, <1>7, <2>2
<1>8. CASE wild = {}
  <2>1. \A m \in S : Matches(m, p) <=> Key(m) = SpecificKey(p)
    BY <1>2, <1>3, <1>8
  <2>2. {e.val : e \in spec} = {m.dst : m \in {x \in S : Matches(x, p)}}
    BY <1>3, <1>4, <2>1
  <2> QED
    BY <1>1, <1>6, <1>8, <2>2
<1> QED
  BY <1>7, <1>8

\* What is needed to speak of a mapping that Validate has accepted.
LEMMA ValidIs ==
  ASSUME NEW m \in ValidMapping
  PROVE  /\ m \in AnyMapping /\ Validate(m)
         /\ m.src \in Address /\ m.dst \in Address
         /\ m.proto \in Protocols
         /\ m.src.family \in Families /\ m.src.port \in Ports
         /\ m.src.host \in Hosts \cup {Unspecified}
         /\ m.src.family = m.dst.family /\ ~IsUnspecified(m.dst)
<1>1. m \in AnyMapping /\ Validate(m)
  BY DEF ValidMapping
<1>2. m.src \in Address /\ m.dst \in Address
  BY <1>1 DEF AnyMapping
<1> QED
  BY <1>1, <1>2 DEF Validate, Address

\* Two mappings one of which is a wildcard for a port of the other, or that have
\* the same source, are both matched by some packet.
LEMMA CommonPacket ==
  ASSUME NEW m \in ValidMapping, NEW x \in ValidMapping, m.proto = x.proto,
         m.src.family = x.src.family, m.src.port = x.src.port,
         IsUnspecified(m.src) \/ m.src.host = x.src.host
  PROVE  \E p \in Packet : Matches(m, p) /\ Matches(x, p)
<1>1. PICK h \in Hosts : IsUnspecified(x.src) \/ x.src.host = h
  BY ValidIs, HostsAssumption DEF IsUnspecified
<1> DEFINE p == [proto |-> m.proto,
                 dst |-> [family |-> m.src.family, host |-> h, port |-> m.src.port]]
<1>2. /\ m.proto \in Protocols /\ m.src.family \in Families /\ m.src.port \in Ports
  BY ValidIs
<1>3. p \in Packet
  BY <1>2 DEF Packet
<1>4. Matches(m, p) /\ Matches(x, p)
  BY <1>1 DEF Matches, IsUnspecified
<1> HIDE DEF p
<1> QED
  BY <1>3, <1>4

\* Of two mappings that name no address in common Overlaps refuses exactly those
\* whose packets could go two ways (mapping.go: the wildcard rules of Overlaps).
\* Beyond that it refuses mappings for an address they both name.
THEOREM OverlapIsAmbiguity ==
  ASSUME NEW m \in ValidMapping, NEW x \in ValidMapping,
         {m.src, m.dst} \cap {x.src, x.dst} = {}
  PROVE  Overlaps(m, x) <=> \E p \in Packet : Matches(m, p) /\ Matches(x, p)
<1>1. ASSUME Overlaps(m, x) PROVE \E p \in Packet : Matches(m, p) /\ Matches(x, p)
  <2>1. /\ m.proto = x.proto /\ m.src.family = x.src.family /\ m.src.port = x.src.port
        /\ IsUnspecified(m.src) \/ IsUnspecified(x.src)
    BY <1>1 DEF Overlaps
  <2>2. CASE IsUnspecified(m.src)
    BY <2>1, <2>2, CommonPacket
  <2>3. CASE IsUnspecified(x.src)
    <3>1. \E p \in Packet : Matches(x, p) /\ Matches(m, p)
      BY <2>1, <2>3, CommonPacket
    <3> QED
      BY <3>1
  <2> QED
    BY <2>1, <2>2, <2>3
<1>2. ASSUME NEW p \in Packet, Matches(m, p), Matches(x, p) PROVE Overlaps(m, x)
  BY <1>2, ValidIs, BothMatchOverlap
<1> QED
  BY <1>1, <1>2

\* mapping.go says that the sources of all mappings are disjoint from their
\* destinations.  Overlaps, which compares addresses literally, sees to that as far
\* as sources name a host: what a mapping forwards to is then no packet for another
\* one.
THEOREM DisjointWhereNamed ==
  ASSUME NEW m \in ValidMapping, NEW x \in ValidMapping,
         ~Overlaps(m, x), ~IsUnspecified(x.src)
  PROVE  ~Matches(x, Forwarded(m))
<1> SUFFICES ASSUME Matches(x, Forwarded(m)) PROVE FALSE
  OBVIOUS
<1>1. /\ x.proto = m.proto /\ x.src.family = m.dst.family
      /\ x.src.port = m.dst.port /\ x.src.host = m.dst.host
  BY DEF Matches, Forwarded
<1>2. x.src \in Address /\ m.dst \in Address /\ m.src.family = m.dst.family
  BY ValidIs
<1>3. x.src = m.dst
  BY <1>1, <1>2 DEF Address
<1> QED
  BY <1>1, <1>2, <1>3 DEF Overlaps

\* It does not see to it for a wildcard: the whole of one port may be forwarded to a
\* second port of a host, and the whole of that port back to the first, without an
\* overlap, although each source covers the other's destination.
THEOREM WildcardsMeetDestinations ==
  ASSUME NEW h \in Hosts, NEW q \in Ports, NEW r \in Ports, q # r, NEW proto \in Protocols
  PROVE  \E m, x \in ValidMapping : /\ ~Overlaps(m, x)
                                    /\ Matches(x, Forwarded(m)) /\ Matches(m, Forwarded(x))
<1> DEFINE at(a, n) == [family |-> 4, host |-> a, port |-> n]
           map(a, b) == [proto |-> proto, src |-> at(Unspecified, a), dst |-> at(h, b), ttl |-> 0]
<1>1. Unspecified # h /\ h \notin BadHosts /\ Unspecified \notin BadHosts
  BY HostsAssumption
<1>2. \A a, b \in Ports : map(a, b) \in ValidMapping
  <2> SUFFICES ASSUME NEW a \in Ports, NEW b \in Ports PROVE map(a, b) \in ValidMapping
    OBVIOUS
  <2>1. a # 0 /\ b # 0
    BY PortsAssumption
  <2>2. at(Unspecified, a) \in Address /\ at(h, b) \in Address
    BY DEF Address, Families
  <2>3. map(a, b) \in AnyMapping
    BY <2>2, TTLsAssumption DEF AnyMapping
  <2>4. Validate(map(a, b))
    BY <1>1, <2>1 DEF Validate, IsUnspecified
  <2> QED
    BY <2>3, <2>4 DEF ValidMapping
<1>3. ~Overlaps(map(q, r), map(r, q))
  BY <1>1 DEF Overlaps
<1>4. \A a, b \in Ports : Matches(map(b, a), Forwarded(map(a, b)))
  BY DEF Matches, Forwarded, IsUnspecified
<1> QED
  BY <1>2, <1>3, <1>4
=============================================================================
