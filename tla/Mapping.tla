------------------------------ MODULE Mapping ------------------------------
(***************************************************************************)
(* pkg/dataplane/mapping.go: which mappings are valid and which overlap,   *)
(* and what the nftables elements compiled from them match.                *)
(*                                                                         *)
(* An address is a family, a host and a port; the host Unspecified stands  *)
(* for the unspecified address of the family.  Hosts that netip rejects or *)
(* that carry a zone are the members of BadHosts.                          *)
(***************************************************************************)
EXTENDS Naturals

CONSTANTS Hosts, Unspecified, BadHosts, Ports, Protocols, BadProtocols, TTLs

ASSUME HostsAssumption ==
  /\ Unspecified \notin Hosts /\ Unspecified \notin BadHosts
  /\ Hosts \cap BadHosts = {}
  /\ Hosts # {}
ASSUME PortsAssumption == Ports \subseteq Nat \ {0}
ASSUME ProtocolsAssumption == Protocols \cap BadProtocols = {}
ASSUME TTLsAssumption == TTLs \subseteq Nat /\ 0 \in TTLs

Families == {4, 6}

Address == [family : Families, host : Hosts \cup {Unspecified} \cup BadHosts, port : Ports \cup {0}]

\* Everything a caller may hand to AddMappings.
AnyMapping == [proto : Protocols \cup BadProtocols, src : Address, dst : Address, ttl : TTLs]

IsUnspecified(a) == a.host = Unspecified

Validate(m) ==
  /\ m.proto \in Protocols
  /\ m.src.host \notin BadHosts /\ m.dst.host \notin BadHosts
  /\ m.src.port # 0 /\ m.dst.port # 0
  /\ ~IsUnspecified(m.dst)
  /\ m.src.family = m.dst.family
  /\ m.src # m.dst

ValidMapping == {m \in AnyMapping : Validate(m)}

\* Two addresses are compared as they are written, host and port: that one host is
\* source of one mapping and destination of another, or that a wildcard source
\* covers the other's destination, is no overlap.
Overlaps(m, x) ==
  /\ m.proto = x.proto
  /\ m.src.family = x.src.family
  /\ \/ m.src = x.src \/ m.src = x.dst
     \/ m.dst = x.dst \/ m.dst = x.src
     \/ m.src.port = x.src.port /\ (IsUnspecified(m.src) \/ IsUnspecified(x.src))

-----------------------------------------------------------------------------
(* The elements of the four DNAT maps and the rules that look them up.     *)

\* compileSetElement and the choice of the set: a wildcard is keyed by protocol
\* and port, anything else by protocol, address and port; one pair of maps for
\* each family.
Key(m) == [kind |-> IF IsUnspecified(m.src) THEN "wildcard" ELSE "specific",
           family |-> m.src.family, proto |-> m.proto, port |-> m.src.port,
           host |-> IF IsUnspecified(m.src) THEN Unspecified ELSE m.src.host]

Element(m) == [key |-> Key(m), val |-> m.dst]

Elements(S) == {Element(m) : m \in S}

\* A packet on the prerouting hook, and the keys the rules try, in this order.
Packet == [proto : Protocols, dst : [family : Families, host : Hosts, port : Ports]]

WildcardKey(p) == [kind |-> "wildcard", family |-> p.dst.family, proto |-> p.proto,
                   port |-> p.dst.port, host |-> Unspecified]
SpecificKey(p) == [kind |-> "specific", family |-> p.dst.family, proto |-> p.proto,
                   port |-> p.dst.port, host |-> p.dst.host]

\* The translations the rules can give packet p when the maps hold E: those of
\* the wildcard map, and if it has none, those of the specific map.
Translations(E, p) ==
  LET wild == {e \in E : e.key = WildcardKey(p)}
      spec == {e \in E : e.key = SpecificKey(p)}
  IN  {e.val : e \in IF wild # {} THEN wild ELSE spec}

-----------------------------------------------------------------------------
(* The reference: what a mapping claims.                                   *)

\* The packets whose destination the source of m covers.
Matches(m, p) == /\ m.proto = p.proto
                 /\ m.src.family = p.dst.family
                 /\ m.src.port = p.dst.port
                 /\ IsUnspecified(m.src) \/ m.src.host = p.dst.host

\* The packet that a translation by m results in: on the gateway it would match
\* whatever has the destination of m among its sources.
Forwarded(m) == [proto |-> m.proto, dst |-> m.dst]
=============================================================================
