------------------------------- MODULE Config -------------------------------
(***************************************************************************)
(* pkg/config/config.go: which configurations are accepted, and            *)
(* pkg/target/endpoint.go: which endpoints are.                            *)
(*                                                                         *)
(* A configuration is a sequence of targets and one of frontends; what it  *)
(* says besides is either there or not.  A missing name or kind is Empty.  *)
(* Text has been parsed: a protocol it may name is in Protocols, and a     *)
(* timeout below a second has become zero.                                 *)
(***************************************************************************)
EXTENDS Mapping, Sequences

CONSTANTS
  Empty,  \* no name, no kind
  Zoned   \* hosts with a zone: netip accepts them, mappings do not

ASSUME ZonedAssumption == Zoned \subseteq BadHosts

\* netip.AddrPort.IsValid: any port will do, and so will a zone.
IsValidAddress(a) == a.host \notin BadHosts \ Zoned

\* No two elements of a sequence have the same name.
Distinct(s) == \A i, j \in 1 .. Len(s) : s[i].name = s[j].name => i = j

Names(s) == {s[i].name : i \in 1 .. Len(s)}

\* The element of a sequence with name n.
Named(s, n) == s[CHOOSE i \in 1 .. Len(s) : s[i].name = n]

-----------------------------------------------------------------------------
(* Endpoints.                                                              *)

\* What target.New asks of an endpoint.
EndpointIsValid(ep) ==
  /\ ep.name # Empty
  /\ IsValidAddress(ep.address) /\ ep.address.port # 0 /\ ~IsUnspecified(ep.address)

-----------------------------------------------------------------------------
(* Config.Validate.                                                        *)

ValidEndpoint(ep) ==
  /\ ep.name # Empty
  /\ ep.proto \in Protocols
  /\ ep.address.host \notin BadHosts

ValidTarget(t) ==
  /\ t.name # Empty /\ t.kind # Empty /\ t.timeout # 0
  /\ t.endpoints # << >> /\ Distinct(t.endpoints)
  /\ \A j \in 1 .. Len(t.endpoints) : ValidEndpoint(t.endpoints[j])

\* hasTargetEndpoint.
HasTargetEndpoint(c, target, endpoint) ==
  /\ target \in Names(c.targets)
  /\ endpoint \in Names(Named(c.targets, target).endpoints)

ValidFrontend(c, f) ==
  /\ f.name # Empty /\ f.kind # Empty /\ f.ttl # 0
  /\ f.proto \in Protocols
  /\ IsValidAddress(f.listen)
  /\ HasTargetEndpoint(c, f.target, f.endpoint)

ValidConfig(c) ==
  /\ c.complete
  /\ Distinct(c.targets)
  /\ \A i \in 1 .. Len(c.targets) : ValidTarget(c.targets[i])
  /\ Distinct(c.frontends)
  /\ \A i \in 1 .. Len(c.frontends) : ValidFrontend(c, c.frontends[i])
=============================================================================
