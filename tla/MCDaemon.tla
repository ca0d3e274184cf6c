------------------------------ MODULE MCDaemon ------------------------------
(* Daemon for TLC: three plugins and a handful of configurations, accepted    *)
(* ones and others.                                                          *)
EXTENDS Daemon

CONSTANTS h1, h2, local, broken

At(h, p) == [family |-> 4, host |-> h, port |-> p]
Ep(n, a) == [name |-> n, proto |-> "tcp", address |-> a]
Tg(n, k, eps) == [name |-> n, kind |-> k, timeout |-> 1, endpoints |-> eps]
Fe(n, listen, t, e) == [name |-> n, kind |-> "always", proto |-> "tcp", listen |-> listen,
                        ttl |-> 1, target |-> t, endpoint |-> e]
Doc(ts, fs) == [complete |-> TRUE, targets |-> ts, frontends |-> fs]

One == Tg("t1", "cmd", <<Ep("e1", At(h1, 1)), Ep("e2", At(h1, 2))>>)
Two == Tg("t2", "cmd", <<Ep("e1", At(h2, 1))>>)

Wild   == Fe("f1", At(Unspecified, 3), "t1", "e1")
Hidden == Fe("f2", At(h2, 3), "t2", "e1")         \* the wildcard owns this port
Free   == Fe("f3", At(h2, 2), "t1", "e2")
Scoped == Fe("f4", At(local, 2), "t1", "e2")      \* a zone: accepted, but no mapping
Astray == Fe("f5", At(h2, 2), "t2", "e2")         \* an endpoint of the other target

Good == Doc(<<One, Two>>, <<Wild, Hidden, Free>>)

Documents == {
  Good,
  Doc(<<One, Two>>, <<Scoped, Hidden>>),
  Doc(<<One, Two>>, <<Wild, Astray>>),
  Doc(<<One, One>>, <<Wild>>),
  Doc(<<One, Tg("t2", "none", <<Ep("e1", At(h2, 1))>>)>>, <<Wild>>),
  Doc(<<One, Tg("t2", "cmd", <<Ep("e1", At(h2, 0))>>)>>, <<Wild>>),
  Doc(<<Tg("t1", "cmd", <<Ep("e1", At(broken, 1))>>)>>, << >>),
  [Good EXCEPT !.complete = FALSE] }

Builtin  == [found |-> TRUE, hook |-> TRUE, targets |-> {"cmd"}, frontends |-> {"always"}]
Hookless == [found |-> TRUE, hook |-> FALSE, targets |-> {}, frontends |-> {}]
Control  == [found |-> TRUE, hook |-> TRUE, targets |-> {}, frontends |-> {}]

SomePlugins == <<Builtin, Hookless, Control>>
BothProtocols == {"tcp", "udp"}
=============================================================================
