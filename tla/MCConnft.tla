------------------------------ MODULE MCConnft ------------------------------
(* Connft for TLC: IPv4 and TCP only.  One pair of mappings overlaps and two  *)
(* pairs may live side by side.                                              *)
EXTENDS Connft, TLC

CONSTANTS h1, h2

At(h, p) == [family |-> 4, host |-> h, port |-> p]
Map(s, d, t) == [proto |-> "tcp", src |-> s, dst |-> d, ttl |-> t]

Wild   == Map(At(Unspecified, 1), At(h2, 2), 0)  \* the whole port 1
Narrow == Map(At(h1, 1), At(h1, 2), 0)           \* overlaps Wild: port 1
Apart  == Map(At(h1, 3), At(h2, 1), 1)           \* overlaps neither; has a timeout
Wrong  == Map(At(h1, 0), At(h2, 3), 0)           \* invalid: port 0

SomeMappings == {Wild, Narrow, Apart, Wrong}

OnlyTCP == {"tcp"}
Swap    == Permutations(Names)
=============================================================================
