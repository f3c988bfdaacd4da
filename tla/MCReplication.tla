-------------------------- MODULE MCReplication --------------------------
(* Small instances of Replication. *)
EXTENDS Replication, TLC
CONSTANTS n1, n2, n3, n4, p1, p2, g1, g2

ThreeServers == {n1, n2, n3}
ThreeInOrder == <<n1, n2, n3>>
FourServers == {n1, n2, n3, n4}

OnePut == {p1}
TwoPuts == {p1, p2}
OneGet == {g1}
TwoGets == {g1, g2}

\* Requests of one kind are interchangeable in the safety runs.
Symmetric == Permutations(Put) \union Permutations(Get)
===========================================================================
