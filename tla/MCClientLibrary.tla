-------------------------- MODULE MCClientLibrary --------------------------
(* Small instances of ClientLibrary. *)
EXTENDS ClientLibrary
CONSTANTS n1, n2, n3, p1, p2, p3, c1, c2

ThreeInOrder == <<n1, n2, n3>>

Symmetric == Permutations(Put) \union Permutations(Client)
=============================================================================
