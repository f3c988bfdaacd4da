------------------------------ MODULE MCGossip ------------------------------
(* Small instances of Gossip. *)
EXTENDS Gossip, TLC
CONSTANTS s1, s2, s3

ThreeServers == {s1, s2, s3}

Symmetric == Permutations(Server)
=============================================================================
