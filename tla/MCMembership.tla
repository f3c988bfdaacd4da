--------------------------- MODULE MCMembership ---------------------------
(* Small instances of Membership. *)
EXTENDS Membership, TLC
CONSTANTS s1, s2, s3, c1, c2

ThreeServers == {s1, s2, s3}
TwoCommands == {c1, c2}

Symmetric == Permutations(Server) \union Permutations(Command)
===========================================================================
