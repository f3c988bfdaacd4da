-------------------------- MODULE MCVersionScan --------------------------
(* Result lists small enough to enumerate all of them. *)
EXTENDS VersionScan
CONSTANTS s1, s2, s3, v1, v2
TwoServers == {s1, s2}
ThreeServers == {s1, s2, s3}
OneValue == {v1}
TwoValues == {v1, v2}

\* Servers are interchangeable; only the order in which they appear matters.
Symmetric == Permutations(Server)
===========================================================================
