------------------------------ MODULE MCHashRing ------------------------------
(* Small rings: every way in which the virtual nodes can lie on them. *)
EXTENDS HashRing
CONSTANTS s1, s2, s3

ThreeServers == {s1, s2, s3}
TwoVirtual == 0 .. 1

\* Two virtual nodes per server; the two of one server are interchangeable, and
\* the ring can be turned until the first point of s1 is at 0.
Hashes(ss) ==
  {f \in [ss \X TwoVirtual -> Hash] :
     /\ f[s1, 0] = 0
     /\ \A s \in ss : f[s, 0] <= f[s, 1]}

Apart(ss) ==
  {f \in Hashes(ss) : \A v, w \in ss \X TwoVirtual : f[v] = f[w] => v = w}

ThreeApart == Apart(ThreeServers)

=============================================================================
