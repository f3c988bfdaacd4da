------------------------------ MODULE HashRing ------------------------------
(***************************************************************************)
(* ConsistentHashingRing (src/consistent_hashing_ring.cpp): where the      *)
(* virtual nodes of the servers lie on the ring, which servers a key       *)
(* belongs to, and the counter node_count_ that is kept beside the ring.   *)
(*                                                                         *)
(* The state is one ring object.  GossipNode calls addNode and removeNode  *)
(* without looking whether the server is on the ring: a repeated JoinNetwork *)
(* or LeaveNetwork command reaches them again.  A key is the position it   *)
(* hashes to.                                                              *)
(***************************************************************************)
EXTENDS Integers, SequencesExt

CONSTANTS
  Server,          \* the node ids
  HashSize,        \* number of positions; also the range of size_t (2^64)
  VirtualNode,     \* 0 .. num_virtual_nodes_ - 1
  Placement,       \* std::hash on virtual node ids: the functions considered
  MaxDrift         \* how far node_count_ may leave 0 .. number of servers (bound)

Hash == 0 .. HashSize - 1

ASSUME HashSizeIsNat == HashSize \in Nat \ {0}
ASSUME ServersFinite == IsFiniteSet(Server)
ASSUME FewServers == Cardinality(Server) < HashSize
ASSUME VirtualNodesExist == VirtualNode # {}
ASSUME PlacementsAreHashes == Placement \subseteq [Server \X VirtualNode -> Hash]
ASSUME MaxDriftIsNat == MaxDrift \in Nat

VARIABLES
  point,        \* point[<<s, i>>]: where virtual node i of server s lies
  ring,         \* ring_: the server at each occupied position
  node_count_,
  members,      \* history: the servers added and not removed since
  stray         \* history: a server was removed that was not a member

vars == <<point, ring, node_count_, members, stray>>

PointsOf(s) == {point[<<s, i>>] : i \in VirtualNode}

-----------------------------------------------------------------------------
(* Walking the ring *)

\* A slip: upper_bound instead of lower_bound, a key at a point misses it.
Clockwise_UpperBound(h, k) == (h + 1 + k) % HashSize

\* Position number k on the way round from h; h itself is the first, as for
\* lower_bound, and the way goes on at the beginning of the map.
Clockwise(h, k) == (h + k) % HashSize

\* A slip: a server is listed once for each of its virtual nodes.
Visit_Repeats(r, nodes, wanted, p) ==
  IF p \notin DOMAIN r \/ (nodes # <<>> /\ Len(nodes) >= wanted) THEN nodes
  ELSE Append(nodes, r[p])

\* What the loop makes of position p: the server there is added if it is new and
\* there are not enough.  The first is always taken: the loop tests after its body.
Visit(r, nodes, wanted, p) ==
  IF p \notin DOMAIN r \/ (nodes # <<>> /\ Len(nodes) >= wanted) \/ Contains(nodes, r[p])
  THEN nodes
  ELSE Append(nodes, r[p])

\* The different servers met on one turn from h on, until there are enough.
Walk(r, h, wanted) ==
  LET nodes[k \in 0 .. HashSize] ==
        IF k = 0 THEN <<>> ELSE Visit(r, nodes[k - 1], wanted, Clockwise(h, k - 1))
  IN  nodes[HashSize]

\* How far the way round from h to p is.
Distance(p, h) == (p - h) % HashSize

\* The server at the first point from h on.
getNode(r, h) == r[Clockwise(h, Min({Distance(p, h) : p \in DOMAIN r}))]

\* nodes_set.size() < return_replicas compares a size_t with an int: a negative
\* count becomes a huge one.
Unsigned(int) == int % HashSize

getReplicasNodes(r, count, h, num_replicas) ==
  Walk(r, h, Unsigned(IF count < num_replicas THEN count ELSE num_replicas))

checkDataBelonging(r, h, node_id, num_replicas) ==
  Contains(Walk(r, h, num_replicas), node_id)

-----------------------------------------------------------------------------
Init ==
  /\ point \in Placement
  /\ ring = <<>>
  /\ node_count_ = 0
  /\ members = {}
  /\ stray = FALSE

\* A slip: the counter is forgotten for a server that was never a member.
addNode_NoCount(s) ==
  /\ node_count_ < Cardinality(Server) + MaxDrift
  /\ node_count_' = IF s \in members THEN node_count_ + 1 ELSE node_count_
  /\ ring' = [p \in DOMAIN ring \union PointsOf(s) |-> IF p \in PointsOf(s) THEN s ELSE ring[p]]
  /\ members' = members \union {s}
  /\ UNCHANGED <<point, stray>>

addNode(s) ==
  /\ node_count_ < Cardinality(Server) + MaxDrift
  /\ node_count_' = node_count_ + 1
  /\ ring' = [p \in DOMAIN ring \union PointsOf(s) |-> IF p \in PointsOf(s) THEN s ELSE ring[p]]
  /\ members' = members \union {s}
  /\ UNCHANGED <<point, stray>>

\* A slip: the loop over the virtual nodes starts at 1.
removeNode_LeavesOne(s) ==
  /\ node_count_ > -MaxDrift
  /\ node_count_' = node_count_ - 1
  /\ ring' = [p \in DOMAIN ring \ {point[<<s, i>>] : i \in VirtualNode \ {0}} |-> ring[p]]
  /\ members' = members \ {s}
  /\ stray' = (stray \/ s \notin members)
  /\ UNCHANGED point

\* A slip: the points are blanked instead of erased.
removeNode_Blanks(s) ==
  /\ node_count_ > -MaxDrift
  /\ node_count_' = node_count_ - 1
  /\ ring' = [p \in DOMAIN ring |-> IF p \in PointsOf(s) THEN "" ELSE ring[p]]
  /\ members' = members \ {s}
  /\ stray' = (stray \/ s \notin members)
  /\ UNCHANGED point

\* Whatever stands at the points of s is erased.
removeNode(s) ==
  /\ node_count_ > -MaxDrift
  /\ node_count_' = node_count_ - 1
  /\ ring' = [p \in DOMAIN ring \ PointsOf(s) |-> ring[p]]
  /\ members' = members \ {s}
  /\ stray' = (stray \/ s \notin members)
  /\ UNCHANGED point

Next == \E s \in Server : addNode(s) \/ removeNode(s)

Spec == Init /\ [][Next]_vars

-----------------------------------------------------------------------------
TypeOK ==
  /\ point \in Placement
  /\ DOMAIN ring \subseteq Hash
  /\ \A p \in DOMAIN ring : ring[p] \in Server
  /\ node_count_ \in -MaxDrift .. Cardinality(Server) + MaxDrift
  /\ members \subseteq Server
  /\ stray \in BOOLEAN

\* No two virtual nodes hash to the same position.
NoCollision ==
  \A v, w \in Server \X VirtualNode : point[v] = point[w] => v = w

\* The ring that a set of servers makes when nothing ever left it.
RingOf(ss) ==
  [p \in UNION {PointsOf(s) : s \in ss} |-> CHOOSE s \in ss : p \in PointsOf(s)]

(* The ring depends on who is a member and not on how it came about: joins   *)
(* and leaves that arrive twice, in another order, or of servers that are    *)
(* not there leave no trace, so all servers that know the same members       *)
(* place every key on the same servers.  (Two virtual nodes at one position  *)
(* break this: the later addNode takes the point and its removeNode erases   *)
(* it.)                                                                      *)
RingIsMembers == NoCollision => ring = RingOf(members)

\* How near server s comes behind position h.
Nearness(s, h) == Min({Distance(p, h) : p \in PointsOf(s)})

(* The reference for the walk: a key belongs to a server if fewer than       *)
(* num_replicas other members come nearer behind its position.               *)
BelongsIsNearest ==
  NoCollision =>
    \A h \in Hash, s \in Server, n \in 1 .. Cardinality(Server) :
      checkDataBelonging(ring, h, s, n) <=>
        /\ s \in members
        /\ Cardinality({m \in members : Nearness(m, h) < Nearness(s, h)}) < n

\* The servers that checkDataBelonging is true of.
Owners(r, h, n) == ToSet(Walk(r, h, n))

(* As long as only members have left, node_count_ never cuts the preference  *)
(* list short: it names as many different servers as asked for, or all of    *)
(* them, getNode's server first, and they are the ones checkDataBelonging is *)
(* true of.  A LeaveNetwork that arrives twice ends this: the counter falls  *)
(* behind, the list gets too short for a quorum, and below zero too long.    *)
ListIsFull ==
  NoCollision /\ ~stray =>
    \A h \in Hash, n \in 1 .. Cardinality(Server) :
      LET list == getReplicasNodes(ring, node_count_, h, n)
          all == Cardinality(members)
      IN  /\ Len(list) = IF n < all THEN n ELSE all
          /\ IsInjective(list)
          /\ list # <<>> => Head(list) = getNode(ring, h)
          /\ ToSet(list) = Owners(ring, h, n)

(* What the two key transfers rely on: when a server joins, no key gets a    *)
(* new owner except the joiner and at most one server gives it up; when one  *)
(* leaves, no other owner loses a key and at most one server takes its place. *)
OneServerTakesOver ==
  [][NoCollision /\ ring' # ring =>
       \A h \in Hash, n \in 1 .. Cardinality(Server) :
         LET before == Owners(ring, h, n)
             after == Owners(ring', h, n)
         IN  /\ Cardinality(after \ before) <= 1
             /\ Cardinality(before \ after) <= 1
             /\ members \subseteq members' => after \ before \subseteq members' \ members
             /\ members' \subseteq members => before \ after \subseteq members \ members']_vars

=============================================================================
