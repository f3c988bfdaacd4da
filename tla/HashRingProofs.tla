--------------------------- MODULE HashRingProofs ---------------------------
(***************************************************************************)
(* Proofs about HashRing: that the ring has no history, that the walks     *)
(* along it find the nearest members, that node_count_ does not cut them   *)
(* short, and how little a join or leave moves.                            *)
(***************************************************************************)
EXTENDS HashRing, FiniteSetTheorems, WellFoundedInduction, TLAPS

\* Every virtual node lies on the ring.
LEMMA PointsOnRing ==
  ASSUME point \in Placement, NEW s \in Server
  PROVE  PointsOf(s) \subseteq Hash
<1>1. point \in [Server \X VirtualNode -> Hash]
  BY PlacementsAreHashes
<1>2. \A i \in VirtualNode : <<s, i>> \in Server \X VirtualNode
  OBVIOUS
<1> QED
  BY <1>1, <1>2 DEF PointsOf

LEMMA CounterRange ==
  /\ Cardinality(Server) \in Nat /\ MaxDrift \in Nat
  /\ 0 \in -MaxDrift .. Cardinality(Server) + MaxDrift
<1>1. Cardinality(Server) \in Nat /\ MaxDrift \in Nat
  BY ServersFinite, MaxDriftIsNat, FS_CardinalityType
<1> QED
  BY <1>1

LEMMA TypeAdd ==
  ASSUME TypeOK, NEW s \in Server, addNode(s)
  PROVE  TypeOK'
<1>1. /\ DOMAIN ring' = DOMAIN ring \union PointsOf(s)
      /\ \A p \in DOMAIN ring' : ring'[p] = IF p \in PointsOf(s) THEN s ELSE ring[p]
  BY DEF addNode
<1>2. PointsOf(s) \subseteq Hash
  BY PointsOnRing DEF TypeOK
<1>3. DOMAIN ring' \subseteq Hash /\ \A p \in DOMAIN ring' : ring'[p] \in Server
  BY <1>1, <1>2 DEF TypeOK
<1>4. node_count_' \in -MaxDrift .. Cardinality(Server) + MaxDrift
  BY CounterRange DEF TypeOK, addNode
<1> QED
  BY <1>3, <1>4 DEF TypeOK, addNode

LEMMA TypeRemove ==
  ASSUME TypeOK, NEW s \in Server, removeNode(s)
  PROVE  TypeOK'
<1>1. /\ DOMAIN ring' = DOMAIN ring \ PointsOf(s)
      /\ \A p \in DOMAIN ring' : ring'[p] = ring[p]
  BY DEF removeNode
<1>2. DOMAIN ring' \subseteq Hash /\ \A p \in DOMAIN ring' : ring'[p] \in Server
  BY <1>1 DEF TypeOK
<1>3. node_count_' \in -MaxDrift .. Cardinality(Server) + MaxDrift
  BY CounterRange DEF TypeOK, removeNode
<1>4. stray' \in BOOLEAN /\ members' \subseteq Server /\ point' = point
  BY DEF TypeOK, removeNode
<1> QED
  BY <1>2, <1>3, <1>4 DEF TypeOK

(* Each occupied position names a server, for any placement of the virtual   *)
(* nodes, colliding ones included: an erased point is gone, not blank.       *)
THEOREM TypeCorrect == Spec => []TypeOK
<1>1. Init => TypeOK
  <2> SUFFICES ASSUME Init PROVE TypeOK
    OBVIOUS
  <2>1. DOMAIN ring = {} /\ members = {} /\ stray = FALSE /\ point \in Placement
    BY DEF Init
  <2>2. node_count_ \in -MaxDrift .. Cardinality(Server) + MaxDrift
    BY CounterRange DEF Init
  <2> QED
    BY <2>1, <2>2 DEF TypeOK
<1>2. TypeOK /\ [Next]_vars => TypeOK'
  <2> SUFFICES ASSUME TypeOK, [Next]_vars PROVE TypeOK'
    OBVIOUS
  <2>1. CASE \E s \in Server : addNode(s)
    BY <2>1, TypeAdd
  <2>2. CASE \E s \in Server : removeNode(s)
    BY <2>2, TypeRemove
  <2>3. CASE UNCHANGED vars
    BY <2>3 DEF vars, TypeOK
  <2> QED
    BY <2>1, <2>2, <2>3 DEF Next
<1> QED
  BY <1>1, <1>2, PTL DEF Spec

\* What addNode and removeNode preserve when no two virtual nodes collide.
Placed ==
  /\ members \subseteq Server
  /\ point \in Placement
  /\ NoCollision =>
       /\ ring = [p \in DOMAIN ring |-> ring[p]]
       /\ DOMAIN ring = UNION {PointsOf(s) : s \in members}
       /\ \A s \in members : \A p \in PointsOf(s) : ring[p] = s

\* Without collisions a position belongs to one server.
LEMMA PointsApart ==
  ASSUME point \in Placement, NoCollision,
         NEW s \in Server, NEW t \in Server, NEW p, p \in PointsOf(s), p \in PointsOf(t)
  PROVE  s = t
<1>1. PICK i \in VirtualNode : p = point[<<s, i>>]
  BY DEF PointsOf
<1>2. PICK j \in VirtualNode : p = point[<<t, j>>]
  BY DEF PointsOf
<1>3. <<s, i>> \in Server \X VirtualNode /\ <<t, j>> \in Server \X VirtualNode
  BY <1>1, <1>2
<1>4. <<s, i>> = <<t, j>>
  BY <1>1, <1>2, <1>3 DEF NoCollision
<1> QED
  BY <1>4

LEMMA PlacedInit == Init => Placed
<1> SUFFICES ASSUME Init PROVE Placed
  OBVIOUS
<1>1. ring = [p \in {} |-> ring[p]] /\ DOMAIN ring = {}
  BY DEF Init
<1>2. UNION {PointsOf(s) : s \in {}} = {}
  OBVIOUS
<1> QED
  BY <1>1, <1>2 DEF Init, Placed

LEMMA PlacedAdd ==
  ASSUME Placed, NEW s \in Server, addNode(s)
  PROVE  Placed'
<1>1. members' = members \union {s} /\ point' = point
  BY DEF addNode
<1>2. members' \subseteq Server /\ point' \in Placement
  BY <1>1 DEF Placed
<1>3. ASSUME NoCollision'
      PROVE  /\ ring' = [p \in DOMAIN ring' |-> ring'[p]]
             /\ DOMAIN ring' = UNION {PointsOf(t)' : t \in members'}
             /\ \A t \in members' : \A p \in PointsOf(t)' : ring'[p] = t
  <2>1. NoCollision
    BY <1>1, <1>3 DEF NoCollision
  <2>2. \A t : PointsOf(t)' = PointsOf(t)
    BY <1>1 DEF PointsOf
  <2>3. ring' = [p \in DOMAIN ring \union PointsOf(s) |->
                   IF p \in PointsOf(s) THEN s ELSE ring[p]]
    BY DEF addNode
  <2>4. DOMAIN ring = UNION {PointsOf(t) : t \in members}
    BY <2>1 DEF Placed
  <2>5. DOMAIN ring' = UNION {PointsOf(t) : t \in members'}
    BY <1>1, <2>3, <2>4
  <2>6. ASSUME NEW t \in members', NEW p \in PointsOf(t)
        PROVE  ring'[p] = t
    <3>1. CASE p \in PointsOf(s)
      BY <1>2, <2>1, <2>3, <3>1, PointsApart DEF Placed
    <3>2. CASE p \notin PointsOf(s)
      BY <1>1, <2>1, <2>3, <2>4, <3>2 DEF Placed
    <3> QED
      BY <3>1, <3>2
  <2>7. ring' = [p \in DOMAIN ring' |-> ring'[p]]
    BY <2>3
  <2>8. \A t \in members' : \A p \in PointsOf(t)' : ring'[p] = t
    BY <2>2, <2>6
  <2> QED
    BY <2>2, <2>5, <2>7, <2>8
<1> QED
  BY <1>2, <1>3 DEF Placed

LEMMA PlacedRemove ==
  ASSUME Placed, NEW s \in Server, removeNode(s)
  PROVE  Placed'
<1>1. members' = members \ {s} /\ point' = point
  BY DEF removeNode
<1>2. members' \subseteq Server /\ point' \in Placement
  BY <1>1 DEF Placed
<1>3. ASSUME NoCollision'
      PROVE  /\ ring' = [p \in DOMAIN ring' |-> ring'[p]]
             /\ DOMAIN ring' = UNION {PointsOf(t)' : t \in members'}
             /\ \A t \in members' : \A p \in PointsOf(t)' : ring'[p] = t
  <2>1. NoCollision
    BY <1>1, <1>3 DEF NoCollision
  <2>2. \A t : PointsOf(t)' = PointsOf(t)
    BY <1>1 DEF PointsOf
  <2>3. ring' = [p \in DOMAIN ring \ PointsOf(s) |-> ring[p]]
    BY DEF removeNode
  <2>4. DOMAIN ring = UNION {PointsOf(t) : t \in members}
    BY <2>1 DEF Placed
  <2>5. \A t \in members' : \A p \in PointsOf(t) : p \notin PointsOf(s)
    BY <1>1, <1>2, <2>1, PointsApart DEF Placed
  <2>6. DOMAIN ring' = UNION {PointsOf(t) : t \in members'}
    BY <1>1, <2>3, <2>4, <2>5
  <2>7. \A t \in members' : \A p \in PointsOf(t) : ring'[p] = t
    BY <1>1, <2>1, <2>3, <2>4, <2>5 DEF Placed
  <2> QED
    BY <2>2, <2>3, <2>6, <2>7
<1> QED
  BY <1>2, <1>3 DEF Placed

LEMMA PlacedStep == Placed /\ [Next]_vars => Placed'
<1> SUFFICES ASSUME Placed, [Next]_vars PROVE Placed'
  OBVIOUS
<1>1. CASE \E s \in Server : addNode(s)
  BY <1>1, PlacedAdd
<1>2. CASE \E s \in Server : removeNode(s)
  BY <1>2, PlacedRemove
<1>3. CASE UNCHANGED vars
  BY <1>3 DEF vars, Placed, NoCollision, PointsOf
<1> QED
  BY <1>1, <1>2, <1>3 DEF Next

LEMMA PlacedIsRingOf == Placed => RingIsMembers
<1> SUFFICES ASSUME Placed, NoCollision PROVE ring = RingOf(members)
  BY DEF RingIsMembers
<1>1. \A p \in DOMAIN ring : ring[p] = CHOOSE s \in members : p \in PointsOf(s)
  <2> TAKE p \in DOMAIN ring
  <2>1. PICK s \in members : p \in PointsOf(s)
    BY DEF Placed
  <2>2. \A t \in members : p \in PointsOf(t) => t = s
    BY <2>1, PointsApart DEF Placed
  <2>3. (CHOOSE t \in members : p \in PointsOf(t)) = s
    BY <2>1, <2>2
  <2> QED
    BY <2>1, <2>3 DEF Placed
<1> QED
  BY <1>1 DEF Placed, RingOf

LEMMA PlacedAlways == Spec => []Placed
<1>1. Init => Placed
  BY PlacedInit
<1>2. Placed /\ [Next]_vars => Placed'
  BY PlacedStep
<1> QED
  BY <1>1, <1>2, PTL DEF Spec

(* However often, in whatever order and for whatever servers addNode and     *)
(* removeNode are called, the ring is the one its members make: servers that *)
(* know the same members agree on the servers of every key.                  *)
THEOREM RingHasNoHistory == Spec => []RingIsMembers
  BY PlacedAlways, PlacedIsRingOf, PTL

-----------------------------------------------------------------------------
(* The way round the ring *)

LEMMA Remainders ==
  ASSUME NEW a \in Int
  PROVE  /\ a \in 0 .. HashSize - 1 => a % HashSize = a
         /\ a \in HashSize .. 2 * HashSize - 1 => a % HashSize = a - HashSize
         /\ a \in -HashSize .. -1 => a % HashSize = a + HashSize
<1>1. HashSize \in Nat /\ HashSize > 0
  BY HashSizeIsNat
<1>2. a \in 0 .. HashSize - 1 => a % HashSize = a
  BY <1>1
<1>3. a \in HashSize .. 2 * HashSize - 1 => a % HashSize = a - HashSize
  BY <1>1
<1>4. a \in -HashSize .. -1 => a % HashSize = a + HashSize
  BY <1>1
<1> QED
  BY <1>2, <1>3, <1>4

\* One turn comes to every position once: to p after Distance(p, h) steps.
LEMMA OneTurn ==
  ASSUME NEW h \in Hash
  PROVE  /\ \A k \in 0 .. HashSize - 1 :
              Clockwise(h, k) \in Hash /\ Distance(Clockwise(h, k), h) = k
         /\ \A p \in Hash : /\ Distance(p, h) \in 0 .. HashSize - 1
                            /\ Clockwise(h, Distance(p, h)) = p
<1>1. HashSize \in Nat /\ HashSize > 0 /\ h \in 0 .. HashSize - 1
  BY HashSizeIsNat DEF Hash
<1>2. ASSUME NEW k \in 0 .. HashSize - 1
      PROVE  Clockwise(h, k) \in Hash /\ Distance(Clockwise(h, k), h) = k
  <2>1. CASE h + k <= HashSize - 1
    <3>1. Clockwise(h, k) = h + k
      BY <1>1, <2>1, Remainders DEF Clockwise
    <3>2. ((h + k) - h) % HashSize = k
      BY <1>1, Remainders
    <3> QED
      BY <1>1, <2>1, <3>1, <3>2 DEF Distance, Hash
  <2>2. CASE h + k >= HashSize
    <3>1. Clockwise(h, k) = h + k - HashSize
      BY <1>1, <2>2, Remainders DEF Clockwise
    <3>2. ((h + k - HashSize) - h) % HashSize = k
      BY <1>1, Remainders
    <3> QED
      BY <1>1, <2>2, <3>1, <3>2 DEF Distance, Hash
  <2> QED
    BY <1>1, <2>1, <2>2
<1>3. ASSUME NEW p \in Hash
      PROVE  Distance(p, h) \in 0 .. HashSize - 1 /\ Clockwise(h, Distance(p, h)) = p
  <2>1. p \in 0 .. HashSize - 1
    BY DEF Hash
  <2>2. CASE p >= h
    <3>1. Distance(p, h) = p - h
      BY <1>1, <2>1, <2>2, Remainders DEF Distance
    <3>2. (h + (p - h)) % HashSize = p
      BY <1>1, <2>1, Remainders
    <3> QED
      BY <1>1, <2>1, <2>2, <3>1, <3>2 DEF Clockwise
  <2>3. CASE p < h
    <3>1. Distance(p, h) = p - h + HashSize
      BY <1>1, <2>1, <2>3, Remainders DEF Distance
    <3>2. (h + (p - h + HashSize)) % HashSize = p
      BY <1>1, <2>1, Remainders
    <3> QED
      BY <1>1, <2>1, <2>3, <3>1, <3>2 DEF Clockwise
  <2> QED
    BY <1>1, <2>1, <2>2, <2>3
<1> QED
  BY <1>2, <1>3

\* Sets of numbers with a bound have a smallest one.
LEMMA LeastExists ==
  ASSUME NEW n \in Nat, NEW T \in SUBSET (0 .. n), T # {}
  PROVE  Min(T) \in T /\ \A y \in T : Min(T) <= y
<1> DEFINE S == 0 .. n
           Below(x) == {y \in S : y < x}
           F == {Below(x) : x \in T}
<1>1. IsFiniteSet(S)
  BY FS_Interval
<1>2. F \subseteq FiniteSubsetsOf(S) /\ F # {}
  <2>1. \A x \in T : Below(x) \in SUBSET S /\ IsFiniteSet(Below(x))
    BY <1>1, FS_Subset
  <2> QED
    BY <2>1 DEF FiniteSubsetsOf
<1>3. PICK A \in F : \A B \in F : ~(<<B, A>> \in StrictSubsetOrdering(S))
  <2> HIDE DEF F, S
  <2>1. IsWellFoundedOn(StrictSubsetOrdering(S), FiniteSubsetsOf(S))
    BY FS_StrictSubsetOrderingWellFounded
  <2> QED
    BY <1>2, <2>1, WFMin
<1>4. PICK x \in T : A = Below(x)
  BY <1>3
<1>5. ASSUME NEW y \in T
      PROVE  x <= y
  <2>1. SUFFICES ASSUME y < x PROVE FALSE
    OBVIOUS
  <2>2. Below(y) \subseteq Below(x) /\ y \in Below(x) /\ y \notin Below(y)
    BY <2>1
  <2>3. <<Below(y), Below(x)>> \in StrictSubsetOrdering(S)
    BY <2>2 DEF StrictSubsetOrdering
  <2> QED
    BY <1>3, <1>4, <2>3
<1>6. \E z \in T : \A y \in T : z <= y
  BY <1>5
<1> QED
  BY <1>6 DEF Min

\* The nearest of the points of a server.
LEMMA NearestPoint ==
  ASSUME point \in Placement, NEW s \in Server, NEW h \in Hash
  PROVE  /\ Nearness(s, h) \in 0 .. HashSize - 1
         /\ \E p \in PointsOf(s) : Distance(p, h) = Nearness(s, h)
         /\ \A p \in PointsOf(s) : Nearness(s, h) <= Distance(p, h)
<1> DEFINE D == {Distance(p, h) : p \in PointsOf(s)}
<1>1. PointsOf(s) \subseteq Hash /\ PointsOf(s) # {}
  BY PointsOnRing, VirtualNodesExist DEF PointsOf
<1>2. D \in SUBSET (0 .. HashSize - 1) /\ D # {}
  <2>1. \A p \in PointsOf(s) : Distance(p, h) \in 0 .. HashSize - 1
    BY <1>1, OneTurn
  <2> QED
    BY <1>1, <2>1
<1>3. HashSize - 1 \in Nat
  BY HashSizeIsNat
<1> HIDE DEF D
<1>4. Min(D) \in D /\ \A y \in D : Min(D) <= y
  BY <1>2, <1>3, LeastExists
<1>5. Nearness(s, h) = Min(D)
  BY DEF Nearness, D
<1> QED
  BY <1>2, <1>4, <1>5 DEF D

-----------------------------------------------------------------------------
(* The walk *)

\* One pass of the loop after the other, the k-th at position k - 1 of the way.
Passes(g, r, h, wanted, n) ==
  g = [k \in 0 .. n |-> IF k = 0 THEN <<>> ELSE Visit(r, g[k - 1], wanted, Clockwise(h, k - 1))]

\* The recursive function that Walk is defined with exists.
LEMMA WalkIsPasses ==
  ASSUME NEW r, NEW h, NEW wanted
  PROVE  \E g : Passes(g, r, h, wanted, HashSize) /\ Walk(r, h, wanted) = g[HashSize]
<1> DEFINE Undone == {n \in 0 .. HashSize : ~\E g : Passes(g, r, h, wanted, n)}
<1>1. HashSize \in Nat
  BY HashSizeIsNat
<1>2. Undone = {}
  <2> SUFFICES ASSUME Undone # {} PROVE FALSE
    OBVIOUS
  <2>1. PICK n \in Undone : \A m \in Undone : n <= m
    <3>1. Undone \in SUBSET (0 .. HashSize)
      OBVIOUS
    <3> QED
      BY <1>1, <3>1, LeastExists
  <2>2. n # 0
    <3>1. Passes([k \in 0 .. 0 |-> <<>>], r, h, wanted, 0)
      BY DEF Passes
    <3> QED
      BY <3>1
  <2>3. n \in 0 .. HashSize /\ n - 1 \in 0 .. HashSize /\ n - 1 \notin Undone
    BY <1>1, <2>1, <2>2
  <2>4. PICK g : Passes(g, r, h, wanted, n - 1)
    BY <2>3
  <2> DEFINE more == [k \in 0 .. n |-> IF k = n THEN Visit(r, g[n - 1], wanted, Clockwise(h, n - 1))
                                       ELSE g[k]]
  <2>5. \A k \in 0 .. n - 1 :
           g[k] = IF k = 0 THEN <<>> ELSE Visit(r, g[k - 1], wanted, Clockwise(h, k - 1))
    BY <2>3, <2>4 DEF Passes
  <2>6. ASSUME NEW k \in 0 .. n
        PROVE  more[k] = IF k = 0 THEN <<>>
                         ELSE Visit(r, more[k - 1], wanted, Clockwise(h, k - 1))
    <3>1. CASE k = n
      <4>1. n - 1 \in 0 .. n /\ n - 1 # n
        BY <2>2, <2>3
      <4>2. more[n - 1] = g[n - 1]
        BY <4>1
      <4> QED
        BY <2>2, <3>1, <4>2
    <3>2. CASE k # n
      <4>1. k \in 0 .. n - 1 /\ more[k] = g[k] /\ (k # 0 => more[k - 1] = g[k - 1])
        BY <2>3, <3>2
      <4> QED
        BY <2>5, <4>1
    <3> QED
      BY <3>1, <3>2
  <2>7. Passes(more, r, h, wanted, n)
    BY <2>6 DEF Passes
  <2> QED
    BY <2>1, <2>7
<1>3. \E g : Passes(g, r, h, wanted, HashSize)
  BY <1>1, <1>2
<1> DEFINE nodes == CHOOSE g : Passes(g, r, h, wanted, HashSize)
<1>4. Passes(nodes, r, h, wanted, HashSize)
  BY <1>3
<1>5. Walk(r, h, wanted) = nodes[HashSize]
  BY DEF Walk, Passes
<1> QED
  BY <1>4, <1>5

LEMMA PassByPass ==
  ASSUME NEW g, NEW r, NEW h, NEW wanted, Passes(g, r, h, wanted, HashSize)
  PROVE  /\ g[0] = <<>>
         /\ \A k \in 0 .. HashSize - 1 : g[k + 1] = Visit(r, g[k], wanted, Clockwise(h, k))
<1>1. HashSize \in Nat
  BY HashSizeIsNat
<1>2. \A k \in 0 .. HashSize :
         g[k] = IF k = 0 THEN <<>> ELSE Visit(r, g[k - 1], wanted, Clockwise(h, k - 1))
  BY DEF Passes
<1>3. ASSUME NEW k \in 0 .. HashSize - 1
      PROVE  g[k + 1] = Visit(r, g[k], wanted, Clockwise(h, k))
  <2>1. k + 1 \in 0 .. HashSize /\ k + 1 # 0 /\ (k + 1) - 1 = k
    BY <1>1
  <2> QED
    BY <1>2, <2>1
<1>4. g[0] = <<>>
  BY <1>1, <1>2
<1> QED
  BY <1>3, <1>4

\* The members with a point among the first k positions from h on.
Met(h, k) == {m \in members : Nearness(m, h) < k}

\* What the ring shows at one position.
LEMMA PointOnRing ==
  ASSUME Placed, NoCollision, NEW p \in DOMAIN ring
  PROVE  ring[p] \in members /\ p \in PointsOf(ring[p])
<1>1. PICK s \in members : p \in PointsOf(s)
  BY DEF Placed
<1> QED
  BY <1>1 DEF Placed

\* One position more adds the server there, which is new or met before.
LEMMA MetNext ==
  ASSUME Placed, NoCollision, NEW h \in Hash, NEW k \in 0 .. HashSize - 1
  PROVE  Met(h, k + 1) = Met(h, k) \union
           (IF Clockwise(h, k) \in DOMAIN ring THEN {ring[Clockwise(h, k)]} ELSE {})
<1> DEFINE p == Clockwise(h, k)
<1>0. k \in Int /\ members \subseteq Server /\ point \in Placement
  BY HashSizeIsNat DEF Placed
<1>1. \A m \in members : /\ Nearness(m, h) \in 0 .. HashSize - 1
                         /\ \E q \in PointsOf(m) : Distance(q, h) = Nearness(m, h)
                         /\ \A q \in PointsOf(m) : Nearness(m, h) <= Distance(q, h)
  BY <1>0, NearestPoint
<1>2. p \in Hash /\ Distance(p, h) = k
  BY OneTurn
<1>3. ASSUME NEW m \in members, Nearness(m, h) = k
      PROVE  p \in DOMAIN ring /\ ring[p] = m
  <2>1. PICK q \in PointsOf(m) : Distance(q, h) = k
    BY <1>1, <1>3
  <2>2. q \in Hash
    BY <1>0, PointsOnRing
  <2>3. p = q
    BY <2>1, <2>2, OneTurn
  <2> QED
    BY <2>1, <2>3 DEF Placed
<1>4. p \in DOMAIN ring => ring[p] \in members /\ Nearness(ring[p], h) < k + 1
  <2> SUFFICES ASSUME p \in DOMAIN ring PROVE ring[p] \in members /\ Nearness(ring[p], h) < k + 1
    OBVIOUS
  <2>1. ring[p] \in members /\ p \in PointsOf(ring[p])
    BY PointOnRing
  <2>2. Nearness(ring[p], h) <= k /\ Nearness(ring[p], h) \in 0 .. HashSize - 1
    BY <1>1, <1>2, <2>1
  <2> QED
    BY <1>0, <2>1, <2>2, HashSizeIsNat
<1> HIDE DEF p
<1>5. \A m \in members : Nearness(m, h) < k + 1 <=> Nearness(m, h) < k \/ Nearness(m, h) = k
  BY <1>0, <1>1, HashSizeIsNat
<1>6. Met(h, k + 1) = Met(h, k) \union (IF p \in DOMAIN ring THEN {ring[p]} ELSE {})
  BY <1>3, <1>4, <1>5 DEF Met
<1> QED
  BY <1>6 DEF p

\* A first server that is met after k steps is the one that getNode finds.
LEMMA FirstIsGetNode ==
  ASSUME Placed, NoCollision, NEW h \in Hash, NEW k \in 0 .. HashSize - 1,
         Clockwise(h, k) \in DOMAIN ring, Met(h, k) = {}
  PROVE  getNode(ring, h) = ring[Clockwise(h, k)]
<1> DEFINE D == {Distance(q, h) : q \in DOMAIN ring}
<1>0. k \in Int /\ HashSize - 1 \in Nat /\ members \subseteq Server /\ point \in Placement
  BY HashSizeIsNat DEF Placed
<1>1. \A q \in DOMAIN ring : /\ Distance(q, h) \in 0 .. HashSize - 1
                             /\ k <= Distance(q, h)
  <2> TAKE q \in DOMAIN ring
  <2>1. ring[q] \in members /\ q \in PointsOf(ring[q])
    BY PointOnRing
  <2>2. q \in Hash
    BY <1>0, <2>1, PointsOnRing
  <2>3. Distance(q, h) \in 0 .. HashSize - 1
    BY <2>2, OneTurn
  <2>4. Nearness(ring[q], h) <= Distance(q, h) /\ Nearness(ring[q], h) \in 0 .. HashSize - 1
    BY <1>0, <2>1, NearestPoint
  <2>5. ~(Nearness(ring[q], h) < k)
    BY <2>1 DEF Met
  <2> QED
    BY <1>0, <2>3, <2>4, <2>5
<1>2. k \in D
  BY OneTurn
<1>3. D \in SUBSET (0 .. HashSize - 1) /\ \A d \in D : k <= d
  BY <1>1
<1> HIDE DEF D
<1>4. Min(D) \in D /\ Min(D) <= k
  BY <1>0, <1>2, <1>3, LeastExists
<1>5. Min(D) = k
  <2>1. k <= Min(D) /\ Min(D) \in 0 .. HashSize - 1
    BY <1>3, <1>4
  <2> QED
    BY <1>0, <1>4, <2>1
<1> QED
  BY <1>5 DEF getNode, D

\* The list after k positions: the servers met so far, or enough of them.
ListSoFar(list, h, wanted, k) ==
  /\ list \in Seq(Server)
  /\ IsInjective(list)
  /\ IsFiniteSet(ToSet(list)) /\ Cardinality(ToSet(list)) = Len(list)
  /\ Len(list) <= wanted
  /\ list # <<>> => Head(list) = getNode(ring, h)
  /\ \E j \in 0 .. k : ToSet(list) = Met(h, j) /\ (j = k \/ Len(list) = wanted)

\* A server that is not on the list yet goes to its end.
LEMMA AppendNew ==
  ASSUME NEW list \in Seq(Server), NEW s \in Server, ~Contains(list, s), IsInjective(list),
         IsFiniteSet(ToSet(list)), Cardinality(ToSet(list)) = Len(list)
  PROVE  LET longer == Append(list, s)
         IN  /\ longer \in Seq(Server) /\ longer # <<>> /\ Len(longer) = Len(list) + 1
             /\ IsInjective(longer)
             /\ ToSet(longer) = ToSet(list) \union {s}
             /\ IsFiniteSet(ToSet(longer)) /\ Cardinality(ToSet(longer)) = Len(longer)
             /\ Head(longer) = IF list = <<>> THEN s ELSE Head(list)
<1> DEFINE longer == Append(list, s)
<1>1. /\ longer \in Seq(Server) /\ Len(longer) = Len(list) + 1 /\ Len(list) \in Nat
      /\ \A i \in 1 .. Len(list) : longer[i] = list[i]
      /\ longer[Len(list) + 1] = s
      /\ DOMAIN longer = 1 .. Len(list) + 1 /\ DOMAIN list = 1 .. Len(list)
  OBVIOUS
<1> HIDE DEF longer
<1>2. longer # <<>>
  <2>1. Len(longer) # Len(<<>>)
    BY <1>1
  <2> QED
    BY <2>1
<1>3. \A i \in 1 .. Len(list) : list[i] # s
  BY DEF Contains
<1>4. \A i \in 1 .. Len(list) + 1 : i \in 1 .. Len(list) \/ i = Len(list) + 1
  BY <1>1
<1>5. IsInjective(longer)
  BY <1>1, <1>3, <1>4 DEF IsInjective
<1>6. ToSet(longer) = ToSet(list) \union {s}
  <2>1. ASSUME NEW i \in DOMAIN longer
        PROVE  longer[i] \in ToSet(list) \union {s}
    BY <1>1, <1>4 DEF ToSet
  <2>2. ToSet(list) \subseteq ToSet(longer)
    <3>1. \A i \in DOMAIN list : i \in DOMAIN longer /\ longer[i] = list[i]
      BY <1>1
    <3> QED
      BY <3>1 DEF ToSet
  <2>3. s \in ToSet(longer)
    <3>1. Len(list) + 1 \in DOMAIN longer
      BY <1>1
    <3> QED
      BY <1>1, <3>1 DEF ToSet
  <2> QED
    BY <2>1, <2>2, <2>3 DEF ToSet
<1>7. s \notin ToSet(list)
  BY <1>1, <1>3 DEF ToSet
<1>8. IsFiniteSet(ToSet(longer)) /\ Cardinality(ToSet(longer)) = Len(list) + 1
  BY <1>6, <1>7, FS_AddElement
<1>9. Head(longer) = IF list = <<>> THEN s ELSE Head(list)
  <2>1. Head(longer) = longer[1]
    BY <1>1, <1>2
  <2>2. CASE list = <<>>
    BY <1>1, <2>1, <2>2
  <2>3. CASE list # <<>>
    <3>1. Len(list) # 0 /\ Head(list) = list[1]
      BY <2>3
    <3> QED
      BY <1>1, <2>1, <2>3, <3>1
  <2> QED
    BY <2>2, <2>3
<1> QED
  BY <1>1, <1>2, <1>5, <1>6, <1>8, <1>9 DEF longer

LEMMA ListGrows ==
  ASSUME Placed, NoCollision, NEW h \in Hash, NEW wanted \in Nat \ {0},
         NEW k \in 0 .. HashSize - 1, NEW list, ListSoFar(list, h, wanted, k)
  PROVE  ListSoFar(Visit(ring, list, wanted, Clockwise(h, k)), h, wanted, k + 1)
<1> DEFINE p == Clockwise(h, k)
           longer == Visit(ring, list, wanted, p)
<1>0. /\ HashSize \in Nat /\ k \in Int /\ 0 .. k \subseteq 0 .. k + 1 /\ k + 1 \in 0 .. k + 1
      /\ Len(list) \in Nat /\ list \in Seq(Server) /\ DOMAIN list = 1 .. Len(list)
      /\ members \subseteq Server
  BY HashSizeIsNat DEF ListSoFar, Placed
<1>1. CASE Len(list) = wanted
  <2>1. list # <<>> /\ Len(list) >= wanted
    <3>1. Len(list) # Len(<<>>)
      BY <1>1
    <3> QED
      BY <1>0, <1>1, <3>1
  <2>2. longer = list
    BY <2>1 DEF Visit
  <2> QED
    BY <1>0, <1>1, <2>2 DEF ListSoFar
<1>2. CASE Len(list) # wanted
  <2>1. ToSet(list) = Met(h, k) /\ Len(list) + 1 <= wanted
    BY <1>0, <1>2 DEF ListSoFar
  <2>2. Met(h, k + 1) = Met(h, k) \union (IF p \in DOMAIN ring THEN {ring[p]} ELSE {})
    BY MetNext
  <2>3. \A s : Contains(list, s) <=> s \in ToSet(list)
    BY <1>0 DEF Contains, ToSet
  <2>4. CASE p \notin DOMAIN ring \/ Contains(list, ring[p])
    <3>1. longer = list
      BY <2>4 DEF Visit
    <3>2. Met(h, k + 1) = Met(h, k)
      BY <2>1, <2>2, <2>3, <2>4
    <3> QED
      BY <1>0, <2>1, <3>1, <3>2 DEF ListSoFar
  <2>5. CASE p \in DOMAIN ring /\ ~Contains(list, ring[p])
    <3>1. ring[p] \in Server
      BY <1>0, <2>5, PointOnRing
    <3>2. longer = Append(list, ring[p])
      <4>1. ~(list # <<>> /\ Len(list) >= wanted)
        BY <1>0, <2>1
      <4> QED
        BY <2>5, <4>1 DEF Visit
    <3>3. /\ longer \in Seq(Server) /\ Len(longer) = Len(list) + 1 /\ IsInjective(longer)
          /\ ToSet(longer) = ToSet(list) \union {ring[p]}
          /\ IsFiniteSet(ToSet(longer)) /\ Cardinality(ToSet(longer)) = Len(longer)
          /\ Head(longer) = IF list = <<>> THEN ring[p] ELSE Head(list)
      <4> HIDE DEF longer, p
      <4> QED
        BY <1>0, <2>5, <3>1, <3>2, AppendNew DEF ListSoFar
    <3>4. list = <<>> => getNode(ring, h) = ring[p]
      <4> SUFFICES ASSUME list = <<>> PROVE getNode(ring, h) = ring[p]
        OBVIOUS
      <4>1. ToSet(list) = {}
        BY <1>0 DEF ToSet
      <4> QED
        BY <2>1, <2>5, <4>1, FirstIsGetNode
    <3>5. Head(longer) = getNode(ring, h)
      BY <3>3, <3>4 DEF ListSoFar
    <3>6. ToSet(longer) = Met(h, k + 1)
      BY <2>1, <2>2, <2>5, <3>3
    <3>7. ListSoFar(longer, h, wanted, k + 1)
      <4> HIDE DEF longer, p
      <4> QED
        BY <1>0, <2>1, <3>3, <3>5, <3>6 DEF ListSoFar
    <3> QED
      BY <3>7
  <2> QED
    BY <2>4, <2>5
<1> QED
  BY <1>1, <1>2

\* After one turn the list names the nearest members, as many as wanted.
LEMMA WholeWalk ==
  ASSUME Placed, NoCollision, NEW h \in Hash, NEW wanted \in Nat \ {0}
  PROVE  ListSoFar(Walk(ring, h, wanted), h, wanted, HashSize)
<1>0. HashSize \in Nat /\ point \in Placement /\ members \subseteq Server
  BY HashSizeIsNat DEF Placed
<1>1. PICK g : Passes(g, ring, h, wanted, HashSize) /\ Walk(ring, h, wanted) = g[HashSize]
  BY WalkIsPasses
<1>2. /\ g[0] = <<>>
      /\ \A k \in 0 .. HashSize - 1 : g[k + 1] = Visit(ring, g[k], wanted, Clockwise(h, k))
  BY <1>1, PassByPass
<1>3. ListSoFar(g[0], h, wanted, 0)
  <2>1. Met(h, 0) = {}
    <3>1. \A m \in members : Nearness(m, h) \in 0 .. HashSize - 1
      BY <1>0, NearestPoint
    <3>2. \A m \in members : ~(Nearness(m, h) < 0)
      BY <1>0, <3>1
    <3> QED
      BY <3>2 DEF Met
  <2>2. /\ g[0] \in Seq(Server) /\ Len(g[0]) = 0 /\ ToSet(g[0]) = {} /\ IsInjective(g[0])
    BY <1>2 DEF ToSet, IsInjective
  <2>3. \E j \in 0 .. 0 : ToSet(g[0]) = Met(h, j) /\ j = 0
    BY <2>1, <2>2
  <2>4. IsFiniteSet(ToSet(g[0])) /\ Cardinality(ToSet(g[0])) = Len(g[0]) /\ Len(g[0]) <= wanted
    BY <2>2, FS_EmptySet
  <2> QED
    BY <1>2, <2>2, <2>3, <2>4 DEF ListSoFar
<1> DEFINE Bad == {k \in 0 .. HashSize : ~ListSoFar(g[k], h, wanted, k)}
<1>4. Bad = {}
  <2> SUFFICES ASSUME Bad # {} PROVE FALSE
    OBVIOUS
  <2>1. PICK k \in Bad : \A m \in Bad : k <= m
    <3>1. Bad \in SUBSET (0 .. HashSize)
      OBVIOUS
    <3> QED
      BY <1>0, <3>1, LeastExists
  <2>2. k # 0 /\ k \in 0 .. HashSize
    BY <1>3, <2>1
  <2>3. k - 1 \in 0 .. HashSize - 1 /\ k - 1 \notin Bad /\ (k - 1) + 1 = k
    BY <1>0, <2>1, <2>2
  <2>4. ListSoFar(g[k - 1], h, wanted, k - 1)
    BY <1>0, <2>3
  <2>5. ListSoFar(Visit(ring, g[k - 1], wanted, Clockwise(h, k - 1)), h, wanted, (k - 1) + 1)
    BY <2>3, <2>4, ListGrows
  <2>6. g[k] = Visit(ring, g[k - 1], wanted, Clockwise(h, k - 1))
    BY <1>2, <2>3
  <2> QED
    BY <2>1, <2>3, <2>5, <2>6
<1>5. HashSize \in 0 .. HashSize
  BY <1>0
<1> QED
  BY <1>1, <1>4, <1>5

-----------------------------------------------------------------------------
(* Whose keys *)

\* The members that come nearer behind h than s does.
Nearer(ms, s, h) == {m \in ms : Nearness(m, h) < Nearness(s, h)}

LEMMA NearerIsFinite ==
  ASSUME NEW ms \in SUBSET Server, NEW s, NEW h
  PROVE  IsFiniteSet(Nearer(ms, s, h)) /\ Cardinality(Nearer(ms, s, h)) \in Nat
<1>1. IsFiniteSet(Nearer(ms, s, h))
  BY ServersFinite, FS_Subset DEF Nearer
<1> QED
  BY <1>1, FS_CardinalityType

\* The servers of the list are those with fewer than wanted nearer members.
LEMMA WalkIsNearest ==
  ASSUME Placed, NoCollision, NEW h \in Hash, NEW wanted \in Nat \ {0}, NEW s \in Server
  PROVE  Contains(Walk(ring, h, wanted), s) <=>
           s \in members /\ Cardinality(Nearer(members, s, h)) < wanted
<1> DEFINE list == Walk(ring, h, wanted)
           nearer == Nearer(members, s, h)
<1>0. /\ HashSize \in Nat /\ point \in Placement /\ members \in SUBSET Server
      /\ IsFiniteSet(members) /\ IsFiniteSet(nearer) /\ Cardinality(nearer) \in Nat
  BY HashSizeIsNat, ServersFinite, FS_Subset, NearerIsFinite DEF Placed
<1>1. ListSoFar(list, h, wanted, HashSize)
  BY WholeWalk
<1> HIDE DEF list
<1>2. Contains(list, s) <=> s \in ToSet(list)
  BY <1>1 DEF ListSoFar, Contains, ToSet
<1>3. PICK j \in 0 .. HashSize : ToSet(list) = Met(h, j) /\ (j = HashSize \/ Len(list) = wanted)
  BY <1>1 DEF ListSoFar
<1>4. /\ IsFiniteSet(ToSet(list)) /\ Cardinality(ToSet(list)) = Len(list)
      /\ Len(list) <= wanted /\ Len(list) \in Nat
  BY <1>1 DEF ListSoFar
<1>5. \A m \in members : Nearness(m, h) \in 0 .. HashSize - 1
  BY <1>0, NearestPoint
<1>6. ASSUME s \in ToSet(list)
      PROVE  s \in members /\ Cardinality(nearer) < wanted
  <2>1. s \in members /\ Nearness(s, h) < j
    BY <1>3, <1>6 DEF Met
  <2>2. nearer \in SUBSET ToSet(list)
    BY <1>0, <1>3, <1>5, <2>1 DEF Met, Nearer
  <2>3. s \notin nearer
    BY <1>5, <2>1 DEF Nearer
  <2>4. Cardinality(nearer) <= Len(list) /\ (Len(list) = Cardinality(nearer) => ToSet(list) = nearer)
    BY <1>4, <2>2, FS_Subset
  <2> QED
    BY <1>0, <1>4, <1>6, <2>1, <2>3, <2>4
<1>7. ASSUME s \in members, Cardinality(nearer) < wanted, s \notin ToSet(list)
      PROVE  FALSE
  <2>1. ~(Nearness(s, h) < j)
    BY <1>3, <1>7 DEF Met
  <2>2. j # HashSize
    BY <1>0, <1>5, <1>7, <2>1
  <2>3. ToSet(list) \in SUBSET nearer
    BY <1>0, <1>3, <1>5, <1>7, <2>1 DEF Met, Nearer
  <2>4. Len(list) <= Cardinality(nearer)
    BY <1>0, <1>4, <2>3, FS_Subset
  <2> QED
    BY <1>0, <1>3, <1>7, <2>2, <2>4
<1> QED
  BY <1>2, <1>6, <1>7 DEF list

\* How long the list is.
LEMMA WalkLength ==
  ASSUME Placed, NoCollision, NEW h \in Hash, NEW wanted \in Nat \ {0}
  PROVE  LET list == Walk(ring, h, wanted)
             all == Cardinality(members)
         IN  /\ Len(list) = IF wanted < all THEN wanted ELSE all
             /\ IsInjective(list)
             /\ list # <<>> => Head(list) = getNode(ring, h)
             /\ wanted >= all => ToSet(list) = members
<1> DEFINE list == Walk(ring, h, wanted)
           all == Cardinality(members)
<1>0. /\ HashSize \in Nat /\ point \in Placement /\ members \in SUBSET Server
      /\ IsFiniteSet(members) /\ all \in Nat
  BY HashSizeIsNat, ServersFinite, FS_Subset, FS_CardinalityType DEF Placed
<1>1. ListSoFar(list, h, wanted, HashSize)
  BY WholeWalk
<1> HIDE DEF list
<1>2. PICK j \in 0 .. HashSize : ToSet(list) = Met(h, j) /\ (j = HashSize \/ Len(list) = wanted)
  BY <1>1 DEF ListSoFar
<1>3. /\ Cardinality(ToSet(list)) = Len(list) /\ Len(list) <= wanted /\ Len(list) \in Nat
  BY <1>1 DEF ListSoFar
<1>4. ToSet(list) \in SUBSET members
  BY <1>2 DEF Met
<1>5. Len(list) <= all /\ (all = Len(list) => ToSet(list) = members)
  BY <1>0, <1>3, <1>4, FS_Subset
<1>6. j = HashSize => ToSet(list) = members
  <2>1. \A m \in members : Nearness(m, h) \in 0 .. HashSize - 1
    BY <1>0, NearestPoint
  <2>2. \A m \in members : Nearness(m, h) < HashSize
    BY <1>0, <2>1
  <2> QED
    BY <1>2, <2>2 DEF Met
<1>7. Len(list) = wanted \/ Len(list) = all
  BY <1>2, <1>3, <1>6
<1> HIDE DEF all
<1>8. Len(list) = IF wanted < all THEN wanted ELSE all
  BY <1>0, <1>3, <1>5, <1>7
<1>9. wanted >= all => ToSet(list) = members
  BY <1>0, <1>5, <1>8
<1> QED
  BY <1>1, <1>8, <1>9 DEF ListSoFar, list, all

LEMMA PlacedIsNearest == Placed => BelongsIsNearest
<1> SUFFICES ASSUME Placed, NoCollision, NEW h \in Hash, NEW s \in Server,
                    NEW n \in 1 .. Cardinality(Server)
             PROVE  checkDataBelonging(ring, h, s, n) <=>
                      /\ s \in members
                      /\ Cardinality({m \in members : Nearness(m, h) < Nearness(s, h)}) < n
  BY DEF BelongsIsNearest
<1>1. n \in Nat \ {0}
  BY ServersFinite, FS_CardinalityType
<1> QED
  BY <1>1, WalkIsNearest DEF checkDataBelonging, Nearer

(* The walk of checkDataBelonging along the map answers, for any number of   *)
(* servers, virtual nodes and positions, whether fewer than num_replicas     *)
(* other members come nearer behind the key.                                 *)
THEOREM KeysBelongToTheNearest == Spec => []BelongsIsNearest
  BY PlacedAlways, PlacedIsNearest, PTL

-----------------------------------------------------------------------------
(* The preference list *)

\* A ring without points gives an empty list.
LEMMA EmptyRing ==
  ASSUME NEW r, DOMAIN r = {}, NEW h, NEW wanted
  PROVE  Walk(r, h, wanted) = <<>>
<1>0. HashSize \in Nat
  BY HashSizeIsNat
<1>1. PICK g : Passes(g, r, h, wanted, HashSize) /\ Walk(r, h, wanted) = g[HashSize]
  BY WalkIsPasses
<1>2. g[0] = <<>> /\ \A k \in 0 .. HashSize - 1 : g[k + 1] = g[k]
  BY <1>1, PassByPass DEF Visit
<1> DEFINE Bad == {k \in 0 .. HashSize : g[k] # <<>>}
<1>3. Bad = {}
  <2> SUFFICES ASSUME Bad # {} PROVE FALSE
    OBVIOUS
  <2>1. PICK k \in Bad : \A m \in Bad : k <= m
    <3>1. Bad \in SUBSET (0 .. HashSize)
      OBVIOUS
    <3> QED
      BY <1>0, <3>1, LeastExists
  <2>2. k # 0 /\ k \in 0 .. HashSize
    BY <1>2, <2>1
  <2>3. k - 1 \in 0 .. HashSize - 1 /\ k - 1 \notin Bad /\ (k - 1) + 1 = k
    BY <1>0, <2>1, <2>2
  <2>4. g[k - 1] = <<>>
    BY <1>0, <2>3
  <2> QED
    BY <1>2, <2>1, <2>3, <2>4
<1>4. HashSize \in 0 .. HashSize
  BY <1>0
<1> QED
  BY <1>1, <1>3, <1>4

\* node_count_ is never too small while only members have left.
CounterIsEnough == ~stray => node_count_ >= Cardinality(members)

LEMMA CounterStep ==
  ASSUME TypeOK, CounterIsEnough, [Next]_vars
  PROVE  CounterIsEnough'
<1>1. /\ IsFiniteSet(members) /\ Cardinality(members) \in Nat
      /\ node_count_ \in Int
  <2>1. members \in SUBSET Server
    BY DEF TypeOK
  <2>2. IsFiniteSet(members)
    BY <2>1, ServersFinite, FS_Subset
  <2> QED
    BY <2>2, FS_CardinalityType, CounterRange DEF TypeOK
<1>2. ASSUME NEW s \in Server, addNode(s)
      PROVE  CounterIsEnough'
  <2>1. Cardinality(members') <= Cardinality(members) + 1
    BY <1>1, <1>2, FS_AddElement DEF addNode
  <2>2. Cardinality(members') \in Nat
    BY <1>1, <1>2, FS_AddElement, FS_CardinalityType DEF addNode
  <2> QED
    BY <1>1, <1>2, <2>1, <2>2 DEF CounterIsEnough, addNode
<1>3. ASSUME NEW s \in Server, removeNode(s)
      PROVE  CounterIsEnough'
  <2>1. SUFFICES ASSUME ~stray' PROVE node_count_' >= Cardinality(members')
    BY DEF CounterIsEnough
  <2>2. s \in members /\ ~stray
    BY <1>3, <2>1 DEF removeNode
  <2>3. Cardinality(members') = Cardinality(members) - 1
    BY <1>1, <1>3, <2>2, FS_RemoveElement DEF removeNode
  <2> QED
    BY <1>1, <1>3, <2>2, <2>3 DEF CounterIsEnough, removeNode
<1>4. CASE UNCHANGED vars
  BY <1>4 DEF vars, CounterIsEnough
<1> QED
  BY <1>2, <1>3, <1>4 DEF Next

LEMMA EnoughIsFull == TypeOK /\ Placed /\ CounterIsEnough => ListIsFull
<1> SUFFICES ASSUME TypeOK, Placed, CounterIsEnough, NoCollision, ~stray,
                    NEW h \in Hash, NEW n \in 1 .. Cardinality(Server)
             PROVE  LET list == getReplicasNodes(ring, node_count_, h, n)
                        all == Cardinality(members)
                    IN  /\ Len(list) = IF n < all THEN n ELSE all
                        /\ IsInjective(list)
                        /\ list # <<>> => Head(list) = getNode(ring, h)
                        /\ ToSet(list) = Owners(ring, h, n)
  BY DEF ListIsFull
<1> DEFINE cut == IF node_count_ < n THEN node_count_ ELSE n
           all == Cardinality(members)
<1>0. /\ IsFiniteSet(members) /\ all \in Nat /\ node_count_ \in Int /\ node_count_ >= all
      /\ n \in Nat \ {0} /\ Cardinality(Server) \in Nat /\ HashSize \in Nat
      /\ n < HashSize
  <2>1. members \in SUBSET Server
    BY DEF TypeOK
  <2>2. IsFiniteSet(members) /\ Cardinality(Server) \in Nat
    BY <2>1, ServersFinite, FS_Subset, FS_CardinalityType
  <2>3. all \in Nat /\ node_count_ \in Int
    BY <2>2, FS_CardinalityType, CounterRange DEF TypeOK
  <2> QED
    BY <2>2, <2>3, HashSizeIsNat, FewServers DEF CounterIsEnough
<1>1. getReplicasNodes(ring, node_count_, h, n) = Walk(ring, h, cut)
  <2>1. cut \in 0 .. HashSize - 1
    BY <1>0
  <2>2. cut % HashSize = cut
    BY <2>1, Remainders
  <2> QED
    BY <2>2 DEF getReplicasNodes, Unsigned
<1>2. CASE members = {}
  <2>1. DOMAIN ring = {}
    BY <1>2 DEF Placed
  <2>2. Walk(ring, h, cut) = <<>> /\ Walk(ring, h, n) = <<>>
    BY <2>1, EmptyRing
  <2>3. all = 0
    BY <1>2, FS_EmptySet
  <2>4. IsInjective(<<>>)
    BY DEF IsInjective
  <2> QED
    BY <1>0, <1>1, <2>2, <2>3, <2>4 DEF Owners
<1>3. CASE members # {}
  <2>1. all # 0
    BY <1>0, <1>3, FS_EmptySet
  <2>2. cut \in Nat \ {0} /\ (cut # n => cut >= all /\ n >= all)
    BY <1>0, <2>1
  <2> DEFINE list == Walk(ring, h, cut)
  <2>3. /\ Len(list) = IF cut < all THEN cut ELSE all
        /\ IsInjective(list)
        /\ list # <<>> => Head(list) = getNode(ring, h)
        /\ cut >= all => ToSet(list) = members
    <3> HIDE DEF cut
    <3> QED
      BY <2>2, WalkLength
  <2>4. n >= all => ToSet(Walk(ring, h, n)) = members
    BY <1>0, WalkLength
  <2>5. Len(list) = IF n < all THEN n ELSE all
    <3> HIDE DEF list, all
    <3> QED
      BY <1>0, <2>2, <2>3
  <2>6. ToSet(list) = Owners(ring, h, n)
    <3>1. CASE cut = n
      BY <3>1 DEF Owners
    <3>2. CASE cut # n
      BY <2>2, <2>3, <2>4, <3>2 DEF Owners
    <3> QED
      BY <3>1, <3>2
  <2> HIDE DEF list
  <2>7. getReplicasNodes(ring, node_count_, h, n) = list
    BY <1>1 DEF list
  <2> QED
    BY <2>3, <2>5, <2>6, <2>7
<1> QED
  BY <1>2, <1>3

(* While only members leave, every preference list is as long as asked for   *)
(* or names all members, without repetition, getNode's server first, and     *)
(* agrees with checkDataBelonging: node_count_, which is counted beside the  *)
(* ring, never cuts it short.                                                *)
THEOREM PreferenceListsAreFull == Spec => []ListIsFull
<1>1. Init => CounterIsEnough
  BY FS_EmptySet DEF Init, CounterIsEnough
<1>2. TypeOK /\ CounterIsEnough /\ [Next]_vars => CounterIsEnough'
  BY CounterStep
<1> QED
  BY <1>1, <1>2, TypeCorrect, PlacedAlways, EnoughIsFull, PTL DEF Spec

-----------------------------------------------------------------------------
(* One more server, one less *)

\* The servers among ms that would own a key at h if ms were the members.
Own(ms, h, n) == {s \in ms : Cardinality(Nearer(ms, s, h)) < n}

OwnersAreOwn ==
  NoCollision =>
    \A h \in Hash, n \in 1 .. Cardinality(Server) : Owners(ring, h, n) = Own(members, h, n)

LEMMA PlacedOwners == Placed => OwnersAreOwn
<1> SUFFICES ASSUME Placed, NoCollision, NEW h \in Hash, NEW n \in 1 .. Cardinality(Server)
             PROVE  Owners(ring, h, n) = Own(members, h, n)
  BY DEF OwnersAreOwn
<1>1. n \in Nat \ {0} /\ members \subseteq Server
  BY ServersFinite, FS_CardinalityType DEF Placed
<1>2. Walk(ring, h, n) \in Seq(Server)
  BY <1>1, WholeWalk DEF ListSoFar
<1>3. ToSet(Walk(ring, h, n)) \subseteq Server
  BY <1>2 DEF ToSet
<1>4. \A s : s \in ToSet(Walk(ring, h, n)) <=> Contains(Walk(ring, h, n), s)
  BY <1>2 DEF ToSet, Contains
<1>5. \A s \in Server : s \in Owners(ring, h, n) <=> s \in Own(members, h, n)
  BY <1>1, <1>4, WalkIsNearest DEF Owners, Own
<1> QED
  BY <1>1, <1>3, <1>5 DEF Owners, Own

LEMMA PlacedOwnersNext == Placed' => OwnersAreOwn'
  BY PlacedOwners, PTL

\* Two servers are not equally near.
LEMMA NearnessDiffers ==
  ASSUME point \in Placement, NoCollision, NEW h \in Hash,
         NEW s \in Server, NEW t \in Server, Nearness(s, h) = Nearness(t, h)
  PROVE  s = t
<1>1. PICK p \in PointsOf(s) : Distance(p, h) = Nearness(s, h)
  BY NearestPoint
<1>2. PICK q \in PointsOf(t) : Distance(q, h) = Nearness(t, h)
  BY NearestPoint
<1>3. p \in Hash /\ q \in Hash
  BY <1>1, <1>2, PointsOnRing
<1>4. p = q
  BY <1>1, <1>2, <1>3, OneTurn
<1> QED
  BY <1>1, <1>2, <1>4, PointsApart

\* When s comes, only s gets the key and at most one server gives it up.
LEMMA OneMore ==
  ASSUME point \in Placement, NoCollision, NEW h \in Hash, NEW n \in Nat,
         NEW ms \in SUBSET Server, NEW s \in Server, s \notin ms
  PROVE  /\ Own(ms \union {s}, h, n) \ Own(ms, h, n) \subseteq {s}
         /\ Own(ms, h, n) \ Own(ms \union {s}, h, n) \subseteq ms
         /\ \A t, u \in Own(ms, h, n) \ Own(ms \union {s}, h, n) : t = u
<1> DEFINE more == ms \union {s}
<1>1. \A t \in Server : Nearness(t, h) \in Int
  BY NearestPoint, HashSizeIsNat
<1>2. \A t : /\ IsFiniteSet(Nearer(ms, t, h)) /\ Cardinality(Nearer(ms, t, h)) \in Nat
             /\ IsFiniteSet(Nearer(more, t, h)) /\ Cardinality(Nearer(more, t, h)) \in Nat
  BY NearerIsFinite
<1>3. \A t : Cardinality(Nearer(ms, t, h)) <= Cardinality(Nearer(more, t, h))
  <2> TAKE t
  <2>1. Nearer(ms, t, h) \in SUBSET Nearer(more, t, h)
    BY DEF Nearer
  <2> QED
    BY <1>2, <2>1, FS_Subset
<1>4. \A t : Cardinality(Nearer(more, t, h)) <= Cardinality(Nearer(ms, t, h)) + 1
  <2> TAKE t
  <2>1. Nearer(more, t, h) \in SUBSET (Nearer(ms, t, h) \union {s})
    BY DEF Nearer
  <2>2. /\ IsFiniteSet(Nearer(ms, t, h) \union {s})
        /\ Cardinality(Nearer(ms, t, h) \union {s}) <= Cardinality(Nearer(ms, t, h)) + 1
    <3> DEFINE N == Nearer(ms, t, h)
    <3>1. IsFiniteSet(N) /\ Cardinality(N) \in Nat
      BY <1>2
    <3> HIDE DEF N
    <3>2. /\ IsFiniteSet(N \union {s})
          /\ Cardinality(N \union {s}) = IF s \in N THEN Cardinality(N) ELSE Cardinality(N) + 1
      BY <3>1, FS_AddElement
    <3>3. IsFiniteSet(N \union {s}) /\ Cardinality(N \union {s}) <= Cardinality(N) + 1
      BY <3>1, <3>2
    <3> QED
      BY <3>3 DEF N
  <2>3. /\ Cardinality(Nearer(more, t, h)) <= Cardinality(Nearer(ms, t, h) \union {s})
        /\ Cardinality(Nearer(ms, t, h) \union {s}) \in Nat
    BY <2>1, <2>2, FS_Subset, FS_CardinalityType
  <2> QED
    BY <1>2, <2>2, <2>3
<1>5. ASSUME NEW t \in ms, NEW u \in ms, Nearness(t, h) < Nearness(u, h)
      PROVE  Cardinality(Nearer(ms, t, h)) < Cardinality(Nearer(ms, u, h))
  <2>1. /\ Nearer(ms, t, h) \in SUBSET Nearer(ms, u, h)
        /\ t \in Nearer(ms, u, h) /\ t \notin Nearer(ms, t, h)
    BY <1>1, <1>5 DEF Nearer
  <2>2. /\ Cardinality(Nearer(ms, t, h)) <= Cardinality(Nearer(ms, u, h))
        /\ Cardinality(Nearer(ms, t, h)) # Cardinality(Nearer(ms, u, h))
    BY <1>2, <2>1, FS_Subset
  <2> QED
    BY <1>2, <2>2
<1> DEFINE gone == Own(ms, h, n) \ Own(more, h, n)
<1>6. \A t \in gone : t \in ms /\ Cardinality(Nearer(ms, t, h)) + 1 = n
  <2> TAKE t \in gone
  <2>1. t \in ms /\ Cardinality(Nearer(ms, t, h)) < n /\ ~(Cardinality(Nearer(more, t, h)) < n)
    BY DEF Own
  <2> HIDE DEF gone, more
  <2> QED
    BY <1>2, <1>4, <2>1
<1>7. ASSUME NEW t \in gone, NEW u \in gone
      PROVE  t = u
  <2>1. t \in ms /\ u \in ms /\ Cardinality(Nearer(ms, t, h)) = Cardinality(Nearer(ms, u, h))
    BY <1>2, <1>6
  <2> HIDE DEF gone
  <2>2. ~(Nearness(t, h) < Nearness(u, h)) /\ ~(Nearness(u, h) < Nearness(t, h))
    BY <1>2, <1>5, <2>1
  <2>3. Nearness(t, h) = Nearness(u, h)
    BY <1>1, <2>1, <2>2
  <2> QED
    BY <2>1, <2>3, NearnessDiffers
<1>8. Own(more, h, n) \ Own(ms, h, n) \subseteq {s}
  <2> SUFFICES ASSUME NEW t \in Own(more, h, n), t # s PROVE t \in Own(ms, h, n)
    OBVIOUS
  <2>1. t \in ms /\ Cardinality(Nearer(more, t, h)) < n
    BY DEF Own
  <2> HIDE DEF more
  <2>2. Cardinality(Nearer(ms, t, h)) < n
    BY <1>2, <1>3, <2>1
  <2> QED
    BY <2>1, <2>2 DEF Own
<1> QED
  BY <1>6, <1>7, <1>8

LEMMA AtMostOne ==
  ASSUME NEW S, \A x, y \in S : x = y
  PROVE  Cardinality(S) <= 1
<1>1. CASE S = {}
  BY <1>1, FS_EmptySet
<1>2. CASE S # {}
  <2>1. PICK x \in S : TRUE
    BY <1>2
  <2>2. S = {x}
    BY <2>1
  <2> QED
    BY <2>2, FS_Singleton
<1> QED
  BY <1>1, <1>2

\* What the property says of one key and one number of replicas.
OneTakesOver(before, after) ==
  /\ Cardinality(after \ before) <= 1
  /\ Cardinality(before \ after) <= 1
  /\ members \subseteq members' => after \ before \subseteq members' \ members
  /\ members' \subseteq members => before \ after \subseteq members \ members'

LEMMA TakeOverStep ==
  ASSUME Placed, OwnersAreOwn, OwnersAreOwn', Next, NoCollision,
         NEW h \in Hash, NEW n \in 1 .. Cardinality(Server)
  PROVE  OneTakesOver(Owners(ring, h, n), Owners(ring', h, n))
<1> DEFINE before == Owners(ring, h, n)
           after == Owners(ring', h, n)
<1>0. /\ point' = point /\ point \in Placement /\ members \in SUBSET Server
      /\ n \in Nat
  BY ServersFinite, FS_CardinalityType DEF Next, addNode, removeNode, Placed
<1>1. before = Own(members, h, n)
  BY DEF OwnersAreOwn
<1>2. after = Own(members', h, n)
  <2>1. NoCollision'
    BY <1>0 DEF NoCollision
  <2>2. after = Own(members, h, n)'
    BY <2>1 DEF OwnersAreOwn
  <2>3. \A s : Nearness(s, h)' = Nearness(s, h)
    BY <1>0 DEF Nearness, PointsOf
  <2> QED
    BY <2>2, <2>3 DEF Own, Nearer
<1> HIDE DEF before, after
<1>3. CASE members' = members
  <2>1. after = before
    BY <1>1, <1>2, <1>3
  <2>2. after \ before = {} /\ before \ after = {}
    BY <2>1
  <2> QED
    BY <2>2, FS_EmptySet DEF OneTakesOver, before, after
<1>4. ASSUME NEW s \in Server, s \notin members, members' = members \union {s}
      PROVE  OneTakesOver(before, after)
  <2>1. /\ after \ before \subseteq {s}
        /\ \A t, u \in before \ after : t = u
    BY <1>0, <1>1, <1>2, <1>4, OneMore
  <2>2. Cardinality(after \ before) <= 1 /\ Cardinality(before \ after) <= 1
    <3>1. \A t, u \in after \ before : t = u
      BY <2>1
    <3> QED
      BY <2>1, <3>1, AtMostOne
  <2> QED
    BY <1>4, <2>1, <2>2 DEF OneTakesOver
<1>5. ASSUME NEW s \in Server, s \in members, members' = members \ {s}
      PROVE  OneTakesOver(before, after)
  <2>1. members' \in SUBSET Server /\ s \notin members' /\ members = members' \union {s}
    BY <1>0, <1>5
  <2>2. /\ before \ after \subseteq {s}
        /\ \A t, u \in after \ before : t = u
    BY <1>0, <1>1, <1>2, <2>1, OneMore
  <2>3. Cardinality(after \ before) <= 1 /\ Cardinality(before \ after) <= 1
    <3>1. \A t, u \in before \ after : t = u
      BY <2>2
    <3> QED
      BY <2>2, <3>1, AtMostOne
  <2> QED
    BY <1>5, <2>1, <2>2, <2>3 DEF OneTakesOver
<1>6. \/ members' = members
      \/ \E s \in Server : s \notin members /\ members' = members \union {s}
      \/ \E s \in Server : s \in members /\ members' = members \ {s}
  BY DEF Next, addNode, removeNode
<1> QED
  BY <1>3, <1>4, <1>5, <1>6 DEF before, after

(* A join gives a key to the joiner only and takes it from one server at     *)
(* most; a leave takes it from the leaver only and gives it to one at most:  *)
(* what the transfers of JoinNetwork and leaveNetwork assume, for any number *)
(* of servers, virtual nodes and replicas.                                   *)
THEOREM OneTakesOverFromOne == Spec => OneServerTakesOver
<1>1. Placed /\ OwnersAreOwn /\ OwnersAreOwn' /\ [Next]_vars
        => [NoCollision /\ ring' # ring =>
              \A h \in Hash, n \in 1 .. Cardinality(Server) :
                LET before == Owners(ring, h, n)
                    after == Owners(ring', h, n)
                IN  /\ Cardinality(after \ before) <= 1
                    /\ Cardinality(before \ after) <= 1
                    /\ members \subseteq members' => after \ before \subseteq members' \ members
                    /\ members' \subseteq members => before \ after \subseteq members \ members']_vars
  BY TakeOverStep DEF OneTakesOver
<1> QED
  BY <1>1, PlacedAlways, PlacedOwners, PlacedOwnersNext, PTL DEF Spec, OneServerTakesOver

=============================================================================
