------------------------ MODULE VersionVectorProofs ------------------------
(***************************************************************************)
(* What holds of the version comparison for any set of servers and any     *)
(* counter bound.  VersionScan checks the same operators against the loops *)
(* of the code on small vectors.                                           *)
(***************************************************************************)
EXTENDS VersionVector, FiniteSets, FiniteSetTheorems, WellFoundedInduction, TLAPS

\* The outcome "earlier" spelled out: the incoming vector lists every server
\* of the existing one, is behind on one of these and ahead on none.
LEMMA EarlierMeans ==
  ASSUME NEW a \in Version, NEW b \in Version
  PROVE  check_conflict_version(a, b) = -1 <=>
           /\ b # NoVersion
           /\ \/ a = NoVersion
              \/ /\ ~Unlisted(a, b)
                 /\ Behind(a, b)
                 /\ ~Ahead(a, b)
  BY DEF check_conflict_version

\* check_conflict_version never calls a version earlier than itself, so
\* remove_unconflict_data never drops a record because of an equal one.
LEMMA NotEarlierThanItself ==
  ASSUME NEW a \in Version
  PROVE  check_conflict_version(a, a) # -1
  BY EarlierMeans DEF Version, Behind

\* "Earlier" is transitive: what makes a record old also makes old every
\* record that this record makes old.
LEMMA EarlierIsTransitive ==
  ASSUME NEW a \in Version, NEW b \in Version, NEW c \in Version,
         check_conflict_version(a, b) = -1,
         check_conflict_version(b, c) = -1
  PROVE  check_conflict_version(a, c) = -1
<1>1. c # NoVersion
  BY EarlierMeans
<1>2. b # NoVersion
  BY EarlierMeans
<1>3. CASE a = NoVersion
  BY <1>1, <1>3, EarlierMeans
<1>4. CASE a # NoVersion
  <2>1. ~Unlisted(a, b) /\ ~Ahead(a, b)
    BY <1>4, EarlierMeans
  <2>2. ~Unlisted(b, c) /\ Behind(b, c) /\ ~Ahead(b, c)
    BY <1>2, EarlierMeans
  <2>3. \A s \in Server : /\ a[s] \in Int /\ b[s] \in Int /\ c[s] \in Int
                          /\ a[s] >= 0 /\ b[s] >= 0 /\ c[s] >= 0
    BY MaxVersionIsNat DEF Version
  <2>4. ~Unlisted(a, c)
    BY <2>1, <2>2 DEF Unlisted
  <2>5. ~Ahead(a, c)
    BY <2>1, <2>2, <2>3 DEF Ahead, Unlisted, Lists
  <2>6. Behind(a, c)
    <3>1. PICK s \in Server : Lists(b, s) /\ b[s] < c[s]
      BY <2>2 DEF Behind
    <3>2. Lists(a, s) /\ a[s] <= b[s]
      BY <2>1, <2>3, <3>1 DEF Unlisted, Ahead
    <3>3. QED  BY <2>3, <3>1, <3>2 DEF Behind
  <2>7. QED  BY <1>1, <2>4, <2>5, <2>6, EarlierMeans
<1>5. QED  BY <1>3, <1>4

\* The outcome "newer" is exact: PeerPut takes a record just when its version
\* comes after the one it holds in the vector order, or it holds none.
THEOREM NewerIffAfter ==
  ASSUME NEW incoming \in Version, NEW existing \in Version
  PROVE  check_conflict_version(incoming, existing) = 1 <=>
           existing = NoVersion \/ Precedes(existing, incoming)
<1>1. CASE existing = NoVersion
  BY <1>1 DEF check_conflict_version
<1>2. CASE existing # NoVersion
  <2>1. \A s \in Server : /\ incoming[s] \in Int /\ existing[s] \in Int
                          /\ incoming[s] >= 0 /\ existing[s] >= 0
    BY MaxVersionIsNat DEF Version
  <2>2. PICK s \in Server : existing[s] > 0
    BY <1>2, <2>1 DEF Version, NoVersion
  <2>3. incoming = existing <=> \A t \in Server : incoming[t] = existing[t]
    BY DEF Version
  <2>4. CASE incoming = NoVersion
    <3>1. ~NotAbove(existing, incoming)
      BY <2>1, <2>2, <2>4 DEF NotAbove, NoVersion
    <3>2. QED  BY <1>2, <2>4, <3>1 DEF check_conflict_version, Precedes
  <2>5. CASE incoming # NoVersion
    <3>1. NotAbove(existing, incoming) <=>
            ~Unlisted(incoming, existing) /\ ~Behind(incoming, existing)
      BY <2>1 DEF NotAbove, Unlisted, Behind, Lists
    <3>2. NotAbove(existing, incoming) =>
            (incoming # existing <=> Ahead(incoming, existing) \/ Extra(incoming, existing))
      BY <2>1, <2>3 DEF NotAbove, Ahead, Extra, Unlisted, Lists
    <3>3. check_conflict_version(incoming, existing) = 1 <=>
            /\ ~Unlisted(incoming, existing)
            /\ ~Behind(incoming, existing)
            /\ Ahead(incoming, existing) \/ Extra(incoming, existing)
      BY <1>2, <2>5 DEF check_conflict_version
    <3>4. QED  BY <1>2, <3>1, <3>2, <3>3 DEF Precedes
  <2>6. QED  BY <2>4, <2>5
<1>3. QED  BY <1>1, <1>2

\* Where the verdict departs from the vector order on old versions: one that
\* comes before the existing version is called earlier if it lists all servers
\* of it, and in conflict with it if it does not.
THEOREM BeforeIsEarlierOrConflict ==
  ASSUME NEW incoming \in Version, NEW existing \in Version,
         incoming # NoVersion, Precedes(incoming, existing)
  PROVE  check_conflict_version(incoming, existing) =
           IF Unlisted(incoming, existing) THEN 2 ELSE -1
<1>0. \A s \in Server : /\ incoming[s] \in Int /\ existing[s] \in Int
                        /\ incoming[s] >= 0 /\ existing[s] >= 0
  BY MaxVersionIsNat DEF Version
<1>1. \A s \in Server : /\ incoming[s] \in Int /\ existing[s] \in Int
                        /\ 0 <= incoming[s] /\ incoming[s] <= existing[s]
  BY <1>0 DEF Precedes, NotAbove
<1>2. PICK s \in Server : incoming[s] < existing[s]
  BY <1>1 DEF Version, Precedes
<1>3. existing # NoVersion
  BY <1>1, <1>2 DEF NoVersion
<1>4. ~Ahead(incoming, existing)
  BY <1>1 DEF Ahead
<1>5. Unlisted(incoming, existing) \/ Behind(incoming, existing)
  BY <1>1, <1>2 DEF Unlisted, Behind, Lists
<1> QED
  BY <1>3, <1>4, <1>5 DEF check_conflict_version

\* The version a coordinator gives a write is taken by every replica that
\* holds a version the writer knew about.
THEOREM UpdateIsNewer ==
  ASSUME NEW v \in Version, NEW w \in Version, NEW s \in Server,
         v[s] < MaxVersion, NotAbove(w, v)
  PROVE  /\ update_version(v, s) \in Version
         /\ check_conflict_version(update_version(v, s), w) = 1
<1> DEFINE u == update_version(v, s)
<1>1. u \in Version /\ u[s] = v[s] + 1 /\ \A t \in Server \ {s} : u[t] = v[t]
  BY MaxVersionIsNat DEF Version, update_version
<1>2. \A t \in Server : v[t] \in Int /\ w[t] \in Int /\ w[t] <= v[t]
  BY MaxVersionIsNat DEF Version, NotAbove
<1> HIDE DEF u
<1>3. NotAbove(w, u)
  <2>1. ASSUME NEW t \in Server
        PROVE  w[t] <= u[t]
    <3>1. CASE t = s
      BY <1>1, <1>2, <3>1
    <3>2. CASE t # s
      BY <1>1, <1>2, <3>2
    <3>3. QED  BY <3>1, <3>2
  <2>2. QED  BY <2>1 DEF NotAbove
<1>4. w # u
  BY <1>1, <1>2
<1>5. check_conflict_version(u, w) = 1
  BY <1>1, <1>3, <1>4, NewerIffAfter DEF Precedes
<1>6. QED  BY <1>1, <1>5 DEF u

-----------------------------------------------------------------------------
\* Counters are bounded, so a set of them that is not empty has a largest one.
LEMMA LargestExists ==
  ASSUME NEW C \in SUBSET (0 .. MaxVersion), C # {}
  PROVE  Largest(C) \in C /\ \A y \in C : y <= Largest(C)
<1> DEFINE S == 0 .. MaxVersion
           Above(x) == {y \in S : x < y}
           F == {Above(x) : x \in C}
<1>1. IsFiniteSet(S)
  BY MaxVersionIsNat, FS_Interval
<1>2. F \subseteq FiniteSubsetsOf(S) /\ F # {}
  <2>1. \A x \in C : Above(x) \in SUBSET S /\ IsFiniteSet(Above(x))
    BY <1>1, FS_Subset
  <2>2. QED  BY <2>1 DEF FiniteSubsetsOf
<1>3. PICK A \in F : \A B \in F : ~(<<B, A>> \in StrictSubsetOrdering(S))
  <2> HIDE DEF F, S
  <2>1. IsWellFoundedOn(StrictSubsetOrdering(S), FiniteSubsetsOf(S))
    BY FS_StrictSubsetOrderingWellFounded
  <2>2. QED  BY <1>2, <2>1, WFMin
<1>4. PICK x \in C : A = Above(x)
  BY <1>3
<1>5. \A y \in C : y <= x
  <2>1. SUFFICES ASSUME NEW y \in C, ~(y <= x)
                 PROVE  FALSE
    OBVIOUS
  <2>2. x \in Int /\ y \in Int /\ x < y /\ y \in S
    BY <2>1, MaxVersionIsNat
  <2>3. Above(y) \subseteq Above(x) /\ y \in Above(x) /\ y \notin Above(y)
    BY <2>2, MaxVersionIsNat
  <2>4. <<Above(y), Above(x)>> \in StrictSubsetOrdering(S)
    BY <2>3 DEF StrictSubsetOrdering
  <2>5. QED  BY <1>3, <1>4, <2>4
<1>6. QED  BY <1>5 DEF Largest

\* The reconciled version is not below any of the versions it is made from.
LEMMA ReconcileIsAbove ==
  ASSUME NEW V \in SUBSET Version, NEW v \in V
  PROVE  /\ reconcile_version(V) \in Version
         /\ NotAbove(v, reconcile_version(V))
<1>1. \A s \in Server : {w[s] : w \in V} \union {0} \in SUBSET (0 .. MaxVersion)
  BY MaxVersionIsNat DEF Version
<1>2. \A s \in Server : /\ reconcile_version(V)[s] \in 0 .. MaxVersion
                        /\ v[s] <= reconcile_version(V)[s]
  <2>1. TAKE s \in Server
  <2> DEFINE C == {w[s] : w \in V} \union {0}
  <2>2. C \in SUBSET (0 .. MaxVersion) /\ C # {} /\ v[s] \in C
    BY <1>1
  <2>3. reconcile_version(V)[s] = Largest(C)
    BY DEF reconcile_version
  <2> HIDE DEF C
  <2>4. QED  BY <2>2, <2>3, LargestExists
<1>3. QED  BY <1>2 DEF NotAbove, reconcile_version, Version

\* The version of a write stays a version, and is never the empty one.
LEMMA BumpedVersion ==
  ASSUME NEW v \in Version, NEW n \in Server, v[n] < MaxVersion
  PROVE  /\ update_version(v, n) \in Version
         /\ update_version(v, n) # NoVersion
<1>1. update_version(v, n) \in Version /\ update_version(v, n)[n] = v[n] + 1
  BY MaxVersionIsNat DEF Version, update_version
<1>2. v[n] + 1 # 0 /\ NoVersion[n] = 0
  BY MaxVersionIsNat DEF Version, NoVersion
<1>3. QED  BY <1>1, <1>2

\* What a client reconciles, be it nothing, is a version.
LEMMA ReconcileIsVersion ==
  ASSUME NEW V \in SUBSET Version
  PROVE  reconcile_version(V) \in Version
<1>1. CASE V = {}
  <2>1. \A s \in Server : Largest({v[s] : v \in V} \union {0}) \in 0 .. MaxVersion
    BY <1>1, LargestExists, MaxVersionIsNat
  <2>2. QED  BY <2>1 DEF reconcile_version, Version
<1>2. CASE V # {}
  BY <1>2, ReconcileIsAbove
<1>3. QED  BY <1>1, <1>2

-----------------------------------------------------------------------------
(* The order of version vectors is one, with the empty vector at the bottom. *)

LEMMA OrderOfVersions ==
  /\ NoVersion \in Version
  /\ \A v \in Version : NotAbove(NoVersion, v) /\ NotAbove(v, v)
  /\ \A v, w \in Version : NotAbove(v, w) /\ NotAbove(w, v) => v = w
  /\ \A u, v, w \in Version : NotAbove(u, v) /\ NotAbove(v, w) => NotAbove(u, w)
<1>1. \A v \in Version, s \in Server : v[s] \in Int /\ 0 <= v[s]
  BY MaxVersionIsNat DEF Version
<1>2. NoVersion \in Version
  BY MaxVersionIsNat DEF NoVersion, Version
<1>3. \A v \in Version : NotAbove(NoVersion, v) /\ NotAbove(v, v)
  BY <1>1 DEF NotAbove, NoVersion
<1>4. ASSUME NEW v \in Version, NEW w \in Version, NotAbove(v, w), NotAbove(w, v)
      PROVE  v = w
  <2>1. ASSUME NEW s \in Server
        PROVE  v[s] = w[s]
    <3>1. v[s] <= w[s] /\ w[s] <= v[s]
      BY <1>4 DEF NotAbove
    <3>2. v[s] \in Int /\ w[s] \in Int
      BY <1>1
    <3>3. QED  BY <3>1, <3>2
  <2>2. QED  BY <2>1 DEF Version
<1>5. ASSUME NEW u \in Version, NEW v \in Version, NEW w \in Version,
             NotAbove(u, v), NotAbove(v, w)
      PROVE  NotAbove(u, w)
  <2>1. SUFFICES ASSUME NEW s \in Server
                 PROVE  u[s] <= w[s]
    BY DEF NotAbove
  <2>2. u[s] <= v[s] /\ v[s] <= w[s]
    BY <1>5 DEF NotAbove
  <2>3. QED  BY <1>1, <2>2
<1>6. QED  BY <1>2, <1>3, <1>4, <1>5

\* Two servers that count on from the same version do not know each other.
LEMMA BumpsDoNotFollow ==
  ASSUME NEW v \in Version, NEW s \in Server, NEW t \in Server
  PROVE  ~Precedes(update_version(v, s), update_version(v, t))
<1>1. v[s] \in Int
  BY MaxVersionIsNat DEF Version
<1>2. update_version(v, s)[s] = v[s] + 1
  BY DEF update_version, Version
<1>3. CASE s = t
  BY <1>3 DEF Precedes
<1>4. CASE s # t
  <2>1. update_version(v, t)[s] = v[s]
    BY <1>4 DEF update_version, Version
  <2>2. QED  BY <1>1, <1>2, <2>1 DEF Precedes, NotAbove
<1>5. QED  BY <1>3, <1>4

\* Versions of which each knows the other or is known to it reconcile to the
\* last one of them.
LEMMA ReconcileOfChain ==
  ASSUME NEW V \in SUBSET Version, IsFiniteSet(V), V # {},
         \A v, w \in V : NotAbove(v, w) \/ NotAbove(w, v)
  PROVE  reconcile_version(V) \in V
<1> DEFINE Above(v) == {w \in V : Precedes(v, w)}
           F == {Above(v) : v \in V}
<1>1. F \subseteq FiniteSubsetsOf(V) /\ F # {}
  <2>1. \A v \in V : Above(v) \in SUBSET V /\ IsFiniteSet(Above(v))
    BY FS_Subset
  <2>2. QED  BY <2>1 DEF FiniteSubsetsOf
<1>2. PICK A \in F : \A B \in F : ~(<<B, A>> \in StrictSubsetOrdering(V))
  <2> HIDE DEF F
  <2>1. IsWellFoundedOn(StrictSubsetOrdering(V), FiniteSubsetsOf(V))
    BY FS_StrictSubsetOrderingWellFounded
  <2>2. QED  BY <1>1, <2>1, WFMin
<1>3. PICK top \in V : A = Above(top)
  BY <1>2
<1>4. \A w \in V : NotAbove(w, top)
  <2>1. SUFFICES ASSUME NEW w \in V, ~NotAbove(w, top)
                 PROVE  FALSE
    OBVIOUS
  <2>2. Precedes(top, w)
    BY <2>1, OrderOfVersions DEF Precedes
  <2>3. Above(w) \subseteq Above(top)
    BY <2>2, OrderOfVersions DEF Precedes
  <2>4. w \in Above(top) /\ w \notin Above(w)
    BY <2>2 DEF Precedes
  <2>5. <<Above(w), Above(top)>> \in StrictSubsetOrdering(V)
    BY <2>3, <2>4 DEF StrictSubsetOrdering
  <2>6. QED  BY <1>2, <1>3, <2>5
<1>5. reconcile_version(V) \in Version /\ NotAbove(top, reconcile_version(V))
  BY ReconcileIsAbove
<1>6. NotAbove(reconcile_version(V), top)
  <2>1. SUFFICES ASSUME NEW s \in Server
                 PROVE  reconcile_version(V)[s] <= top[s]
    BY DEF NotAbove
  <2> DEFINE C == {w[s] : w \in V} \union {0}
  <2>2. C \in SUBSET (0 .. MaxVersion) /\ C # {} /\ reconcile_version(V)[s] = Largest(C)
    BY MaxVersionIsNat DEF Version, reconcile_version
  <2>3. \A x \in C : x <= top[s]
    BY <1>4, MaxVersionIsNat DEF NotAbove, Version
  <2> HIDE DEF C
  <2>4. QED  BY <2>2, <2>3, LargestExists
<1>7. QED  BY <1>5, <1>6, OrderOfVersions

\* Read repair goes through for any number of conflicting records: the write
\* of the reconciled value is newer than each version that was reconciled,
\* whichever server coordinates it.
THEOREM RepairIsNewer ==
  ASSUME NEW V \in SUBSET Version, NEW v \in V, NEW s \in Server,
         reconcile_version(V)[s] < MaxVersion
  PROVE  check_conflict_version(update_version(reconcile_version(V), s), v) = 1
  BY ReconcileIsAbove, UpdateIsNewer

-----------------------------------------------------------------------------
\* remove_unconflict_data drops a record only for one that it keeps: "earlier"
\* has no cycle in which each record would be dropped for another.
THEOREM FilterKeepsNewer ==
  ASSUME NEW R, IsFiniteSet(R), \A r \in R : r.version \in Version,
         NEW r0 \in R
  PROVE  \E r \in get_latest_data(R) :
           r = r0 \/ check_conflict_version(r0.version, r.version) = -1
<1> DEFINE Newer(r) == {q \in R : check_conflict_version(r.version, q.version) = -1}
           F == {Newer(r) : r \in Newer(r0) \union {r0}}
<1>1. F \subseteq FiniteSubsetsOf(R) /\ F # {}
  <2>1. \A r \in R : Newer(r) \in SUBSET R /\ IsFiniteSet(Newer(r))
    BY FS_Subset
  <2>2. QED  BY <2>1 DEF FiniteSubsetsOf
<1>2. PICK A \in F : \A B \in F : ~(<<B, A>> \in StrictSubsetOrdering(R))
  <2> HIDE DEF F
  <2>1. IsWellFoundedOn(StrictSubsetOrdering(R), FiniteSubsetsOf(R))
    BY FS_StrictSubsetOrderingWellFounded
  <2>2. QED  BY <1>1, <2>1, WFMin
<1>3. PICK r \in Newer(r0) \union {r0} : A = Newer(r)
  BY <1>2
<1>4. ASSUME NEW q \in R, check_conflict_version(r.version, q.version) = -1
      PROVE  FALSE
  <2>1. Newer(q) \subseteq Newer(r)
    BY <1>4, EarlierIsTransitive
  <2>2. q \in Newer(r) /\ q \notin Newer(q)
    BY <1>4, NotEarlierThanItself
  <2>3. q \in Newer(r0)
    BY <1>4, EarlierIsTransitive
  <2>4. <<Newer(q), Newer(r)>> \in StrictSubsetOrdering(R)
    BY <2>1, <2>2 DEF StrictSubsetOrdering
  <2>5. QED  BY <1>2, <1>3, <2>3, <2>4
<1>5. \A q \in R : ~(check_conflict_version(r.version, q.version) < 0)
  BY <1>4 DEF check_conflict_version
<1>6. r \in get_latest_data(R)
  BY <1>5 DEF get_latest_data, remove_unconflict_data
<1>7. QED  BY <1>6

\* However many records a read collects, remove_unconflict_data keeps one.
THEOREM FilterKeepsSomething ==
  ASSUME NEW R, IsFiniteSet(R), R # {}, \A r \in R : r.version \in Version
  PROVE  get_latest_data(R) # {}
  BY FilterKeepsNewer

=============================================================================
