------------------------ MODULE ClientLibraryProofs ------------------------
(***************************************************************************)
(* The safety of the client library's calls for every preference list, all *)
(* quorum sizes, and any number of clients, puts, crashes and broken calls.*)
(***************************************************************************)
EXTENDS ClientLibrary, VersionVectorProofs

-----------------------------------------------------------------------------
(* The list and its servers                                                  *)

\* Each replica is met once.
LEMMA ReplicaFacts ==
  /\ Replica \subseteq Server /\ IsFiniteSet(Replica) /\ Cardinality(Replica) \in Nat
  /\ \A n \in Replica : Rank[n] \in Int
  /\ {REPLICA_N, W_COUNT, R_COUNT} \subseteq Nat \ {0} /\ {MaxWrites, MaxFaults} \subseteq Nat
<1>1. Len(Preference) \in Nat /\ DOMAIN Preference = 1 .. Len(Preference)
  BY PreferenceIsList
<1>2. \A n \in Replica : \E i \in DOMAIN Preference : Preference[i] = n
  BY DEF Replica, ToSet
<1>3. \A n \in Replica : Rank[n] \in DOMAIN Preference /\ Preference[Rank[n]] = n
  BY <1>2 DEF Rank
<1>4. IsFiniteSet(1 .. Len(Preference))
  BY <1>1, FS_Interval
<1>5. Rank \in Injection(Replica, 1 .. Len(Preference))
  <2>1. Rank \in [Replica -> 1 .. Len(Preference)]
    BY <1>1, <1>3 DEF Rank
  <2>2. QED  BY <1>3, <2>1 DEF Injection, IsInjective
<1>6. IsFiniteSet(Replica)
  BY <1>4, <1>5, FS_Injection
<1>7. Replica \subseteq Server
  BY <1>1, PreferenceIsList DEF Replica, ToSet
<1>8. QED  BY <1>1, <1>3, <1>6, <1>7, FS_CardinalityType, CountsAreNat

\* Every part of the list can be counted.
LEMMA PartsOfTheList ==
  ASSUME NEW S \in SUBSET Replica
  PROVE  /\ S \in SUBSET Server /\ IsFiniteSet(S) /\ Cardinality(S) \in Nat
         /\ Cardinality(S) <= Cardinality(Replica)
         /\ \A T \in SUBSET S : Cardinality(T) <= Cardinality(S)
  BY ReplicaFacts, FS_Subset, FS_CardinalityType

\* A loop that may try as many servers as there are tries all it finds alive.
LEMMA AskedIsAll ==
  ASSUME NEW alive \in SUBSET Replica, NEW good
  PROVE  /\ Asked(alive, good) \in SUBSET alive
         /\ Cardinality(Replica) <= REPLICA_N => Asked(alive, good) = alive
<1>1. Asked(alive, good) \in SUBSET alive
  BY DEF Asked
<1>2. ASSUME Cardinality(Replica) <= REPLICA_N
      PROVE  Asked(alive, good) = alive
  <2>1. ASSUME NEW m \in alive
        PROVE  Before(alive, m) < REPLICA_N
    <3> DEFINE B == {k \in alive : Rank[k] < Rank[m]}
    <3>1. B \in SUBSET alive /\ m \notin B
      BY ReplicaFacts
    <3>2. Cardinality(B) # Cardinality(alive) /\ Cardinality(B) <= Cardinality(alive)
      BY <2>1, <3>1, PartsOfTheList, FS_Subset
    <3>3. Before(alive, m) = Cardinality(B)
      BY DEF Before
    <3> HIDE DEF B
    <3>4. /\ Cardinality(B) \in Nat /\ Cardinality(alive) \in Nat
          /\ Cardinality(alive) <= Cardinality(Replica) /\ Cardinality(Replica) \in Nat
          /\ REPLICA_N \in Nat
      BY <3>1, PartsOfTheList, ReplicaFacts
    <3>5. QED  BY <1>2, <3>2, <3>3, <3>4
  <2>2. QED  BY <2>1 DEF Asked
<1>3. QED  BY <1>1, <1>2

-----------------------------------------------------------------------------
(* What the library makes of an answer                                       *)

\* What the library keeps stays a record, and a call that ends leaves nothing.
LEMMA LibrarySteps ==
  ASSUME NEW lib \in KeyValueStoreClient
  PROVE  /\ Returned(lib) \in KeyValueStoreClient
         /\ Returned(lib).phase = "idle" /\ Returned(lib).cache = Absent
         /\ Proceed(lib) \in KeyValueStoreClient
         /\ lib.goal = NoPut => Proceed(lib) = Returned(lib)
         /\ lib.goal # NoPut =>
              /\ Proceed(lib).phase = "writing" /\ Proceed(lib).cache = lib.cache
              /\ Proceed(lib).goal = lib.goal
<1>1. Absent \in Record
  BY OrderOfVersions DEF Absent, Record
<1>2. /\ Returned(lib) \in KeyValueStoreClient
      /\ Returned(lib).phase = "idle" /\ Returned(lib).cache = Absent
  BY <1>1 DEF Returned, KeyValueStoreClient
<1>3. CASE lib.goal = NoPut
  BY <1>2, <1>3 DEF Proceed
<1>4. CASE lib.goal # NoPut
  BY <1>2, <1>4 DEF Proceed, KeyValueStoreClient
<1>5. QED  BY <1>3, <1>4

\* After a call that writes: the library is done, or goes on from a write-back
\* with what it has.
LEMMA LibraryIsOver ==
  ASSUME NEW lib \in KeyValueStoreClient
  PROVE  /\ Over(lib) \in KeyValueStoreClient
         /\ \/ Over(lib).phase = "idle" /\ Over(lib).cache = Absent
            \/ /\ lib.phase = "repairing" /\ Over(lib).phase = "writing"
               /\ Over(lib).cache = lib.cache
               /\ Over(lib).goal = lib.goal /\ lib.goal # NoPut
  BY LibrarySteps DEF Over

\* What the library keeps after OK.
LEMMA LibraryKeeps ==
  ASSUME NEW lib \in KeyValueStoreClient, NEW n \in Server, lib.cache.version[n] < MaxVersion,
         ValueOf(lib) \in Put \union {NO_VALUE}
  PROVE  /\ Kept(lib, n) \in KeyValueStoreClient
         /\ Kept(lib, n).phase = lib.phase /\ Kept(lib, n).goal = lib.goal
         /\ Kept(lib, n).cache.version = update_version(lib.cache.version, n)
<1>1. lib.cache.version \in Version
  BY DEF KeyValueStoreClient, Record
<1>2. [value |-> ValueOf(lib), version |-> update_version(lib.cache.version, n)] \in Record
  BY <1>1, BumpedVersion DEF Record
<1>3. QED  BY <1>2 DEF Kept, KeyValueStoreClient

\* The library reads on from what it is answered: it ends up with nothing, or
\* with a version that knows all of the answer and nothing besides.
LEMMA LibraryReads ==
  ASSUME NEW lib \in KeyValueStoreClient, NEW reply \in SUBSET Record, NEW r \in reply
  PROVE  /\ reconcile(lib, reply, r) \in KeyValueStoreClient
         /\ reconcile(lib, reply, r).phase \in {"idle", "repairing", "writing"}
         /\ reconcile(lib, reply, r).phase = "writing" => reconcile(lib, reply, r).goal # NoPut
         /\ \/ reconcile(lib, reply, r).phase = "idle" /\ reconcile(lib, reply, r).cache = Absent
            \/ /\ \A q \in reply : NotAbove(q.version, reconcile(lib, reply, r).cache.version)
               /\ \A s \in Server : Lists(reconcile(lib, reply, r).cache.version, s) =>
                    \E q \in reply : q.version[s] = reconcile(lib, reply, r).cache.version[s]
<1>1. r \in Record /\ r.version \in Version
  BY DEF Record
<1>2. CASE reply = {r}
  <2> DEFINE kept == [lib EXCEPT !.cache = r]
  <2>1. kept \in KeyValueStoreClient /\ kept.cache = r
    BY <1>1 DEF KeyValueStoreClient
  <2>2. reconcile(lib, reply, r) = Proceed(kept)
    BY <1>2 DEF reconcile
  <2> HIDE DEF kept
  <2>3. CASE kept.goal = NoPut
    BY <2>1, <2>2, <2>3, LibrarySteps
  <2>4. CASE kept.goal # NoPut
    <3>1. /\ Proceed(kept) \in KeyValueStoreClient /\ Proceed(kept).phase = "writing"
          /\ Proceed(kept).cache = r /\ Proceed(kept).goal # NoPut
      BY <2>1, <2>4, LibrarySteps
    <3>2. \A q \in reply : NotAbove(q.version, r.version)
      BY <1>1, <1>2, OrderOfVersions
    <3>3. QED  BY <1>2, <2>2, <3>1, <3>2
  <2>5. QED  BY <2>3, <2>4
<1>3. CASE reply # {r}
  <2> DEFINE V == {q.version : q \in reply}
             record == [value |-> r.value, version |-> reconcile_version(V)]
             kept == [lib EXCEPT !.phase = "repairing", !.cache = record]
  <2>1. V \in SUBSET Version /\ reconcile_version(V) \in Version
    <3>1. V \in SUBSET Version
      BY DEF Record
    <3> HIDE DEF V
    <3>2. QED  BY <3>1, ReconcileIsVersion
  <2>2. record \in Record /\ record.version = reconcile_version(V)
    BY <1>1, <2>1 DEF Record
  <2>3. reconcile(lib, reply, r) = kept
    BY <1>3 DEF reconcile
  <2>4. /\ kept \in KeyValueStoreClient /\ kept.phase = "repairing"
        /\ kept.cache.version = reconcile_version(V)
    <3> HIDE DEF record, V
    <3>1. kept \in KeyValueStoreClient /\ kept.phase = "repairing" /\ kept.cache = record
      BY <2>2 DEF KeyValueStoreClient
    <3>2. QED  BY <2>2, <3>1
  <2>5. \A q \in reply : NotAbove(q.version, reconcile_version(V))
    <3>1. TAKE q \in reply
    <3>2. q.version \in V
      OBVIOUS
    <3> HIDE DEF V
    <3>3. QED  BY <2>1, <3>2, ReconcileIsAbove
  <2>6. ASSUME NEW s \in Server, Lists(reconcile_version(V), s)
        PROVE  \E q \in reply : q.version[s] = reconcile_version(V)[s]
    <3> DEFINE C == {w[s] : w \in V} \union {0}
    <3>1. C \in SUBSET (0 .. MaxVersion) /\ C # {} /\ reconcile_version(V)[s] = Largest(C)
      <4> HIDE DEF V
      <4>1. QED  BY <2>1, MaxVersionIsNat DEF Version, reconcile_version
    <3>2. reconcile_version(V)[s] \in C
      <4> HIDE DEF C, V
      <4>1. QED  BY <3>1, LargestExists
    <3>3. reconcile_version(V)[s] # 0
      BY <2>6 DEF Lists
    <3>4. PICK w \in V : reconcile_version(V)[s] = w[s]
      BY <3>2, <3>3
    <3>5. PICK q \in reply : w = q.version
      BY <3>4
    <3>6. QED  BY <3>4, <3>5
  <2> HIDE DEF V, kept
  <2>7. QED  BY <2>3, <2>4, <2>5, <2>6
<1>4. QED  BY <1>2, <1>3

-----------------------------------------------------------------------------
(* What a step does                                                          *)

LEMMA OneLibraryMoves ==
  ASSUME TypeOK, GoalsAreSet, NEW c \in Client, NEW X \in KeyValueStoreClient,
         X.phase = "writing" => X.goal # NoPut,
         client' = [client EXCEPT ![c] = X]
  PROVE  /\ client' \in [Client -> KeyValueStoreClient] /\ GoalsAreSet'
         /\ client'[c] = X
         /\ \A d \in Client : d # c => client'[d] = client[d]
<1>1. /\ client' \in [Client -> KeyValueStoreClient] /\ client'[c] = X
      /\ \A d \in Client : d # c => client'[d] = client[d]
  BY DEF TypeOK
<1>2. GoalsAreSet'
  BY <1>1 DEF GoalsAreSet
<1>3. QED  BY <1>1, <1>2

\* Steps that leave the servers alone, and of the libraries at most one, which
\* keeps what it has or drops it with its call.
Quiet ==
  /\ UNCHANGED <<store, status, written, acked, overlap, misnamed, back>>
  /\ unsure => unsure'
  /\ \A d \in Client :
       /\ client'[d].cache \in {client[d].cache, Absent}
       /\ Writing(d)' => Writing(d) /\ client'[d].cache = client[d].cache

LEMMA QuietLibrary ==
  ASSUME TypeOK, GoalsAreSet, NEW c \in Client, NEW X \in KeyValueStoreClient,
         X.phase = "writing" => X.goal # NoPut,
         client' = [client EXCEPT ![c] = X],
         X.cache \in {client[c].cache, Absent},
         X.phase \in {"repairing", "writing"} => Writing(c) /\ X.cache = client[c].cache,
         UNCHANGED <<store, status, written, acked, overlap, misnamed, back>>,
         unsure => unsure', unsure' \in BOOLEAN,
         faults' \in 0 .. MaxFaults, begun' \subseteq Put
  PROVE  TypeOK' /\ GoalsAreSet' /\ Quiet
<1>1. /\ client' \in [Client -> KeyValueStoreClient] /\ GoalsAreSet'
      /\ client'[c] = X
      /\ \A d \in Client : d # c => client'[d] = client[d]
  BY OneLibraryMoves
<1>2. TypeOK'
  BY <1>1 DEF TypeOK
<1>3. \A d \in Client :
        /\ client'[d].cache \in {client[d].cache, Absent}
        /\ Writing(d)' => Writing(d) /\ client'[d].cache = client[d].cache
  BY <1>1 DEF Writing
<1>4. QED  BY <1>1, <1>2, <1>3 DEF Quiet

LEMMA FailsIsQuiet ==
  ASSUME TypeOK, GoalsAreSet, NEW c \in Client, NEW goal \in Put \union {NoPut},
         Fails(c, goal), faults' \in 0 .. MaxFaults
  PROVE  TypeOK' /\ GoalsAreSet' /\ Quiet
<1>1. begun' \subseteq Put
  BY DEF TypeOK, Fails, Begins
<1>2. UNCHANGED <<store, status, written, acked, overlap, misnamed, unsure, back>>
  BY DEF Fails, history
<1>3. unsure' \in BOOLEAN /\ client[c] \in KeyValueStoreClient /\ client[c].phase = "idle"
  BY <1>2 DEF TypeOK, Fails, Begins
<1>4. CASE goal = NoPut
  <2>1. client' = [client EXCEPT ![c] = client[c]]
    BY <1>4 DEF Fails, TypeOK
  <2>2. QED  BY <1>1, <1>2, <1>3, <2>1, QuietLibrary
<1>5. CASE goal # NoPut
  <2> DEFINE X == [client[c] EXCEPT !.phase = "dead"]
  <2>1. client' = [client EXCEPT ![c] = X]
    BY <1>5 DEF Fails
  <2>2. X \in KeyValueStoreClient /\ X.phase = "dead" /\ X.cache = client[c].cache
    BY <1>3 DEF KeyValueStoreClient
  <2> HIDE DEF X
  <2>3. QED  BY <1>1, <1>2, <1>3, <2>1, <2>2, QuietLibrary
<1>6. QED  BY <1>4, <1>5

LEMMA GetFailsIsQuiet ==
  ASSUME TypeOK, GoalsAreSet, NEW c \in Client, NEW goal \in Put \union {NoPut},
         GetFails(c, goal) \/ GetBreaks(c, goal)
  PROVE  TypeOK' /\ GoalsAreSet' /\ Quiet
<1>1. faults' \in 0 .. MaxFaults
  BY ReplicaFacts DEF TypeOK, GetFails, GetBreaks
<1>2. Fails(c, goal)
  BY DEF GetFails, GetBreaks
<1>3. QED  BY <1>1, <1>2, FailsIsQuiet

LEMMA StartIsQuiet ==
  ASSUME TypeOK, GoalsAreSet, NEW c \in Client, NEW n \in Server, Start(c, n)
  PROVE  TypeOK' /\ GoalsAreSet' /\ Quiet
<1> DEFINE X == Started(n)
<1>1. client' = [client EXCEPT ![c] = X]
  BY DEF Start
<1>2. X \in KeyValueStoreClient /\ X.phase = "idle" /\ X.cache = Absent
  BY OrderOfVersions DEF KeyValueStoreClient, Started, Absent, Record
<1>3. faults' \in 0 .. MaxFaults /\ begun' \subseteq Put /\ unsure' \in BOOLEAN
  BY ReplicaFacts DEF TypeOK, Start, history
<1>4. UNCHANGED <<store, status, written, acked, overlap, misnamed, unsure, back>>
  BY DEF Start, history
<1> HIDE DEF X
<1>5. QED  BY <1>1, <1>2, <1>3, <1>4, QuietLibrary

LEMMA PutRefusedIsQuiet ==
  ASSUME TypeOK, GoalsAreSet, NEW c \in Client, NEW n \in Server, PutRefused(c, n)
  PROVE  TypeOK' /\ GoalsAreSet' /\ Quiet
<1>1. PICK coordinator \in Named(n) :
        client' = [client EXCEPT ![c].assigned_coordinator = coordinator]
  BY DEF PutRefused
<1> DEFINE X == [client[c] EXCEPT !.assigned_coordinator = coordinator]
<1>2. coordinator \in Server \union {NoServer}
  BY ReplicaFacts DEF Named
<1>3. client' = [client EXCEPT ![c] = X]
  BY <1>1
<1>4. client[c] \in KeyValueStoreClient
  BY DEF TypeOK
<1>5. /\ X \in KeyValueStoreClient /\ X.phase = client[c].phase /\ X.goal = client[c].goal
      /\ X.cache = client[c].cache
  BY <1>2, <1>4 DEF KeyValueStoreClient
<1>6. faults' \in 0 .. MaxFaults /\ begun' \subseteq Put /\ unsure' \in BOOLEAN
  BY DEF TypeOK, PutRefused, history
<1>7. UNCHANGED <<store, status, written, acked, overlap, misnamed, unsure, back>>
  BY DEF PutRefused, history
<1>8. X.phase = "writing" => X.goal # NoPut
  BY <1>5 DEF GoalsAreSet
<1>9. X.phase \in {"repairing", "writing"} => Writing(c)
  BY <1>5 DEF Writing
<1> HIDE DEF X
<1>10. QED  BY <1>3, <1>5, <1>6, <1>7, <1>8, <1>9, QuietLibrary

LEMMA PutBreaksIsQuiet ==
  ASSUME TypeOK, GoalsAreSet, NEW c \in Client, PutBreaks(c)
  PROVE  TypeOK' /\ GoalsAreSet' /\ Quiet
<1> DEFINE X == Over(client[c])
<1>1. client' = [client EXCEPT ![c] = X]
  BY DEF PutBreaks
<1>2. client[c] \in KeyValueStoreClient
  BY DEF TypeOK
<1>3. /\ X \in KeyValueStoreClient
      /\ \/ X.phase = "idle" /\ X.cache = Absent
         \/ /\ client[c].phase = "repairing" /\ X.phase = "writing"
            /\ X.cache = client[c].cache
            /\ X.goal = client[c].goal /\ client[c].goal # NoPut
  BY <1>2, LibraryIsOver
<1>4. faults' \in 0 .. MaxFaults
  BY ReplicaFacts DEF TypeOK, PutBreaks
<1>5. begun' \subseteq Put /\ unsure' \in BOOLEAN /\ (unsure => unsure')
  BY DEF TypeOK, PutBreaks
<1>6. UNCHANGED <<store, status, written, acked, overlap, misnamed, back>>
  BY DEF PutBreaks
<1>7. X.phase \in {"repairing", "writing"} => Writing(c)
  BY <1>3 DEF Writing
<1> HIDE DEF X
<1>8. QED  BY <1>1, <1>3, <1>4, <1>5, <1>6, <1>7, QuietLibrary

\* What a server may name is on the list, or nobody; a server that takes a put
\* is on the list and may name itself and those before it.
LEMMA NamedIsReplica ==
  ASSUME NEW n \in Server
  PROVE  /\ Named(n) \subseteq Server \union {NoServer}
         /\ Coordinates(n) => Named(n) \subseteq Replica
  BY ReplicaFacts DEF Named, Coordinates

\* A read is answered by a quorum A of the servers that are up; the library
\* goes on with what it makes of the answer.
ReadFrom(c, A) ==
  LET reply == get_latest_data({store[m] : m \in A})
      X == client'[c]
  IN  /\ A \subseteq {m \in Replica : Up(m)} /\ Cardinality(A) >= R_COUNT
      /\ \/ X.phase = "idle" /\ X.cache = Absent
         \/ /\ \A q \in reply : NotAbove(q.version, X.cache.version)
            /\ \A s \in Server : Lists(X.cache.version, s) =>
                 \E q \in reply : q.version[s] = X.cache.version[s]

LEMMA GetReads ==
  ASSUME TypeOK, GoalsAreSet, NEW c \in Client, NEW goal \in Put \union {NoPut},
         NEW n \in Server, Get(c, goal, n)
  PROVE  /\ TypeOK' /\ GoalsAreSet'
         /\ UNCHANGED <<store, status, written, acked, misnamed, unsure, back>>
         /\ overlap' = (overlap \/ \E d \in Client : Writing(d))
         /\ \A d \in Client : d # c => client'[d] = client[d]
         /\ \E A : ReadFrom(c, A)
<1>1. PICK alive \in Fresh(n), lost \in SUBSET (Replica \ {n}) :
        LET answers == {m \in alive : m = n \/ (Up(m) /\ m \notin lost)}
            answered == Asked(alive, answers) \intersect answers
            reply == get_latest_data({store[m] : m \in answered})
        IN  /\ lost \subseteq {m \in alive : Up(m)} /\ faults + Cardinality(lost) <= MaxFaults
            /\ faults' = faults + Cardinality(lost)
            /\ Cardinality(answered) >= R_COUNT
            /\ \E coordinator \in Named(n), r \in reply :
                 client' = [client EXCEPT ![c] =
                   reconcile([@ EXCEPT !.goal = goal, !.assigned_coordinator = coordinator], reply, r)]
  BY DEF Get
<1> DEFINE answers == {m \in alive : m = n \/ (Up(m) /\ m \notin lost)}
           A == Asked(alive, answers) \intersect answers
           reply == get_latest_data({store[m] : m \in A})
<1>2. PICK coordinator \in Named(n), r \in reply :
        client' = [client EXCEPT ![c] =
          reconcile([@ EXCEPT !.goal = goal, !.assigned_coordinator = coordinator], reply, r)]
  BY <1>1
<1> DEFINE lib == [client[c] EXCEPT !.goal = goal, !.assigned_coordinator = coordinator]
           X == reconcile(lib, reply, r)
<1>3. lib \in KeyValueStoreClient
  BY NamedIsReplica DEF TypeOK, KeyValueStoreClient
<1>4. A \subseteq {m \in Replica : Up(m)} /\ Cardinality(A) >= R_COUNT
  <2>1. alive \in SUBSET Replica
    BY DEF Fresh
  <2>2. Up(n)
    BY DEF Get, Up
  <2>3. QED  BY <1>1, <2>1, <2>2
<1>5. reply \in SUBSET Record /\ r \in reply
  <2>1. \A m \in A : store[m] \in Record
    BY <1>4, ReplicaFacts DEF TypeOK
  <2>2. {store[m] : m \in A} \in SUBSET Record
    BY <2>1
  <2>3. QED  BY <2>2 DEF get_latest_data, remove_unconflict_data
<1>6. client' = [client EXCEPT ![c] = X]
  BY <1>2
<1>7. faults' \in 0 .. MaxFaults
  <2>1. Cardinality(lost) \in Nat
    BY PartsOfTheList
  <2>2. QED  BY <1>1, <2>1, ReplicaFacts DEF TypeOK
<1>8. /\ begun' \subseteq Put
      /\ UNCHANGED <<store, status, written, acked, misnamed, unsure, back>>
      /\ overlap' = (overlap \/ \E d \in Client : Writing(d))
  BY DEF Get, Begins, TypeOK
<1>9. overlap' \in BOOLEAN
  BY <1>8 DEF TypeOK
<1> HIDE DEF A, reply, lib
<1>10. /\ X \in KeyValueStoreClient
       /\ X.phase = "writing" => X.goal # NoPut
       /\ \/ X.phase = "idle" /\ X.cache = Absent
          \/ /\ \A q \in reply : NotAbove(q.version, X.cache.version)
             /\ \A s \in Server : Lists(X.cache.version, s) =>
                  \E q \in reply : q.version[s] = X.cache.version[s]
  BY <1>3, <1>5, LibraryReads
<1> HIDE DEF X
<1>11. /\ client' \in [Client -> KeyValueStoreClient] /\ GoalsAreSet'
       /\ client'[c] = X
       /\ \A d \in Client : d # c => client'[d] = client[d]
  BY <1>6, <1>10, OneLibraryMoves
<1>12. TypeOK'
  BY <1>7, <1>8, <1>9, <1>11 DEF TypeOK
<1>13. ReadFrom(c, A)
  BY <1>4, <1>10, <1>11 DEF ReadFrom, reply
<1>14. QED  BY <1>8, <1>11, <1>12, <1>13

\* A put of lib through n is stored on T, under the version attached, bumped
\* for n; u is the version and write the write, which the library hears to be
\* OK or does not.
PutThrough(c, n, coordinator, u, write, T, OK) ==
  LET v == client[c].cache.version
      X == client'[c]
  IN  /\ n \in Replica /\ Up(n) /\ v[n] < MaxVersion /\ u = update_version(v, n)
      /\ write \in Write /\ write.node = n /\ write.version = u
      /\ T \subseteq {m \in Replica : Up(m)}
      /\ Cardinality(Replica) <= REPLICA_N => n \in T
      /\ \A m \in T : store'[m] = RecordOf(write)
      /\ \A m \in Server \ T : store'[m] = store[m]
      /\ written' = written \union {write}
      /\ acked' = IF OK THEN acked \union {write} ELSE acked
      /\ OK => Cardinality(T) >= W_COUNT
      /\ misnamed' = (misnamed \/ coordinator # n)
      /\ unsure' = (unsure \/ (client[c].phase = "repairing" /\ ~OK))
      /\ \/ X.phase = "idle" /\ X.cache = Absent
         \/ /\ client[c].phase = "repairing" /\ X.phase = "writing"
            /\ X.cache.version = IF OK THEN update_version(v, coordinator) ELSE v

LEMMA PutAnsweredStores ==
  ASSUME TypeOK, GoalsAreSet, NEW c \in Client, NEW n \in Server, NEW heard \in BOOLEAN,
         PutAnswered(c, n, heard)
  PROVE  /\ TypeOK' /\ GoalsAreSet'
         /\ UNCHANGED <<status, begun, overlap, back>>
         /\ Writing(c)
         /\ \A d \in Client : d # c => client'[d] = client[d]
         /\ \E coordinator \in Server, u \in Version,
               write \in Write, T \in SUBSET Replica, OK \in BOOLEAN :
              PutThrough(c, n, coordinator, u, write, T, OK)
<1>1. PICK alive \in Fresh(n), lost \in SUBSET (Replica \ {n}), late \in SUBSET (Replica \ {n}),
           coordinator \in Named(n) :
       LET lib == client[c]
           record == [value |-> ValueOf(lib), version |-> update_version(lib.cache.version, n)]
           write == [node |-> n, value |-> record.value, version |-> record.version]
           takes == {m \in alive : m = n \/ (Up(m) /\ m \notin lost /\ Accepts(m, record.version))}
           asked == Asked(alive, takes \ late)
           OK == Cardinality(asked \intersect (takes \ late)) >= W_COUNT
           breaks == Cardinality(lost \union late) + (IF heard THEN 0 ELSE 1)
       IN  /\ lost \intersect late = {} /\ lost \union late \subseteq {m \in alive : Up(m)}
           /\ faults + breaks <= MaxFaults /\ faults' = faults + breaks
           /\ lib.cache.version[coordinator] < MaxVersion
           /\ store' = [m \in Server |-> IF m \in asked \intersect takes THEN record ELSE store[m]]
           /\ client' = [client EXCEPT ![c] = Over(IF heard /\ OK THEN Kept(@, coordinator) ELSE @)]
           /\ written' = written \union {write}
           /\ acked' = IF heard /\ OK THEN acked \union {write} ELSE acked
           /\ misnamed' = (misnamed \/ coordinator # n)
           /\ unsure' = (unsure \/ (lib.phase = "repairing" /\ ~(heard /\ OK)))
  BY DEF PutAnswered
<1> DEFINE lib == client[c]
           v == lib.cache.version
           u == update_version(v, n)
           record == [value |-> ValueOf(lib), version |-> u]
           write == [node |-> n, value |-> ValueOf(lib), version |-> u]
           takes == {m \in alive : m = n \/ (Up(m) /\ m \notin lost /\ Accepts(m, u))}
           asked == Asked(alive, takes \ late)
           T == asked \intersect takes
           H == asked \intersect (takes \ late)
           OK == heard /\ Cardinality(H) >= W_COUNT
           breaks == Cardinality(lost \union late) + (IF heard THEN 0 ELSE 1)
           kept == IF OK THEN Kept(lib, coordinator) ELSE lib
           X == Over(kept)
<1>2. /\ faults + breaks <= MaxFaults /\ faults' = faults + breaks
      /\ v[coordinator] < MaxVersion
      /\ store' = [m \in Server |-> IF m \in T THEN record ELSE store[m]]
      /\ client' = [client EXCEPT ![c] = X]
      /\ written' = written \union {write}
      /\ acked' = IF OK THEN acked \union {write} ELSE acked
      /\ misnamed' = (misnamed \/ coordinator # n)
      /\ unsure' = (unsure \/ (lib.phase = "repairing" /\ ~OK))
  BY <1>1
<1>3. /\ Writing(c) /\ Coordinates(n) /\ v[n] < MaxVersion
      /\ UNCHANGED <<status, begun, overlap, back>>
  BY DEF PutAnswered
<1>4. coordinator \in Server /\ n \in Replica /\ Up(n)
  BY <1>3, NamedIsReplica, ReplicaFacts DEF Coordinates, Up
<1>5. alive \in SUBSET Replica /\ n \in alive
  BY <1>4 DEF Fresh
<1>6. faults' \in 0 .. MaxFaults
  <2>1. lost \union late \in SUBSET Replica
    OBVIOUS
  <2>2. Cardinality(lost \union late) \in Nat
    BY <2>1, PartsOfTheList
  <2>3. breaks \in Nat
    BY <2>2
  <2> HIDE DEF breaks
  <2>4. QED  BY <1>2, <2>3, ReplicaFacts DEF TypeOK
<1>7. lib \in KeyValueStoreClient /\ v \in Version
  BY DEF TypeOK, KeyValueStoreClient, Record
<1>8. u \in Version /\ u # NoVersion
  BY <1>3, <1>7, BumpedVersion
<1>9. ValueOf(lib) \in Put \union {NO_VALUE}
  <2>1. lib.phase = "writing" => lib.goal # NoPut
    BY DEF GoalsAreSet
  <2>2. lib.phase \in {"repairing", "writing"}
    BY <1>3 DEF Writing
  <2>3. lib.goal \in Put \union {NoPut} /\ lib.cache.value \in Put \union {NO_VALUE}
    BY <1>7 DEF KeyValueStoreClient, Record
  <2> HIDE DEF lib
  <2>4. QED  BY <2>1, <2>2, <2>3 DEF ValueOf
<1> HIDE DEF u
<1>10. record \in Record /\ write \in Write /\ RecordOf(write) = record
  BY <1>8, <1>9 DEF Record, Write, RecordOf
<1>11. /\ T \subseteq {m \in Replica : Up(m)}
       /\ Cardinality(Replica) <= REPLICA_N => n \in T
       /\ OK => Cardinality(T) >= W_COUNT
  <2>1. asked \in SUBSET alive /\ (Cardinality(Replica) <= REPLICA_N => asked = alive)
    BY <1>5, AskedIsAll
  <2>2. T \subseteq {m \in Replica : Up(m)}
    BY <1>4, <1>5, <2>1
  <2>3. Cardinality(Replica) <= REPLICA_N => n \in T
    BY <1>4, <1>5, <2>1
  <2> HIDE DEF asked, takes
  <2>4. H \in SUBSET T /\ T \in SUBSET Replica
    BY <2>2
  <2>5. Cardinality(H) \in Nat /\ Cardinality(T) \in Nat /\ Cardinality(H) <= Cardinality(T)
    BY <2>4, PartsOfTheList
  <2> HIDE DEF T, H
  <2>6. OK => Cardinality(T) >= W_COUNT
    BY <2>5, ReplicaFacts
  <2>7. QED  BY <2>2, <2>3, <2>6
<1> HIDE DEF T, H
<1>12. /\ kept \in KeyValueStoreClient /\ kept.phase = lib.phase /\ kept.goal = lib.goal
       /\ kept.cache.version = IF OK THEN update_version(v, coordinator) ELSE v
  <2>1. CASE OK
    <3>1. /\ Kept(lib, coordinator) \in KeyValueStoreClient
          /\ Kept(lib, coordinator).phase = lib.phase /\ Kept(lib, coordinator).goal = lib.goal
          /\ Kept(lib, coordinator).cache.version = update_version(lib.cache.version, coordinator)
      <4> HIDE DEF lib
      <4>1. QED  BY <1>2, <1>4, <1>7, <1>9, LibraryKeeps
    <3>2. QED  BY <2>1, <3>1
  <2>2. CASE ~OK
    BY <1>7, <2>2
  <2>3. QED  BY <2>1, <2>2
<1> HIDE DEF OK, kept
<1>13. /\ X \in KeyValueStoreClient
       /\ \/ X.phase = "idle" /\ X.cache = Absent
          \/ /\ kept.phase = "repairing" /\ X.phase = "writing"
             /\ X.cache = kept.cache
             /\ X.goal = kept.goal /\ kept.goal # NoPut
  BY <1>12, LibraryIsOver
<1> HIDE DEF X
<1>14. /\ client' \in [Client -> KeyValueStoreClient] /\ GoalsAreSet'
       /\ client'[c] = X
       /\ \A d \in Client : d # c => client'[d] = client[d]
  BY <1>2, <1>13, OneLibraryMoves
<1>15. store' \in [Server -> Record]
  BY <1>2, <1>10 DEF TypeOK
<1>16. written' \subseteq Write /\ acked' \subseteq written'
  BY <1>2, <1>10 DEF TypeOK
<1>17. {overlap', misnamed', unsure', back'} \subseteq BOOLEAN
  BY <1>2, <1>3 DEF TypeOK
<1>18. TypeOK'
  BY <1>3, <1>6, <1>14, <1>15, <1>16, <1>17 DEF TypeOK
<1>19. PutThrough(c, n, coordinator, u, write, T, OK)
  <2>1. write.node = n /\ write.version = u
    OBVIOUS
  <2>2. \A m \in T : store'[m] = RecordOf(write)
    <3>1. T \subseteq Server
      BY <1>11, ReplicaFacts
    <3> HIDE DEF record, write
    <3>2. QED  BY <1>2, <1>10, <3>1
  <2>3. \A m \in Server \ T : store'[m] = store[m]
    BY <1>2
  <2>4. \/ X.phase = "idle" /\ X.cache = Absent
        \/ /\ client[c].phase = "repairing" /\ X.phase = "writing"
           /\ X.cache.version = IF OK THEN update_version(v, coordinator) ELSE v
    BY <1>12, <1>13
  <2>5. u = update_version(v, n)
    BY DEF u
  <2> HIDE DEF write
  <2>6. QED
    BY <1>2, <1>3, <1>4, <1>10, <1>11, <1>14, <2>1, <2>2, <2>3, <2>4, <2>5 DEF PutThrough
<1>20. write \in Write /\ T \in SUBSET Replica /\ OK \in BOOLEAN
  <2>1. write \in Write
    BY <1>10
  <2>2. T \in SUBSET Replica
    BY <1>11
  <2>3. OK \in BOOLEAN
    BY DEF OK
  <2>4. QED  BY <2>1, <2>2, <2>3
<1> HIDE DEF write
<1>21. \E co \in Server, ve \in Version, wr \in Write, ta \in SUBSET Replica, ok \in BOOLEAN :
         PutThrough(c, n, co, ve, wr, ta, ok)
  BY <1>4, <1>8, <1>19, <1>20
<1>22. QED  BY <1>3, <1>14, <1>18, <1>21

-----------------------------------------------------------------------------
(* Types                                                                     *)

LEMMA CrashTypes ==
  ASSUME TypeOK, GoalsAreSet, NEW n \in Server, Crash(n)
  PROVE  TypeOK' /\ GoalsAreSet'
<1>1. Absent \in Record
  BY OrderOfVersions DEF Absent, Record
<1>2. store' \in [Server -> Record] /\ status' \in [Server -> {"joined", "started", "down"}]
  BY <1>1 DEF TypeOK, Crash
<1>3. faults' \in 0 .. MaxFaults
  BY ReplicaFacts DEF TypeOK, Crash
<1>4. QED  BY <1>2, <1>3 DEF TypeOK, GoalsAreSet, Crash, history

LEMMA RestartTypes ==
  ASSUME TypeOK, GoalsAreSet, NEW n \in Server, Restart(n)
  PROVE  TypeOK' /\ GoalsAreSet'
<1>1. status' \in [Server -> {"joined", "started", "down"}] /\ back' \in BOOLEAN
  BY DEF TypeOK, Restart
<1>2. QED  BY <1>1 DEF TypeOK, GoalsAreSet, Restart

LEMMA TypesAtFirst == Init => TypeOK /\ GoalsAreSet
<1>1. SUFFICES ASSUME Init
               PROVE  TypeOK /\ GoalsAreSet
  OBVIOUS
<1>2. Absent \in Record
  BY OrderOfVersions DEF Absent, Record
<1>3. \A n \in Server : Started(n) \in KeyValueStoreClient /\ Started(n).phase = "idle"
  BY <1>2 DEF Started, KeyValueStoreClient
<1>4. client \in [Client -> KeyValueStoreClient] /\ \A c \in Client : client[c].phase = "idle"
  BY <1>1, <1>3 DEF Init
<1>5. store \in [Server -> Record] /\ status \in [Server -> {"joined", "started", "down"}]
  BY <1>1, <1>2 DEF Init
<1>6. faults \in 0 .. MaxFaults
  BY <1>1, ReplicaFacts DEF Init
<1>7. QED  BY <1>1, <1>4, <1>5, <1>6 DEF Init, TypeOK, GoalsAreSet

\* The kinds of steps there are.
LEMMA StepKinds ==
  ASSUME TypeOK, GoalsAreSet, [Next]_vars
  PROVE  \/ TypeOK' /\ GoalsAreSet' /\ Quiet
         \/ \E c \in Client, goal \in Put \union {NoPut}, n \in Server : Get(c, goal, n)
         \/ \E c \in Client, n \in Server, heard \in BOOLEAN : PutAnswered(c, n, heard)
         \/ \E n \in Server : Crash(n) \/ Restart(n)
<1>1. CASE UNCHANGED vars
  <2>1. TypeOK' /\ GoalsAreSet'
    BY <1>1 DEF vars, history, TypeOK, GoalsAreSet
  <2>2. Quiet
    BY <1>1 DEF vars, history, Quiet, Writing
  <2>3. QED  BY <2>1, <2>2
<1>2. CASE \E c \in Client, goal \in Put \union {NoPut} :
             GetFails(c, goal) \/ GetBreaks(c, goal) \/ \E n \in Server : Get(c, goal, n)
  BY <1>2, GetFailsIsQuiet
<1>3. CASE \E c \in Client :
             PutBreaks(c) \/ \E n \in Server : \/ Start(c, n) \/ PutRefused(c, n)
                                               \/ \E heard \in BOOLEAN : PutAnswered(c, n, heard)
  BY <1>3, PutBreaksIsQuiet, StartIsQuiet, PutRefusedIsQuiet
<1>4. CASE \E n \in Server : Crash(n) \/ Restart(n)
  BY <1>4
<1>5. QED  BY <1>1, <1>2, <1>3, <1>4 DEF Next

LEMMA TypesStep ==
  ASSUME TypeOK, GoalsAreSet, [Next]_vars
  PROVE  TypeOK' /\ GoalsAreSet'
  BY StepKinds, GetReads, PutAnsweredStores, CrashTypes, RestartTypes

\* The library's records and the servers' are records, whatever the clients
\* do, and a Put past its read has something to write.
THEOREM TypeCorrect == Spec => [](TypeOK /\ GoalsAreSet)
<1>1. Init => TypeOK /\ GoalsAreSet
  BY TypesAtFirst
<1>2. TypeOK /\ GoalsAreSet /\ [Next]_vars => (TypeOK /\ GoalsAreSet)'
  BY TypesStep
<1>3. QED  BY <1>1, <1>2, PTL DEF Spec

-----------------------------------------------------------------------------
(* History                                                                   *)

\* What has happened stays happened.
LEMMA HistoryGrows ==
  ASSUME TypeOK, GoalsAreSet, [Next]_vars
  PROVE  /\ written \subseteq written' /\ acked \subseteq acked'
         /\ overlap => overlap'
         /\ misnamed => misnamed'
         /\ unsure => unsure'
         /\ back => back'
<1>1. CASE Quiet
  BY <1>1 DEF Quiet
<1>2. ASSUME NEW c \in Client, NEW goal \in Put \union {NoPut}, NEW n \in Server, Get(c, goal, n)
      PROVE  /\ UNCHANGED <<written, acked, misnamed, unsure, back>>
             /\ overlap => overlap'
  BY <1>2, GetReads
<1>3. ASSUME NEW c \in Client, NEW n \in Server, NEW heard \in BOOLEAN, PutAnswered(c, n, heard)
      PROVE  /\ written \subseteq written' /\ acked \subseteq acked'
             /\ UNCHANGED <<overlap, back>>
             /\ misnamed => misnamed'
             /\ unsure => unsure'
  <2>1. UNCHANGED <<overlap, back>>
    BY <1>3, PutAnsweredStores
  <2>2. PICK coordinator \in Server, u \in Version,
             write \in Write, T \in SUBSET Replica, OK \in BOOLEAN :
          PutThrough(c, n, coordinator, u, write, T, OK)
    BY <1>3, PutAnsweredStores
  <2>3. /\ written' = written \union {write}
        /\ acked' = IF OK THEN acked \union {write} ELSE acked
        /\ misnamed' = (misnamed \/ coordinator # n)
        /\ unsure' = (unsure \/ (client[c].phase = "repairing" /\ ~OK))
    BY <2>2 DEF PutThrough
  <2>4. QED  BY <2>1, <2>3
<1>4. ASSUME NEW n \in Server, Crash(n) \/ Restart(n)
      PROVE  UNCHANGED <<written, acked, overlap, misnamed, unsure>> /\ (back => back')
  BY <1>4 DEF Crash, Restart, history
<1>5. QED  BY <1>1, <1>2, <1>3, <1>4, StepKinds

\* The hypotheses of the properties were true before if they are true now.
LEMMA HypothesesBefore ==
  ASSUME TypeOK, GoalsAreSet, [Next]_vars
  PROVE  /\ (~misnamed)' => ~misnamed
         /\ (~overlap)' => ~overlap
         /\ (~unsure)' => ~unsure
         /\ (~back)' => ~back
         /\ (~Misjudged)' => ~Misjudged
         /\ Undisturbed' => Undisturbed
<1>1. written \subseteq written'
  BY HistoryGrows
<1>2. Misjudged => Misjudged'
  BY <1>1 DEF Misjudged
<1>3. QED  BY <1>2, HistoryGrows DEF Undisturbed

\* What is on the servers has been written, and stays so.
LEMMA StoresStep ==
  ASSUME TypeOK, GoalsAreSet, StoresAreWritten, [Next]_vars
  PROVE  StoresAreWritten'
<1>1. CASE Quiet
  BY <1>1 DEF Quiet, StoresAreWritten
<1>2. ASSUME NEW c \in Client, NEW goal \in Put \union {NoPut}, NEW n \in Server, Get(c, goal, n)
      PROVE  StoresAreWritten'
  <2>1. UNCHANGED <<store, written>>
    BY <1>2, GetReads
  <2>2. QED  BY <2>1 DEF StoresAreWritten
<1>3. ASSUME NEW c \in Client, NEW n \in Server, NEW heard \in BOOLEAN, PutAnswered(c, n, heard)
      PROVE  StoresAreWritten'
  <2>1. PICK coordinator \in Server, u \in Version,
             write \in Write, T \in SUBSET Replica, OK \in BOOLEAN :
          PutThrough(c, n, coordinator, u, write, T, OK)
    BY <1>3, PutAnsweredStores
  <2>2. /\ written' = written \union {write} /\ write.version = u
        /\ T \subseteq Replica
        /\ \A m \in T : store'[m] = RecordOf(write)
        /\ \A m \in Server \ T : store'[m] = store[m]
    BY <2>1 DEF PutThrough
  <2>3. u # NoVersion
    <3>1. client[c].cache.version \in Version
      BY DEF TypeOK, KeyValueStoreClient, Record
    <3>2. QED  BY <2>1, <3>1, BumpedVersion DEF PutThrough
  <2>4. \A w \in written' : w.version # NoVersion
    BY <2>2, <2>3 DEF StoresAreWritten
  <2>5. ASSUME NEW m \in Server
        PROVE  store'[m] = Absent \/ (m \in Replica /\ \E w \in written' : store'[m] = RecordOf(w))
    BY <2>2 DEF StoresAreWritten
  <2>6. QED  BY <2>4, <2>5 DEF StoresAreWritten, RecordOf
<1>4. ASSUME NEW n \in Server, Crash(n) \/ Restart(n)
      PROVE  StoresAreWritten'
  BY <1>4 DEF Crash, Restart, history, StoresAreWritten, TypeOK
<1>5. QED  BY <1>1, <1>2, <1>3, <1>4, StepKinds

\* Between two records that servers hold the comparison says "earlier" only of
\* one that the other knows of, unless two versions are misjudged.
LEMMA EarlierIsBefore ==
  ASSUME TypeOK, StoresAreWritten, ~Misjudged, NEW n \in Server, NEW m \in Server,
         check_conflict_version(store[n].version, store[m].version) = -1
  PROVE  Precedes(store[n].version, store[m].version)
<1>1. store[n].version \in Version /\ store[m].version \in Version
  BY DEF TypeOK, Record
<1>2. store[m].version # NoVersion
  BY <1>1, EarlierMeans
<1>3. PICK w \in written : store[m] = RecordOf(w)
  BY <1>2 DEF StoresAreWritten, Absent
<1>4. CASE store[n] = Absent
  BY <1>1, <1>2, <1>4, OrderOfVersions DEF Absent, Precedes
<1>5. CASE store[n] # Absent
  <2>1. PICK v \in written : store[n] = RecordOf(v)
    BY <1>5 DEF StoresAreWritten
  <2>2. store[n].version = v.version /\ store[m].version = w.version
    BY <1>3, <2>1 DEF RecordOf
  <2>3. QED  BY <2>2 DEF Misjudged
<1>6. QED  BY <1>4, <1>5

\* An answer has what a server holds that was read, or something that knew it.
LEMMA AnswerCovers ==
  ASSUME TypeOK, StoresAreWritten, ~Misjudged, NEW A \in SUBSET Replica, NEW k \in A
  PROVE  \E r \in get_latest_data({store[m] : m \in A}) :
           r = store[k] \/ Precedes(store[k].version, r.version)
<1> DEFINE R == {store[m] : m \in A}
<1>1. A \in SUBSET Server /\ IsFiniteSet(A)
  BY PartsOfTheList
<1>2. IsFiniteSet(R)
  <2>1. [m \in A |-> store[m]] \in Surjection(A, R)
    BY DEF Surjection
  <2>2. QED  BY <1>1, <2>1, FS_Surjection
<1>3. \A r \in R : r.version \in Version
  BY <1>1 DEF TypeOK, Record
<1>4. store[k] \in R
  OBVIOUS
<1>5. get_latest_data(R) \subseteq R
  BY DEF get_latest_data, remove_unconflict_data
<1> HIDE DEF R
<1>6. PICK r \in get_latest_data(R) :
        r = store[k] \/ check_conflict_version(store[k].version, r.version) = -1
  BY <1>2, <1>3, <1>4, FilterKeepsNewer
<1>7. PICK m \in A : r = store[m]
  BY <1>5, <1>6 DEF R
<1>8. r = store[k] \/ Precedes(store[k].version, r.version)
  BY <1>1, <1>6, <1>7, EarlierIsBefore
<1>9. QED  BY <1>6, <1>8 DEF R

\* A library that goes on from its read knows what was read.
LEMMA ReaderKnows ==
  ASSUME TypeOK, TypeOK', StoresAreWritten, ~Misjudged, NEW c \in Client, NEW A,
         ReadFrom(c, A), Writing(c)', NEW k \in A
  PROVE  NotAbove(store[k].version, client'[c].cache.version)
<1> DEFINE reply == get_latest_data({store[m] : m \in A})
<1>1. A \in SUBSET Replica /\ \A q \in reply : NotAbove(q.version, client'[c].cache.version)
  BY DEF ReadFrom, Writing
<1>2. PICK r \in reply : r = store[k] \/ Precedes(store[k].version, r.version)
  BY <1>1, AnswerCovers
<1>3. PICK m \in A : r = store[m]
  BY DEF get_latest_data, remove_unconflict_data
<1>4. store[k].version \in Version /\ r.version \in Version /\ client'[c].cache.version \in Version
  BY <1>1, <1>3, ReplicaFacts DEF TypeOK, Record, KeyValueStoreClient
<1>5. NotAbove(r.version, client'[c].cache.version)
  BY <1>1
<1> HIDE DEF reply
<1>6. NotAbove(store[k].version, r.version)
  BY <1>2, <1>4, OrderOfVersions DEF Precedes
<1>7. QED  BY <1>4, <1>5, <1>6, OrderOfVersions

-----------------------------------------------------------------------------
(* Every counter is that of a write                                          *)

\* All counters of a version are those of writes in W.
WitnessedIn(W, v) ==
  \A s \in Server : Lists(v, s) =>
    \E w \in W : w.node = s /\ w.version[s] = v[s] /\ NotAbove(w.version, v)

LEMMA CountersMean ==
  CountersAreWritten <=>
    /\ \A n \in Server : WitnessedIn(written, store[n].version)
    /\ \A c \in Client : WitnessedIn(written, client[c].cache.version)
  BY DEF CountersAreWritten, WitnessedIn, Witnessed

LEMMA CountersMeanAfter ==
  CountersAreWritten' <=>
    /\ \A n \in Server : WitnessedIn(written', store'[n].version)
    /\ \A c \in Client : WitnessedIn(written', client'[c].cache.version)
  BY DEF CountersAreWritten, WitnessedIn, Witnessed

LEMMA AbsentIsWitnessed ==
  ASSUME NEW W
  PROVE  WitnessedIn(W, Absent.version)
  BY DEF WitnessedIn, Absent, NoVersion, Lists

LEMMA WitnessesStay ==
  ASSUME NEW W, NEW V, W \subseteq V, NEW v, WitnessedIn(W, v)
  PROVE  WitnessedIn(V, v)
  BY DEF WitnessedIn

\* A version made of others' counters that knows them all has their witnesses.
LEMMA MergeIsWitnessed ==
  ASSUME NEW W \in SUBSET Write, NEW V \in SUBSET Version, NEW v \in Version,
         \A q \in V : WitnessedIn(W, q) /\ NotAbove(q, v),
         \A s \in Server : Lists(v, s) => \E q \in V : q[s] = v[s]
  PROVE  WitnessedIn(W, v)
<1>1. SUFFICES ASSUME NEW s \in Server, Lists(v, s)
               PROVE  \E w \in W : w.node = s /\ w.version[s] = v[s] /\ NotAbove(w.version, v)
  BY DEF WitnessedIn
<1>2. PICK q \in V : q[s] = v[s]
  BY <1>1
<1>3. Lists(q, s)
  BY <1>1, <1>2 DEF Lists
<1>4. PICK w \in W : w.node = s /\ w.version[s] = q[s] /\ NotAbove(w.version, q)
  BY <1>3 DEF WitnessedIn
<1>5. w.version \in Version /\ q \in Version
  BY DEF Write
<1>6. NotAbove(w.version, v)
  BY <1>4, <1>5, OrderOfVersions
<1>7. QED  BY <1>2, <1>4, <1>6

\* Bumping a counter.
LEMMA BumpFacts ==
  ASSUME NEW v \in Version, NEW n \in Server, v[n] < MaxVersion, NEW u, u = update_version(v, n)
  PROVE  /\ u \in Version /\ u[n] = v[n] + 1 /\ v[n] < u[n]
         /\ \A s \in Server : s # n => u[s] = v[s]
         /\ NotAbove(v, u)
         /\ \A w \in Version : NotAbove(w, v) => Precedes(w, u)
<1>1. u \in Version /\ u[n] = v[n] + 1 /\ \A s \in Server : s # n => u[s] = v[s]
  BY MaxVersionIsNat DEF Version, update_version
<1>2. \A w \in Version, s \in Server : w[s] \in Int
  BY MaxVersionIsNat DEF Version
<1>3. v[n] < u[n]
  BY <1>1, <1>2
<1>4. \A s \in Server : v[s] <= u[s]
  <2>1. TAKE s \in Server
  <2>2. CASE s = n
    BY <1>1, <1>2, <2>2
  <2>3. CASE s # n
    BY <1>1, <1>2, <2>3
  <2>4. QED  BY <2>2, <2>3
<1>5. NotAbove(v, u)
  BY <1>4 DEF NotAbove
<1>6. ASSUME NEW w \in Version, NotAbove(w, v)
      PROVE  Precedes(w, u)
  <2>1. NotAbove(w, u)
    BY <1>1, <1>5, <1>6, OrderOfVersions
  <2>2. w[n] <= v[n]
    BY <1>6 DEF NotAbove
  <2>3. w # u
    BY <1>2, <1>3, <2>2
  <2>4. QED  BY <2>1, <2>3 DEF Precedes
<1>7. QED  BY <1>1, <1>3, <1>5, <1>6

\* A write is the witness of the counter it bumps.
LEMMA BumpIsWitnessed ==
  ASSUME NEW W \in SUBSET Write, NEW v \in Version, NEW n \in Server, v[n] < MaxVersion,
         WitnessedIn(W, v), NEW u, u = update_version(v, n),
         NEW write \in W, write.node = n, write.version = u
  PROVE  WitnessedIn(W, u)
<1>1. /\ u \in Version /\ \A s \in Server : s # n => u[s] = v[s]
      /\ NotAbove(v, u) /\ NotAbove(u, u)
  BY BumpFacts, OrderOfVersions
<1>2. ASSUME NEW s \in Server, Lists(u, s)
      PROVE  \E w \in W : w.node = s /\ w.version[s] = u[s] /\ NotAbove(w.version, u)
  <2>1. CASE s = n
    BY <1>1, <2>1
  <2>2. CASE s # n
    <3>1. u[s] = v[s] /\ Lists(v, s)
      BY <1>1, <1>2, <2>2 DEF Lists
    <3>2. PICK w \in W : w.node = s /\ w.version[s] = v[s] /\ NotAbove(w.version, v)
      BY <3>1 DEF WitnessedIn
    <3>3. w.version \in Version
      BY DEF Write
    <3>4. NotAbove(w.version, u)
      BY <1>1, <3>2, <3>3, OrderOfVersions
    <3>5. QED  BY <3>1, <3>2, <3>4
  <2>3. QED  BY <2>1, <2>2
<1>3. QED  BY <1>2 DEF WitnessedIn

LEMMA CountersStep ==
  ASSUME TypeOK, GoalsAreSet, [Next]_vars, CountersAreWritten, ~misnamed'
  PROVE  CountersAreWritten'
<1>1. TypeOK' /\ written \subseteq written'
  BY TypesStep, HistoryGrows
<1>2. /\ \A n \in Server : WitnessedIn(written', store[n].version)
      /\ \A c \in Client : WitnessedIn(written', client[c].cache.version)
  BY <1>1, CountersMean, WitnessesStay
<1>3. WitnessedIn(written', Absent.version)
  BY AbsentIsWitnessed
<1>4. CASE Quiet
  BY <1>2, <1>3, <1>4, CountersMeanAfter DEF Quiet
<1>5. ASSUME NEW c \in Client, NEW goal \in Put \union {NoPut}, NEW n \in Server, Get(c, goal, n)
      PROVE  CountersAreWritten'
  <2>1. PICK A : ReadFrom(c, A)
    BY <1>5, GetReads
  <2>2. UNCHANGED <<store, written>> /\ \A d \in Client : d # c => client'[d] = client[d]
    BY <1>5, GetReads
  <2> DEFINE reply == get_latest_data({store[m] : m \in A})
             V == {q.version : q \in reply}
             X == client'[c]
  <2>3. CASE X.cache = Absent
    BY <1>2, <1>3, <2>2, <2>3, CountersMeanAfter
  <2>4. CASE /\ \A q \in reply : NotAbove(q.version, X.cache.version)
             /\ \A s \in Server : Lists(X.cache.version, s) =>
                  \E q \in reply : q.version[s] = X.cache.version[s]
    <3>1. \A q \in reply : \E m \in Server : q = store[m]
      BY <2>1, ReplicaFacts DEF ReadFrom, get_latest_data, remove_unconflict_data
    <3> HIDE DEF reply
    <3>2. \A q \in reply : q.version \in Version /\ WitnessedIn(written', q.version)
      BY <1>2, <3>1 DEF TypeOK, Record
    <3>3. /\ V \in SUBSET Version
          /\ \A v \in V : WitnessedIn(written', v) /\ NotAbove(v, X.cache.version)
          /\ \A s \in Server : Lists(X.cache.version, s) => \E v \in V : v[s] = X.cache.version[s]
      BY <2>4, <3>2
    <3>4. X.cache.version \in Version /\ written' \in SUBSET Write
      BY <1>1 DEF TypeOK, KeyValueStoreClient, Record
    <3> HIDE DEF V
    <3>5. WitnessedIn(written', X.cache.version)
      BY <3>3, <3>4, MergeIsWitnessed
    <3>6. QED  BY <1>2, <2>2, <3>5, CountersMeanAfter
  <2>5. QED  BY <2>1, <2>3, <2>4 DEF ReadFrom
<1>6. ASSUME NEW c \in Client, NEW n \in Server, NEW heard \in BOOLEAN, PutAnswered(c, n, heard)
      PROVE  CountersAreWritten'
  <2>1. PICK coordinator \in Server, u \in Version,
             write \in Write, T \in SUBSET Replica, OK \in BOOLEAN :
          PutThrough(c, n, coordinator, u, write, T, OK)
    BY <1>6, PutAnsweredStores
  <2>2. \A d \in Client : d # c => client'[d] = client[d]
    BY <1>6, PutAnsweredStores
  <2> DEFINE v == client[c].cache.version
  <2>3. /\ v[n] < MaxVersion /\ u = update_version(v, n)
        /\ write.node = n /\ write.version = u /\ write \in written'
        /\ \A m \in T : store'[m] = RecordOf(write)
        /\ \A m \in Server \ T : store'[m] = store[m]
        /\ coordinator = n
        /\ client'[c].cache = Absent \/ client'[c].cache.version \in {v, u}
    BY <2>1 DEF PutThrough
  <2>4. v \in Version /\ written' \in SUBSET Write
    BY <1>1 DEF TypeOK, KeyValueStoreClient, Record
  <2>5. WitnessedIn(written', v)
    BY <1>2
  <2> HIDE DEF v
  <2>6. WitnessedIn(written', u)
    BY <2>3, <2>4, <2>5, BumpIsWitnessed
  <2>7. \A m \in Server : WitnessedIn(written', store'[m].version)
    BY <1>2, <2>3, <2>6 DEF RecordOf
  <2>8. WitnessedIn(written', client'[c].cache.version)
    BY <1>3, <2>3, <2>5, <2>6
  <2>9. QED  BY <1>2, <2>2, <2>7, <2>8, CountersMeanAfter
<1>7. ASSUME NEW n \in Server, Crash(n) \/ Restart(n)
      PROVE  CountersAreWritten'
  <2>1. client' = client /\ \A m \in Server : store'[m] \in {store[m], Absent}
    BY <1>7 DEF Crash, Restart, TypeOK
  <2>2. QED  BY <1>2, <1>3, <2>1, CountersMeanAfter
<1>8. QED  BY <1>4, <1>5, <1>6, <1>7, StepKinds

\* Nobody is past a read at first, and nothing has been written.
LEMMA NothingAtFirst ==
  ASSUME Init
  PROVE  /\ written = {} /\ acked = {}
         /\ \A n \in Server : store[n] = Absent
         /\ \A c \in Client : client[c].cache = Absent /\ ~Writing(c)
<1>1. \A n \in Server : Started(n).cache = Absent /\ Started(n).phase = "idle"
  BY DEF Started
<1>2. \A c \in Client : \E n \in Server : client[c] = Started(n)
  BY DEF Init
<1>3. QED  BY <1>1, <1>2 DEF Init, Writing

\* The version a client attaches to its next write is one that servers have
\* given or a reconciliation of such, in any order of calls, answers lost,
\* crashes and new starts, while each server that takes a put names itself.
THEOREM CachesAreWritten == Spec => []CacheIsWritten
<1> DEFINE Inv == TypeOK /\ GoalsAreSet /\ (~misnamed => CountersAreWritten)
<1>1. Init => Inv
  <2>1. Init => CountersAreWritten
    BY NothingAtFirst, AbsentIsWitnessed, CountersMean
  <2>2. QED  BY <2>1, TypesAtFirst
<1>2. Inv /\ [Next]_vars => Inv'
  <2>1. SUFFICES ASSUME Inv, [Next]_vars
                 PROVE  Inv'
    OBVIOUS
  <2>2. TypeOK' /\ GoalsAreSet'
    BY <2>1, TypesStep
  <2>3. ~misnamed' => CountersAreWritten'
    BY <2>1, HypothesesBefore, CountersStep
  <2>4. QED  BY <2>2, <2>3
<1>3. Inv => CacheIsWritten
  BY DEF CountersAreWritten, CacheIsWritten
<1>4. QED  BY <1>1, <1>2, <1>3, PTL DEF Spec

-----------------------------------------------------------------------------
(* A write answered OK is offered                                            *)

LEMMA OneAtATimeStep ==
  ASSUME TypeOK, GoalsAreSet, [Next]_vars, OneAtATime, ~overlap'
  PROVE  OneAtATime'
<1>1. CASE Quiet
  BY <1>1 DEF Quiet, OneAtATime
<1>2. ASSUME NEW c \in Client, NEW goal \in Put \union {NoPut}, NEW n \in Server, Get(c, goal, n)
      PROVE  OneAtATime'
  <2>1. /\ \A d \in Client : d # c => client'[d] = client[d]
        /\ \A d \in Client : ~Writing(d)
    BY <1>2, GetReads
  <2>2. \A d \in Client : Writing(d)' => d = c
    BY <2>1 DEF Writing
  <2>3. QED  BY <2>2 DEF OneAtATime
<1>3. ASSUME NEW c \in Client, NEW n \in Server, NEW heard \in BOOLEAN, PutAnswered(c, n, heard)
      PROVE  OneAtATime'
  <2>1. Writing(c) /\ \A d \in Client : d # c => client'[d] = client[d]
    BY <1>3, PutAnsweredStores
  <2>2. \A d \in Client : Writing(d)' => Writing(d)
    BY <2>1 DEF Writing
  <2>3. QED  BY <2>2 DEF OneAtATime
<1>4. ASSUME NEW n \in Server, Crash(n) \/ Restart(n)
      PROVE  OneAtATime'
  BY <1>4 DEF Crash, Restart, OneAtATime, Writing
<1>5. QED  BY <1>1, <1>2, <1>3, <1>4, StepKinds

\* A read by a quorum meets a server that has what was answered OK.
LEMMA QuorumsMeet ==
  ASSUME TypeOK, AckedIsHeld, W_COUNT + R_COUNT > Cardinality(Replica),
         NEW A, A \subseteq {m \in Replica : Up(m)}, Cardinality(A) >= R_COUNT,
         NEW w \in acked
  PROVE  \E k \in A : Has(k, w)
<1> DEFINE S == {n \in Replica : ~Up(n) \/ Has(n, w)}
<1>1. Cardinality(S) >= W_COUNT
  BY DEF AckedIsHeld
<1>2. S \in SUBSET Replica /\ A \in SUBSET Replica
  OBVIOUS
<1> HIDE DEF S
<1>3. Cardinality(S) \in Nat /\ Cardinality(A) \in Nat
  BY <1>2, PartsOfTheList
<1>4. Cardinality(S) + Cardinality(A) > Cardinality(Replica)
  BY <1>1, <1>3, ReplicaFacts
<1>5. S \intersect A # {}
  BY <1>2, <1>4, ReplicaFacts, FS_MajoritiesIntersect
<1>6. QED  BY <1>5 DEF S

\* More servers are down or have it.
LEMMA HeldByMore ==
  ASSUME NEW w, AckedIsHeld, w \in acked,
         \A n \in Replica : ~Up(n) \/ Has(n, w) => (~Up(n))' \/ Has(n, w)'
  PROVE  Cardinality({n \in Replica : ~Up(n) \/ Has(n, w)}') >= W_COUNT
<1> DEFINE S == {n \in Replica : ~Up(n) \/ Has(n, w)}
           T == {n \in Replica : (~Up(n))' \/ Has(n, w)'}
<1>1. S \in SUBSET T /\ T \in SUBSET Replica /\ Cardinality(S) >= W_COUNT
  BY DEF AckedIsHeld
<1>2. T = {n \in Replica : ~Up(n) \/ Has(n, w)}'
  OBVIOUS
<1> HIDE DEF S, T
<1>3. Cardinality(S) \in Nat /\ Cardinality(T) \in Nat /\ Cardinality(S) <= Cardinality(T)
  BY <1>1, PartsOfTheList
<1>4. Cardinality(T) >= W_COUNT
  BY <1>1, <1>3, ReplicaFacts
<1>5. QED  BY <1>2, <1>4

\* The library knows what it overwrites, if that was answered OK.
LEMMA AckedStep ==
  ASSUME TypeOK, GoalsAreSet, StoresAreWritten, [Next]_vars,
         OneAtATime, AckedIsHeld, WritersKnowAcked,
         Undisturbed', ~overlap', ~Misjudged
  PROVE  AckedIsHeld' /\ WritersKnowAcked'
<1>1. TypeOK' /\ OneAtATime'
  BY TypesStep, OneAtATimeStep
<1>2. \A w \in written' : w.version \in Version
  BY <1>1 DEF TypeOK, Write
<1>3. CASE Quiet
  <2>1. AckedIsHeld'
    BY <1>3 DEF Quiet, AckedIsHeld, Up, Has
  <2>2. WritersKnowAcked'
    BY <1>3 DEF Quiet, WritersKnowAcked
  <2>3. QED  BY <2>1, <2>2
<1>4. ASSUME NEW c \in Client, NEW goal \in Put \union {NoPut}, NEW n \in Server, Get(c, goal, n)
      PROVE  AckedIsHeld' /\ WritersKnowAcked'
  <2>1. /\ UNCHANGED <<store, status, acked>>
        /\ \A d \in Client : ~Writing(d)
        /\ \A d \in Client : d # c => client'[d] = client[d]
    BY <1>4, GetReads
  <2>2. PICK A : ReadFrom(c, A)
    BY <1>4, GetReads
  <2>3. AckedIsHeld'
    BY <2>1 DEF AckedIsHeld, Up, Has
  <2>4. ASSUME NEW w \in acked, Writing(c)'
        PROVE  NotAbove(w.version, client'[c].cache.version)
    <3>1. A \subseteq {m \in Replica : Up(m)} /\ Cardinality(A) >= R_COUNT
      BY <2>2 DEF ReadFrom
    <3>2. W_COUNT + R_COUNT > Cardinality(Replica)
      BY DEF Undisturbed
    <3>3. PICK k \in A : Has(k, w)
      BY <3>1, <3>2, QuorumsMeet
    <3>4. NotAbove(store[k].version, client'[c].cache.version)
      BY <1>1, <2>2, <2>4, ReaderKnows
    <3>5. /\ store[k].version \in Version /\ w.version \in Version
          /\ client'[c].cache.version \in Version
      BY <1>1, <3>1, ReplicaFacts DEF TypeOK, Record, KeyValueStoreClient, Write
    <3>6. NotAbove(w.version, store[k].version)
      BY <3>3, <3>5, OrderOfVersions DEF Has, RecordOf, Precedes
    <3>7. QED  BY <3>4, <3>5, <3>6, OrderOfVersions
  <2>5. WritersKnowAcked'
    <3>1. \A d \in Client : Writing(d)' => d = c
      BY <2>1 DEF Writing
    <3>2. QED  BY <2>1, <2>4, <3>1 DEF WritersKnowAcked
  <2>6. QED  BY <2>3, <2>5
<1>5. ASSUME NEW c \in Client, NEW n \in Server, NEW heard \in BOOLEAN, PutAnswered(c, n, heard)
      PROVE  AckedIsHeld' /\ WritersKnowAcked'
  <2>1. PICK coordinator \in Server, u \in Version,
             write \in Write, T \in SUBSET Replica, OK \in BOOLEAN :
          PutThrough(c, n, coordinator, u, write, T, OK)
    BY <1>5, PutAnsweredStores
  <2>2. /\ UNCHANGED status /\ Writing(c)
        /\ \A d \in Client : d # c => client'[d] = client[d]
    BY <1>5, PutAnsweredStores
  <2> DEFINE v == client[c].cache.version
  <2>3. /\ n \in Server /\ v[n] < MaxVersion /\ u = update_version(v, n)
        /\ write.version = u /\ write \in written'
        /\ T \subseteq Replica
        /\ \A m \in T : store'[m] = RecordOf(write)
        /\ \A m \in Server \ T : store'[m] = store[m]
        /\ acked' = IF OK THEN acked \union {write} ELSE acked
        /\ OK => Cardinality(T) >= W_COUNT
        /\ \/ client'[c].phase = "idle"
           \/ client'[c].cache.version = IF OK THEN update_version(v, coordinator) ELSE v
    BY <2>1 DEF PutThrough
  <2>4. coordinator = n
    BY <2>1 DEF PutThrough, Undisturbed
  <2>5. v \in Version
    BY DEF TypeOK, KeyValueStoreClient, Record
  <2>6. \A w \in acked : NotAbove(w.version, v) /\ w.version \in Version /\ w \in written'
    BY <1>1, <2>2, HistoryGrows DEF WritersKnowAcked, TypeOK, Write
  <2> HIDE DEF v
  <2>7. \A w \in acked : Precedes(w.version, u) /\ NotAbove(w.version, u)
    <3>1. \A w \in Version : NotAbove(w, v) => Precedes(w, u)
      BY <2>3, <2>5, BumpFacts
    <3>2. QED  BY <2>6, <3>1 DEF Precedes
  <2>8. ASSUME NEW w \in acked
        PROVE  Cardinality({m \in Replica : ~Up(m) \/ Has(m, w)}') >= W_COUNT
    <3>1. ASSUME NEW m \in Replica, ~Up(m) \/ Has(m, w)
          PROVE  (~Up(m))' \/ Has(m, w)'
      <4>1. m \in Server
        BY ReplicaFacts
      <4>2. CASE m \in T
        BY <2>3, <2>7, <4>2 DEF Has, RecordOf
      <4>3. CASE m \notin T
        BY <2>2, <2>3, <3>1, <4>1, <4>3 DEF Has, Up
      <4>4. QED  BY <4>2, <4>3
    <3>2. QED  BY <3>1, HeldByMore
  <2>9. ASSUME OK
        PROVE  Cardinality({m \in Replica : ~Up(m) \/ Has(m, write)}') >= W_COUNT
    <3> DEFINE S == {m \in Replica : (~Up(m))' \/ Has(m, write)'}
    <3>1. T \in SUBSET S /\ S \in SUBSET Replica
      BY <2>3 DEF Has
    <3>2. S = {m \in Replica : ~Up(m) \/ Has(m, write)}'
      OBVIOUS
    <3> HIDE DEF S
    <3>3. Cardinality(T) \in Nat /\ Cardinality(S) \in Nat /\ Cardinality(T) <= Cardinality(S)
      BY <2>3, <3>1, PartsOfTheList
    <3>4. Cardinality(S) >= W_COUNT
      BY <2>3, <2>9, <3>3, ReplicaFacts
    <3>5. QED  BY <3>2, <3>4
  <2>10. AckedIsHeld'
    BY <2>3, <2>8, <2>9 DEF AckedIsHeld
  <2>11. ASSUME NEW w \in acked', client'[c].phase # "idle"
         PROVE  NotAbove(w.version, client'[c].cache.version)
    <3>1. CASE OK
      <4>1. client'[c].cache.version = u
        BY <2>3, <2>4, <2>11, <3>1
      <4>2. NotAbove(u, u)
        BY OrderOfVersions
      <4>3. QED  BY <2>3, <2>7, <3>1, <4>1, <4>2
    <3>2. CASE ~OK
      BY <2>3, <2>6, <2>11, <3>2
    <3>3. QED  BY <3>1, <3>2
  <2>12. WritersKnowAcked'
    <3>1. \A d \in Client : Writing(d)' => d = c /\ client'[c].phase # "idle"
      BY <2>2 DEF Writing, OneAtATime
    <3>2. QED  BY <2>11, <3>1 DEF WritersKnowAcked
  <2>13. QED  BY <2>10, <2>12
<1>6. ASSUME NEW n \in Server, Crash(n)
      PROVE  AckedIsHeld' /\ WritersKnowAcked'
  <2>1. /\ client' = client /\ acked' = acked
        /\ (~Up(n))'
        /\ \A m \in Server : m # n => store'[m] = store[m] /\ status'[m] = status[m]
    BY <1>6 DEF Crash, history, TypeOK, Up
  <2>2. ASSUME NEW w \in acked
        PROVE  Cardinality({m \in Replica : ~Up(m) \/ Has(m, w)}') >= W_COUNT
    <3>1. \A m \in Replica : ~Up(m) \/ Has(m, w) => (~Up(m))' \/ Has(m, w)'
      BY <2>1, ReplicaFacts DEF Has, Up
    <3>2. QED  BY <3>1, HeldByMore
  <2>3. AckedIsHeld'
    BY <2>1, <2>2 DEF AckedIsHeld
  <2>4. WritersKnowAcked'
    BY <2>1 DEF WritersKnowAcked, Writing
  <2>5. QED  BY <2>3, <2>4
<1>7. ~ \E n \in Server : Restart(n)
  BY DEF Restart, Undisturbed
<1>8. QED  BY <1>3, <1>4, <1>5, <1>6, <1>7, StepKinds

\* What a quorum has, each answer offers.
LEMMA HeldIsOffered ==
  ASSUME TypeOK, StoresAreWritten, AckedIsHeld, Undisturbed, ~Misjudged, NEW w \in acked
  PROVE  Offered(w)
<1>1. SUFFICES ASSUME NEW A \in SUBSET {n \in Replica : Up(n)}, Cardinality(A) >= R_COUNT
               PROVE  \E r \in get_latest_data({store[m] : m \in A}) :
                        r = RecordOf(w) \/ Precedes(w.version, r.version)
  BY DEF Offered, Replies
<1>2. W_COUNT + R_COUNT > Cardinality(Replica)
  BY DEF Undisturbed
<1>3. PICK k \in A : Has(k, w)
  BY <1>1, <1>2, QuorumsMeet
<1>4. PICK r \in get_latest_data({store[m] : m \in A}) :
        r = store[k] \/ Precedes(store[k].version, r.version)
  BY AnswerCovers
<1>5. PICK m \in A : r = store[m]
  BY DEF get_latest_data, remove_unconflict_data
<1>6. store[k].version \in Version /\ r.version \in Version /\ w.version \in Version
  BY <1>5, ReplicaFacts DEF TypeOK, Record, Write
<1>7. r = RecordOf(w) \/ Precedes(w.version, r.version)
  <2>1. CASE r = store[k]
    BY <1>3, <2>1 DEF Has
  <2>2. CASE Precedes(store[k].version, r.version)
    <3>1. NotAbove(w.version, store[k].version)
      BY <1>3, <1>6, OrderOfVersions DEF Has, RecordOf, Precedes
    <3>2. NotAbove(w.version, r.version)
      BY <1>6, <2>2, <3>1, OrderOfVersions DEF Precedes
    <3>3. w.version # r.version
      BY <1>6, <2>2, <3>1, OrderOfVersions DEF Precedes
    <3>4. QED  BY <3>2, <3>3 DEF Precedes
  <2>3. QED  BY <1>4, <2>1, <2>2
<1>8. QED  BY <1>4, <1>7

-----------------------------------------------------------------------------
(* One version, one value                                                    *)

Together == OwnCountersAhead /\ WritersKnowTheRest /\ StoresAgree

\* When reads and writes meet nearly all servers and each of them is there.
Calmest ==
  Close /\ ~misnamed /\ ~back /\ ~overlap /\ ~unsure /\ ~Misjudged /\ \A n \in Server : Up(n)

\* A quorum is all of the list but one.
LEMMA ReadsMissOne ==
  ASSUME Close, NEW A \in SUBSET Replica, Cardinality(A) >= R_COUNT, NEW n \in Server
  PROVE  \E x \in Server : Replica \ {x} \subseteq A
<1>1. CASE Replica \subseteq A
  BY <1>1
<1>2. CASE ~(Replica \subseteq A)
  <2>1. PICK x \in Replica : x \notin A
    BY <1>2
  <2> DEFINE B == A \union {x}
  <2>2. B \in SUBSET Replica /\ IsFiniteSet(A)
    BY <2>1, PartsOfTheList
  <2>3. Cardinality(B) = Cardinality(A) + 1
    BY <2>1, <2>2, FS_AddElement
  <2> HIDE DEF B
  <2>4. Cardinality(A) \in Nat /\ Cardinality(B) <= Cardinality(Replica)
    BY <2>2, PartsOfTheList
  <2>5. Cardinality(B) = Cardinality(Replica)
    BY <2>3, <2>4, ReplicaFacts DEF Close
  <2>6. B = Replica
    BY <2>2, <2>5, ReplicaFacts, FS_Subset
  <2>7. QED  BY <2>1, <2>6, ReplicaFacts DEF B
<1>3. QED  BY <1>1, <1>2

LEMMA TogetherRead ==
  ASSUME TypeOK, GoalsAreSet, StoresAreWritten, Together, Calmest', [Next]_vars,
         NEW c \in Client, NEW goal \in Put \union {NoPut}, NEW n \in Server, Get(c, goal, n)
  PROVE  Together'
<1>1. TypeOK' /\ ~Misjudged
  BY TypesStep, HypothesesBefore DEF Calmest
<1>2. /\ store' = store
      /\ \A d \in Client : ~Writing(d)
      /\ \A d \in Client : d # c => client'[d] = client[d]
  BY GetReads DEF Calmest
<1>3. PICK A : ReadFrom(c, A)
  BY GetReads
<1>4. A \in SUBSET Replica /\ Cardinality(A) >= R_COUNT
  BY <1>3 DEF ReadFrom
<1>5. OwnCountersAhead' /\ StoresAgree'
  BY <1>2 DEF Together, OwnCountersAhead, StoresAgree
<1> DEFINE v == client'[c].cache.version
<1>6. ASSUME Writing(c)'
      PROVE  \E x \in Server : \A m \in Replica \ {x} : NotAbove(store[m].version, v)
  <2>1. Close
    BY DEF Calmest, Close
  <2>2. PICK x \in Server : Replica \ {x} \subseteq A
    BY <1>4, <2>1, ReadsMissOne
  <2>3. \A m \in A : NotAbove(store[m].version, v)
    BY <1>1, <1>3, <1>6, ReaderKnows
  <2>4. QED  BY <2>2, <2>3
<1>7. ASSUME Writing(c)', NEW m \in Replica
      PROVE  v[m] <= store[m].version[m]
  <2>1. \A s \in Server : Lists(v, s) => \E k \in Replica : store[k].version[s] = v[s]
    BY <1>3, <1>4, <1>7 DEF ReadFrom, Writing, get_latest_data, remove_unconflict_data
  <2>2. v \in Version /\ store[m].version \in Version /\ m \in Server
    BY <1>1, ReplicaFacts DEF TypeOK, KeyValueStoreClient, Record
  <2> HIDE DEF v
  <2>3. CASE Lists(v, m)
    <3>1. PICK k \in Replica : store[k].version[m] = v[m]
      BY <2>1, <2>2, <2>3
    <3>2. store[k].version[m] <= store[m].version[m]
      BY DEF Together, OwnCountersAhead
    <3>3. QED  BY <3>1, <3>2
  <2>4. CASE ~Lists(v, m)
    BY <2>2, <2>4, MaxVersionIsNat DEF Version, Lists
  <2>5. QED  BY <2>3, <2>4
<1>8. \A d \in Client : Writing(d)' => d = c
  BY <1>2 DEF Writing
<1>9. WritersKnowTheRest'
  BY <1>2, <1>6, <1>7, <1>8 DEF WritersKnowTheRest
<1>10. QED  BY <1>5, <1>9 DEF Together

LEMMA TogetherWrite ==
  ASSUME TypeOK, GoalsAreSet, StoresAreWritten, OneAtATime, Together, Calmest', [Next]_vars,
         NEW c \in Client, NEW n \in Server, NEW heard \in BOOLEAN, PutAnswered(c, n, heard)
  PROVE  Together'
<1>1. PICK coordinator \in Server, u \in Version,
           write \in Write, T \in SUBSET Replica, OK \in BOOLEAN :
        PutThrough(c, n, coordinator, u, write, T, OK)
  BY PutAnsweredStores
<1>2. Writing(c) /\ \A d \in Client : d # c => client'[d] = client[d]
  BY PutAnsweredStores
<1> DEFINE v == client[c].cache.version
<1>3. v \in Version /\ \A m \in Server : store[m].version \in Version
  BY DEF TypeOK, KeyValueStoreClient, Record
<1>4. /\ n \in Replica /\ n \in Server /\ n \in T /\ T \subseteq Replica
      /\ v[n] < MaxVersion /\ u = update_version(v, n)
      /\ \A m \in T : store'[m] = RecordOf(write) /\ store'[m].version = u
      /\ \A m \in Server \ T : store'[m] = store[m]
  BY <1>1, ReplicaFacts DEF PutThrough, Calmest, Close, RecordOf
<1>5. client'[c].phase = "idle" \/ client'[c].cache.version = u
  BY <1>1 DEF PutThrough, Calmest
<1>6. PICK x \in Server : \A m \in Replica \ {x} : NotAbove(store[m].version, v)
  BY <1>2 DEF Together, WritersKnowTheRest
<1>7. \A m \in Replica : v[m] <= store[m].version[m]
  BY <1>2 DEF Together, WritersKnowTheRest
<1>8. \A k, m \in Replica : store[k].version[m] <= store[m].version[m]
  BY DEF Together, OwnCountersAhead
<1> HIDE DEF v
<1>9. u[n] = v[n] + 1 /\ v[n] < u[n] /\ NotAbove(v, u) /\ \A s \in Server : s # n => u[s] = v[s]
  BY <1>3, <1>4, BumpFacts
<1>10. /\ \A s \in Server : u[s] \in Int /\ v[s] \in Int /\ v[s] <= u[s]
       /\ \A m, s \in Server : store[m].version[s] \in Int
  BY <1>3, <1>9, MaxVersionIsNat DEF Version, NotAbove
<1>11. Replica \subseteq Server
  BY ReplicaFacts
<1>12. \A k \in Replica \ {x}, s \in Server : store[k].version[s] <= v[s]
  BY <1>6 DEF NotAbove
<1>13. ASSUME NEW k \in Replica \ T, NEW m \in T
       PROVE  store[k].version[m] <= u[m]
  <2>1. k \in Server /\ m \in Server /\ m \in Replica /\ k # m
    BY <1>4, <1>11, <1>13
  <2>2. CASE k # x
    <3>1. store[k].version[m] <= v[m]
      BY <1>12, <2>1, <2>2
    <3>2. QED  BY <1>10, <2>1, <3>1
  <2>3. CASE k = x
    <3>1. store[m].version[m] <= v[m]
      BY <1>12, <2>1, <2>3
    <3>2. store[k].version[m] <= store[m].version[m]
      BY <1>8, <2>1
    <3>3. QED  BY <1>10, <2>1, <3>1, <3>2
  <2>4. QED  BY <2>2, <2>3
<1>14. ASSUME NEW m \in Replica
       PROVE  u[m] <= store'[m].version[m]
  <2>1. CASE m \in T
    BY <1>4, <1>10, <1>11, <2>1
  <2>2. CASE m \notin T
    <3>1. m # n /\ store'[m] = store[m] /\ u[m] = v[m] /\ v[m] <= store[m].version[m]
      BY <1>4, <1>7, <1>9, <1>11, <2>2
    <3>2. QED  BY <3>1
  <2>3. QED  BY <2>1, <2>2
<1>15. ASSUME NEW k \in Replica, NEW m \in Replica
       PROVE  store'[k].version[m] <= store'[m].version[m]
  <2>1. CASE k \in T
    BY <1>4, <1>14, <2>1
  <2>2. CASE k \notin T /\ m \in T
    BY <1>4, <1>11, <1>13, <2>2
  <2>3. CASE k \notin T /\ m \notin T
    BY <1>4, <1>8, <1>11, <2>3
  <2>4. QED  BY <2>1, <2>2, <2>3
<1>16. OwnCountersAhead'
  BY <1>15 DEF OwnCountersAhead
<1>17. ASSUME NEW k \in Server \ T
       PROVE  store[k].version # u
  <2>1. SUFFICES ASSUME store[k].version = u
                 PROVE  FALSE
    OBVIOUS
  <2>2. u[n] > 0
    BY <1>3, <1>4, <1>9, <1>10, MaxVersionIsNat DEF Version
  <2>3. k \in Replica
    BY <1>4, <2>1, <2>2 DEF StoresAreWritten, Absent, NoVersion
  <2>4. CASE k # x
    BY <1>4, <1>9, <1>10, <1>12, <2>1, <2>3, <2>4
  <2>5. CASE k = x
    <3>1. n # x
      BY <1>4, <1>17, <2>5
    <3>2. store[k].version[n] <= store[n].version[n]
      BY <1>4, <1>8, <2>3
    <3>3. store[n].version[n] <= v[n]
      BY <1>4, <1>12, <3>1
    <3>4. QED  BY <1>4, <1>9, <1>10, <2>1, <3>2, <3>3
  <2>6. QED  BY <2>4, <2>5
<1>18. StoresAgree'
  <2>1. \A k, m \in Server : store[k].version = store[m].version => store[k].value = store[m].value
    BY DEF Together, StoresAgree
  <2>2. \A k, m \in Server : store'[k].version = store'[m].version => store'[k].value = store'[m].value
    BY <1>4, <1>17, <2>1
  <2>3. QED  BY <2>2 DEF StoresAgree
<1>19. ASSUME client'[c].phase # "idle"
       PROVE  /\ \A m \in Replica \ {x} : NotAbove(store'[m].version, client'[c].cache.version)
              /\ \A m \in Replica : client'[c].cache.version[m] <= store'[m].version[m]
  <2>1. client'[c].cache.version = u
    BY <1>5, <1>19
  <2>2. ASSUME NEW m \in Replica \ {x}
        PROVE  NotAbove(store'[m].version, u)
    <3>1. m \in Server
      BY <1>11
    <3>2. CASE m \in T
      BY <1>4, <3>2, OrderOfVersions
    <3>3. CASE m \notin T
      BY <1>3, <1>4, <1>6, <1>9, <3>1, <3>3, OrderOfVersions
    <3>4. QED  BY <3>2, <3>3
  <2>3. QED  BY <1>14, <2>1, <2>2
<1>20. WritersKnowTheRest'
  <2>1. \A d \in Client : Writing(d)' => d = c /\ client'[c].phase # "idle"
    BY <1>2 DEF Writing, OneAtATime
  <2>2. QED  BY <1>19, <2>1 DEF WritersKnowTheRest
<1>21. QED  BY <1>16, <1>18, <1>20 DEF Together

\* A crash leaves a server down, and one that comes back is noted.
LEMMA CalmestBefore ==
  ASSUME TypeOK, GoalsAreSet, [Next]_vars, Calmest'
  PROVE  /\ Calmest
         /\ ~ \E n \in Server : Crash(n) \/ Restart(n)
<1>1. ~ \E n \in Server : Crash(n)
  BY DEF Crash, Calmest, Up, TypeOK
<1>2. ~ \E n \in Server : Restart(n)
  BY DEF Restart, Calmest
<1>3. UNCHANGED status
  BY <1>1, <1>2, StepKinds, GetReads, PutAnsweredStores DEF Quiet
<1>4. QED  BY <1>1, <1>2, <1>3, HypothesesBefore DEF Calmest, Close, Up

LEMMA TogetherStep ==
  ASSUME TypeOK, GoalsAreSet, StoresAreWritten, OneAtATime, Together, Calmest', [Next]_vars
  PROVE  Together'
<1>1. CASE Quiet
  BY <1>1 DEF Quiet, Together, OwnCountersAhead, WritersKnowTheRest, StoresAgree
<1>2. QED  BY <1>1, StepKinds, CalmestBefore, TogetherRead, TogetherWrite

-----------------------------------------------------------------------------
(* The invariant                                                             *)

LEMMA InvInit == Init => IndInv
<1>1. SUFFICES ASSUME Init
               PROVE  IndInv
  OBVIOUS
<1>2. /\ TypeOK /\ GoalsAreSet
      /\ written = {} /\ acked = {}
      /\ \A n \in Server : store[n] = Absent
      /\ \A c \in Client : client[c].cache = Absent /\ ~Writing(c)
  BY <1>1, TypesAtFirst, NothingAtFirst
<1>3. StoresAreWritten /\ OneAtATime /\ AckedIsHeld /\ WritersKnowAcked
  BY <1>2 DEF StoresAreWritten, OneAtATime, AckedIsHeld, WritersKnowAcked
<1>4. CountersAreWritten
  BY <1>2, AbsentIsWitnessed, CountersMean
<1>5. OwnCountersAhead
  BY <1>2, ReplicaFacts DEF OwnCountersAhead, Absent, NoVersion
<1>6. WritersKnowTheRest /\ StoresAgree
  BY <1>2 DEF WritersKnowTheRest, StoresAgree
<1>7. QED  BY <1>2, <1>3, <1>4, <1>5, <1>6 DEF IndInv

LEMMA InvStep == IndInv /\ [Next]_vars => IndInv'
<1>1. SUFFICES ASSUME IndInv, [Next]_vars
               PROVE  IndInv'
  OBVIOUS
<1>2. TypeOK /\ GoalsAreSet /\ StoresAreWritten
  BY <1>1 DEF IndInv
<1>3. TypeOK' /\ GoalsAreSet' /\ StoresAreWritten'
  BY <1>1, <1>2, TypesStep, StoresStep
<1>4. (~misnamed)' => CountersAreWritten'
  BY <1>1, <1>2, HypothesesBefore, CountersStep DEF IndInv
<1>5. (~overlap)' => OneAtATime'
  BY <1>1, <1>2, HypothesesBefore, OneAtATimeStep DEF IndInv
<1>6. ASSUME Undisturbed', ~overlap', ~Misjudged'
      PROVE  AckedIsHeld' /\ WritersKnowAcked'
  <2>1. Undisturbed /\ ~overlap /\ ~Misjudged
    BY <1>1, <1>2, <1>6, HypothesesBefore
  <2>2. QED  BY <1>1, <1>2, <1>6, <2>1, AckedStep DEF IndInv
<1>7. ASSUME Calmest'
      PROVE  Together'
  <2>1. Calmest
    BY <1>1, <1>2, <1>7, CalmestBefore
  <2>2. OneAtATime /\ Together
    BY <1>1, <2>1 DEF IndInv, Calmest, Together
  <2>3. QED  BY <1>1, <1>2, <1>7, <2>2, TogetherStep
<1>8. QED  BY <1>3, <1>4, <1>5, <1>6, <1>7 DEF IndInv, Calmest, Together

\* The invariant behind the library's promises holds for every list, all
\* quorum sizes and any number of clients, puts and faults.
THEOREM Invariance == Spec => []IndInv
<1>1. Init => IndInv
  BY InvInit
<1>2. IndInv /\ [Next]_vars => IndInv'
  BY InvStep
<1>3. QED  BY <1>1, <1>2, PTL DEF Spec

\* Through read, choice, write-back and write, with calls that break and
\* servers that die in between, a write answered OK is in each later answer of
\* a quorum, as it is or superseded by one that knew of it: when quorums
\* overlap and clients take turns.
THEOREM AckedStaysOffered == Spec => []AckedIsOffered
<1>1. IndInv => AckedIsOffered
  BY HeldIsOffered DEF IndInv, AckedIsOffered
<1>2. QED  BY <1>1, Invariance, PTL

\* A version stands for one value on all servers, for clients that take turns
\* and reads that miss one replica at most, as long as no two versions have
\* come up that the comparison misjudges.
THEOREM VersionsStayUnique == Spec => [](~Misjudged => VersionsAreUnique)
<1>1. IndInv => (~Misjudged => VersionsAreUnique)
  BY DEF IndInv, VersionsAreUnique, StoresAgree
<1>2. QED  BY <1>1, Invariance, PTL

=============================================================================
