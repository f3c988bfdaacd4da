------------------------- MODULE ReplicationProofs -------------------------
(***************************************************************************)
(* The safety of the data path for every preference list, every quorum     *)
(* size and any number of requests, broken calls and crashes.              *)
(***************************************************************************)
EXTENDS Replication, FiniteSetTheorems, TLAPS, VersionVectorProofs

LEMMA PreferenceFacts ==
  /\ Len(Preference) \in Nat
  /\ \A i \in Position : Preference[i] \in Server /\ Preference[i] \in Replica
  /\ Replica \subseteq Server
  /\ IsFiniteSet(Replica)
<1>1. Len(Preference) \in Nat /\ \A i \in Position : Preference[i] \in Server
  BY PreferenceIsList DEF Position
<1>2. \A i \in Position : Preference[i] \in Replica
  BY DEF Position, Replica
<1>3. Replica \subseteq Server
  BY <1>1 DEF Position, Replica
<1>4. IsFiniteSet(Replica)
  BY <1>3, ServerFinite, FS_Subset
<1>5. QED  BY <1>1, <1>2, <1>3, <1>4

\* Whatever a client attaches to a write is a version.
LEMMA ClientVersionsAreVersions ==
  ASSUME TypeOK
  PROVE  ClientVersions \subseteq Version
<1>1. NoVersion \in Version
  BY MaxVersionIsNat DEF NoVersion, Version
<1>2. ASSUME NEW g \in Get
      PROVE  reconcile_version({r.version : r \in get[g].reply}) \in Version
  <2>1. \A r \in get[g].reply : r.version \in Version
    BY <1>2 DEF TypeOK, GetRequest, Record
  <2>2. {r.version : r \in get[g].reply} \in SUBSET Version
    BY <2>1
  <2>3. QED  BY <2>2, ReconcileIsVersion
<1>3. QED  BY <1>1, <1>2 DEF ClientVersions

LEMMA AbsentIsRecord ==
  Absent \in Record /\ Absent.version = NoVersion
  BY MaxVersionIsNat DEF Absent, Record, Version, NoVersion

-----------------------------------------------------------------------------
(* What the servers know of one put: how PutIdle, PutInLoop and PutDone      *)
(* survive each kind of step.                                                *)

\* Replicas that stored a record at some time stay counted.
LEMMA AppliedGrows ==
  ASSUME NEW p \in Put,
         \A n \in Server : rpc[p][n] = "applied" => rpc'[p][n] = "applied"
  PROVE  /\ Applied(p) \subseteq Applied(p)'
         /\ IsFiniteSet(Applied(p)) /\ IsFiniteSet(Applied(p)')
         /\ Cardinality(Applied(p)) \in Nat /\ Cardinality(Applied(p)') \in Nat
         /\ Cardinality(Applied(p)) <= Cardinality(Applied(p)')
<1>1. Applied(p) \subseteq Applied(p)'
  BY PreferenceFacts DEF Applied
<1>2. IsFiniteSet(Applied(p)) /\ IsFiniteSet(Applied(p)')
  BY PreferenceFacts, FS_Subset DEF Applied
<1>3. QED  BY <1>1, <1>2, FS_Subset, FS_CardinalityType

\* The same for those of them which the loop has left behind.
LEMMA CountedGrows ==
  ASSUME NEW p \in Put,
         \A n \in Server : rpc[p][n] = "applied" => rpc'[p][n] = "applied",
         put[p].next \in Int, put'[p].next \in Int,
         put[p].next <= put'[p].next
  PROVE  LET old == Applied(p) \intersect Visited(p)
             new == (Applied(p) \intersect Visited(p))'
         IN  /\ old \subseteq new
             /\ IsFiniteSet(old) /\ IsFiniteSet(new)
             /\ Cardinality(old) \in Nat /\ Cardinality(new) \in Nat
             /\ Cardinality(old) <= Cardinality(new)
<1> DEFINE old == Applied(p) \intersect Visited(p)
           new == Applied(p)' \intersect Visited(p)'
<1>1. old \subseteq new
  BY AppliedGrows, PreferenceFacts DEF Visited, Position
<1>2. IsFiniteSet(old) /\ IsFiniteSet(new)
  BY AppliedGrows, FS_Intersection
<1> HIDE DEF old, new
<1>3. Cardinality(old) \in Nat /\ Cardinality(new) \in Nat /\ Cardinality(old) <= Cardinality(new)
  BY <1>1, <1>2, FS_Subset, FS_CardinalityType
<1>4. QED  BY <1>1, <1>2, <1>3 DEF old, new

PutInv(p) == PutIdle(p) /\ PutInLoop(p) /\ PutDone(p)

\* The handler does not move; its calls may.
LEMMA PutKept ==
  ASSUME NEW p \in Put, TypeOK, PutInv(p), put'[p] = put[p],
         \A n \in Server : rpc[p][n] = "none" <=> rpc'[p][n] = "none",
         \A n \in Server : rpc[p][n] = "applied" => rpc'[p][n] = "applied"
  PROVE  PutInv(p)'
<1>1. put[p].success_cnt \in Int /\ put[p].next \in Int
  BY PreferenceFacts DEF TypeOK, PutRequest
<1>2. PutIdle(p)'
  BY DEF PutInv, PutIdle
<1>3. PutInLoop(p)'
  <2>1. SUFFICES ASSUME put'[p].phase = "loop"
                 PROVE  PutInLoop(p)'
    BY DEF PutInLoop
  <2>2. put[p].success_cnt <= Cardinality((Applied(p) \intersect Visited(p))')
    <3> DEFINE new == (Applied(p) \intersect Visited(p))'
               old == Applied(p) \intersect Visited(p)
    <3>1. put[p].success_cnt <= Cardinality(old)
      BY <2>1 DEF PutInv, PutInLoop
    <3>2. Cardinality(old) \in Nat /\ Cardinality(new) \in Nat /\ Cardinality(old) <= Cardinality(new)
      BY <1>1, CountedGrows
    <3> HIDE DEF old, new
    <3>3. QED  BY <1>1, <3>1, <3>2 DEF new
  <2>3. QED  BY <2>1, <2>2, PreferenceFacts DEF PutInv, PutInLoop
<1>4. PutDone(p)'
  BY AppliedGrows, CountsAreNat DEF PutInv, PutDone
<1>5. QED  BY <1>2, <1>3, <1>4 DEF PutInv

\* The loop goes on to the next server without counting this one.
LEMMA PutMoves ==
  ASSUME NEW p \in Put, TypeOK, PutInv(p),
         put[p].phase = "loop", put[p].next \in Position,
         put'[p] = Passed(put[p]),
         rpc'[p] = rpc[p]
  PROVE  put'[p] \in PutRequest /\ PutInv(p)'
<1>1. put[p] \in PutRequest
  BY DEF TypeOK
<1>2. put'[p] \in PutRequest /\ put'[p].next = put[p].next + 1
  <2>1. put[p].next + 1 \in 1 .. Len(Preference) + 1
    BY PreferenceFacts DEF Position
  <2>2. QED  BY <1>1, <2>1 DEF PutRequest, Passed
<1>3. put[p].success_cnt \in Int /\ put[p].next \in Int /\ put[p].try_cnt \in Int
  BY <1>1, PreferenceFacts DEF PutRequest
<1>4. put[p].success_cnt <= Cardinality((Applied(p) \intersect Visited(p))')
  <2> DEFINE new == (Applied(p) \intersect Visited(p))'
             old == Applied(p) \intersect Visited(p)
  <2>1. put[p].success_cnt <= Cardinality(old)
    BY DEF PutInv, PutInLoop
  <2>2. put'[p].next \in Int /\ put[p].next <= put'[p].next
    BY <1>2, <1>3
  <2>3. Cardinality(old) \in Nat /\ Cardinality(new) \in Nat /\ Cardinality(old) <= Cardinality(new)
    BY <1>3, <2>2, CountedGrows
  <2> HIDE DEF old, new
  <2>4. QED  BY <1>3, <2>1, <2>3 DEF new
<1>5. PutInLoop(p)'
  BY <1>1, <1>2, <1>3, <1>4, PreferenceFacts DEF PutInv, PutInLoop, PutRequest, Position, Passed
<1>6. PutIdle(p)' /\ PutDone(p)'
  BY <1>1 DEF PutIdle, PutDone, PutRequest, Passed
<1>7. QED  BY <1>2, <1>5, <1>6 DEF PutInv

\* The loop sends the record to the server it has reached.
LEMMA PutCalls ==
  ASSUME NEW p \in Put, NEW n \in Server, TypeOK, PutInv(p), CallPeer(p, n)
  PROVE  put'[p] \in PutRequest /\ PutInv(p)'
<1> DEFINE k == put[p].next
<1>1. put[p] \in PutRequest /\ rpc[p] \in [Server -> CallStage]
  BY DEF TypeOK
<1>2. k \in Position /\ n = Preference[k] /\ put[p].phase = "loop"
  BY <1>1, PreferenceFacts DEF CallPeer, AtPeer, PutRequest, Position
<1>3. put'[p] = Tried(put[p]) /\ rpc'[p] = [rpc[p] EXCEPT ![n] = "sent"]
  <2>1. put' = [put EXCEPT ![p] = Tried(put[p])]
    BY DEF CallPeer
  <2>2. rpc' = [rpc EXCEPT ![p] = [rpc[p] EXCEPT ![n] = "sent"]]
    BY DEF CallPeer
  <2>3. QED  BY <2>1, <2>2 DEF TypeOK
<1>4. put[p].success_cnt \in Int /\ k \in Int /\ put[p].try_cnt \in Nat /\ put[p].try_cnt < k
  BY <1>1, <1>2, PreferenceFacts DEF PutRequest, PutInv, PutInLoop, CallPeer
<1>5. put'[p] \in PutRequest
  BY <1>1, <1>2, <1>3, <1>4, PreferenceFacts DEF PutRequest, Position, Tried
<1>6. put'[p].next = k /\ put'[p].try_cnt = put[p].try_cnt + 1
  BY <1>1, <1>3 DEF PutRequest, Tried
<1>7. \A m \in Server \ {n} : rpc'[p][m] = rpc[p][m]
  BY <1>1, <1>3
<1>8. put[p].success_cnt <= Cardinality((Applied(p) \intersect Visited(p))')
  <2> DEFINE new == (Applied(p) \intersect Visited(p))'
             old == Applied(p) \intersect Visited(p)
  <2>1. put[p].success_cnt <= Cardinality(old)
    BY <1>2 DEF PutInv, PutInLoop
  <2>2. \A m \in Server : rpc[p][m] = "applied" => rpc'[p][m] = "applied"
    BY <1>7 DEF CallPeer
  <2>3. put[p].next \in Int /\ put'[p].next \in Int /\ put[p].next <= put'[p].next
    BY <1>4, <1>6
  <2>4. Cardinality(old) \in Nat /\ Cardinality(new) \in Nat /\ Cardinality(old) <= Cardinality(new)
    BY <2>2, <2>3, CountedGrows
  <2> HIDE DEF old, new
  <2>5. QED  BY <1>4, <2>1, <2>4 DEF new
<1>9. \A i \in Position \ {k} : Preference[i] # n /\ rpc'[p][Preference[i]] = rpc[p][Preference[i]]
  BY <1>2, <1>7, PreferenceIsList, PreferenceFacts DEF Position
<1>10. rpc'[p][n] = "sent" /\ n # put[p].node
  BY <1>1, <1>3 DEF CallPeer
<1>11. /\ put'[p].phase = "loop" /\ put'[p].node = put[p].node /\ put'[p].ret = put[p].ret
       /\ put'[p].version = put[p].version /\ put'[p].success_cnt = put[p].success_cnt
  BY <1>1, <1>2, <1>3 DEF PutRequest, Tried
<1>12. PutInLoop(p)'
  BY <1>2, <1>4, <1>6, <1>8, <1>9, <1>10, <1>11, PreferenceFacts DEF PutInv, PutInLoop, Position
<1>13. PutIdle(p)' /\ PutDone(p)'
  BY <1>11 DEF PutIdle, PutDone
<1>14. QED  BY <1>5, <1>12, <1>13 DEF PutInv

\* The server the loop has reached holds the record and is counted.
LEMMA PutCounts ==
  ASSUME NEW p \in Put, NEW n \in Server, NEW t \in Nat, TypeOK, PutInv(p),
         AtPeer(p, n), t <= put[p].next,
         put'[p] = Acknowledged([put[p] EXCEPT !.try_cnt = t]),
         rpc'[p] = [rpc[p] EXCEPT ![n] = "applied"]
  PROVE  put'[p] \in PutRequest /\ PutInv(p)'
<1> DEFINE k == put[p].next
           K == put'[p].next
<1>1. put[p] \in PutRequest /\ rpc[p] \in [Server -> CallStage]
  BY DEF TypeOK
<1>2. k \in Position /\ n = Preference[k] /\ put[p].phase = "loop"
  BY <1>1, PreferenceFacts DEF AtPeer, PutRequest, Position
<1>3. put[p].success_cnt \in Nat /\ k \in Nat /\ put[p].success_cnt < k
  BY <1>1, <1>2, PreferenceFacts DEF PutRequest, PutInv, PutInLoop
<1>4. /\ put'[p].phase = "loop" /\ put'[p].node = put[p].node /\ put'[p].ret = put[p].ret
      /\ put'[p].version = put[p].version /\ put'[p].success_cnt = put[p].success_cnt + 1
      /\ put'[p].try_cnt = t
      /\ K = Len(Preference) + 1 \/ K = k + 1
  BY <1>1, <1>2 DEF PutRequest, Acknowledged
<1>5. put'[p] \in PutRequest
  <2>1. /\ t \in 0 .. Len(Preference)
        /\ put[p].success_cnt + 1 \in 0 .. Len(Preference)
        /\ k + 1 \in 1 .. Len(Preference) + 1
        /\ Len(Preference) + 1 \in 1 .. Len(Preference) + 1
    BY <1>2, <1>3, PreferenceFacts DEF Position
  <2>2. QED  BY <1>1, <2>1 DEF PutRequest, Acknowledged
<1>6. K \in Nat /\ k < K /\ K <= Len(Preference) + 1
  BY <1>2, <1>4, PreferenceFacts DEF Position
<1>7. rpc'[p][n] = "applied" /\ \A m \in Server \ {n} : rpc'[p][m] = rpc[p][m]
  BY <1>1
<1>8. \A i \in Position \ {k} : Preference[i] # n /\ rpc'[p][Preference[i]] = rpc[p][Preference[i]]
  BY <1>2, <1>7, PreferenceIsList, PreferenceFacts DEF Position
<1>9. put'[p].success_cnt <= Cardinality((Applied(p) \intersect Visited(p))')
  <2> DEFINE new == (Applied(p) \intersect Visited(p))'
             old == Applied(p) \intersect Visited(p)
  <2>1. put[p].success_cnt <= Cardinality(old)
    BY <1>2 DEF PutInv, PutInLoop
  <2>2. \A m \in Server : rpc[p][m] = "applied" => rpc'[p][m] = "applied"
    BY <1>7
  <2>3. IsFiniteSet(old) /\ IsFiniteSet(new) /\ old \subseteq new
        /\ Cardinality(old) \in Nat /\ Cardinality(new) \in Nat
    <3>1. put[p].next \in Int /\ put'[p].next \in Int /\ put[p].next <= put'[p].next
      BY <1>3, <1>6
    <3>2. QED  BY <2>2, <3>1, CountedGrows
  <2>4. n \notin old
    BY <1>2, <1>3, <1>8 DEF Visited
  <2>5. n \in new
    BY <1>2, <1>6, <1>7, PreferenceFacts DEF Visited, Applied
  <2> HIDE DEF old, new
  <2>6. Cardinality(old \union {n}) = Cardinality(old) + 1 /\ old \union {n} \subseteq new
    BY <2>3, <2>4, <2>5, FS_AddElement
  <2>7. Cardinality(old) + 1 <= Cardinality(new)
    BY <2>3, <2>6, FS_Subset
  <2>8. QED  BY <1>3, <1>4, <2>1, <2>3, <2>7 DEF new
<1> HIDE DEF k, K
<1>10. PutInLoop(p)'
  <2>1. t <= Len(Preference) /\ t <= K /\ t < K
    BY <1>2, <1>3, <1>6, PreferenceFacts DEF Position, k
  <2>2. put[p].success_cnt + 1 < K
    BY <1>3, <1>6
  <2>3. \A i \in Position : i >= K => i # k /\ i > k
    BY <1>3, <1>6, PreferenceFacts DEF Position
  <2>4. \A i \in Position :
          /\ i > K => rpc'[p][Preference[i]] = "none"
          /\ i >= K /\ Preference[i] = put'[p].node => rpc'[p][Preference[i]] = "none"
          /\ i = K /\ rpc'[p][Preference[i]] = "none" => t < K
    BY <1>2, <1>3, <1>4, <1>6, <1>8, <2>1, <2>3, PreferenceFacts
       DEF Position, PutInv, PutInLoop, k
  <2>5. QED  BY <1>2, <1>4, <1>9, <2>1, <2>2, <2>4 DEF PutInv, PutInLoop, K
<1>11. PutIdle(p)' /\ PutDone(p)'
  BY <1>4 DEF PutIdle, PutDone
<1>12. QED  BY <1>5, <1>10, <1>11 DEF PutInv

-----------------------------------------------------------------------------
(* The put side of a step: types, PutInv, finished puts stay as they are.    *)

PutsAfter ==
  /\ put' \in [Put -> PutRequest]
  /\ rpc' \in [Put -> [Server -> CallStage]]
  /\ \A p \in Put : PutInv(p)'
  /\ \A p \in Put : put[p].phase = "done" => put'[p] = put[p]
  /\ CallsHaveVersions'

LEMMA NoPutMoves ==
  ASSUME IndInv, UNCHANGED <<put, rpc>>
  PROVE  PutsAfter
<1>1. TypeOK /\ \A p \in Put : PutInv(p)
  BY DEF IndInv, PutInv
<1>2. \A p \in Put : PutInv(p)'
  BY <1>1, PutKept
<1>3. QED  BY <1>1, <1>2 DEF PutsAfter, TypeOK, IndInv, CallsHaveVersions

\* What is left to show when only the handler and the calls of p have moved.
LEMMA OnePutMoves ==
  ASSUME IndInv, NEW p \in Put, put[p].phase # "done",
         put'[p] \in PutRequest, put' = [put EXCEPT ![p] = put'[p]],
         rpc'[p] \in [Server -> CallStage], rpc' = [rpc EXCEPT ![p] = rpc'[p]],
         PutInv(p)',
         \A n \in Server : rpc'[p][n] # "none" => put'[p].version # NoVersion
  PROVE  PutsAfter
<1>1. TypeOK /\ \A q \in Put : PutInv(q)
  BY DEF IndInv, PutInv
<1>2. put' \in [Put -> PutRequest] /\ rpc' \in [Put -> [Server -> CallStage]]
  BY <1>1 DEF TypeOK
<1>3. \A q \in Put \ {p} : put'[q] = put[q] /\ rpc'[q] = rpc[q]
  BY <1>1 DEF TypeOK
<1>4. \A q \in Put \ {p} : PutInv(q)'
  BY <1>1, <1>3, PutKept
<1>5. CallsHaveVersions'
  BY <1>3 DEF IndInv, CallsHaveVersions
<1>6. QED  BY <1>2, <1>3, <1>4, <1>5 DEF PutsAfter

\* Only calls have moved, and none of them to or from "none", or back from
\* "applied".
LEMMA CallsMove ==
  ASSUME IndInv, UNCHANGED put,
         rpc' \in [Put -> [Server -> CallStage]],
         \A p \in Put, n \in Server : /\ rpc[p][n] = "none" <=> rpc'[p][n] = "none"
                                      /\ rpc[p][n] = "applied" => rpc'[p][n] = "applied"
  PROVE  PutsAfter
<1>1. TypeOK /\ \A p \in Put : PutInv(p)
  BY DEF IndInv, PutInv
<1>2. \A p \in Put : PutInv(p)'
  BY <1>1, PutKept
<1>3. QED  BY <1>1, <1>2 DEF PutsAfter, TypeOK, IndInv, CallsHaveVersions

LEMMA ClientPutStep ==
  ASSUME IndInv, NEW p \in Put, NEW n \in Server, NEW version \in ClientVersions,
         ClientPut(p, n, version)
  PROVE  PutsAfter
<1> DEFINE X == [put[p] EXCEPT !.phase = "loop", !.node = n,
                               !.version = update_version(version, n)]
<1>1. TypeOK /\ PutInv(p) /\ put[p] \in PutRequest /\ put[p].phase = "idle"
  BY DEF IndInv, PutInv, TypeOK, ClientPut
<1>2. update_version(version, n) \in Version /\ update_version(version, n) # NoVersion
  BY <1>1, ClientVersionsAreVersions, BumpedVersion DEF ClientPut
<1>3. X \in PutRequest
  BY <1>1, <1>2 DEF PutRequest
<1>4. put' = [put EXCEPT ![p] = X] /\ rpc' = rpc
  BY DEF ClientPut
<1>5. put'[p] = X /\ put' = [put EXCEPT ![p] = put'[p]]
  BY <1>1, <1>4 DEF TypeOK
<1>6. /\ X.phase = "loop" /\ X.node = n /\ X.version # NoVersion /\ X.next = 1
      /\ X.try_cnt = 0 /\ X.success_cnt = 0 /\ X.ret = "none"
  BY <1>1, <1>2 DEF PutRequest, PutInv, PutIdle
<1> HIDE DEF X
<1>7. PutInv(p)'
  <2>1. \A m \in Server : rpc'[p][m] = "none"
    BY <1>1, <1>4 DEF PutInv, PutIdle
  <2>2. 0 <= Cardinality((Applied(p) \intersect Visited(p))')
    <3>1. Applied(p)' = {}
      BY <2>1, PreferenceFacts DEF Applied
    <3>2. QED  BY <3>1, FS_EmptySet
  <2>3. QED  BY <1>5, <1>6, <2>1, <2>2, PreferenceFacts DEF PutInv, PutIdle, PutInLoop, PutDone, Position
<1>8. rpc'[p] \in [Server -> CallStage] /\ rpc' = [rpc EXCEPT ![p] = rpc'[p]]
  BY <1>1, <1>4 DEF TypeOK
<1>9. QED  BY <1>1, <1>3, <1>5, <1>6, <1>7, <1>8, OnePutMoves

LEMMA ClientPutRefusedStep ==
  ASSUME IndInv, NEW p \in Put, NEW n \in Server, ClientPutRefused(p, n)
  PROVE  PutsAfter
<1> DEFINE X == [put[p] EXCEPT !.phase = "done", !.node = n, !.ret = "NOT_COORDINATOR"]
<1>1. TypeOK /\ PutInv(p) /\ put[p] \in PutRequest /\ put[p].phase = "idle"
  BY DEF IndInv, PutInv, TypeOK, ClientPutRefused
<1>2. X \in PutRequest /\ X.phase = "done" /\ X.ret = "NOT_COORDINATOR"
  BY <1>1 DEF PutRequest
<1>3. put' = [put EXCEPT ![p] = X] /\ rpc' = rpc
  BY DEF ClientPutRefused
<1> HIDE DEF X
<1>4. put'[p] = X /\ put' = [put EXCEPT ![p] = put'[p]]
  BY <1>1, <1>3 DEF TypeOK
<1>5. PutInv(p)' /\ \A m \in Server : rpc'[p][m] = "none"
  BY <1>1, <1>2, <1>3, <1>4 DEF PutInv, PutIdle, PutInLoop, PutDone
<1>6. rpc'[p] \in [Server -> CallStage] /\ rpc' = [rpc EXCEPT ![p] = rpc'[p]]
  BY <1>1, <1>3 DEF TypeOK
<1>7. QED  BY <1>1, <1>2, <1>4, <1>5, <1>6, OnePutMoves

LEMMA PutReturnStep ==
  ASSUME IndInv, NEW p \in Put, PutReturn(p)
  PROVE  PutsAfter
<1> DEFINE X == [put[p] EXCEPT !.phase = "done",
                               !.ret = IF put[p].success_cnt >= W_COUNT
                                       THEN "OK" ELSE "FAILED"]
<1>1. TypeOK /\ PutInv(p) /\ put[p] \in PutRequest /\ put[p].phase = "loop"
  BY DEF IndInv, PutInv, TypeOK, PutReturn
<1>2. /\ X \in PutRequest /\ X.phase = "done" /\ X.ret # "none" /\ X.version = put[p].version
      /\ X.ret = "OK" => put[p].success_cnt >= W_COUNT
  BY <1>1 DEF PutRequest
<1>3. put' = [put EXCEPT ![p] = X] /\ rpc' = rpc
  BY DEF PutReturn
<1> HIDE DEF X
<1>4. put'[p] = X /\ put' = [put EXCEPT ![p] = put'[p]]
  BY <1>1, <1>3 DEF TypeOK
<1>5. Applied(p)' = Applied(p)
  BY <1>3 DEF Applied
<1>6. put[p].success_cnt <= Cardinality(Applied(p)) /\ Cardinality(Applied(p)) \in Nat
  <2>1. /\ IsFiniteSet(Applied(p)) /\ Cardinality(Applied(p)) \in Nat
        /\ Cardinality(Applied(p) \intersect Visited(p)) \in Nat
        /\ Cardinality(Applied(p) \intersect Visited(p)) <= Cardinality(Applied(p))
    BY PreferenceFacts, FS_Subset, FS_Intersection, FS_CardinalityType DEF Applied
  <2>2. put[p].success_cnt \in Nat
    BY <1>1, PreferenceFacts DEF PutRequest
  <2>3. QED  BY <1>1, <2>1, <2>2 DEF PutInv, PutInLoop
<1>7. PutInv(p)'
  <2>1. put'[p].ret = "OK" => Cardinality(Applied(p)') >= W_COUNT
    <3>1. put[p].success_cnt \in Nat
      BY <1>1, PreferenceFacts DEF PutRequest
    <3>2. QED  BY <1>2, <1>4, <1>5, <1>6, <3>1, CountsAreNat
  <2>2. QED  BY <1>2, <1>4, <2>1 DEF PutInv, PutIdle, PutInLoop, PutDone
<1>8. rpc'[p] \in [Server -> CallStage] /\ rpc' = [rpc EXCEPT ![p] = rpc'[p]]
  BY <1>1, <1>3 DEF TypeOK
<1>9. \A m \in Server : rpc'[p][m] # "none" => put'[p].version # NoVersion
  BY <1>1, <1>2, <1>4 DEF PutInv, PutInLoop
<1>10. QED  BY <1>1, <1>2, <1>4, <1>7, <1>8, <1>9, OnePutMoves

\* The handler leaves the server it has reached, uncounted.
LEMMA PassedStep ==
  ASSUME IndInv, NEW p \in Put, NEW n \in Server, AtPeer(p, n),
         put' = [put EXCEPT ![p] = Passed(put[p])], rpc' = rpc
  PROVE  PutsAfter
<1>1. TypeOK /\ PutInv(p) /\ put[p] \in PutRequest /\ put[p].phase = "loop"
  BY DEF IndInv, PutInv, TypeOK, AtPeer
<1>2. put[p].next \in Position
  BY <1>1, PreferenceFacts DEF AtPeer, PutRequest, Position
<1>3. put'[p] = Passed(put[p]) /\ put' = [put EXCEPT ![p] = put'[p]] /\ rpc'[p] = rpc[p]
  BY <1>1 DEF TypeOK
<1>4. put'[p] \in PutRequest /\ PutInv(p)'
  BY <1>1, <1>2, <1>3, PutMoves
<1>5. rpc'[p] \in [Server -> CallStage] /\ rpc' = [rpc EXCEPT ![p] = rpc'[p]]
  BY <1>1 DEF TypeOK
<1>6. put'[p].version = put[p].version
  BY <1>1, <1>3 DEF Passed, PutRequest
<1>7. \A m \in Server : rpc'[p][m] # "none" => put'[p].version # NoVersion
  BY <1>1, <1>6 DEF PutInv, PutInLoop
<1>8. QED  BY <1>1, <1>3, <1>4, <1>5, <1>7, OnePutMoves

LEMMA CallPeerStep ==
  ASSUME IndInv, NEW p \in Put, NEW n \in Server, CallPeer(p, n)
  PROVE  PutsAfter
<1>1. TypeOK /\ PutInv(p) /\ put[p] \in PutRequest /\ put[p].phase = "loop"
  BY DEF IndInv, PutInv, TypeOK, CallPeer, AtPeer
<1>2. put' = [put EXCEPT ![p] = Tried(put[p])] /\ rpc' = [rpc EXCEPT ![p] = [rpc[p] EXCEPT ![n] = "sent"]]
  BY DEF CallPeer
<1>3. put'[p] = Tried(put[p]) /\ put' = [put EXCEPT ![p] = put'[p]]
  BY <1>1, <1>2 DEF TypeOK
<1>4. put'[p] \in PutRequest /\ PutInv(p)'
  BY <1>1, PutCalls
<1>5. rpc'[p] \in [Server -> CallStage] /\ rpc' = [rpc EXCEPT ![p] = rpc'[p]]
  BY <1>1, <1>2 DEF TypeOK, CallStage
<1>6. put'[p].version = put[p].version
  BY <1>1, <1>3 DEF Tried, PutRequest
<1>7. \A m \in Server : rpc'[p][m] # "none" => put'[p].version # NoVersion
  BY <1>1, <1>6 DEF PutInv, PutInLoop
<1>8. QED  BY <1>1, <1>3, <1>4, <1>5, <1>7, OnePutMoves

\* The handler counts the server it has reached, after t attempts.
LEMMA CountedStep ==
  ASSUME IndInv, NEW p \in Put, NEW n \in Server, AtPeer(p, n),
         NEW t \in Nat, t <= put[p].next,
         put' = [put EXCEPT ![p] = Acknowledged([put[p] EXCEPT !.try_cnt = t])],
         rpc' = [rpc EXCEPT ![p] = [rpc[p] EXCEPT ![n] = "applied"]]
  PROVE  PutsAfter
<1>1. TypeOK /\ PutInv(p) /\ put[p] \in PutRequest /\ put[p].phase = "loop"
  BY DEF IndInv, PutInv, TypeOK, AtPeer
<1>2. /\ put'[p] = Acknowledged([put[p] EXCEPT !.try_cnt = t])
      /\ put' = [put EXCEPT ![p] = put'[p]]
      /\ rpc'[p] = [rpc[p] EXCEPT ![n] = "applied"]
  BY <1>1 DEF TypeOK
<1>3. put'[p] \in PutRequest /\ PutInv(p)'
  BY <1>1, <1>2, PutCounts
<1>4. rpc'[p] \in [Server -> CallStage] /\ rpc' = [rpc EXCEPT ![p] = rpc'[p]]
  BY <1>1, <1>2 DEF TypeOK, CallStage
<1>5. put'[p].version = put[p].version
  BY <1>1, <1>2 DEF Acknowledged, PutRequest
<1>6. \A m \in Server : rpc'[p][m] # "none" => put'[p].version # NoVersion
  BY <1>1, <1>5 DEF PutInv, PutInLoop
<1>7. QED  BY <1>1, <1>2, <1>3, <1>4, <1>6, OnePutMoves

LEMMA PutLocalStep ==
  ASSUME IndInv, NEW p \in Put, NEW n \in Server, PutLocal(p, n)
  PROVE  PutsAfter
<1>1. /\ TypeOK /\ PutInv(p) /\ put[p] \in PutRequest /\ put[p].phase = "loop"
      /\ AtPeer(p, n) /\ n = put[p].node
  BY DEF IndInv, PutInv, TypeOK, PutLocal, AtPeer
<1>2. put[p].next \in Position /\ n = Preference[put[p].next]
  BY <1>1, PreferenceFacts DEF AtPeer, PutRequest, Position
<1>3. put[p].try_cnt \in Nat /\ put[p].try_cnt + 1 \in Nat /\ put[p].try_cnt + 1 <= put[p].next
  BY <1>1, <1>2, PreferenceFacts DEF PutRequest, PutInv, PutInLoop, Position
<1>4. Tried(put[p]) = [put[p] EXCEPT !.try_cnt = put[p].try_cnt + 1]
  BY DEF Tried
<1>5. /\ put' = [put EXCEPT ![p] = Acknowledged(Tried(put[p]))]
      /\ rpc' = [rpc EXCEPT ![p] = [rpc[p] EXCEPT ![n] = "applied"]]
  BY DEF PutLocal
<1>6. QED  BY <1>1, <1>3, <1>4, <1>5, CountedStep

LEMMA PeerAcceptedStep ==
  ASSUME IndInv, NEW p \in Put, NEW n \in Server, PeerAccepted(p, n)
  PROVE  PutsAfter
<1>1. /\ TypeOK /\ PutInv(p) /\ put[p] \in PutRequest /\ put[p].phase = "loop"
      /\ AtPeer(p, n) /\ rpc[p][n] = "applied"
  BY DEF IndInv, PutInv, TypeOK, PeerAccepted, AtPeer
<1>2. put[p].try_cnt \in Nat /\ put[p].try_cnt <= put[p].next
  BY <1>1, PreferenceFacts DEF PutRequest, PutInv, PutInLoop
<1>3. put[p] = [put[p] EXCEPT !.try_cnt = put[p].try_cnt]
  BY <1>1 DEF PutRequest
<1>4. put' = [put EXCEPT ![p] = Acknowledged(put[p])]
  BY DEF PeerAccepted
<1>5. rpc' = [rpc EXCEPT ![p] = [rpc[p] EXCEPT ![n] = "applied"]]
  BY <1>1 DEF PeerAccepted, TypeOK
<1>6. QED  BY <1>1, <1>2, <1>3, <1>4, <1>5, CountedStep

LEMMA PeerStepStep ==
  ASSUME IndInv, NEW p \in Put, NEW n \in Server, PeerStep(p, n)
  PROVE  PutsAfter
<1>1. TypeOK
  BY DEF IndInv
<1>2. put' = put
  BY DEF PeerStep, PeerPutCheck, PeerPutApply
<1>3. rpc' \in [Put -> [Server -> CallStage]]
  <2>1. PICK x \in CallStage : rpc' = [rpc EXCEPT ![p][n] = x]
    BY DEF PeerStep, PeerPutCheck, PeerPutApply, CallStage
  <2>2. QED  BY <1>1, <2>1 DEF TypeOK
<1>4. \A q \in Put, m \in Server : /\ rpc[q][m] = "none" <=> rpc'[q][m] = "none"
                                   /\ rpc[q][m] = "applied" => rpc'[q][m] = "applied"
  <2>1. PICK x \in {"checked", "rejected", "applied"} : rpc' = [rpc EXCEPT ![p][n] = x]
    BY DEF PeerStep, PeerPutCheck, PeerPutApply
  <2>2. rpc[p][n] \in {"sent", "checked"}
    BY DEF PeerStep, PeerPutCheck, PeerPutApply
  <2>3. QED  BY <1>1, <2>1, <2>2 DEF TypeOK
<1>5. QED  BY <1>2, <1>3, <1>4, CallsMove

LEMMA CrashStep ==
  ASSUME IndInv, NEW n \in Server, Crash(n)
  PROVE  PutsAfter
<1>1. TypeOK /\ \A p \in Put : PutInv(p) /\ put[p] \in PutRequest
  BY DEF IndInv, PutInv, TypeOK
<1> DEFINE Dead(p) == [put[p] EXCEPT !.phase = "done", !.ret = "UNAVAILABLE"]
<1>2. put' = [p \in Put |-> IF put[p].phase = "loop" /\ put[p].node = n THEN Dead(p) ELSE put[p]]
  BY DEF Crash
<1>3. \A p \in Put : /\ Dead(p) \in PutRequest /\ Dead(p).phase = "done"
                     /\ Dead(p).ret = "UNAVAILABLE" /\ Dead(p).version = put[p].version
  BY <1>1 DEF PutRequest
<1> HIDE DEF Dead
<1>4. rpc' \in [Put -> [Server -> CallStage]]
  BY <1>1 DEF Crash, TypeOK, CallStage
<1>5. \A q \in Put, m \in Server : /\ rpc[q][m] = "none" <=> rpc'[q][m] = "none"
                                   /\ rpc[q][m] = "applied" => rpc'[q][m] = "applied"
  BY DEF Crash
<1>6. \A p \in Put : PutInv(p)' /\ put'[p] \in PutRequest
  <2>1. TAKE p \in Put
  <2>2. CASE put[p].phase = "loop" /\ put[p].node = n
    BY <1>2, <1>3, <2>2 DEF PutInv, PutIdle, PutInLoop, PutDone
  <2>3. CASE ~(put[p].phase = "loop" /\ put[p].node = n)
    BY <1>1, <1>2, <1>5, <2>3, PutKept
  <2>4. QED  BY <2>2, <2>3
<1>7. CallsHaveVersions'
  BY <1>2, <1>3, <1>5 DEF IndInv, CallsHaveVersions
<1>8. \A p \in Put : put[p].phase = "done" => put'[p] = put[p]
  BY <1>2
<1>9. put' \in [Put -> PutRequest]
  BY <1>2, <1>6
<1>10. QED  BY <1>4, <1>6, <1>7, <1>8, <1>9 DEF PutsAfter

LEMMA PutsStep ==
  ASSUME IndInv, [Next]_vars
  PROVE  PutsAfter
<1>1. ASSUME NEW p \in Put, NEW n \in Server, NEW version \in ClientVersions,
             ClientPut(p, n, version)
      PROVE  PutsAfter
  BY <1>1, ClientPutStep
<1>2. ASSUME NEW p \in Put, NEW n \in Server, ClientPutRefused(p, n)
      PROVE  PutsAfter
  BY <1>2, ClientPutRefusedStep
<1>3. ASSUME NEW p \in Put, PutStep(p)
      PROVE  PutsAfter
  <2>1. CASE PutReturn(p)
    BY <2>1, PutReturnStep
  <2>2. ASSUME NEW n \in Server, PutLocal(p, n)
        PROVE  PutsAfter
    BY <2>2, PutLocalStep
  <2>3. ASSUME NEW n \in Server, PeerAccepted(p, n)
        PROVE  PutsAfter
    BY <2>3, PeerAcceptedStep
  <2>4. ASSUME NEW n \in Server, CallPeer(p, n)
        PROVE  PutsAfter
    BY <2>4, CallPeerStep
  <2>5. ASSUME NEW n \in Server, SkipPeer(p, n) \/ PeerDeclined(p, n) \/ PeerDied(p, n) \/ CallBroke(p, n)
        PROVE  PutsAfter
    <3>1. AtPeer(p, n) /\ put' = [put EXCEPT ![p] = Passed(put[p])] /\ rpc' = rpc
      BY <2>5 DEF SkipPeer, PeerDeclined, PeerDied, CallBroke
    <3>2. QED  BY <3>1, PassedStep
  <2>6. QED  BY <1>3, <2>1, <2>2, <2>3, <2>4, <2>5 DEF PutStep
<1>4. ASSUME NEW p \in Put, NEW n \in Server, PeerStep(p, n)
      PROVE  PutsAfter
  BY <1>4, PeerStepStep
<1>5. ASSUME NEW n \in Server, Crash(n)
      PROVE  PutsAfter
  BY <1>5, CrashStep
<1>6. CASE UNCHANGED <<put, rpc>>
  BY <1>6, NoPutMoves
<1>7. ASSUME NEW g \in Get, NEW n \in Server, ClientGet(g, n) \/ ClientGetUnjoined(g, n)
      PROVE  PutsAfter
  BY <1>6, <1>7 DEF ClientGet, ClientGetUnjoined
<1>8. ASSUME NEW g \in Get, GetStep(g)
      PROVE  PutsAfter
  BY <1>6, <1>8 DEF GetStep, GetReturn, GetFrom, GetSkip, GetDied, GetBroke
<1>9. ASSUME NEW n \in Server, Restart(n)
      PROVE  PutsAfter
  BY <1>6, <1>9 DEF Restart
<1>10. CASE UNCHANGED vars
  BY <1>6, <1>10 DEF vars
<1>11. QED  BY <1>1, <1>2, <1>3, <1>4, <1>5, <1>7, <1>8, <1>9, <1>10 DEF Next, Serve, Request

-----------------------------------------------------------------------------
(* The get side of a step.                                                   *)

GetInv(g) ==
  /\ GetProgress(g)
  /\ \A r \in get[g].results : r.version = NoVersion => r = Absent

GetsAfter ==
  /\ get' \in [Get -> GetRequest]
  /\ \A g \in Get : GetInv(g)'

LEMMA GetKept ==
  ASSUME IndInv, PutsAfter, NEW g \in Get, get'[g] = get[g]
  PROVE  GetInv(g)'
<1>1. get[g].owed \subseteq Put /\ GetInv(g)
  BY DEF IndInv, TypeOK, GetRequest, GetInv, UnversionedIsAbsent
<1>2. \A p \in get[g].owed : put'[p] = put[p]
  BY <1>1 DEF GetInv, GetProgress, PutsAfter
<1>3. QED  BY <1>1, <1>2 DEF GetInv, GetProgress

LEMMA NoGetMoves ==
  ASSUME IndInv, PutsAfter, UNCHANGED get
  PROVE  GetsAfter
  BY GetKept DEF GetsAfter, IndInv, TypeOK

LEMMA OneGetMoves ==
  ASSUME IndInv, PutsAfter, NEW g \in Get, NEW X \in GetRequest,
         get' = [get EXCEPT ![g] = X], get'[g] = X => GetInv(g)'
  PROVE  GetsAfter
<1>1. get' \in [Get -> GetRequest] /\ get'[g] = X /\ \A h \in Get \ {g} : get'[h] = get[h]
  BY DEF IndInv, TypeOK
<1>2. \A h \in Get : GetInv(h)'
  BY <1>1, GetKept
<1>3. QED  BY <1>1, <1>2 DEF GetsAfter

LEMMA ClientGetStep ==
  ASSUME IndInv, PutsAfter, NEW g \in Get, NEW n \in Server, ClientGet(g, n)
  PROVE  GetsAfter
<1> DEFINE X == [get[g] EXCEPT !.phase = "loop", !.node = n, !.owed = Acked]
<1>1. get[g] \in GetRequest /\ GetInv(g) /\ get[g].phase = "idle" /\ put' = put
  BY DEF IndInv, TypeOK, GetInv, UnversionedIsAbsent, ClientGet
<1>2. Acked \subseteq Put /\ \A p \in Acked : put[p].phase = "done" /\ put[p].ret = "OK"
  <2>1. \A p \in Put : put[p].phase \in {"idle", "loop", "done"}
    BY DEF IndInv, TypeOK, PutRequest
  <2>2. \A p \in Acked : put[p].phase = "done"
    BY <2>1 DEF Acked, IndInv, PutIdle, PutInLoop
  <2>3. QED  BY <2>2 DEF Acked
<1>3. /\ X \in GetRequest /\ X.phase = "loop" /\ X.owed = Acked
      /\ X.next = 1 /\ X.try_cnt = 0 /\ X.answered = {} /\ X.results = {} /\ X.ret = "none"
  BY <1>1, <1>2 DEF GetRequest, GetInv, GetProgress
<1>4. get' = [get EXCEPT ![g] = X]
  BY DEF ClientGet
<1> HIDE DEF X
<1>5. ASSUME get'[g] = X PROVE GetInv(g)'
  BY <1>1, <1>2, <1>3, <1>5, FS_EmptySet DEF GetInv, GetProgress
<1>6. QED  BY <1>3, <1>4, <1>5, OneGetMoves

LEMMA ClientGetUnjoinedStep ==
  ASSUME IndInv, PutsAfter, NEW g \in Get, NEW n \in Server, ClientGetUnjoined(g, n)
  PROVE  GetsAfter
<1> DEFINE X == [get[g] EXCEPT !.phase = "done", !.ret = "CANCELLED"]
<1>1. get[g] \in GetRequest /\ GetInv(g) /\ get[g].phase = "idle" /\ put' = put
  BY DEF IndInv, TypeOK, GetInv, UnversionedIsAbsent, ClientGetUnjoined
<1>2. /\ X \in GetRequest /\ X.phase = "done" /\ X.owed = get[g].owed
      /\ X.next = 1 /\ X.try_cnt = 0 /\ X.answered = {} /\ X.results = {} /\ X.ret = "CANCELLED"
  BY <1>1 DEF GetRequest, GetInv, GetProgress
<1>3. get' = [get EXCEPT ![g] = X]
  BY DEF ClientGetUnjoined
<1> HIDE DEF X
<1>4. ASSUME get'[g] = X PROVE GetInv(g)'
  BY <1>1, <1>2, <1>4, FS_EmptySet DEF GetInv, GetProgress
<1>5. QED  BY <1>2, <1>3, <1>4, OneGetMoves

\* The loop goes on without an answer, after no attempt or one.
LEMMA GetPassedStep ==
  ASSUME IndInv, PutsAfter, UNCHANGED put, NEW g \in Get, NEW n \in Server, AtReplica(g, n),
         \/ get' = [get EXCEPT ![g] = Passed(get[g])]
         \/ get' = [get EXCEPT ![g] = Passed(Tried(get[g]))]
  PROVE  GetsAfter
<1>1. get[g] \in GetRequest /\ GetInv(g) /\ get[g].phase = "loop"
  BY DEF IndInv, TypeOK, GetInv, UnversionedIsAbsent, AtReplica
<1>2. /\ get[g].next + 1 \in 1 .. Len(Preference) + 1 /\ get[g].next \in Int
      /\ get[g].try_cnt \in 0 .. Len(Preference)
      /\ get[g].try_cnt < get[g].next
      /\ get[g].try_cnt + 1 \in 0 .. Len(Preference)
  BY <1>1, PreferenceFacts DEF AtReplica, GetRequest, GetInv, GetProgress
<1>3. PICK X : /\ X = Passed(get[g]) \/ X = Passed(Tried(get[g]))
               /\ get' = [get EXCEPT ![g] = X]
  OBVIOUS
<1>4. /\ X \in GetRequest /\ X.phase = "loop" /\ X.owed = get[g].owed /\ X.ret = get[g].ret
      /\ X.next = get[g].next + 1
      /\ X.try_cnt = get[g].try_cnt \/ X.try_cnt = get[g].try_cnt + 1
      /\ X.answered = get[g].answered /\ X.results = get[g].results /\ X.reply = get[g].reply
  BY <1>1, <1>2, <1>3 DEF GetRequest, Passed, Tried
<1>5. X.try_cnt < X.next
  BY <1>2, <1>4, PreferenceFacts
<1>6. ASSUME get'[g] = X PROVE GetInv(g)'
  BY <1>1, <1>4, <1>5, <1>6 DEF GetInv, GetProgress
<1>7. QED  BY <1>3, <1>4, <1>6, OneGetMoves

LEMMA GetFromStep ==
  ASSUME IndInv, PutsAfter, NEW g \in Get, NEW n \in Server, GetFrom(g, n)
  PROVE  GetsAfter
<1> DEFINE X == Collected(get[g], n)
<1>1. /\ get[g] \in GetRequest /\ GetInv(g) /\ get[g].phase = "loop" /\ put' = put
      /\ store[n] \in Record /\ (store[n].version = NoVersion => store[n] = Absent)
  BY DEF IndInv, TypeOK, GetInv, UnversionedIsAbsent, GetFrom, AtReplica
<1>2. /\ get[g].next + 1 \in 1 .. Len(Preference) + 1 /\ get[g].next \in Int
      /\ Len(Preference) + 1 \in 1 .. Len(Preference) + 1
      /\ get[g].try_cnt \in 0 .. Len(Preference)
      /\ get[g].try_cnt < get[g].next /\ get[g].next <= Len(Preference)
      /\ get[g].try_cnt + 1 \in 0 .. Len(Preference)
      /\ n \in Replica
  BY <1>1, PreferenceFacts DEF GetFrom, AtReplica, GetRequest, GetInv, GetProgress, Position
<1>3. /\ X \in GetRequest /\ X.phase = "loop" /\ X.owed = get[g].owed /\ X.ret = get[g].ret
      /\ X.next = get[g].next + 1 \/ X.next = Len(Preference) + 1
      /\ X.try_cnt = get[g].try_cnt + 1
      /\ X.results = get[g].results \union {store[n]}
  BY <1>1, <1>2 DEF GetRequest, Collected
<1>4. get' = [get EXCEPT ![g] = X]
  BY DEF GetFrom
<1> HIDE DEF X
<1>5. X.try_cnt < X.next
  BY <1>2, <1>3, PreferenceFacts
<1>6. IsFiniteSet(X.results) /\ X.results # {}
  BY <1>1, <1>3, FS_AddElement DEF GetInv, GetProgress
<1>7. get[g].ret = "none"
  BY <1>1 DEF GetInv, GetProgress
<1>8. ASSUME get'[g] = X PROVE GetInv(g)'
  BY <1>1, <1>3, <1>5, <1>6, <1>7, <1>8 DEF GetInv, GetProgress
<1>9. QED  BY <1>3, <1>4, <1>8, OneGetMoves

LEMMA GetReturnStep ==
  ASSUME IndInv, PutsAfter, NEW g \in Get, GetReturn(g)
  PROVE  GetsAfter
<1> DEFINE verdict == IF Cardinality(get[g].answered) >= R_COUNT THEN "OK" ELSE "CANCELLED"
           R == [get[g] EXCEPT !.reply = get_latest_data(get[g].results), !.ret = verdict]
           X == Returned(R)
<1>1. /\ get[g] \in GetRequest /\ GetInv(g) /\ put' = put
  BY DEF IndInv, TypeOK, GetInv, UnversionedIsAbsent, GetReturn
<1>2. get_latest_data(get[g].results) \subseteq get[g].results
  BY DEF get_latest_data, remove_unconflict_data
<1>3. /\ R \in GetRequest /\ R.owed = get[g].owed /\ R.ret = verdict
      /\ R.answered = get[g].answered /\ R.results = get[g].results
      /\ R.reply = get_latest_data(get[g].results)
  BY <1>1, <1>2 DEF GetRequest
<1> HIDE DEF R, verdict
<1>4. /\ X \in GetRequest /\ X.phase = "done" /\ X.owed = get[g].owed /\ X.ret = verdict
      /\ X.next = 1 /\ X.try_cnt = 0
      /\ X.answered = get[g].answered /\ X.results = get[g].results
      /\ X.reply = get_latest_data(get[g].results)
  <2>1. 1 \in 1 .. Len(Preference) + 1 /\ 0 \in 0 .. Len(Preference)
    BY PreferenceFacts
  <2>2. QED  BY <1>3, <2>1 DEF GetRequest, Returned
<1>5. get' = [get EXCEPT ![g] = X]
  BY DEF GetReturn, R, verdict
<1> HIDE DEF X
<1>6. ASSUME get'[g] = X PROVE GetInv(g)'
  BY <1>1, <1>4, <1>6 DEF GetInv, GetProgress, verdict
<1>7. QED  BY <1>4, <1>5, <1>6, OneGetMoves

LEMMA GetsCrashStep ==
  ASSUME IndInv, PutsAfter, NEW n \in Server, Crash(n)
  PROVE  GetsAfter
<1> DEFINE Dead(g) == Returned([get[g] EXCEPT !.ret = "UNAVAILABLE"])
<1>1. get' = [g \in Get |-> IF get[g].phase = "loop" /\ get[g].node = n THEN Dead(g) ELSE get[g]]
  BY DEF Crash
<1>2. ASSUME NEW g \in Get
      PROVE  get'[g] \in GetRequest /\ GetInv(g)'
  <2>1. get[g] \in GetRequest /\ GetInv(g)
    BY DEF IndInv, TypeOK, GetInv, UnversionedIsAbsent
  <2>2. CASE get[g].phase = "loop" /\ get[g].node = n
    <3>1. /\ Dead(g) \in GetRequest /\ Dead(g).phase = "done" /\ Dead(g).ret = "UNAVAILABLE"
          /\ Dead(g).owed = get[g].owed /\ Dead(g).next = 1 /\ Dead(g).try_cnt = 0
          /\ Dead(g).answered = get[g].answered /\ Dead(g).results = get[g].results
      <4> DEFINE R == [get[g] EXCEPT !.ret = "UNAVAILABLE"]
      <4>1. /\ R \in GetRequest /\ R.owed = get[g].owed /\ R.ret = "UNAVAILABLE"
            /\ R.answered = get[g].answered /\ R.results = get[g].results
        BY <2>1 DEF GetRequest
      <4>2. 1 \in 1 .. Len(Preference) + 1 /\ 0 \in 0 .. Len(Preference)
        BY PreferenceFacts
      <4> HIDE DEF R
      <4>3. /\ Returned(R) \in GetRequest /\ Returned(R).phase = "done"
            /\ Returned(R).ret = "UNAVAILABLE" /\ Returned(R).owed = get[g].owed
            /\ Returned(R).next = 1 /\ Returned(R).try_cnt = 0
            /\ Returned(R).answered = get[g].answered /\ Returned(R).results = get[g].results
        BY <4>1, <4>2 DEF GetRequest, Returned
      <4>4. QED  BY <4>3 DEF R
    <3>2. get'[g] = Dead(g)
      BY <1>1, <2>2
    <3> HIDE DEF Dead
    <3>3. \A p \in get[g].owed : put'[p] = put[p]
      BY <2>1 DEF PutsAfter, GetInv, GetProgress, GetRequest
    <3>4. QED  BY <2>1, <3>1, <3>2, <3>3 DEF GetInv, GetProgress
  <2>3. CASE ~(get[g].phase = "loop" /\ get[g].node = n)
    BY <1>1, <2>1, <2>3, GetKept
  <2>4. QED  BY <2>2, <2>3
<1>3. QED  BY <1>1, <1>2 DEF GetsAfter

LEMMA GetsStep ==
  ASSUME IndInv, [Next]_vars
  PROVE  GetsAfter
<1>0. PutsAfter
  BY PutsStep
<1>1. ASSUME NEW g \in Get, NEW n \in Server, ClientGet(g, n)
      PROVE  GetsAfter
  BY <1>0, <1>1, ClientGetStep
<1>2. ASSUME NEW g \in Get, NEW n \in Server, ClientGetUnjoined(g, n)
      PROVE  GetsAfter
  BY <1>0, <1>2, ClientGetUnjoinedStep
<1>3. ASSUME NEW g \in Get, GetStep(g)
      PROVE  GetsAfter
  <2>1. CASE GetReturn(g)
    BY <1>0, <2>1, GetReturnStep
  <2>2. ASSUME NEW n \in Server, GetFrom(g, n)
        PROVE  GetsAfter
    BY <1>0, <2>2, GetFromStep
  <2>3. ASSUME NEW n \in Server, GetSkip(g, n) \/ GetDied(g, n) \/ GetBroke(g, n)
        PROVE  GetsAfter
    <3>1. /\ AtReplica(g, n) /\ put' = put
          /\ \/ get' = [get EXCEPT ![g] = Passed(get[g])]
             \/ get' = [get EXCEPT ![g] = Passed(Tried(get[g]))]
      BY <2>3 DEF GetSkip, GetDied, GetBroke
    <3>2. QED  BY <1>0, <3>1, GetPassedStep
  <2>4. QED  BY <1>3, <2>1, <2>2, <2>3 DEF GetStep
<1>4. ASSUME NEW n \in Server, Crash(n)
      PROVE  GetsAfter
  BY <1>0, <1>4, GetsCrashStep
<1>5. CASE UNCHANGED get
  BY <1>0, <1>5, NoGetMoves
<1>6. ASSUME NEW p \in Put, NEW n \in Server,
             (\E version \in ClientVersions : ClientPut(p, n, version)) \/ ClientPutRefused(p, n)
      PROVE  GetsAfter
  BY <1>5, <1>6 DEF ClientPut, ClientPutRefused
<1>7. ASSUME NEW p \in Put, PutStep(p) \/ \E n \in Server : PeerStep(p, n)
      PROVE  GetsAfter
  BY <1>5, <1>7 DEF PutStep, PutReturn, PutLocal, SkipPeer, CallPeer, PeerAccepted,
       PeerDeclined, PeerDied, CallBroke, PeerStep, PeerPutCheck, PeerPutApply
<1>8. CASE (\E n \in Server : Restart(n)) \/ UNCHANGED vars
  BY <1>5, <1>8 DEF Restart, vars
<1>9. CASE Request
  BY <1>1, <1>2, <1>6, <1>9 DEF Request
<1>10. QED  BY <1>3, <1>4, <1>7, <1>8, <1>9 DEF Next, Serve

-----------------------------------------------------------------------------
(* The rest of the state, and the invariant as a whole.                      *)

LEMMA StoreStep ==
  ASSUME IndInv, [Next]_vars
  PROVE  /\ store' \in [Server -> Record]
         /\ \A n \in Server : store'[n].version = NoVersion => store'[n] = Absent
<1>1. TypeOK /\ UnversionedIsAbsent
  BY DEF IndInv
<1>2. CASE UNCHANGED store
  BY <1>1, <1>2 DEF TypeOK, UnversionedIsAbsent
<1>3. ASSUME NEW p \in Put, NEW n \in Server, PutLocal(p, n) \/ PeerPutApply(p, n)
      PROVE  /\ store' \in [Server -> Record]
             /\ \A m \in Server : store'[m].version = NoVersion => store'[m] = Absent
  <2>1. store' = [store EXCEPT ![n] = RecordOf(p)]
    BY <1>3 DEF PutLocal, PeerPutApply
  <2>2. put[p].version # NoVersion
    BY <1>3 DEF IndInv, PutLocal, AtPeer, PutInLoop, PeerPutApply, CallsHaveVersions
  <2>3. RecordOf(p) \in Record /\ RecordOf(p).version # NoVersion
    BY <1>1, <2>2 DEF RecordOf, Record, TypeOK, PutRequest
  <2>4. QED  BY <1>1, <2>1, <2>3 DEF TypeOK, UnversionedIsAbsent
<1>4. ASSUME NEW n \in Server, Crash(n)
      PROVE  /\ store' \in [Server -> Record]
             /\ \A m \in Server : store'[m].version = NoVersion => store'[m] = Absent
  <2>1. store' = [store EXCEPT ![n] = Absent]
    BY <1>4 DEF Crash
  <2>2. QED  BY <1>1, <2>1, AbsentIsRecord DEF TypeOK, UnversionedIsAbsent
<1>5. ASSUME NEW p \in Put, NEW n \in Server, PeerStep(p, n)
      PROVE  UNCHANGED store \/ PeerPutApply(p, n)
  BY <1>5 DEF PeerStep, PeerPutCheck
<1>6. ASSUME NEW p \in Put, PutStep(p)
      PROVE  UNCHANGED store \/ \E n \in Server : PutLocal(p, n)
  BY <1>6 DEF PutStep, PutReturn, SkipPeer, CallPeer, PeerAccepted, PeerDeclined, PeerDied, CallBroke
<1>7. ASSUME NEW g \in Get, GetStep(g)
      PROVE  UNCHANGED store
  BY <1>7 DEF GetStep, GetReturn, GetFrom, GetSkip, GetDied, GetBroke
<1>8. ASSUME Request PROVE UNCHANGED store
  BY <1>8 DEF Request, ClientPut, ClientPutRefused, ClientGet, ClientGetUnjoined
<1>9. CASE (\E n \in Server : Restart(n)) \/ UNCHANGED vars
  BY <1>2, <1>9 DEF Restart, vars
<1>10. QED  BY <1>2, <1>3, <1>4, <1>5, <1>6, <1>7, <1>8, <1>9 DEF Next, Serve

LEMMA CountersStep ==
  ASSUME IndInv, [Next]_vars
  PROVE  /\ status' \in [Server -> {"joined", "started", "down"}]
         /\ crashes' \in 0 .. MaxCrashes
         /\ broken' \in 0 .. MaxBroken
<1>1. /\ status \in [Server -> {"joined", "started", "down"}]
      /\ crashes \in 0 .. MaxCrashes
      /\ broken \in 0 .. MaxBroken
  BY DEF IndInv, TypeOK
<1>2. ASSUME NEW p \in Put, PutStep(p) \/ \E n \in Server : PeerStep(p, n)
      PROVE  /\ UNCHANGED <<status, crashes>>
             /\ broken' \in 0 .. MaxBroken
  BY <1>1, <1>2, CountsAreNat
     DEF PutStep, PutReturn, PutLocal, SkipPeer, CallPeer, PeerAccepted, PeerDeclined, PeerDied,
         CallBroke, PeerStep, PeerPutCheck, PeerPutApply
<1>3. ASSUME NEW g \in Get, GetStep(g)
      PROVE  /\ UNCHANGED <<status, crashes>>
             /\ broken' \in 0 .. MaxBroken
  BY <1>1, <1>3, CountsAreNat DEF GetStep, GetReturn, GetFrom, GetSkip, GetDied, GetBroke
<1>4. ASSUME Request PROVE UNCHANGED <<status, crashes, broken>>
  BY <1>4 DEF Request, ClientPut, ClientPutRefused, ClientGet, ClientGetUnjoined
<1>5. ASSUME NEW n \in Server, Crash(n) \/ Restart(n)
      PROVE  /\ status' \in [Server -> {"joined", "started", "down"}]
             /\ crashes' \in 0 .. MaxCrashes
             /\ broken' = broken
  <2>1. CASE Crash(n)
    <3>1. crashes' = crashes + 1 /\ crashes < MaxCrashes /\ broken' = broken
      BY <2>1 DEF Crash
    <3>2. status' = [status EXCEPT ![n] = "down"]
      BY <2>1 DEF Crash
    <3>3. QED  BY <1>1, <3>1, <3>2, CountsAreNat
  <2>2. CASE Restart(n)
    <3>1. status' = [status EXCEPT ![n] = "started"] /\ crashes' = crashes /\ broken' = broken
      BY <2>2 DEF Restart
    <3>2. QED  BY <1>1, <3>1
  <2>3. QED  BY <1>5, <2>1, <2>2
<1>6. CASE UNCHANGED vars
  BY <1>1, <1>6 DEF vars
<1>7. QED  BY <1>1, <1>2, <1>3, <1>4, <1>5, <1>6 DEF Next, Serve

LEMMA InitIndInv ==
  ASSUME Init
  PROVE  IndInv
<1>1. 1 \in 1 .. Len(Preference) + 1 /\ 0 \in 0 .. Len(Preference)
  BY PreferenceFacts
<1>2. TypeOK
  BY <1>1, AbsentIsRecord, CountsAreNat, MaxVersionIsNat
     DEF Init, TypeOK, PutRequest, GetRequest, CallStage, Version, NoVersion
<1>3. \A p \in Put : PutIdle(p) /\ PutInLoop(p) /\ PutDone(p)
  BY DEF Init, PutIdle, PutInLoop, PutDone
<1>4. CallsHaveVersions
  BY DEF Init, CallsHaveVersions
<1>5. \A g \in Get : GetProgress(g)
  <2>1. TAKE g \in Get
  <2>2. /\ get[g].next = 1 /\ get[g].try_cnt = 0 /\ get[g].answered = {}
        /\ get[g].results = {} /\ get[g].owed = {} /\ get[g].ret = "none"
    BY DEF Init
  <2>3. IsFiniteSet({})
    BY FS_EmptySet
  <2>4. QED  BY <2>2, <2>3 DEF GetProgress
<1>6. UnversionedIsAbsent
  BY DEF Init, UnversionedIsAbsent
<1>7. QED  BY <1>2, <1>3, <1>4, <1>5, <1>6 DEF IndInv

LEMMA NextIndInv ==
  ASSUME IndInv, [Next]_vars
  PROVE  IndInv'
<1>1. PutsAfter /\ GetsAfter
  BY PutsStep, GetsStep
<1>2. TypeOK'
  BY <1>1, StoreStep, CountersStep DEF TypeOK, PutsAfter, GetsAfter
<1>3. UnversionedIsAbsent'
  BY <1>1, StoreStep DEF UnversionedIsAbsent, GetsAfter, GetInv
<1>4. QED  BY <1>1, <1>2, <1>3 DEF IndInv, PutsAfter, PutInv, GetsAfter, GetInv

\* The inductive invariant holds of every behaviour of the data path.
THEOREM Invariance == Spec => []IndInv
<1>1. Init => IndInv
  BY InitIndInv
<1>2. IndInv /\ [Next]_vars => IndInv'
  BY NextIndInv
<1>3. QED  BY <1>1, <1>2, PTL DEF Spec

-----------------------------------------------------------------------------
\* The state of every server, handler and call stays what it is declared to
\* be; in particular no loop runs past its list and no version is malformed.
THEOREM TypeCorrect == Spec => []TypeOK
<1>1. IndInv => TypeOK
  BY DEF IndInv
<1>2. QED  BY <1>1, Invariance, PTL

LEMMA QuorumOfAcked ==
  ASSUME IndInv
  PROVE  AckedHasQuorum
<1>1. SUFFICES ASSUME NEW p \in Acked
               PROVE  Cardinality(Applied(p)) >= W_COUNT
  BY DEF AckedHasQuorum
<1>2. p \in Put /\ put[p].ret = "OK" /\ put[p].phase \in {"idle", "loop", "done"}
  BY DEF Acked, IndInv, TypeOK, PutRequest
<1>3. put[p].phase = "done"
  BY <1>2 DEF IndInv, PutIdle, PutInLoop
<1>4. QED  BY <1>2, <1>3 DEF IndInv, PutDone

\* ClientPut answers OK only when W_COUNT different replicas have stored the
\* record, for any list, quorum and number of failures.
THEOREM AckedWritesHaveQuorum == Spec => []AckedHasQuorum
<1>1. IndInv => AckedHasQuorum
  BY QuorumOfAcked
<1>2. QED  BY <1>1, Invariance, PTL

LEMMA QuorumsOverlap ==
  ASSUME IndInv
  PROVE  ReadsMeetWrites
<1>1. SUFFICES ASSUME StrictQuorum, NEW g \in Get, get[g].ret = "OK", NEW p \in get[g].owed
               PROVE  Applied(p) \intersect get[g].answered # {}
  BY DEF ReadsMeetWrites
<1>2. get[g] \in GetRequest /\ GetProgress(g)
  BY DEF IndInv, TypeOK
<1>3. p \in Put /\ put[p].phase = "done" /\ put[p].ret = "OK"
  BY <1>2 DEF GetRequest, GetProgress
<1>4. Cardinality(Applied(p)) >= W_COUNT /\ Cardinality(get[g].answered) >= R_COUNT
  <2>1. Cardinality(Applied(p)) >= W_COUNT
    BY <1>3 DEF IndInv, PutDone
  <2>2. QED  BY <1>1, <1>2, <2>1 DEF GetProgress
<1>5. Applied(p) \subseteq Replica /\ get[g].answered \subseteq Replica
  BY <1>2, PreferenceFacts DEF Applied, GetRequest
<1>6. /\ Cardinality(Applied(p)) \in Nat /\ Cardinality(get[g].answered) \in Nat
      /\ Cardinality(Replica) \in Nat
  BY <1>5, PreferenceFacts, FS_Subset, FS_CardinalityType
<1>7. Cardinality(Applied(p)) + Cardinality(get[g].answered) > Cardinality(Replica)
  BY <1>1, <1>4, <1>6, CountsAreNat DEF StrictQuorum
<1>8. QED  BY <1>5, <1>7, PreferenceFacts, FS_MajoritiesIntersect

\* A get that ClientGet answers with OK has an answer from a replica that
\* stored each put acknowledged before it, when the quorums are strict.
THEOREM ReadQuorumMeetsWriteQuorum == Spec => []ReadsMeetWrites
<1>1. IndInv => ReadsMeetWrites
  BY QuorumsOverlap
<1>2. QED  BY <1>1, Invariance, PTL

LEMMA FilterKeepsData ==
  ASSUME IndInv
  PROVE  DataIsNotHidden
<1>1. SUFFICES ASSUME NEW g \in Get, get[g].ret = "OK"
               PROVE  /\ get[g].reply # {}
                      /\ Absent \in get[g].reply => get[g].results = {Absent}
  BY DEF DataIsNotHidden
<1> DEFINE R == get[g].results
<1>2. get[g] \in GetRequest /\ GetProgress(g) /\ \A r \in R : r.version = NoVersion => r = Absent
  BY DEF IndInv, TypeOK, UnversionedIsAbsent
<1>3. \A r \in R : r.version \in Version
  BY <1>2 DEF GetRequest, Record
<1>4. Cardinality(get[g].answered) >= R_COUNT /\ get[g].reply = get_latest_data(R)
  BY <1>1, <1>2 DEF GetProgress
<1>5. IsFiniteSet(R) /\ R # {}
  <2>1. get[g].answered # {}
    BY <1>4, FS_EmptySet, CountsAreNat
  <2>2. QED  BY <1>2, <2>1 DEF GetProgress
<1> HIDE DEF R
<1>6. get[g].reply # {}
  BY <1>3, <1>4, <1>5, FilterKeepsSomething
<1>7. ASSUME Absent \in get[g].reply, NEW r \in R, r # Absent
      PROVE  FALSE
  <2>1. r.version # NoVersion /\ r.version \in Version /\ Absent \in R
    BY <1>2, <1>3, <1>4, <1>7 DEF R, get_latest_data, remove_unconflict_data
  <2>2. check_conflict_version(Absent.version, r.version) = -1
    BY <2>1, AbsentIsRecord DEF check_conflict_version
  <2>3. QED  BY <1>4, <1>7, <2>2 DEF get_latest_data, remove_unconflict_data
<1>8. Absent \in get[g].reply => Absent \in R
  BY <1>4 DEF get_latest_data, remove_unconflict_data
<1>9. QED  BY <1>6, <1>7, <1>8 DEF R

\* A read that reached data answers with data, whatever empty or restarted
\* replicas answered next to it, and never with an empty list.
THEOREM ReadsReturnData == Spec => []DataIsNotHidden
<1>1. IndInv => DataIsNotHidden
  BY FilterKeepsData
<1>2. QED  BY <1>1, Invariance, PTL

-----------------------------------------------------------------------------
(* Causality: no version on a replica, in a call or in an answer claims a    *)
(* write that did not happen.                                                *)

\* Causal, for the puts of any state.
CausalIn(P, v) ==
  \A s \in Server : Lists(v, s) =>
    \E q \in Put : P[q].node = s /\ P[q].version[s] = v[s] /\ NotAbove(P[q].version, v)

\* A put that has been versioned keeps its version and its server.
Remembers(P, Q) ==
  \A q \in Put : P[q].version # NoVersion =>
    Q[q].version = P[q].version /\ Q[q].node = P[q].node

\* What has happened stays so.
LEMMA WitnessKept ==
  ASSUME NEW P, NEW Q, NEW v \in Version, Remembers(P, Q), CausalIn(P, v)
  PROVE  CausalIn(Q, v)
<1>1. SUFFICES ASSUME NEW s \in Server, Lists(v, s)
               PROVE  \E q \in Put : /\ Q[q].node = s /\ Q[q].version[s] = v[s]
                                     /\ NotAbove(Q[q].version, v)
  BY DEF CausalIn
<1>2. PICK q \in Put : P[q].node = s /\ P[q].version[s] = v[s] /\ NotAbove(P[q].version, v)
  BY <1>1 DEF CausalIn
<1>3. P[q].version # NoVersion
  BY <1>1, <1>2 DEF Lists, NoVersion, Version
<1>4. QED  BY <1>2, <1>3 DEF Remembers

\* The version a client reconciles has a past if those it was made of have.
LEMMA ReconcileCausal ==
  ASSUME NEW P, \A q \in Put : P[q].version \in Version,
         NEW V \in SUBSET Version, \A v \in V : CausalIn(P, v)
  PROVE  CausalIn(P, reconcile_version(V))
<1> DEFINE R == reconcile_version(V)
<1>1. SUFFICES ASSUME NEW s \in Server, R[s] > 0
               PROVE  \E q \in Put : /\ P[q].node = s /\ P[q].version[s] = R[s]
                                     /\ NotAbove(P[q].version, R)
  BY DEF CausalIn, Lists
<1> DEFINE C == {w[s] : w \in V} \union {0}
<1>2. C \in SUBSET (0 .. MaxVersion) /\ C # {} /\ R[s] = Largest(C)
  BY MaxVersionIsNat DEF Version, reconcile_version
<1>3. R[s] \in C
  <2> HIDE DEF C, R
  <2> QED  BY <1>2, LargestExists
<1>4. PICK v \in V : R[s] = v[s]
  BY <1>1, <1>3
<1>5. v \in Version /\ R \in Version /\ NotAbove(v, R)
  BY ReconcileIsAbove
<1>6. PICK q \in Put : P[q].node = s /\ P[q].version[s] = v[s] /\ NotAbove(P[q].version, v)
  <2>1. v[s] > 0 /\ CausalIn(P, v)
    BY <1>1, <1>4
  <2> QED  BY <2>1 DEF CausalIn, Lists
<1>7. NotAbove(P[q].version, R)
  <2>1. ASSUME NEW t \in Server
        PROVE  P[q].version[t] <= R[t]
    <3>1. P[q].version[t] <= v[t] /\ v[t] <= R[t]
      BY <1>5, <1>6 DEF NotAbove
    <3>2. P[q].version[t] \in Int /\ v[t] \in Int /\ R[t] \in Int
      BY <1>5, MaxVersionIsNat DEF Version
    <3> QED  BY <3>1, <3>2
  <2> QED  BY <2>1 DEF NotAbove
<1>8. QED  BY <1>4, <1>6, <1>7

\* A new put is the witness of the counter it bumps.
LEMMA BumpCausal ==
  ASSUME NEW P, NEW v \in Version, NEW n \in Server, v[n] < MaxVersion, CausalIn(P, v),
         \A q \in Put : P[q].version \in Version,
         NEW p \in Put, P[p].node = n, P[p].version = update_version(v, n)
  PROVE  CausalIn(P, update_version(v, n))
<1> DEFINE U == update_version(v, n)
<1>1. /\ U \in Version
      /\ \A t \in Server : U[t] \in Int /\ v[t] \in Int /\ v[t] <= U[t]
      /\ \A t \in Server : t # n => U[t] = v[t]
  BY MaxVersionIsNat DEF Version, update_version
<1> HIDE DEF U
<1>2. SUFFICES ASSUME NEW s \in Server, Lists(U, s)
               PROVE  \E q \in Put : /\ P[q].node = s /\ P[q].version[s] = U[s]
                                     /\ NotAbove(P[q].version, U)
  BY DEF CausalIn, U
<1>3. CASE s = n
  <2>1. NotAbove(U, U)
    BY <1>1 DEF NotAbove
  <2> QED  BY <1>3, <2>1 DEF U
<1>4. CASE s # n
  <2>1. U[s] = v[s] /\ Lists(v, s)
    BY <1>1, <1>2, <1>4 DEF Lists
  <2>2. PICK q \in Put : P[q].node = s /\ P[q].version[s] = v[s] /\ NotAbove(P[q].version, v)
    BY <2>1 DEF CausalIn
  <2>3. \A t \in Server : P[q].version[t] <= U[t]
    <3> TAKE t \in Server
    <3>1. P[q].version[t] <= v[t] /\ v[t] <= U[t]
      BY <1>1, <2>2 DEF NotAbove
    <3>2. P[q].version[t] \in Int /\ v[t] \in Int /\ U[t] \in Int
      BY <1>1, MaxVersionIsNat DEF Version
    <3> QED  BY <3>1, <3>2
  <2> QED  BY <2>1, <2>2, <2>3 DEF NotAbove
<1>5. QED  BY <1>3, <1>4

-----------------------------------------------------------------------------
(* Where versions come from in a step.                                       *)

\* ClientPut apart, a step leaves versions and servers of puts that have been
\* versioned as they are.
LEMMA PutsRemember ==
  ASSUME IndInv, [Next]_vars
  PROVE  /\ Remembers(put, put')
         /\ \/ \A p \in Put : put'[p].version = put[p].version
            \/ \E p \in Put, n \in Server, version \in ClientVersions : ClientPut(p, n, version)
<1> DEFINE Goal ==
      /\ Remembers(put, put')
      /\ \/ \A p \in Put : put'[p].version = put[p].version
         \/ \E p \in Put, n \in Server, version \in ClientVersions : ClientPut(p, n, version)
<1>1. /\ put \in [Put -> PutRequest]
      /\ \A p \in Put : put[p].phase = "idle" => put[p].version = NoVersion
  BY DEF IndInv, TypeOK, PutIdle
<1>2. ASSUME NEW p \in Put, NEW n \in Server, NEW version \in ClientVersions,
             ClientPut(p, n, version)
      PROVE  Goal
  <2>1. put[p].version = NoVersion /\ \A q \in Put \ {p} : put'[q] = put[q]
    BY <1>1, <1>2 DEF ClientPut
  <2> QED  BY <1>2, <2>1 DEF Remembers
<1>3. ASSUME NEW p \in Put, NEW n \in Server, ClientPutRefused(p, n)
      PROVE  Goal
  <2>1. put[p].version = NoVersion /\ \A q \in Put \ {p} : put'[q] = put[q]
    BY <1>1, <1>3 DEF ClientPutRefused
  <2>2. put'[p].version = put[p].version
    BY <1>1, <1>3 DEF ClientPutRefused, PutRequest
  <2> QED  BY <2>1, <2>2 DEF Remembers
<1>4. ASSUME \A p \in Put : put'[p].version = put[p].version /\ put'[p].node = put[p].node
      PROVE  Goal
  BY <1>4 DEF Remembers
<1>5. ASSUME NEW p \in Put, PutStep(p)
      PROVE  Goal
  <2> DEFINE Same(op) == op.version = put[p].version /\ op.node = put[p].node
  <2>1. put[p] \in PutRequest
    BY <1>1
  <2>2. /\ Same(Passed(put[p])) /\ Same(Tried(put[p])) /\ Same(Acknowledged(put[p]))
        /\ Same(Acknowledged(Tried(put[p])))
    BY <2>1 DEF PutRequest, Passed, Tried, Acknowledged
  <2>3. \A x : Same([put[p] EXCEPT !.phase = "done", !.ret = x])
    BY <2>1 DEF PutRequest
  <2> HIDE DEF Same
  <2>4. \E op : Same(op) /\ put' = [put EXCEPT ![p] = op]
    <3>1. CASE PutReturn(p)
      BY <2>3, <3>1 DEF PutReturn
    <3>2. ASSUME NEW n \in Server,
                 \/ PutLocal(p, n) \/ SkipPeer(p, n) \/ CallPeer(p, n) \/ PeerAccepted(p, n)
                 \/ PeerDeclined(p, n) \/ PeerDied(p, n) \/ CallBroke(p, n)
          PROVE  \E op : Same(op) /\ put' = [put EXCEPT ![p] = op]
      BY <2>2, <3>2 DEF PutLocal, SkipPeer, CallPeer, PeerAccepted, PeerDeclined, PeerDied, CallBroke
    <3> QED  BY <1>5, <3>1, <3>2 DEF PutStep
  <2>5. PICK op : Same(op) /\ put' = [put EXCEPT ![p] = op]
    BY <2>4
  <2>6. put'[p] = op /\ \A q \in Put \ {p} : put'[q] = put[q]
    BY <1>1, <2>5
  <2>7. put'[p].version = put[p].version /\ put'[p].node = put[p].node
    BY <2>5, <2>6 DEF Same
  <2>8. \A q \in Put : put'[q].version = put[q].version /\ put'[q].node = put[q].node
    BY <2>6, <2>7
  <2> QED  BY <1>4, <2>8
<1>6. ASSUME NEW n \in Server, Crash(n)
      PROVE  Goal
  <2>1. \A q \in Put : \/ put'[q] = put[q]
                       \/ put'[q] = [put[q] EXCEPT !.phase = "done", !.ret = "UNAVAILABLE"]
    BY <1>6 DEF Crash
  <2>2. ASSUME NEW q \in Put
        PROVE  put'[q].version = put[q].version /\ put'[q].node = put[q].node
    <3>1. put[q] \in PutRequest
      BY <1>1
    <3>2. CASE put'[q] = put[q]
      BY <3>2
    <3>3. CASE put'[q] = [put[q] EXCEPT !.phase = "done", !.ret = "UNAVAILABLE"]
      BY <3>1, <3>3 DEF PutRequest
    <3> QED  BY <2>1, <3>2, <3>3
  <2> QED  BY <1>4, <2>2
<1>7. CASE UNCHANGED put
  BY <1>4, <1>7
<1>8. ASSUME NEW g \in Get, GetStep(g) \/ \E n \in Server : ClientGet(g, n) \/ ClientGetUnjoined(g, n)
      PROVE  UNCHANGED put
  BY <1>8 DEF GetStep, GetReturn, GetFrom, GetSkip, GetDied, GetBroke, ClientGet, ClientGetUnjoined
<1>9. ASSUME NEW p \in Put, NEW n \in Server, PeerStep(p, n) \/ Restart(n)
      PROVE  UNCHANGED put
  BY <1>9 DEF PeerStep, PeerPutCheck, PeerPutApply, Restart
<1>10. CASE UNCHANGED vars
  BY <1>7, <1>10 DEF vars
<1>11. ASSUME NEW n \in Server, Restart(n)
       PROVE  UNCHANGED put
  BY <1>11 DEF Restart
<1>12. QED
  BY <1>2, <1>3, <1>5, <1>6, <1>7, <1>8, <1>9, <1>10, <1>11 DEF Next, Serve, Request

\* A replica gets its record from a put, or loses it.
LEMMA StoreComesFromPuts ==
  ASSUME IndInv, [Next]_vars, NEW n \in Server
  PROVE  \/ store'[n] = store[n]
         \/ store'[n] = Absent
         \/ \E p \in Put : store'[n].version = put[p].version
<1> DEFINE Goal == \/ store'[n] = store[n]
                   \/ store'[n] = Absent
                   \/ \E p \in Put : store'[n].version = put[p].version
<1>1. store \in [Server -> Record]
  BY DEF IndInv, TypeOK
<1>2. CASE UNCHANGED store
  BY <1>2
<1>3. ASSUME NEW p \in Put, NEW m \in Server, PutLocal(p, m) \/ PeerPutApply(p, m)
      PROVE  Goal
  BY <1>1, <1>3 DEF PutLocal, PeerPutApply, RecordOf
<1>4. ASSUME NEW m \in Server, Crash(m)
      PROVE  Goal
  BY <1>1, <1>4 DEF Crash
<1>5. ASSUME NEW p \in Put, NEW m \in Server, PeerStep(p, m)
      PROVE  UNCHANGED store \/ PeerPutApply(p, m)
  BY <1>5 DEF PeerStep, PeerPutCheck
<1>6. ASSUME NEW p \in Put, PutStep(p)
      PROVE  UNCHANGED store \/ \E m \in Server : PutLocal(p, m)
  BY <1>6 DEF PutStep, PutReturn, SkipPeer, CallPeer, PeerAccepted, PeerDeclined, PeerDied, CallBroke
<1>7. ASSUME NEW g \in Get, GetStep(g)
      PROVE  UNCHANGED store
  BY <1>7 DEF GetStep, GetReturn, GetFrom, GetSkip, GetDied, GetBroke
<1>8. ASSUME Request PROVE UNCHANGED store
  BY <1>8 DEF Request, ClientPut, ClientPutRefused, ClientGet, ClientGetUnjoined
<1>9. CASE (\E m \in Server : Restart(m)) \/ UNCHANGED vars
  BY <1>2, <1>9 DEF Restart, vars
<1> QED  BY <1>2, <1>3, <1>4, <1>5, <1>6, <1>7, <1>8, <1>9 DEF Next, Serve

\* A get collects records of replicas.
LEMMA ResultsComeFromStores ==
  ASSUME IndInv, [Next]_vars, NEW g \in Get
  PROVE  \A r \in get'[g].results : r \in get[g].results \/ \E n \in Server : r = store[n]
<1> DEFINE Goal == \A r \in get'[g].results : r \in get[g].results \/ \E n \in Server : r = store[n]
<1>1. get \in [Get -> GetRequest]
  BY DEF IndInv, TypeOK
<1> DEFINE Same(h, op) == op.results = get[h].results
<1>2. ASSUME NEW h \in Get, NEW op, Same(h, op), get' = [get EXCEPT ![h] = op]
      PROVE  Goal
  <2>1. get'[h] = op /\ (g # h => get'[g] = get[g])
    BY <1>1, <1>2
  <2> QED  BY <1>2, <2>1
<1>3. CASE get'[g].results = get[g].results
  BY <1>3
<1>4. ASSUME NEW h \in Get
      PROVE  /\ get[h] \in GetRequest
             /\ Same(h, Passed(get[h])) /\ Same(h, Passed(Tried(get[h])))
             /\ \A x, y : Same(h, Returned([get[h] EXCEPT !.reply = x, !.ret = y]))
             /\ \A n, x : Same(h, [get[h] EXCEPT !.phase = "loop", !.node = n, !.owed = x])
             /\ Same(h, [get[h] EXCEPT !.phase = "done", !.ret = "CANCELLED"])
             /\ Same(h, Returned([get[h] EXCEPT !.ret = "UNAVAILABLE"]))
  <2>1. get[h] \in GetRequest
    BY <1>1
  <2> QED  BY <2>1 DEF GetRequest, Passed, Tried, Returned
<1>5. ASSUME NEW h \in Get, NEW n \in Server, ClientGet(h, n) \/ ClientGetUnjoined(h, n)
      PROVE  \E op : Same(h, op) /\ get' = [get EXCEPT ![h] = op]
  <2> HIDE DEF Same
  <2> QED  BY <1>4, <1>5 DEF ClientGet, ClientGetUnjoined
<1>6. ASSUME NEW h \in Get, NEW n \in Server, GetFrom(h, n)
      PROVE  Goal
  <2>1. get' = [get EXCEPT ![h] = Collected(get[h], n)]
    BY <1>6 DEF GetFrom
  <2>2. Collected(get[h], n).results = get[h].results \union {store[n]}
    BY <1>4 DEF GetRequest, Collected
  <2>3. get'[h] = Collected(get[h], n) /\ (g # h => get'[g] = get[g])
    BY <1>1, <2>1
  <2> QED  BY <2>2, <2>3
<1>7. ASSUME NEW h \in Get, NEW n \in Server, GetSkip(h, n) \/ GetDied(h, n) \/ GetBroke(h, n)
      PROVE  \E op : Same(h, op) /\ get' = [get EXCEPT ![h] = op]
  <2> HIDE DEF Same
  <2> QED  BY <1>4, <1>7 DEF GetSkip, GetDied, GetBroke
<1>8. ASSUME NEW h \in Get, GetReturn(h)
      PROVE  \E op : Same(h, op) /\ get' = [get EXCEPT ![h] = op]
  <2> HIDE DEF Same
  <2> QED  BY <1>4, <1>8 DEF GetReturn
<1>9. ASSUME NEW n \in Server, Crash(n)
      PROVE  Goal
  <2>1. get'[g] = get[g] \/ get'[g] = Returned([get[g] EXCEPT !.ret = "UNAVAILABLE"])
    BY <1>9 DEF Crash
  <2> QED  BY <1>4, <2>1
<1>10. CASE UNCHANGED get
  BY <1>10
<1>11. ASSUME NEW p \in Put, NEW n \in Server,
              (\E version \in ClientVersions : ClientPut(p, n, version)) \/ ClientPutRefused(p, n)
       PROVE  UNCHANGED get
  BY <1>11 DEF ClientPut, ClientPutRefused
<1>12. ASSUME NEW p \in Put, PutStep(p) \/ \E n \in Server : PeerStep(p, n)
       PROVE  UNCHANGED get
  BY <1>12 DEF PutStep, PutReturn, PutLocal, SkipPeer, CallPeer, PeerAccepted,
       PeerDeclined, PeerDied, CallBroke, PeerStep, PeerPutCheck, PeerPutApply
<1>13. CASE (\E n \in Server : Restart(n)) \/ UNCHANGED vars
  BY <1>10, <1>13 DEF Restart, vars
<1>14. ASSUME NEW h \in Get, GetStep(h)
       PROVE  Goal
  BY <1>2, <1>6, <1>7, <1>8, <1>14 DEF GetStep
<1>15. CASE Request
  BY <1>2, <1>5, <1>10, <1>11, <1>15 DEF Request
<1> QED
  BY <1>9, <1>10, <1>12, <1>13, <1>14, <1>15 DEF Next, Serve

-----------------------------------------------------------------------------
LEMMA NoPhantomsAtFirst == Init => NoPhantomVersions
<1>1. \A s \in Server : ~Lists(NoVersion, s)
  BY DEF Lists, NoVersion
<1> QED  BY <1>1, AbsentIsRecord DEF Init, NoPhantomVersions, Causal

LEMMA PutVersionsCausal ==
  ASSUME IndInv, NoPhantomVersions, [Next]_vars, NEW p \in Put
  PROVE  CausalIn(put', put'[p].version)
<1>1. /\ \A q \in Put : put[q].version \in Version /\ put'[q].version \in Version
      /\ put \in [Put -> PutRequest]
  BY NextIndInv DEF IndInv, TypeOK, PutRequest
<1>2. CausalIn(put, put[p].version) /\ Remembers(put, put')
  BY PutsRemember DEF NoPhantomVersions, Causal, Witnessed, CausalIn
<1>3. CausalIn(put', put[p].version)
  BY <1>1, <1>2, WitnessKept
<1>4. CASE \A q \in Put : put'[q].version = put[q].version
  BY <1>3, <1>4
<1>5. ASSUME NEW q \in Put, NEW n \in Server, NEW v \in ClientVersions, ClientPut(q, n, v)
      PROVE  CausalIn(put', put'[p].version)
  <2>1. /\ put'[q].version = update_version(v, n) /\ put'[q].node = n
        /\ v[n] < MaxVersion
        /\ p # q => put'[p].version = put[p].version
    BY <1>1, <1>5 DEF ClientPut, PutRequest
  <2>2. v \in Version
    BY ClientVersionsAreVersions DEF IndInv
  <2>3. CausalIn(put, v)
    <3>1. CASE v = NoVersion
      BY <3>1 DEF CausalIn, Lists, NoVersion
    <3>2. ASSUME NEW g \in Get, get[g].ret = "OK",
                 v = reconcile_version({r.version : r \in get[g].reply})
          PROVE  CausalIn(put, v)
      <4>1. get[g].reply \subseteq get[g].results
        BY <3>2 DEF IndInv, GetProgress, get_latest_data, remove_unconflict_data
      <4>2. \A r \in get[g].results : r.version \in Version /\ CausalIn(put, r.version)
        BY DEF IndInv, TypeOK, GetRequest, Record, NoPhantomVersions, Causal, Witnessed, CausalIn
      <4>3. /\ {r.version : r \in get[g].reply} \in SUBSET Version
            /\ \A w \in {r.version : r \in get[g].reply} : CausalIn(put, w)
        BY <4>1, <4>2
      <4> QED  BY <1>1, <3>2, <4>3, ReconcileCausal
    <3> QED  BY <3>1, <3>2 DEF ClientVersions
  <2>4. CausalIn(put', v)
    BY <1>2, <2>2, <2>3, WitnessKept
  <2>5. CASE p = q
    BY <1>1, <2>1, <2>2, <2>4, <2>5, BumpCausal
  <2> QED  BY <1>3, <2>1, <2>5
<1> QED  BY <1>4, <1>5, PutsRemember

LEMMA NoPhantomsStep ==
  ASSUME IndInv, NoPhantomVersions, [Next]_vars
  PROVE  NoPhantomVersions'
<1>1. /\ \A q \in Put : put[q].version \in Version
      /\ \A n \in Server : store[n].version \in Version
      /\ \A g \in Get : \A r \in get[g].results : r.version \in Version
  BY DEF IndInv, TypeOK, PutRequest, GetRequest, Record
<1>2. Remembers(put, put')
  BY PutsRemember
<1>3. /\ \A q \in Put : CausalIn(put, put[q].version)
      /\ \A n \in Server : CausalIn(put, store[n].version)
      /\ \A g \in Get : \A r \in get[g].results : CausalIn(put, r.version)
  BY DEF NoPhantomVersions, Causal, Witnessed, CausalIn
<1>4. /\ \A q \in Put : CausalIn(put', put[q].version)
      /\ \A n \in Server : CausalIn(put', store[n].version)
      /\ \A g \in Get : \A r \in get[g].results : CausalIn(put', r.version)
  BY <1>1, <1>2, <1>3, WitnessKept
<1>5. \A p \in Put : CausalIn(put', put'[p].version)
  BY PutVersionsCausal
<1>6. ASSUME NEW n \in Server
      PROVE  CausalIn(put', store'[n].version)
  <2>1. CausalIn(put', Absent.version)
    BY DEF CausalIn, Lists, Absent, NoVersion
  <2> QED  BY <1>4, <2>1, StoreComesFromPuts
<1>7. ASSUME NEW g \in Get, NEW r \in get'[g].results
      PROVE  CausalIn(put', r.version)
  BY <1>4, <1>7, ResultsComeFromStores
<1> QED
  BY <1>5, <1>6, <1>7 DEF NoPhantomVersions, Causal, Witnessed, CausalIn

(* Every counter of every version in the system, on replicas, in calls and   *)
(* in answers, counts puts that the named server has coordinated, each with  *)
(* the past it was made in, whatever clients attach of what reads returned.  *)
THEOREM VersionsAreCausal == Spec => []NoPhantomVersions
<1>1. Init => NoPhantomVersions
  BY NoPhantomsAtFirst
<1>2. IndInv /\ NoPhantomVersions /\ [Next]_vars => NoPhantomVersions'
  BY NoPhantomsStep
<1> QED  BY <1>1, <1>2, Invariance, PTL DEF Spec

-----------------------------------------------------------------------------
(***************************************************************************)
(* The handlers implement the quorum promise of QuorumStore for every      *)
(* list, quorum and number of requests and failures.                       *)
(***************************************************************************)

\* The abstract state that the state of the handlers stands for.
Copies == [p \in Put |-> Applied(p)]
Outcomes == [p \in Put |-> Outcome(p)]
Answers == [g \in Get |-> get[g].answered]
Reads == [g \in Get |-> ReadPhase(g)]
Owed == [g \in Get |-> get[g].owed]

\* Steps of the abstract specification, over the state of the handlers.
Stutter == UNCHANGED <<Copies, Outcomes, Answers, Reads, Owed>>

LEMMA StutterIsAllowed ==
  ASSUME Stutter
  PROVE  [Promise!Next]_(Promise!vars)
  BY DEF Stutter, Promise!vars, Copies, Outcomes, Answers, Reads, Owed

\* What the handlers of puts show is unchanged when their phases and verdicts
\* are, and so for the handlers of gets.
LEMMA SameOutcomes ==
  ASSUME \A p \in Put : Outcome(p)' = Outcome(p)
  PROVE  UNCHANGED Outcomes
  BY DEF Outcomes

LEMMA SameCopies ==
  ASSUME \A p \in Put : Applied(p)' = Applied(p)
  PROVE  UNCHANGED Copies
  BY DEF Copies

LEMMA SameGets ==
  ASSUME UNCHANGED get
  PROVE  UNCHANGED <<Answers, Reads, Owed>>
  BY DEF Answers, Reads, Owed, ReadPhase

LEMMA SamePuts ==
  ASSUME UNCHANGED put
  PROVE  UNCHANGED Outcomes
  BY DEF Outcomes, Outcome

LEMMA SameCalls ==
  ASSUME UNCHANGED rpc
  PROVE  UNCHANGED Copies
  BY DEF Copies, Applied

\* One handler of a put moved within its loop: no verdict changes.
LEMMA LoopKeepsOutcomes ==
  ASSUME IndInv, NEW p \in Put, NEW X, put' = [put EXCEPT ![p] = X],
         put[p].phase # "done", X.phase # "done"
  PROVE  UNCHANGED Outcomes
<1>1. put'[p] = X /\ \A q \in Put \ {p} : put'[q] = put[q]
  BY DEF IndInv, TypeOK
<1>2. \A q \in Put : Outcome(q)' = Outcome(q)
  BY <1>1 DEF Outcome
<1>3. QED  BY <1>2, SameOutcomes

LEMMA LoopKeepsReads ==
  ASSUME IndInv, NEW g \in Get, NEW X, get' = [get EXCEPT ![g] = X],
         X.phase = get[g].phase, X.ret = get[g].ret,
         X.answered = get[g].answered, X.owed = get[g].owed
  PROVE  UNCHANGED <<Answers, Reads, Owed>>
<1>1. get'[g] = X /\ \A h \in Get \ {g} : get'[h] = get[h]
  BY DEF IndInv, TypeOK
<1>2. \A h \in Get : /\ ReadPhase(h)' = ReadPhase(h)
                     /\ get'[h].answered = get[h].answered
                     /\ get'[h].owed = get[h].owed
  BY <1>1 DEF ReadPhase
<1>3. QED  BY <1>2 DEF Answers, Reads, Owed

\* A step that only records a copy of p on n is the abstract Copy.
LEMMA CopyIsAllowed ==
  ASSUME IndInv, NEW p \in Put, NEW n \in Server,
         rpc' = [rpc EXCEPT ![p][n] = "applied"],
         UNCHANGED <<Outcomes, Answers, Reads, Owed>>
  PROVE  [Promise!Next]_(Promise!vars)
<1>1. /\ rpc'[p][n] = "applied"
      /\ \A m \in Server \ {n} : rpc'[p][m] = rpc[p][m]
      /\ \A q \in Put \ {p} : rpc'[q] = rpc[q]
  BY DEF IndInv, TypeOK
<1>2. CASE n \in Replica
  <2>1. Applied(p)' = Applied(p) \union {n}
    BY <1>1, <1>2, PreferenceFacts DEF Applied
  <2>2. \A q \in Put \ {p} : Applied(q)' = Applied(q)
    BY <1>1 DEF Applied
  <2>3. Copies' = [Copies EXCEPT ![p] = @ \union {n}]
    BY <2>1, <2>2 DEF Copies
  <2>4. Promise!Copy(p, n)
    BY <2>3 DEF Promise!Copy, Copies, Outcomes, Answers, Reads, Owed
  <2>5. QED  BY <1>2, <2>4 DEF Promise!Next
<1>3. CASE n \notin Replica
  <2>1. \A q \in Put : Applied(q)' = Applied(q)
    BY <1>1, <1>3, PreferenceFacts DEF Applied
  <2>2. QED  BY <2>1, SameCopies, StutterIsAllowed DEF Stutter
<1>4. QED  BY <1>2, <1>3

\* A step in which requests fail and nothing else shows is the abstract Fail.
LEMMA FailIsAllowed ==
  ASSUME NEW ps \in SUBSET Put, NEW gs \in SUBSET Get,
         \A p \in ps : Outcome(p) = "open" /\ Outcome(p)' = "failed",
         \A p \in Put \ ps : Outcome(p)' = Outcome(p),
         \A g \in gs : ReadPhase(g) \in {"idle", "open"} /\ ReadPhase(g)' = "failed",
         \A g \in Get \ gs : ReadPhase(g)' = ReadPhase(g),
         UNCHANGED <<Copies, Answers, Owed>>
  PROVE  [Promise!Next]_(Promise!vars)
<1>1. Outcomes' = [p \in Put |-> IF p \in ps THEN "failed" ELSE Outcomes[p]]
  BY DEF Outcomes
<1>2. Reads' = [g \in Get |-> IF g \in gs THEN "failed" ELSE Reads[g]]
  BY DEF Reads
<1>3. Promise!Fail(ps, gs)
  BY <1>1, <1>2 DEF Promise!Fail, Copies, Outcomes, Answers, Reads, Owed
<1>4. QED  BY <1>3 DEF Promise!Next

LEMMA PutStepIsAllowed ==
  ASSUME IndInv, IndInv', NEW p \in Put, PutStep(p)
  PROVE  [Promise!Next]_(Promise!vars)
<1>1. put[p] \in PutRequest /\ get' = get
  BY DEF IndInv, TypeOK, PutStep, PutReturn, PutLocal, SkipPeer, CallPeer, PeerAccepted,
         PeerDeclined, PeerDied, CallBroke
<1>2. UNCHANGED <<Answers, Reads, Owed>>
  BY <1>1, SameGets
<1>3. CASE PutReturn(p)
  <2>1. rpc' = rpc /\ \A q \in Put : Applied(q)' = Applied(q)
    BY <1>3 DEF PutReturn, Applied
  <2>2. UNCHANGED Copies
    BY <2>1, SameCopies
  <2>3. PICK v \in {"OK", "FAILED"} :
          put' = [put EXCEPT ![p] = [put[p] EXCEPT !.phase = "done", !.ret = v]]
    BY <1>3 DEF PutReturn
  <2>4. /\ put'[p].phase = "done" /\ put'[p].ret = v
        /\ \A q \in Put \ {p} : put'[q] = put[q]
    BY <1>1, <2>3 DEF IndInv, TypeOK, PutRequest
  <2>5. Outcome(p) = "open" /\ \A q \in Put \ {p} : Outcome(q)' = Outcome(q)
    BY <1>3, <2>4 DEF Outcome, PutReturn
  <2>6. CASE v = "OK"
    <3>1. Cardinality(Applied(p)) >= W_COUNT
      BY <2>1, <2>4, <2>6 DEF IndInv, PutDone
    <3>2. Outcome(p)' = "OK"
      BY <2>4, <2>6 DEF Outcome
    <3>3. Outcomes' = [Outcomes EXCEPT ![p] = "OK"]
      BY <2>5, <3>2 DEF Outcomes
    <3>4. Applied(p) \in {Q \in SUBSET Replica : Cardinality(Q) >= W_COUNT}
      BY <3>1 DEF Applied
    <3>5. Promise!Acknowledge(p)
      BY <1>2, <2>2, <2>5, <3>3, <3>4
         DEF Promise!Acknowledge, Copies, Outcomes, Answers, Reads, Owed
    <3>6. QED  BY <3>5 DEF Promise!Next
  <2>7. CASE v = "FAILED"
    <3>1. Outcome(p)' = "failed"
      BY <2>4, <2>7 DEF Outcome
    <3>2. \A g \in Get : ReadPhase(g)' = ReadPhase(g)
      BY <1>1 DEF ReadPhase
    <3>3. {p} \in SUBSET Put /\ {} \in SUBSET Get
      OBVIOUS
    <3>4. UNCHANGED <<Copies, Answers, Owed>>
      BY <1>2, <2>2
    <3>5. QED  BY <2>5, <3>1, <3>2, <3>3, <3>4, FailIsAllowed
  <2>8. QED  BY <2>6, <2>7
<1>4. ASSUME NEW n \in Server, PutLocal(p, n)
      PROVE  [Promise!Next]_(Promise!vars)
  <2>1. /\ put' = [put EXCEPT ![p] = Acknowledged(Tried(put[p]))]
        /\ rpc' = [rpc EXCEPT ![p][n] = "applied"]
        /\ put[p].phase = "loop"
    BY <1>4 DEF PutLocal, AtPeer
  <2>2. Acknowledged(Tried(put[p])).phase = "loop"
    BY <1>1, <2>1 DEF Acknowledged, Tried, PutRequest
  <2>3. UNCHANGED Outcomes
    BY <2>1, <2>2, LoopKeepsOutcomes
  <2>4. QED  BY <1>2, <2>1, <2>3, CopyIsAllowed
<1>5. ASSUME NEW n \in Server, CallPeer(p, n)
      PROVE  [Promise!Next]_(Promise!vars)
  <2>1. /\ put' = [put EXCEPT ![p] = Tried(put[p])] /\ put[p].phase = "loop"
        /\ rpc' = [rpc EXCEPT ![p][n] = "sent"] /\ rpc[p][n] = "none"
    BY <1>5 DEF CallPeer, AtPeer
  <2>2. Tried(put[p]).phase = "loop"
    BY <1>1, <2>1 DEF Tried, PutRequest
  <2>3. UNCHANGED Outcomes
    BY <2>1, <2>2, LoopKeepsOutcomes
  <2>4. \A q \in Put : Applied(q)' = Applied(q)
    BY <2>1, PreferenceFacts DEF Applied, IndInv, TypeOK
  <2>5. QED  BY <1>2, <2>3, <2>4, SameCopies, StutterIsAllowed DEF Stutter
<1>6. ASSUME NEW n \in Server, NEW X, AtPeer(p, n),
             X = Passed(put[p]) \/ X = Acknowledged(put[p]),
             put' = [put EXCEPT ![p] = X], rpc' = rpc
      PROVE  [Promise!Next]_(Promise!vars)
  <2>1. put[p].phase = "loop" /\ X.phase = "loop"
    BY <1>1, <1>6 DEF AtPeer, Passed, Acknowledged, PutRequest
  <2>2. UNCHANGED Outcomes
    BY <1>6, <2>1, LoopKeepsOutcomes
  <2>3. QED  BY <1>2, <1>6, <2>2, SameCalls, StutterIsAllowed DEF Stutter
<1>7. ASSUME NEW n \in Server,
             \/ SkipPeer(p, n) \/ PeerAccepted(p, n) \/ PeerDeclined(p, n)
             \/ PeerDied(p, n) \/ CallBroke(p, n)
      PROVE  [Promise!Next]_(Promise!vars)
  <2>1. /\ AtPeer(p, n) /\ rpc' = rpc
        /\ \/ put' = [put EXCEPT ![p] = Passed(put[p])]
           \/ put' = [put EXCEPT ![p] = Acknowledged(put[p])]
    BY <1>7 DEF SkipPeer, PeerAccepted, PeerDeclined, PeerDied, CallBroke
  <2>2. QED  BY <1>6, <2>1
<1>8. QED  BY <1>3, <1>4, <1>5, <1>7 DEF PutStep

LEMMA PeerStepIsAllowed ==
  ASSUME IndInv, NEW p \in Put, NEW n \in Server, PeerStep(p, n)
  PROVE  [Promise!Next]_(Promise!vars)
<1>1. put' = put /\ get' = get
  BY DEF PeerStep, PeerPutCheck, PeerPutApply
<1>2. UNCHANGED <<Outcomes, Answers, Reads, Owed>>
  BY <1>1, SamePuts, SameGets
<1>3. CASE PeerPutApply(p, n)
  <2>1. rpc' = [rpc EXCEPT ![p][n] = "applied"]
    BY <1>3 DEF PeerPutApply
  <2>2. QED  BY <1>2, <2>1, CopyIsAllowed
<1>4. CASE PeerPutCheck(p, n)
  <2>1. PICK x \in {"checked", "rejected"} : rpc' = [rpc EXCEPT ![p][n] = x]
    BY <1>4 DEF PeerPutCheck
  <2>2. rpc[p][n] = "sent"
    BY <1>4 DEF PeerPutCheck
  <2>3. \A q \in Put : Applied(q)' = Applied(q)
    BY <2>1, <2>2, PreferenceFacts DEF Applied, IndInv, TypeOK
  <2>4. QED  BY <1>2, <2>3, SameCopies, StutterIsAllowed DEF Stutter
<1>5. QED  BY <1>3, <1>4 DEF PeerStep

LEMMA GetStepIsAllowed ==
  ASSUME IndInv, IndInv', NEW g \in Get, GetStep(g)
  PROVE  [Promise!Next]_(Promise!vars)
<1>1. /\ get[g] \in GetRequest /\ put' = put /\ rpc' = rpc
      /\ get \in [Get -> GetRequest] /\ get' \in [Get -> GetRequest]
  BY DEF IndInv, TypeOK, GetStep, GetReturn, GetFrom, GetSkip, GetDied, GetBroke
<1>2. UNCHANGED <<Outcomes, Copies>>
  BY <1>1, SamePuts, SameCalls
<1>3. CASE GetReturn(g)
  <2> DEFINE verdict == IF Cardinality(get[g].answered) >= R_COUNT THEN "OK" ELSE "CANCELLED"
             R == [get[g] EXCEPT !.reply = get_latest_data(get[g].results), !.ret = verdict]
  <2>1. get' = [get EXCEPT ![g] = Returned(R)] /\ get[g].phase = "loop"
    BY <1>3 DEF GetReturn
  <2>2. /\ Returned(R).phase = "done" /\ Returned(R).ret = verdict
        /\ Returned(R).answered = get[g].answered /\ Returned(R).owed = get[g].owed
    BY <1>1 DEF Returned, GetRequest
  <2> HIDE DEF R
  <2>3. /\ get'[g].phase = "done" /\ get'[g].ret = verdict
        /\ \A h \in Get \ {g} : get'[h] = get[h]
        /\ \A h \in Get : get'[h].answered = get[h].answered /\ get'[h].owed = get[h].owed
    BY <1>1, <2>1, <2>2
  <2>4. UNCHANGED <<Answers, Owed>>
    BY <2>3 DEF Answers, Owed
  <2>5. ReadPhase(g) = "open" /\ \A h \in Get \ {g} : ReadPhase(h)' = ReadPhase(h)
    BY <2>1, <2>3 DEF ReadPhase
  <2>6. CASE verdict = "OK"
    <3>1. ReadPhase(g)' = "OK"
      BY <2>3, <2>6 DEF ReadPhase
    <3>2. Reads' = [Reads EXCEPT ![g] = "OK"]
      BY <2>5, <3>1 DEF Reads
    <3>3. get[g].answered \in {Q \in SUBSET Replica : Cardinality(Q) >= R_COUNT}
      BY <1>1, <2>6 DEF GetRequest
    <3>4. Promise!ReturnRead(g)
      BY <1>2, <2>4, <2>5, <3>2, <3>3
         DEF Promise!ReturnRead, Copies, Outcomes, Answers, Reads, Owed
    <3>5. QED  BY <3>4 DEF Promise!Next
  <2>7. CASE verdict # "OK"
    <3>1. ReadPhase(g)' = "failed"
      BY <2>3, <2>7 DEF ReadPhase
    <3>2. {g} \in SUBSET Get /\ {} \in SUBSET Put
      OBVIOUS
    <3>3. \A p \in Put : Outcome(p)' = Outcome(p)
      BY <1>1 DEF Outcome
    <3>4. UNCHANGED <<Copies, Answers, Owed>>
      BY <1>2, <2>4
    <3> HIDE DEF verdict
    <3>5. QED  BY <2>5, <3>1, <3>2, <3>3, <3>4, FailIsAllowed
  <2>8. QED  BY <2>6, <2>7
<1>4. ASSUME NEW n \in Server, GetFrom(g, n)
      PROVE  [Promise!Next]_(Promise!vars)
  <2>1. get' = [get EXCEPT ![g] = Collected(get[g], n)] /\ get[g].phase = "loop"
    BY <1>4 DEF GetFrom, AtReplica
  <2>2. n \in Replica
    BY <1>1, <1>4, PreferenceFacts DEF GetFrom, AtReplica, GetRequest, Position
  <2>3. /\ Collected(get[g], n).phase = "loop" /\ Collected(get[g], n).owed = get[g].owed
        /\ Collected(get[g], n).answered = get[g].answered \union {n}
    BY <1>1, <2>1 DEF Collected, GetRequest
  <2>4. /\ get'[g].phase = "loop" /\ get'[g].owed = get[g].owed
        /\ get'[g].answered = get[g].answered \union {n}
        /\ \A h \in Get \ {g} : get'[h] = get[h]
    BY <1>1, <2>1, <2>3
  <2>5. \A h \in Get : ReadPhase(h)' = ReadPhase(h)
    BY <2>1, <2>4 DEF ReadPhase
  <2>6. UNCHANGED <<Reads, Owed>>
    BY <2>4, <2>5 DEF Reads, Owed
  <2>7. Answers' = [Answers EXCEPT ![g] = @ \union {n}]
    BY <2>4 DEF Answers
  <2>8. ReadPhase(g) = "open"
    BY <2>1 DEF ReadPhase
  <2>9. Promise!Answer(g, n)
    BY <1>2, <2>6, <2>7, <2>8 DEF Promise!Answer, Copies, Outcomes, Answers, Reads, Owed
  <2>10. QED  BY <2>2, <2>9 DEF Promise!Next
<1>5. ASSUME NEW n \in Server, GetSkip(g, n) \/ GetDied(g, n) \/ GetBroke(g, n)
      PROVE  [Promise!Next]_(Promise!vars)
  <2>1. PICK X : /\ X = Passed(get[g]) \/ X = Passed(Tried(get[g]))
                 /\ get' = [get EXCEPT ![g] = X]
    BY <1>5 DEF GetSkip, GetDied, GetBroke
  <2>2. X.phase = get[g].phase /\ X.ret = get[g].ret /\ X.answered = get[g].answered /\ X.owed = get[g].owed
    BY <1>1, <2>1 DEF Passed, Tried, GetRequest
  <2>3. UNCHANGED <<Answers, Reads, Owed>>
    BY <2>1, <2>2, LoopKeepsReads
  <2>4. QED  BY <1>2, <2>3, StutterIsAllowed DEF Stutter
<1>6. QED  BY <1>3, <1>4, <1>5 DEF GetStep

LEMMA RequestIsAllowed ==
  ASSUME IndInv, IndInv', Request
  PROVE  [Promise!Next]_(Promise!vars)
<1>1. rpc' = rpc
  BY DEF Request, ClientPut, ClientPutRefused, ClientGet, ClientGetUnjoined
<1>2. UNCHANGED Copies
  BY <1>1, SameCalls
<1>3. ASSUME NEW p \in Put, NEW n \in Server, NEW version \in ClientVersions,
             ClientPut(p, n, version)
      PROVE  [Promise!Next]_(Promise!vars)
  <2> DEFINE X == [put[p] EXCEPT !.phase = "loop", !.node = n,
                                 !.version = update_version(version, n)]
  <2>1. put' = [put EXCEPT ![p] = X] /\ put[p].phase = "idle" /\ get' = get
    BY <1>3 DEF ClientPut
  <2>2. X.phase = "loop"
    BY DEF IndInv, TypeOK, PutRequest
  <2> HIDE DEF X
  <2>3. UNCHANGED Outcomes
    BY <2>1, <2>2, LoopKeepsOutcomes
  <2>4. QED  BY <1>2, <2>1, <2>3, SameGets, StutterIsAllowed DEF Stutter
<1>4. ASSUME NEW p \in Put, NEW n \in Server, ClientPutRefused(p, n)
      PROVE  [Promise!Next]_(Promise!vars)
  <2> DEFINE X == [put[p] EXCEPT !.phase = "done", !.node = n, !.ret = "NOT_COORDINATOR"]
  <2>1. put' = [put EXCEPT ![p] = X] /\ put[p].phase = "idle" /\ get' = get
    BY <1>4 DEF ClientPutRefused
  <2>2. X.phase = "done" /\ X.ret = "NOT_COORDINATOR"
    BY DEF IndInv, TypeOK, PutRequest
  <2> HIDE DEF X
  <2>3. put'[p] = X /\ \A q \in Put \ {p} : put'[q] = put[q]
    BY <2>1 DEF IndInv, TypeOK
  <2>4. /\ Outcome(p) = "open" /\ Outcome(p)' = "failed"
        /\ \A q \in Put \ {p} : Outcome(q)' = Outcome(q)
    BY <2>1, <2>2, <2>3 DEF Outcome
  <2>5. \A g \in Get : ReadPhase(g)' = ReadPhase(g)
    BY <2>1 DEF ReadPhase
  <2>6. UNCHANGED <<Copies, Answers, Owed>>
    BY <1>2, <2>1, SameGets
  <2>7. {p} \in SUBSET Put /\ {} \in SUBSET Get
    OBVIOUS
  <2>8. QED  BY <2>4, <2>5, <2>6, <2>7, FailIsAllowed
<1>5. ASSUME NEW g \in Get, NEW n \in Server, ClientGet(g, n)
      PROVE  [Promise!Next]_(Promise!vars)
  <2> DEFINE X == [get[g] EXCEPT !.phase = "loop", !.node = n, !.owed = Acked]
  <2>1. get' = [get EXCEPT ![g] = X] /\ get[g].phase = "idle" /\ put' = put
    BY <1>5 DEF ClientGet
  <2>2. X.phase = "loop" /\ X.owed = Acked /\ X.answered = get[g].answered
    BY DEF IndInv, TypeOK, GetRequest
  <2> HIDE DEF X
  <2>3. get'[g] = X /\ \A h \in Get \ {g} : get'[h] = get[h]
    BY <2>1 DEF IndInv, TypeOK
  <2>4. /\ ReadPhase(g) = "idle" /\ ReadPhase(g)' = "open"
        /\ \A h \in Get \ {g} : ReadPhase(h)' = ReadPhase(h)
    BY <2>1, <2>2, <2>3 DEF ReadPhase
  <2>5. Reads' = [Reads EXCEPT ![g] = "open"] /\ Owed' = [Owed EXCEPT ![g] = Acked]
        /\ UNCHANGED Answers
    BY <2>2, <2>3, <2>4 DEF Reads, Owed, Answers
  <2>6. Acked = {p \in Put : Outcomes[p] = "OK"}
    <3>1. \A p \in Put : put[p].phase \in {"idle", "loop", "done"}
      BY DEF IndInv, TypeOK, PutRequest
    <3>2. \A p \in Put : put[p].ret = "OK" => put[p].phase = "done"
      BY <3>1 DEF IndInv, PutIdle, PutInLoop
    <3>3. \A p \in Put : put[p].ret = "OK" <=> Outcome(p) = "OK"
      BY <3>2 DEF Outcome
    <3>4. QED  BY <3>3 DEF Acked, Outcomes
  <2>7. UNCHANGED Outcomes
    BY <2>1, SamePuts
  <2>8. Promise!BeginRead(g)
    BY <1>2, <2>4, <2>5, <2>6, <2>7
       DEF Promise!BeginRead, Promise!Acked, Copies, Outcomes, Answers, Reads, Owed
  <2>9. QED  BY <2>8 DEF Promise!Next
<1>6. ASSUME NEW g \in Get, NEW n \in Server, ClientGetUnjoined(g, n)
      PROVE  [Promise!Next]_(Promise!vars)
  <2> DEFINE X == [get[g] EXCEPT !.phase = "done", !.ret = "CANCELLED"]
  <2>1. get' = [get EXCEPT ![g] = X] /\ get[g].phase = "idle" /\ put' = put
    BY <1>6 DEF ClientGetUnjoined
  <2>2. /\ X.phase = "done" /\ X.ret = "CANCELLED" /\ X.owed = get[g].owed
        /\ X.answered = get[g].answered
    BY DEF IndInv, TypeOK, GetRequest
  <2> HIDE DEF X
  <2>3. get'[g] = X /\ \A h \in Get \ {g} : get'[h] = get[h]
    BY <2>1 DEF IndInv, TypeOK
  <2>4. /\ ReadPhase(g) = "idle" /\ ReadPhase(g)' = "failed"
        /\ \A h \in Get \ {g} : ReadPhase(h)' = ReadPhase(h)
    BY <2>1, <2>2, <2>3 DEF ReadPhase
  <2>5. \A p \in Put : Outcome(p)' = Outcome(p)
    BY <2>1 DEF Outcome
  <2>6. UNCHANGED <<Copies, Answers, Owed>>
    BY <1>2, <2>2, <2>3 DEF Answers, Owed
  <2>7. {g} \in SUBSET Get /\ {} \in SUBSET Put
    OBVIOUS
  <2>8. QED  BY <2>4, <2>5, <2>6, <2>7, FailIsAllowed
<1>7. QED  BY <1>3, <1>4, <1>5, <1>6 DEF Request

LEMMA CrashIsAllowed ==
  ASSUME IndInv, NEW n \in Server, Crash(n)
  PROVE  [Promise!Next]_(Promise!vars)
<1> DEFINE ps == {p \in Put : put[p].phase = "loop" /\ put[p].node = n}
           gs == {g \in Get : get[g].phase = "loop" /\ get[g].node = n}
<1>1. \A p \in Put : put[p] \in PutRequest
  BY DEF IndInv, TypeOK
<1>2. \A g \in Get : get[g] \in GetRequest
  BY DEF IndInv, TypeOK
<1>3. \A p \in ps : Outcome(p) = "open" /\ Outcome(p)' = "failed"
  <2>1. TAKE p \in ps
  <2>2. put'[p] = [put[p] EXCEPT !.phase = "done", !.ret = "UNAVAILABLE"]
    BY DEF Crash
  <2>3. put'[p].phase = "done" /\ put'[p].ret = "UNAVAILABLE"
    BY <1>1, <2>2 DEF PutRequest
  <2>4. QED  BY <2>3 DEF Outcome
<1>4. \A p \in Put \ ps : Outcome(p)' = Outcome(p)
  BY DEF Crash, Outcome
<1>5. ASSUME NEW g \in gs
      PROVE  /\ ReadPhase(g) = "open" /\ ReadPhase(g)' = "failed"
             /\ get'[g].answered = get[g].answered /\ get'[g].owed = get[g].owed
  <2>1. get'[g] = Returned([get[g] EXCEPT !.ret = "UNAVAILABLE"])
    BY DEF Crash
  <2>2. /\ get'[g].phase = "done" /\ get'[g].ret = "UNAVAILABLE"
        /\ get'[g].answered = get[g].answered /\ get'[g].owed = get[g].owed
    BY <1>2, <2>1 DEF Returned, GetRequest
  <2>3. QED  BY <2>2 DEF ReadPhase
<1>6. \A g \in Get \ gs : ReadPhase(g)' = ReadPhase(g) /\ get'[g] = get[g]
  BY DEF Crash, ReadPhase
<1>7. UNCHANGED <<Answers, Owed>>
  BY <1>5, <1>6 DEF Answers, Owed
<1>8. \A p \in Put : Applied(p)' = Applied(p)
  BY PreferenceFacts DEF Crash, Applied
<1>9. UNCHANGED Copies
  BY <1>8, SameCopies
<1>10. ps \in SUBSET Put /\ gs \in SUBSET Get
  OBVIOUS
<1> HIDE DEF ps, gs
<1>11. QED  BY <1>3, <1>4, <1>5, <1>6, <1>7, <1>9, <1>10, FailIsAllowed

LEMMA InitIsAllowed ==
  ASSUME Init
  PROVE  Promise!Init
<1>1. Copies = [p \in Put |-> {}]
  BY PreferenceFacts DEF Init, Copies, Applied
<1>2. Outcomes = [p \in Put |-> "open"]
  BY DEF Init, Outcomes, Outcome
<1>3. /\ Answers = [g \in Get |-> {}] /\ Owed = [g \in Get |-> {}]
      /\ Reads = [g \in Get |-> "idle"]
  BY DEF Init, Answers, Owed, Reads, ReadPhase
<1>4. QED  BY <1>1, <1>2, <1>3 DEF Promise!Init, Copies, Outcomes, Answers, Reads, Owed

\* What clients see of the handlers, with every interleaving, broken call and
\* crash, is a behaviour of the quorum store.
THEOREM Refinement == Spec => ImplementsPromise
<1>1. Init => Promise!Init
  BY InitIsAllowed
<1>2. IndInv /\ IndInv' /\ [Next]_vars => [Promise!Next]_(Promise!vars)
  <2>1. SUFFICES ASSUME IndInv, IndInv', [Next]_vars
                 PROVE  [Promise!Next]_(Promise!vars)
    OBVIOUS
  <2>2. CASE Request
    BY <2>1, <2>2, RequestIsAllowed
  <2>3. ASSUME NEW p \in Put, PutStep(p) PROVE [Promise!Next]_(Promise!vars)
    BY <2>1, <2>3, PutStepIsAllowed
  <2>4. ASSUME NEW g \in Get, GetStep(g) PROVE [Promise!Next]_(Promise!vars)
    BY <2>1, <2>4, GetStepIsAllowed
  <2>5. ASSUME NEW p \in Put, NEW n \in Server, PeerStep(p, n)
        PROVE  [Promise!Next]_(Promise!vars)
    BY <2>1, <2>5, PeerStepIsAllowed
  <2>6. ASSUME NEW n \in Server, Crash(n) PROVE [Promise!Next]_(Promise!vars)
    BY <2>1, <2>6, CrashIsAllowed
  <2>7. ASSUME NEW n \in Server, Restart(n) PROVE [Promise!Next]_(Promise!vars)
    <3>1. UNCHANGED <<put, rpc, get>>
      BY <2>7 DEF Restart
    <3>2. QED  BY <3>1, SamePuts, SameCalls, SameGets, StutterIsAllowed DEF Stutter
  <2>8. CASE UNCHANGED vars
    <3>1. UNCHANGED <<put, rpc, get>>
      BY <2>8 DEF vars
    <3>2. QED  BY <3>1, SamePuts, SameCalls, SameGets, StutterIsAllowed DEF Stutter
  <2>9. QED  BY <2>1, <2>2, <2>3, <2>4, <2>5, <2>6, <2>7, <2>8 DEF Next, Serve
<1>3. QED  BY <1>1, <1>2, Invariance, PTL DEF Spec, ImplementsPromise, Promise!Spec

-----------------------------------------------------------------------------
(***************************************************************************)
(* What the promise is worth: in the quorum store itself, with no handler  *)
(* left, reads meet the writes they are owed.                              *)
(***************************************************************************)
WriteQuorums == {Q \in SUBSET Replica : Cardinality(Q) >= W_COUNT}
ReadQuorums == {Q \in SUBSET Replica : Cardinality(Q) >= R_COUNT}

AckedPuts == {p \in Put : Outcomes[p] = "OK"}

\* What a client was told stays covered by what was copied and answered.
Covered ==
  /\ Copies \in [Put -> SUBSET Replica]
  /\ Outcomes \in [Put -> {"open", "OK", "failed"}]
  /\ Answers \in [Get -> SUBSET Replica]
  /\ Reads \in [Get -> {"idle", "open", "OK", "failed"}]
  /\ Owed \in [Get -> SUBSET Put]
  /\ \A p \in AckedPuts : \E W \in WriteQuorums : W \subseteq Copies[p]
  /\ \A g \in Get : Owed[g] \subseteq AckedPuts
  /\ \A g \in Get : Reads[g] = "OK" => Answers[g] \in ReadQuorums

LEMMA CoveredInit ==
  ASSUME Promise!Init
  PROVE  Covered
<1>1. /\ Copies = [p \in Put |-> {}]
      /\ Outcomes = [p \in Put |-> "open"]
      /\ Answers = [g \in Get |-> {}]
      /\ Reads = [g \in Get |-> "idle"]
      /\ Owed = [g \in Get |-> {}]
  BY DEF Promise!Init, Copies, Outcomes, Answers, Reads, Owed
<1> QED
  BY <1>1 DEF Covered, AckedPuts

LEMMA CoveredCopy ==
  ASSUME Covered, NEW p \in Put, NEW n \in Replica, Promise!Copy(p, n)
  PROVE  Covered'
<1>1. /\ Copies' = [Copies EXCEPT ![p] = @ \union {n}]
      /\ UNCHANGED <<Outcomes, Answers, Reads, Owed>>
  BY DEF Promise!Copy, Copies, Outcomes, Answers, Reads, Owed
<1> QED
  BY <1>1 DEF Covered, AckedPuts

LEMMA CoveredAcknowledge ==
  ASSUME Covered, NEW p \in Put, Promise!Acknowledge(p)
  PROVE  Covered'
<1>1. /\ Copies[p] \in WriteQuorums
      /\ Outcomes' = [Outcomes EXCEPT ![p] = "OK"]
      /\ UNCHANGED <<Copies, Answers, Reads, Owed>>
  BY DEF Promise!Acknowledge, Copies, Outcomes, Answers, Reads, Owed, WriteQuorums
<1> QED
  BY <1>1 DEF Covered, AckedPuts

LEMMA CoveredBeginRead ==
  ASSUME Covered, NEW g \in Get, Promise!BeginRead(g)
  PROVE  Covered'
<1>1. /\ Reads' = [Reads EXCEPT ![g] = "open"]
      /\ Owed' = [Owed EXCEPT ![g] = AckedPuts]
      /\ UNCHANGED <<Copies, Outcomes, Answers>>
  BY DEF Promise!BeginRead, Promise!Acked, Copies, Outcomes, Answers, Reads, Owed, AckedPuts
<1> QED
  BY <1>1 DEF Covered, AckedPuts

LEMMA CoveredAnswer ==
  ASSUME Covered, NEW g \in Get, NEW n \in Replica, Promise!Answer(g, n)
  PROVE  Covered'
<1>1. /\ Reads[g] = "open"
      /\ Answers' = [Answers EXCEPT ![g] = @ \union {n}]
      /\ UNCHANGED <<Copies, Outcomes, Reads, Owed>>
  BY DEF Promise!Answer, Copies, Outcomes, Answers, Reads, Owed
<1> QED
  BY <1>1 DEF Covered, AckedPuts

LEMMA CoveredReturnRead ==
  ASSUME Covered, NEW g \in Get, Promise!ReturnRead(g)
  PROVE  Covered'
<1>1. /\ Answers[g] \in ReadQuorums
      /\ Reads' = [Reads EXCEPT ![g] = "OK"]
      /\ UNCHANGED <<Copies, Outcomes, Answers, Owed>>
  BY DEF Promise!ReturnRead, Copies, Outcomes, Answers, Reads, Owed, ReadQuorums
<1> QED
  BY <1>1 DEF Covered, AckedPuts

LEMMA CoveredFail ==
  ASSUME Covered, NEW ps \in SUBSET Put, NEW gs \in SUBSET Get, Promise!Fail(ps, gs)
  PROVE  Covered'
<1>1. /\ \A p \in ps : Outcomes[p] = "open"
      /\ Outcomes' = [p \in Put |-> IF p \in ps THEN "failed" ELSE Outcomes[p]]
      /\ Reads' = [g \in Get |-> IF g \in gs THEN "failed" ELSE Reads[g]]
      /\ UNCHANGED <<Copies, Answers, Owed>>
  BY DEF Promise!Fail, Copies, Outcomes, Answers, Reads, Owed
<1>2. AckedPuts' = AckedPuts
  BY <1>1 DEF AckedPuts
<1>3. \A g \in Get : Reads'[g] = "OK" => Reads[g] = "OK"
  BY <1>1
<1>4. /\ Outcomes' \in [Put -> {"open", "OK", "failed"}]
      /\ Reads' \in [Get -> {"idle", "open", "OK", "failed"}]
  BY <1>1 DEF Covered
<1> QED
  BY <1>1, <1>2, <1>3, <1>4 DEF Covered

LEMMA CoveredStep ==
  ASSUME Covered, [Promise!Next]_(Promise!vars)
  PROVE  Covered'
<1>1. CASE UNCHANGED Promise!vars
  <2>1. UNCHANGED <<Copies, Outcomes, Answers, Reads, Owed>>
    BY <1>1 DEF Promise!vars, Copies, Outcomes, Answers, Reads, Owed
  <2> QED
    BY <2>1 DEF Covered, AckedPuts
<1>2. CASE Promise!Next
  BY <1>2, CoveredCopy, CoveredAcknowledge, CoveredBeginRead, CoveredAnswer,
     CoveredReturnRead, CoveredFail DEF Promise!Next
<1> QED
  BY <1>1, <1>2

(* With strict quorums, a read answered OK has asked a replica that took     *)
(* each write acknowledged before it began: every system that implements the *)
(* quorum store keeps this, the handlers of ClientPut and ClientGet among    *)
(* them.                                                                     *)
THEOREM QuorumsMeet == ImplementsPromise => [](Promise!TypeOK /\ Promise!ReadsMeetWrites)
<1>0. Covered => Promise!TypeOK
  BY DEF Covered, Promise!TypeOK, Copies, Outcomes, Answers, Reads, Owed
<1>1. Covered => Promise!ReadsMeetWrites
  <2> SUFFICES ASSUME Covered, Promise!StrictQuorum, NEW g \in Get, Reads[g] = "OK",
                      NEW p \in Owed[g]
               PROVE  Copies[p] \intersect Answers[g] # {}
    BY DEF Promise!ReadsMeetWrites, Copies, Answers, Reads, Owed
  <2>1. PICK W \in WriteQuorums : W \subseteq Copies[p]
    BY DEF Covered
  <2>2. Answers[g] \in ReadQuorums
    BY DEF Covered
  <2>3. W \intersect Answers[g] # {}
    BY <2>1, <2>2 DEF Promise!StrictQuorum, WriteQuorums, ReadQuorums
  <2> QED
    BY <2>1, <2>3
<1>2. Promise!Init => Covered
  BY CoveredInit
<1>3. Covered /\ [Promise!Next]_(Promise!vars) => Covered'
  BY CoveredStep
<1> QED
  BY <1>0, <1>1, <1>2, <1>3, PTL DEF ImplementsPromise, Promise!Spec

-----------------------------------------------------------------------------
(* Clients that take turns: what they read is never behind what was          *)
(* acknowledged.                                                             *)

LEMMA KnownFacts ==
  ASSUME IndInv
  PROVE  /\ \A p \in Put : put[p].version \in Version
         /\ \A p \in Started : p \in Put /\ put[p].version # NoVersion /\ put[p].version \in Known
         /\ Known \in SUBSET Version /\ NoVersion \in Known
         /\ CausallyOrdered => \A v, w \in Known : NotAbove(v, w) \/ NotAbove(w, v)
<1>1. \A p \in Put : put[p].version \in Version
  BY DEF IndInv, TypeOK, PutRequest
<1>2. \A p \in Started : p \in Put /\ put[p].version # NoVersion /\ put[p].version \in Known
  BY DEF Started, Known
<1>3. Known \in SUBSET Version /\ NoVersion \in Known
  BY <1>1, <1>2, OrderOfVersions DEF Known
<1>4. ASSUME CausallyOrdered, NEW v \in Known, NEW w \in Known
      PROVE  NotAbove(v, w) \/ NotAbove(w, v)
  BY <1>3, <1>4, OrderOfVersions DEF Known, CausallyOrdered, Precedes
<1>5. QED  BY <1>1, <1>2, <1>3, <1>4

\* A put keeps the version it has got.
LEMMA StartedGrows ==
  ASSUME IndInv, [Next]_vars
  PROVE  /\ \A p \in Started : p \in Started' /\ put'[p].version = put[p].version
         /\ Known \subseteq Known'
         /\ CausallyOrdered' => CausallyOrdered
<1>1. \A p \in Started : p \in Started' /\ put'[p].version = put[p].version
  BY PutsRemember DEF Remembers, Started
<1>2. Known \subseteq Known'
  BY <1>1 DEF Known
<1>3. CausallyOrdered' => CausallyOrdered
  BY <1>1 DEF CausallyOrdered
<1>4. QED  BY <1>1, <1>2, <1>3

LEMMA RecordsStep ==
  ASSUME IndInv, RecordsAreWritten, [Next]_vars
  PROVE  RecordsAreWritten'
<1>1. Known \subseteq Known' /\ NoVersion \in Known
  BY StartedGrows, KnownFacts
<1>2. \A p \in Put : put[p].version \in Known
  BY KnownFacts DEF Started, Known
<1>3. ASSUME NEW n \in Server
      PROVE  store'[n].version \in Known'
  <2>1. \/ store'[n] = store[n] \/ store'[n] = Absent
        \/ \E p \in Put : store'[n].version = put[p].version
    BY StoreComesFromPuts
  <2>2. QED  BY <1>1, <1>2, <2>1, AbsentIsRecord DEF RecordsAreWritten
<1>4. ASSUME NEW g \in Get, NEW r \in get'[g].results
      PROVE  r.version \in Known'
  <2>1. r \in get[g].results \/ \E n \in Server : r = store[n]
    BY <1>4, ResultsComeFromStores
  <2>2. QED  BY <1>1, <2>1 DEF RecordsAreWritten
<1>5. QED  BY <1>3, <1>4 DEF RecordsAreWritten

\* What a client makes of an answer is then the version of a write, or none.
LEMMA AttachedIsKnown ==
  ASSUME IndInv, RecordsAreWritten, CausallyOrdered
  PROVE  ClientVersions \subseteq Known
<1>1. ASSUME NEW g \in Get, get[g].ret = "OK"
      PROVE  reconcile_version({r.version : r \in get[g].reply}) \in Known
  <2> DEFINE R == get[g].reply
             V == {r.version : r \in R}
  <2>1. R # {}
    BY <1>1, FilterKeepsData DEF DataIsNotHidden
  <2>2. IsFiniteSet(get[g].results) /\ R \subseteq get[g].results
    BY <1>1 DEF IndInv, GetProgress, get_latest_data, remove_unconflict_data
  <2>3. IsFiniteSet(R)
    BY <2>2, FS_Subset
  <2>4. [r \in R |-> r.version] \in Surjection(R, V)
    BY DEF Surjection
  <2>5. IsFiniteSet(V)
    <3> HIDE DEF R, V
    <3>1. QED  BY <2>3, <2>4, FS_Surjection
  <2>6. V # {} /\ V \subseteq Known
    BY <2>1, <2>2 DEF RecordsAreWritten
  <2> HIDE DEF V, R
  <2>7. V \in SUBSET Version /\ \A v, w \in V : NotAbove(v, w) \/ NotAbove(w, v)
    BY <2>6, KnownFacts
  <2>8. reconcile_version(V) \in V
    BY <2>5, <2>6, <2>7, ReconcileOfChain
  <2>9. QED  BY <2>6, <2>8 DEF V, R
<1>2. NoVersion \in Known
  BY KnownFacts
<1>3. QED  BY <1>1, <1>2 DEF ClientVersions

\* A put that knows the write before it has read the last one: nobody else
\* can have counted on from what it has read.
LEMMA NewPutIsLast ==
  ASSUME IndInv, RecordsAreWritten, VersionsAreConsecutive, CausallyOrdered, CausallyOrdered',
         NEW p \in Put, NEW n \in Server, NEW v \in ClientVersions, ClientPut(p, n, v)
  PROVE  /\ v \in Known /\ p \notin Started
         /\ Started' = Started \union {p}
         /\ put'[p].version = update_version(v, n) /\ put'[p].version \in Version
         /\ \A q \in Put \ {p} : put'[q] = put[q]
         /\ \A w \in Known : NotAbove(w, v) /\ Precedes(w, put'[p].version)
<1>1. v \in Known /\ v \in Version
  BY AttachedIsKnown, KnownFacts
<1>2. put[p] \in PutRequest /\ put[p].version = NoVersion
  BY DEF ClientPut, IndInv, TypeOK, PutIdle
<1>3. /\ v[n] < MaxVersion /\ put'[p].version = update_version(v, n)
      /\ \A q \in Put \ {p} : put'[q] = put[q]
  BY <1>2 DEF ClientPut, IndInv, TypeOK, PutRequest
<1>4. put'[p].version \in Version /\ put'[p].version # NoVersion
  BY <1>1, <1>3, BumpedVersion
<1>5. p \notin Started /\ Started' = Started \union {p}
  BY <1>2, <1>3, <1>4 DEF Started
<1>6. ASSUME NEW q \in Started
      PROVE  ~Precedes(v, put[q].version)
  <2>1. SUFFICES ASSUME Precedes(v, put[q].version)
                 PROVE  FALSE
    OBVIOUS
  <2>2. PICK r \in Started, s \in Server : put[r].version = update_version(v, s)
    BY <1>1, <2>1 DEF VersionsAreConsecutive
  <2>3. r \in Put /\ r # p /\ r \in Started' /\ p \in Started' /\ put'[r].version = update_version(v, s)
    BY <1>3, <1>5, <2>2 DEF Started
  <2>4. \/ Precedes(update_version(v, s), update_version(v, n))
        \/ Precedes(update_version(v, n), update_version(v, s))
    BY <1>3, <2>3 DEF CausallyOrdered
  <2>5. QED  BY <1>1, <2>4, BumpsDoNotFollow
<1>7. ASSUME NEW w \in Known
      PROVE  NotAbove(w, v) /\ Precedes(w, put'[p].version)
  <2>1. w \in Version
    BY KnownFacts
  <2>2. NotAbove(w, v)
    <3>1. CASE w = NoVersion
      BY <1>1, <3>1, OrderOfVersions
    <3>2. CASE w # NoVersion
      <4>1. PICK q \in Started : w = put[q].version
        BY <3>2 DEF Known
      <4>2. NotAbove(v, w) \/ NotAbove(w, v)
        BY <1>1, KnownFacts
      <4>3. QED  BY <1>1, <1>6, <2>1, <4>1, <4>2, OrderOfVersions DEF Precedes
    <3>3. QED  BY <3>1, <3>2
  <2>3. check_conflict_version(update_version(v, n), w) = 1
    BY <1>1, <1>3, <2>1, <2>2, UpdateIsNewer
  <2>4. w = NoVersion \/ Precedes(w, put'[p].version)
    BY <1>3, <1>4, <2>1, <2>3, NewerIffAfter
  <2>5. CASE w = NoVersion
    BY <1>4, <2>2, <2>5, OrderOfVersions DEF Precedes
  <2>6. QED  BY <2>2, <2>4, <2>5
<1>8. QED  BY <1>1, <1>3, <1>4, <1>5, <1>7

LEMMA ConsecutiveStep ==
  ASSUME IndInv, RecordsAreWritten, VersionsAreConsecutive, CausallyOrdered, CausallyOrdered', [Next]_vars
  PROVE  VersionsAreConsecutive'
<1>1. ASSUME NEW p \in Put, NEW n \in Server, NEW v \in ClientVersions, ClientPut(p, n, v)
      PROVE  VersionsAreConsecutive'
  <2> DEFINE u == put'[p].version
  <2>1. /\ v \in Known /\ p \notin Started /\ Started' = Started \union {p}
        /\ u = update_version(v, n) /\ u \in Version
        /\ \A q \in Put \ {p} : put'[q] = put[q]
        /\ \A w \in Known : NotAbove(w, v) /\ Precedes(w, u)
    BY <1>1, NewPutIsLast
  <2>2. \A q \in Started : q \in Put /\ q # p /\ put'[q].version = put[q].version /\ put[q].version \in Known
    BY <2>1, KnownFacts
  <2>3. Known \subseteq Version
    BY KnownFacts
  <2>4. Known' \subseteq Known \union {u}
    BY <2>1, <2>2 DEF Known
  <2>5. SUFFICES ASSUME NEW w \in Known', NEW q \in Started', Precedes(w, put'[q].version)
                 PROVE  \E r \in Started', s \in Server : put'[r].version = update_version(w, s)
    BY DEF VersionsAreConsecutive
  <2>6. w \in Known
    <3>1. SUFFICES ASSUME w = u PROVE FALSE
      BY <2>4
    <3>2. CASE q = p
      BY <2>5, <3>1, <3>2 DEF Precedes
    <3>3. CASE q # p
      <4>1. Precedes(put[q].version, u) /\ Precedes(u, put[q].version) /\ put[q].version \in Version
        BY <2>1, <2>2, <2>3, <2>5, <3>1, <3>3
      <4>2. QED  BY <2>1, <4>1, OrderOfVersions DEF Precedes
    <3>4. QED  BY <3>2, <3>3
  <2>7. CASE \E r \in Started : Precedes(w, put[r].version)
    <3>1. PICK r \in Started, s \in Server : put[r].version = update_version(w, s)
      BY <2>6, <2>7 DEF VersionsAreConsecutive
    <3>2. QED  BY <2>1, <2>2, <3>1
  <2>8. CASE ~ \E r \in Started : Precedes(w, put[r].version)
    <3>1. v = w
      <4>1. NotAbove(w, v) /\ v \in Version /\ w \in Version
        BY <2>1, <2>3, <2>6
      <4>2. CASE v = NoVersion
        BY <4>1, <4>2, OrderOfVersions
      <4>3. CASE v # NoVersion
        <5>1. PICK r \in Started : v = put[r].version
          BY <2>1, <4>3 DEF Known
        <5>2. QED  BY <2>8, <4>1, <5>1 DEF Precedes
      <4>4. QED  BY <4>2, <4>3
    <3>2. QED  BY <2>1, <3>1
  <2>9. QED  BY <2>7, <2>8
<1>2. ASSUME \A p \in Put : put'[p].version = put[p].version
      PROVE  VersionsAreConsecutive'
  <2>1. Started' = Started /\ \A p \in Started : put'[p].version = put[p].version
    BY <1>2 DEF Started
  <2>2. Known' = Known
    BY <2>1 DEF Known
  <2>3. QED  BY <2>1, <2>2 DEF VersionsAreConsecutive
<1>3. QED  BY <1>1, <1>2, PutsRemember

\* The handler of p is at work, or one of its calls is.
Running(p) == put[p].phase = "loop" \/ p \in Executing

\* A put that runs is the only one to change its own state and calls.
LEMMA OneWorks ==
  ASSUME IndInv, NEW p \in Put, PutStep(p) \/ \E n \in Server : PeerStep(p, n)
  PROVE  /\ Running(p)
         /\ \A q \in Put \ {p} : put'[q] = put[q] /\ rpc'[q] = rpc[q]
         /\ \A n \in Server : rpc[p][n] = "applied" => rpc'[p][n] = "applied"
         /\ \A n \in Server : \/ store'[n] = store[n] /\ (rpc'[p][n] = "applied" => rpc[p][n] = "applied")
                              \/ store'[n].version = put[p].version
<1>1. /\ put \in [Put -> PutRequest] /\ rpc \in [Put -> [Server -> CallStage]]
      /\ store \in [Server -> Record]
  BY DEF IndInv, TypeOK
<1>2. CASE PutReturn(p)
  BY <1>1, <1>2 DEF PutReturn, Running
<1>3. ASSUME NEW m \in Server,
             \/ SkipPeer(p, m) \/ PeerAccepted(p, m)
             \/ PeerDeclined(p, m) \/ PeerDied(p, m) \/ CallBroke(p, m)
      PROVE  /\ put[p].phase = "loop" /\ rpc' = rpc /\ store' = store
             /\ \A q \in Put \ {p} : put'[q] = put[q]
  BY <1>1, <1>3 DEF AtPeer, SkipPeer, PeerAccepted, PeerDeclined, PeerDied, CallBroke
<1>4. ASSUME NEW m \in Server, CallPeer(p, m)
      PROVE  /\ put[p].phase = "loop" /\ rpc[p][m] = "none" /\ store' = store
             /\ rpc' = [rpc EXCEPT ![p][m] = "sent"]
             /\ \A q \in Put \ {p} : put'[q] = put[q]
  BY <1>1, <1>4 DEF AtPeer, CallPeer
<1>5. ASSUME NEW m \in Server, PutLocal(p, m)
      PROVE  /\ put[p].phase = "loop" /\ store' = [store EXCEPT ![m] = RecordOf(p)]
             /\ rpc' = [rpc EXCEPT ![p][m] = "applied"]
             /\ \A q \in Put \ {p} : put'[q] = put[q]
  BY <1>1, <1>5 DEF AtPeer, PutLocal
<1>6. ASSUME NEW m \in Server, PeerPutCheck(p, m)
      PROVE  /\ p \in Executing /\ rpc[p][m] = "sent" /\ store' = store /\ put' = put
             /\ \E x \in {"checked", "rejected"} : rpc' = [rpc EXCEPT ![p][m] = x]
  BY <1>6 DEF PeerPutCheck, Executing
<1>7. ASSUME NEW m \in Server, PeerPutApply(p, m)
      PROVE  /\ p \in Executing /\ store' = [store EXCEPT ![m] = RecordOf(p)] /\ put' = put
             /\ rpc' = [rpc EXCEPT ![p][m] = "applied"]
  BY <1>7 DEF PeerPutApply, Executing
<1>8. RecordOf(p).version = put[p].version
  BY DEF RecordOf
<1>9. ASSUME NEW m \in Server, CallPeer(p, m) \/ PeerPutCheck(p, m)
      PROVE  /\ Running(p) /\ store' = store
             /\ \A q \in Put \ {p} : put'[q] = put[q] /\ rpc'[q] = rpc[q]
             /\ \A n \in Server : rpc'[p][n] = "applied" <=> rpc[p][n] = "applied"
  BY <1>1, <1>4, <1>6, <1>9 DEF Running
<1>10. ASSUME NEW m \in Server, PutLocal(p, m) \/ PeerPutApply(p, m)
       PROVE  /\ Running(p)
              /\ \A q \in Put \ {p} : put'[q] = put[q] /\ rpc'[q] = rpc[q]
              /\ store'[m].version = put[p].version /\ rpc'[p][m] = "applied"
              /\ \A n \in Server \ {m} : store'[n] = store[n] /\ rpc'[p][n] = rpc[p][n]
  BY <1>1, <1>5, <1>7, <1>8, <1>10 DEF Running
<1>11. QED  BY <1>2, <1>3, <1>9, <1>10 DEF PutStep, PeerStep, PutReturn, Running

\* As long as no process dies, the other steps leave puts, calls and replicas
\* alone, but for a request that is taken or refused.
LEMMA OthersRest ==
  ASSUME IndInv, [Next]_vars, crashes' = 0
  PROVE  \/ UNCHANGED <<store, put, rpc>>
         \/ /\ UNCHANGED <<store, rpc, get, crashes>>
            /\ \E p \in Put, n \in Server :
                  \/ \E version \in ClientVersions : ClientPut(p, n, version)
                  \/ ClientPutRefused(p, n)
         \/ /\ UNCHANGED <<get, crashes>>
            /\ \E p \in Put : PutStep(p) \/ \E n \in Server : PeerStep(p, n)
<1>1. ASSUME NEW p \in Put, PutStep(p) \/ \E n \in Server : PeerStep(p, n)
      PROVE  UNCHANGED <<get, crashes>>
  BY <1>1 DEF PutStep, PutReturn, PutLocal, SkipPeer, CallPeer, PeerAccepted, PeerDeclined, PeerDied,
       CallBroke, PeerStep, PeerPutCheck, PeerPutApply
<1>2. ASSUME NEW g \in Get, GetStep(g)
      PROVE  UNCHANGED <<store, put, rpc>>
  BY <1>2 DEF GetStep, GetReturn, GetFrom, GetSkip, GetDied, GetBroke
<1>3. ASSUME NEW g \in Get, NEW n \in Server, ClientGet(g, n) \/ ClientGetUnjoined(g, n)
      PROVE  UNCHANGED <<store, put, rpc>>
  BY <1>3 DEF ClientGet, ClientGetUnjoined
<1>4. ASSUME NEW p \in Put, NEW n \in Server,
             (\E version \in ClientVersions : ClientPut(p, n, version)) \/ ClientPutRefused(p, n)
      PROVE  UNCHANGED <<store, rpc, get, crashes>>
  BY <1>4 DEF ClientPut, ClientPutRefused
<1>5. ASSUME NEW n \in Server, Crash(n) PROVE FALSE
  <2>1. crashes' = crashes + 1
    BY <1>5 DEF Crash
  <2>2. crashes \in Nat
    BY CountsAreNat DEF IndInv, TypeOK
  <2>3. QED  BY <2>1, <2>2
<1>6. ASSUME NEW n \in Server, Restart(n)
      PROVE  UNCHANGED <<store, put, rpc>>
  BY <1>6 DEF Restart
<1>7. CASE UNCHANGED vars
  BY <1>7 DEF vars
<1>8. QED  BY <1>1, <1>2, <1>3, <1>4, <1>5, <1>6, <1>7 DEF Next, Serve, Request

LEMMA NoCrashYet ==
  ASSUME IndInv, [Next]_vars, crashes' = 0
  PROVE  crashes = 0
<1>1. crashes \in Nat /\ (crashes' = crashes \/ crashes' = crashes + 1)
  <2>1. ASSUME NEW p \in Put, PutStep(p) \/ \E n \in Server : PeerStep(p, n)
        PROVE  UNCHANGED crashes
    BY <2>1 DEF PutStep, PutReturn, PutLocal, SkipPeer, CallPeer, PeerAccepted, PeerDeclined, PeerDied,
         CallBroke, PeerStep, PeerPutCheck, PeerPutApply
  <2>2. ASSUME NEW g \in Get, GetStep(g)
        PROVE  UNCHANGED crashes
    BY <2>2 DEF GetStep, GetReturn, GetFrom, GetSkip, GetDied, GetBroke
  <2>3. ASSUME Request PROVE UNCHANGED crashes
    BY <2>3 DEF Request, ClientPut, ClientPutRefused, ClientGet, ClientGetUnjoined
  <2>4. CASE (\E n \in Server : Restart(n)) \/ UNCHANGED vars
    BY <2>4 DEF Restart, vars
  <2>5. crashes \in Nat
    BY CountsAreNat DEF IndInv, TypeOK
  <2>6. ASSUME NEW n \in Server, Crash(n) PROVE crashes' = crashes + 1
    BY <2>6 DEF Crash
  <2>7. QED  BY <2>1, <2>2, <2>3, <2>4, <2>5, <2>6 DEF Next, Serve
<1>2. QED  BY <1>1

\* A request that is taken starts to run; nothing else does.
LEMMA NobodyElseStarts ==
  ASSUME IndInv, [Next]_vars, crashes' = 0
  PROVE  \/ \E p \in Put, n \in Server, version \in ClientVersions : ClientPut(p, n, version)
         \/ \A p \in Put : Running(p)' => Running(p)
<1>1. put \in [Put -> PutRequest] /\ rpc \in [Put -> [Server -> CallStage]]
  BY DEF IndInv, TypeOK
<1>2. CASE UNCHANGED <<store, put, rpc>>
  BY <1>2 DEF Running, Executing
<1>3. ASSUME NEW p \in Put, NEW n \in Server, ClientPutRefused(p, n), UNCHANGED rpc
      PROVE  \A q \in Put : Running(q)' => Running(q)
  <2>1. put'[p].phase = "done" /\ \A q \in Put \ {p} : put'[q] = put[q]
    BY <1>1, <1>3 DEF ClientPutRefused, PutRequest
  <2>2. QED  BY <1>3, <2>1 DEF Running, Executing
<1>4. ASSUME NEW p \in Put, PutStep(p) \/ \E n \in Server : PeerStep(p, n)
      PROVE  \A q \in Put : Running(q)' => Running(q)
  <2>1. Running(p) /\ \A q \in Put \ {p} : put'[q] = put[q] /\ rpc'[q] = rpc[q]
    BY <1>4, OneWorks
  <2>2. QED  BY <2>1 DEF Running, Executing
<1>5. QED  BY <1>2, <1>3, <1>4, OthersRest

\* Serving leaves a put that nobody has made where it is.
LEMMA ServingMakesNoPut ==
  ASSUME IndInv, Serve, NEW p \in Put, put[p].phase = "idle"
  PROVE  put'[p].phase = "idle"
<1>1. ASSUME NEW q \in Put, PutStep(q) \/ \E n \in Server : PeerStep(q, n)
      PROVE  put'[p].phase = "idle"
  <2>1. CASE PutStep(q)
    <3>1. put[q].phase = "loop" /\ put' = [put EXCEPT ![q] = put'[q]]
      BY <2>1 DEF PutStep, PutReturn, PutLocal, SkipPeer, CallPeer, PeerAccepted, PeerDeclined,
           PeerDied, CallBroke, AtPeer, IndInv, TypeOK
    <3>2. QED  BY <3>1 DEF IndInv, TypeOK
  <2>2. CASE \E n \in Server : PeerStep(q, n)
    BY <2>2 DEF PeerStep, PeerPutCheck, PeerPutApply
  <2>3. QED  BY <1>1, <2>1, <2>2
<1>2. ASSUME NEW g \in Get, GetStep(g)
      PROVE  put' = put
  BY <1>2 DEF GetStep, GetReturn, GetFrom, GetSkip, GetDied, GetBroke
<1>3. ASSUME NEW n \in Server, Crash(n) \/ Restart(n)
      PROVE  put'[p].phase = "idle"
  BY <1>3 DEF Crash, Restart
<1>4. QED  BY <1>1, <1>2, <1>3 DEF Serve

\* Only the put that was made last, knowing all others, is at work.
LEMMA LastWriterStep ==
  ASSUME IndInv, RecordsAreWritten, VersionsAreConsecutive, OnlyTheLastWrites,
         CausallyOrdered, CausallyOrdered', crashes' = 0, [TurnsNext]_vars
  PROVE  OnlyTheLastWrites'
<1>1. ASSUME NEW p \in Put, NEW n \in Server, NEW v \in ClientVersions, ClientPut(p, n, v)
      PROVE  OnlyTheLastWrites'
  <2>1. /\ p \notin Started /\ Started' = Started \union {p}
        /\ put'[p].version \in Version
        /\ \A q \in Put \ {p} : put'[q] = put[q]
        /\ \A w \in Known : Precedes(w, put'[p].version)
    BY <1>1, NewPutIsLast
  <2>2. put[p].phase = "idle" /\ put'[p].phase = "loop" /\ rpc' = rpc
    BY <1>1 DEF ClientPut, IndInv, TypeOK, PutRequest
  <2>3. InLoop = {} /\ Executing = {}
    <3>1. TakeTurns
      BY <2>2, ServingMakesNoPut DEF vars, TurnsNext
    <3>2. p \in InLoop' /\ p \notin InLoop
      BY <2>2, RequestsFinite DEF InLoop
    <3>3. QED  BY <2>2, <3>1, <3>2 DEF TakeTurns
  <2>4. \A q \in Put \ {p} : put[q].phase # "loop" /\ ~ Running(q)'
    BY <2>1, <2>2, <2>3 DEF InLoop, Running, Executing
  <2>5. ASSUME NEW q \in Started'
        PROVE  NotAbove(put'[q].version, put'[p].version)
    <3>1. CASE q = p
      BY <2>1, <3>1, OrderOfVersions
    <3>2. CASE q # p
      <4>1. q \in Put /\ put[q].version \in Known /\ put'[q] = put[q]
        BY <2>1, <3>2, KnownFacts
      <4>2. QED  BY <2>1, <4>1 DEF Precedes
    <3>3. QED  BY <3>1, <3>2
  <2>6. QED  BY <2>4, <2>5 DEF OnlyTheLastWrites, Running
<1>2. ASSUME \A p \in Put : put'[p].version = put[p].version,
             \A p \in Put : Running(p)' => Running(p)
      PROVE  OnlyTheLastWrites'
  BY <1>2 DEF OnlyTheLastWrites, Running, Started
<1>3. [Next]_vars
  BY DEF TurnsNext, Next
<1>4. QED  BY <1>1, <1>2, <1>3, PutsRemember, NobodyElseStarts

\* What replaces a copy knows of it.
LEMMA CopiesStep ==
  ASSUME IndInv, OnlyTheLastWrites, CopiesMoveForward, [Next]_vars, crashes' = 0
  PROVE  CopiesMoveForward'
<1>1. SUFFICES ASSUME NEW p \in Put, NEW n \in Applied(p)'
               PROVE  NotAbove(put'[p].version, store'[n].version)
  BY DEF CopiesMoveForward
<1>2. n \in Server /\ n \in Replica /\ rpc'[p][n] = "applied"
  BY <1>1, PreferenceFacts DEF Applied
<1>3. ASSUME rpc[p][n] = "applied"
      PROVE  /\ p \in Started /\ put'[p].version = put[p].version
             /\ NotAbove(put[p].version, store[n].version)
  <2>1. p \in Started /\ n \in Applied(p)
    BY <1>2, <1>3 DEF IndInv, CallsHaveVersions, Started, Applied
  <2>2. QED  BY <2>1, StartedGrows DEF CopiesMoveForward
<1>4. CASE UNCHANGED <<store, rpc>>
  BY <1>2, <1>3, <1>4
<1>5. ASSUME NEW q \in Put, PutStep(q) \/ \E m \in Server : PeerStep(q, m)
      PROVE  NotAbove(put'[p].version, store'[n].version)
  <2>1. /\ Running(q)
        /\ \A r \in Put \ {q} : put'[r] = put[r] /\ rpc'[r] = rpc[r]
        /\ \/ store'[n] = store[n] /\ (rpc'[q][n] = "applied" => rpc[q][n] = "applied")
           \/ store'[n].version = put[q].version
    BY <1>2, <1>5, OneWorks
  <2>2. CASE store'[n] = store[n] /\ rpc[p][n] = "applied"
    BY <1>3, <2>2
  <2>3. CASE p # q /\ store'[n].version = put[q].version
    <3>1. rpc[p][n] = "applied"
      BY <1>2, <2>1, <2>3
    <3>2. NotAbove(put[p].version, put[q].version)
      BY <1>3, <2>1, <3>1 DEF OnlyTheLastWrites, Running
    <3>3. QED  BY <1>3, <2>3, <3>1, <3>2
  <2>4. CASE p = q /\ store'[n].version = put[q].version
    <3>1. put'[p].version = put[p].version
      <4>1. p \in Started
        <5>1. CASE put[p].phase = "loop"
          BY <5>1 DEF IndInv, PutInLoop, Started
        <5>2. CASE p \in Executing
          BY <5>2 DEF Executing, IndInv, CallsHaveVersions, Started
        <5>3. QED  BY <2>1, <2>4, <5>1, <5>2 DEF Running
      <4>2. QED  BY <4>1, StartedGrows
    <3>2. QED  BY <2>4, <3>1, KnownFacts, OrderOfVersions
  <2>5. QED  BY <1>2, <2>1, <2>2, <2>3, <2>4
<1>6. QED  BY <1>4, <1>5, OthersRest

\* The ways a step changes what the get g knows.
LEMMA GetMoves ==
  ASSUME IndInv, [Next]_vars, NEW g \in Get
  PROVE  \/ get'[g] = get[g]
         \/ /\ get[g].phase = "idle" /\ put' = put
            /\ get'[g].answered = {} /\ get'[g].owed = Acked /\ get'[g].ret = "none"
         \/ /\ get[g].phase = "loop" /\ get'[g].ret = "none"
            /\ get'[g].owed = get[g].owed /\ get'[g].answered = get[g].answered
            /\ get'[g].results = get[g].results
         \/ /\ get[g].phase = "loop" /\ get'[g].ret = "none"
            /\ get'[g].owed = get[g].owed
            /\ \E n \in Server : /\ get'[g].answered = get[g].answered \union {n}
                                 /\ get'[g].results = get[g].results \union {store[n]}
         \/ /\ get[g].phase = "loop" /\ get'[g].phase = "done" /\ get'[g].owed = get[g].owed
            /\ get'[g].reply = get_latest_data(get[g].results)
            /\ get'[g].ret = "OK" => Cardinality(get[g].answered) >= R_COUNT
         \/ get'[g].phase = "done" /\ get'[g].ret # "OK"
<1> DEFINE Taken(x) == /\ get[g].phase = "idle" /\ put' = put
                       /\ x.answered = {} /\ x.owed = Acked /\ x.ret = "none"
           Waited(x) == /\ get[g].phase = "loop" /\ x.ret = "none"
                        /\ x.owed = get[g].owed /\ x.answered = get[g].answered
                        /\ x.results = get[g].results
           Asked(x) == /\ get[g].phase = "loop" /\ x.ret = "none"
                       /\ x.owed = get[g].owed
                       /\ \E n \in Server : /\ x.answered = get[g].answered \union {n}
                                            /\ x.results = get[g].results \union {store[n]}
           Answered(x) == /\ get[g].phase = "loop" /\ x.phase = "done" /\ x.owed = get[g].owed
                          /\ x.reply = get_latest_data(get[g].results)
                          /\ x.ret = "OK" => Cardinality(get[g].answered) >= R_COUNT
           Failed(x) == x.phase = "done" /\ x.ret # "OK"
           Move(x) == x = get[g] \/ Taken(x) \/ Waited(x) \/ Asked(x) \/ Answered(x) \/ Failed(x)
<1>1. get \in [Get -> GetRequest] /\ get[g] \in GetRequest /\ GetProgress(g)
  BY DEF IndInv, TypeOK
<1>2. SUFFICES Move(get'[g])
  OBVIOUS
<1>3. ASSUME NEW n \in Server, ClientGet(g, n)
      PROVE  Taken(get'[g])
  BY <1>1, <1>3 DEF ClientGet, GetRequest, GetProgress
<1>4. ASSUME NEW n \in Server, ClientGetUnjoined(g, n)
      PROVE  Failed(get'[g])
  BY <1>1, <1>4 DEF ClientGetUnjoined, GetRequest
<1>5. ASSUME NEW n \in Server, GetSkip(g, n) \/ GetDied(g, n) \/ GetBroke(g, n)
      PROVE  Waited(get'[g])
  <2>1. /\ Waited(Passed(get[g])) \/ get[g].phase # "loop"
        /\ Waited(Passed(Tried(get[g]))) \/ get[g].phase # "loop"
    BY <1>1 DEF Passed, Tried, GetRequest, GetProgress
  <2>2. /\ get[g].phase = "loop"
        /\ get'[g] = Passed(get[g]) \/ get'[g] = Passed(Tried(get[g]))
    BY <1>1, <1>5 DEF GetSkip, GetDied, GetBroke, AtReplica
  <2> HIDE DEF Waited
  <2>3. QED  BY <2>1, <2>2
<1>6. ASSUME NEW n \in Server, GetFrom(g, n)
      PROVE  Asked(get'[g])
  <2>1. get[g].phase = "loop" /\ get'[g] = Collected(get[g], n)
    BY <1>1, <1>6 DEF GetFrom, AtReplica
  <2>2. /\ get'[g].owed = get[g].owed /\ get'[g].ret = get[g].ret
        /\ get'[g].answered = get[g].answered \union {n}
        /\ get'[g].results = get[g].results \union {store[n]}
    BY <1>1, <2>1 DEF Collected, GetRequest
  <2>3. QED  BY <1>1, <2>1, <2>2 DEF GetProgress
<1>7. ASSUME GetReturn(g)
      PROVE  Answered(get'[g])
  <2> DEFINE verdict == IF Cardinality(get[g].answered) >= R_COUNT THEN "OK" ELSE "CANCELLED"
             latest == get_latest_data(get[g].results)
  <2>1. get[g].phase = "loop"
        /\ get'[g] = Returned([get[g] EXCEPT !.reply = latest, !.ret = verdict])
    BY <1>1, <1>7 DEF GetReturn
  <2> HIDE DEF verdict, latest
  <2>2. /\ get'[g].phase = "done" /\ get'[g].owed = get[g].owed
        /\ get'[g].reply = latest /\ get'[g].ret = verdict
    BY <1>1, <2>1 DEF Returned, GetRequest
  <2>3. QED  BY <2>1, <2>2 DEF verdict, latest
<1>8. ASSUME NEW n \in Server, Crash(n)
      PROVE  get'[g] = get[g] \/ Failed(get'[g])
  BY <1>1, <1>8 DEF Crash, Returned, GetRequest
<1>9. ASSUME NEW h \in Get \ {g}, GetStep(h) \/ \E n \in Server : ClientGet(h, n) \/ ClientGetUnjoined(h, n)
      PROVE  get'[g] = get[g]
  BY <1>1, <1>9 DEF GetStep, GetReturn, GetFrom, GetSkip, GetDied, GetBroke, ClientGet, ClientGetUnjoined
<1>10. ASSUME NEW p \in Put, NEW n \in Server,
              (\E version \in ClientVersions : ClientPut(p, n, version)) \/ ClientPutRefused(p, n)
       PROVE  get' = get
  BY <1>10 DEF ClientPut, ClientPutRefused
<1>11. ASSUME NEW p \in Put, PutStep(p) \/ \E n \in Server : PeerStep(p, n)
       PROVE  get' = get
  BY <1>11 DEF PutStep, PutReturn, PutLocal, SkipPeer, CallPeer, PeerAccepted,
       PeerDeclined, PeerDied, CallBroke, PeerStep, PeerPutCheck, PeerPutApply
<1>12. CASE (\E n \in Server : Restart(n)) \/ UNCHANGED vars
  BY <1>12 DEF Restart, vars
<1> HIDE DEF Taken, Waited, Asked, Answered, Failed
<1>13. ASSUME NEW h \in Get, GetStep(h) \/ \E n \in Server : ClientGet(h, n) \/ ClientGetUnjoined(h, n)
       PROVE  Move(get'[g])
  BY <1>3, <1>4, <1>5, <1>6, <1>7, <1>9, <1>13 DEF GetStep
<1>14. QED  BY <1>8, <1>10, <1>11, <1>12, <1>13 DEF Next, Serve, Request

LEMMA CopiesAreCounted ==
  ASSUME IndInv, [Next]_vars, crashes' = 0, NEW p \in Put
  PROVE  Applied(p) \subseteq Applied(p)'
<1>1. ASSUME NEW q \in Put, PutStep(q) \/ \E m \in Server : PeerStep(q, m)
      PROVE  \A n \in Server : rpc[p][n] = "applied" => rpc'[p][n] = "applied"
  BY <1>1, OneWorks
<1>2. \A n \in Server : rpc[p][n] = "applied" => rpc'[p][n] = "applied"
  BY <1>1, OthersRest
<1>3. QED  BY <1>2, AppliedGrows

\* What a get can still learn, or knows, of an acknowledged put is not lost.
LEMMA OffersGrow ==
  ASSUME IndInv, CopiesMoveForward, [Next]_vars, crashes' = 0,
         NEW g \in Get, NEW p \in Started,
         \/ /\ get'[g].answered = get[g].answered
            /\ get'[g].results = get[g].results
         \/ \E n \in Server : /\ get'[g].answered = get[g].answered \union {n}
                              /\ get'[g].results = get[g].results \union {store[n]}
  PROVE  /\ Offers(g, p) \subseteq Offers(g, p)'
         /\ IsFiniteSet(Offers(g, p)) /\ IsFiniteSet(Offers(g, p)')
         /\ Cardinality(Offers(g, p)) <= Cardinality(Offers(g, p)')
         /\ Cardinality(Offers(g, p)) \in Nat /\ Cardinality(Offers(g, p)') \in Nat
<1>1. p \in Put /\ put'[p].version = put[p].version
  BY StartedGrows DEF Started
<1>2. Applied(p) \subseteq Applied(p)'
  BY <1>1, CopiesAreCounted
<1>3. ASSUME NEW n \in Offers(g, p)
      PROVE  n \in Offers(g, p)'
  <2>1. n \in Applied(p) /\ (n \in get[g].answered => ShowsIn(get[g].results, p))
    BY DEF Offers
  <2>2. ASSUME n \in get'[g].answered
        PROVE  ShowsIn(get[g].results, p)'
    <3>1. CASE n \in get[g].answered
      BY <1>1, <2>1, <3>1 DEF ShowsIn
    <3>2. CASE n \notin get[g].answered
      <4>1. store[n] \in get'[g].results
        BY <2>2, <3>2
      <4>2. NotAbove(put[p].version, store[n].version)
        BY <1>1, <2>1 DEF CopiesMoveForward
      <4>3. QED  BY <1>1, <4>1, <4>2 DEF ShowsIn
    <3>3. QED  BY <3>1, <3>2
  <2>3. QED  BY <1>2, <2>1, <2>2 DEF Offers
<1>4. IsFiniteSet(Offers(g, p)) /\ IsFiniteSet(Offers(g, p)')
  BY PreferenceFacts, FS_Subset DEF Offers, Applied
<1>5. QED  BY <1>3, <1>4, FS_Subset, FS_CardinalityType

\* The filter keeps a record that shows p when it is given one.
LEMMA FilterShows ==
  ASSUME IndInv, RecordsAreWritten, CausallyOrdered,
         NEW g \in Get, NEW p \in Put, ShowsIn(get[g].results, p)
  PROVE  ShowsIn(get_latest_data(get[g].results), p)
<1> DEFINE R == get[g].results
<1>1. PICK r0 \in R : NotAbove(put[p].version, r0.version)
  BY DEF ShowsIn
<1>2. IsFiniteSet(R) /\ \A r \in R : r.version \in Known /\ r.version \in Version
  BY KnownFacts DEF IndInv, GetProgress, RecordsAreWritten
<1> HIDE DEF R
<1>3. PICK r \in get_latest_data(R) :
             r = r0 \/ check_conflict_version(r0.version, r.version) = -1
  BY <1>2, FilterKeepsNewer
<1>4. r \in R
  BY <1>3 DEF get_latest_data, remove_unconflict_data
<1>5. NotAbove(r0.version, r.version)
  <2>1. NotAbove(r0.version, r0.version) /\ r0.version \in Version /\ r.version \in Version
    BY <1>2, <1>4, OrderOfVersions
  <2>2. NotAbove(r0.version, r.version) \/ NotAbove(r.version, r0.version)
    BY <1>2, <1>4, KnownFacts
  <2>3. CASE NotAbove(r.version, r0.version) /\ r.version # r0.version
    <3>1. check_conflict_version(r0.version, r.version) = 1
      BY <2>1, <2>3, NewerIffAfter DEF Precedes
    <3>2. QED  BY <1>3, <2>1, <3>1
  <2>4. QED  BY <2>1, <2>2, <2>3
<1>6. put[p].version \in Version /\ r0.version \in Version /\ r.version \in Version
  BY <1>2, <1>4, KnownFacts
<1>7. NotAbove(put[p].version, r.version)
  BY <1>1, <1>5, <1>6, OrderOfVersions
<1>8. QED  BY <1>3, <1>7 DEF ShowsIn, R

LEMMA ReadsStep ==
  ASSUME IndInv, RecordsAreWritten, CopiesMoveForward, ReadsKeepUp, CausallyOrdered,
         [Next]_vars, crashes' = 0
  PROVE  ReadsKeepUp'
<1>1. SUFFICES ASSUME NEW g \in Get, NEW p \in get'[g].owed
               PROVE  /\ get'[g].phase = "loop" => Cardinality(Offers(g, p)') >= W_COUNT
                      /\ StrictQuorum /\ get'[g].ret = "OK" => ShowsIn(get[g].reply, p)'
  BY DEF ReadsKeepUp
<1>2. /\ get[g] \in GetRequest /\ GetProgress(g) /\ W_COUNT \in Nat
      /\ get'[g] \in GetRequest /\ GetProgress(g)'
  BY NextIndInv, CountsAreNat DEF IndInv, TypeOK
<1>3. ASSUME NEW q \in Put, put[q].ret = "OK" 
      PROVE  q \in Started /\ q \in Acked /\ put'[q].version = put[q].version
  <2>1. q \in Acked /\ Cardinality(Applied(q)) >= W_COUNT
    BY <1>3, QuorumOfAcked DEF Acked, AckedHasQuorum
  <2>2. Applied(q) # {}
    BY <2>1, FS_EmptySet, CountsAreNat
  <2>3. q \in Started
    BY <2>2, PreferenceFacts DEF Applied, IndInv, CallsHaveVersions, Started
  <2>4. QED  BY <2>1, <2>3, StartedGrows
<1>4. ASSUME p \in get[g].owed
      PROVE  p \in Put /\ p \in Started /\ put'[p].version = put[p].version
  <2>1. p \in Put /\ put[p].ret = "OK"
    BY <1>2, <1>4 DEF GetRequest, GetProgress
  <2>2. QED  BY <1>3, <2>1
<1>5. CASE get'[g] = get[g]
  <2>1. p \in Started /\ put'[p].version = put[p].version
    BY <1>1, <1>4, <1>5
  <2>2. Cardinality(Offers(g, p)) <= Cardinality(Offers(g, p)') /\ Cardinality(Offers(g, p)) \in Nat
        /\ Cardinality(Offers(g, p)') \in Nat
    BY <1>5, <2>1, OffersGrow
  <2>3. get'[g].phase = "loop" => Cardinality(Offers(g, p)') >= W_COUNT
    BY <1>1, <1>2, <1>5, <2>2 DEF ReadsKeepUp
  <2>4. StrictQuorum /\ get'[g].ret = "OK" => ShowsIn(get[g].reply, p)'
    BY <1>1, <1>5, <2>1 DEF ReadsKeepUp, ShowsIn
  <2>5. QED  BY <2>3, <2>4
<1>6. CASE put' = put /\ get'[g].answered = {} /\ get'[g].owed = Acked /\ get'[g].ret = "none"
  <2>1. p \in Put /\ Cardinality(Applied(p)) >= W_COUNT
    BY <1>1, <1>6, QuorumOfAcked DEF Acked, AckedHasQuorum
  <2>2. Applied(p) \subseteq Applied(p)'
    BY <2>1, CopiesAreCounted
  <2>3. Offers(g, p)' = Applied(p)'
    BY <1>6 DEF Offers
  <2>4. IsFiniteSet(Applied(p)')
    BY PreferenceFacts, FS_Subset DEF Applied
  <2>5. Cardinality(Applied(p)') >= W_COUNT
    BY <1>2, <2>1, <2>2, <2>4, FS_Subset, FS_CardinalityType
  <2>6. QED  BY <1>6, <2>3, <2>5
<1>7. CASE /\ get[g].phase = "loop" /\ get'[g].ret = "none" /\ get'[g].owed = get[g].owed
           /\ \/ get'[g].answered = get[g].answered /\ get'[g].results = get[g].results
              \/ \E n \in Server : /\ get'[g].answered = get[g].answered \union {n}
                                   /\ get'[g].results = get[g].results \union {store[n]}
  <2>1. p \in Started
    BY <1>1, <1>4, <1>7
  <2>2. Cardinality(Offers(g, p)) <= Cardinality(Offers(g, p)') /\ Cardinality(Offers(g, p)) \in Nat
        /\ Cardinality(Offers(g, p)') \in Nat
    BY <1>7, <2>1, OffersGrow
  <2>3. Cardinality(Offers(g, p)) >= W_COUNT
    BY <1>1, <1>7 DEF ReadsKeepUp
  <2>4. QED  BY <1>2, <1>7, <2>2, <2>3
<1>8. CASE /\ get[g].phase = "loop" /\ get'[g].phase = "done" /\ get'[g].owed = get[g].owed
           /\ get'[g].reply = get_latest_data(get[g].results)
           /\ get'[g].ret = "OK" => Cardinality(get[g].answered) >= R_COUNT
  <2>1. SUFFICES ASSUME StrictQuorum, get'[g].ret = "OK"
                 PROVE  ShowsIn(get[g].reply, p)'
    BY <1>8
  <2>2. p \in Put /\ put'[p].version = put[p].version
    BY <1>1, <1>4, <1>8
  <2>3. Cardinality(Offers(g, p)) >= W_COUNT /\ Cardinality(get[g].answered) >= R_COUNT
    BY <1>1, <1>8, <2>1 DEF ReadsKeepUp
  <2>4. Offers(g, p) \subseteq Replica /\ get[g].answered \subseteq Replica
    BY <1>2 DEF Offers, Applied, GetRequest
  <2>5. /\ Cardinality(Offers(g, p)) \in Nat /\ Cardinality(get[g].answered) \in Nat
        /\ Cardinality(Replica) \in Nat
    BY <2>4, PreferenceFacts, FS_Subset, FS_CardinalityType
  <2>6. Cardinality(Offers(g, p)) + Cardinality(get[g].answered) > Cardinality(Replica)
    BY <2>1, <2>3, <2>5, CountsAreNat DEF StrictQuorum
  <2>7. Offers(g, p) \intersect get[g].answered # {}
    BY <2>4, <2>6, PreferenceFacts, FS_MajoritiesIntersect
  <2>8. ShowsIn(get[g].results, p)
    BY <2>7 DEF Offers
  <2>9. ShowsIn(get_latest_data(get[g].results), p)
    BY <2>2, <2>8, FilterShows
  <2>10. QED  BY <1>8, <2>2, <2>9 DEF ShowsIn
<1>9. CASE get'[g].phase = "done" /\ get'[g].ret # "OK"
  BY <1>9
<1>10. QED  BY <1>5, <1>6, <1>7, <1>8, <1>9, GetMoves

-----------------------------------------------------------------------------
LEMMA TurnsAtFirst ==
  ASSUME Init
  PROVE  TurnsInv
<1>1. Started = {} /\ Known = {NoVersion}
  BY DEF Init, Started, Known
<1>2. RecordsAreWritten
  BY <1>1, AbsentIsRecord DEF Init, RecordsAreWritten
<1>3. VersionsAreConsecutive /\ OnlyTheLastWrites
  BY <1>1 DEF VersionsAreConsecutive, OnlyTheLastWrites
<1>4. \A p \in Put : Applied(p) = {}
  BY PreferenceFacts DEF Init, Applied
<1>5. \A g \in Get : get[g].owed = {}
  BY DEF Init
<1>6. CopiesMoveForward /\ ReadsKeepUp
  BY <1>4, <1>5 DEF CopiesMoveForward, ReadsKeepUp
<1>7. QED  BY <1>2, <1>3, <1>6 DEF TurnsInv

LEMMA TurnsStep ==
  ASSUME IndInv, TurnsInv, [TurnsNext]_vars
  PROVE  TurnsInv'
<1>1. [Next]_vars
  BY DEF TurnsNext, Next
<1>2. RecordsAreWritten /\ RecordsAreWritten'
  BY <1>1, RecordsStep DEF TurnsInv
<1>3. ASSUME CausallyOrdered', crashes' = 0
      PROVE  VersionsAreConsecutive' /\ OnlyTheLastWrites' /\ CopiesMoveForward' /\ ReadsKeepUp'
  <2>1. CausallyOrdered /\ crashes = 0
    BY <1>1, <1>3, StartedGrows, NoCrashYet
  <2>2. VersionsAreConsecutive /\ OnlyTheLastWrites /\ CopiesMoveForward /\ ReadsKeepUp
    BY <2>1 DEF TurnsInv
  <2>3. QED
    BY <1>1, <1>2, <1>3, <2>1, <2>2, ConsecutiveStep, LastWriterStep, CopiesStep, ReadsStep
<1>4. QED  BY <1>2, <1>3 DEF TurnsInv

\* Clients that take turns leave the replicas in order: the put that runs is
\* the last one, copies move forward, reads keep what they were owed.
THEOREM TurnsKeepOrder == TurnsSpec => [](IndInv /\ TurnsInv)
<1>1. Init => IndInv /\ TurnsInv
  BY InitIndInv, TurnsAtFirst
<1>2. IndInv /\ TurnsInv /\ [TurnsNext]_vars => (IndInv /\ TurnsInv)'
  <2>1. SUFFICES ASSUME IndInv, TurnsInv, [TurnsNext]_vars
                 PROVE  (IndInv /\ TurnsInv)'
    OBVIOUS
  <2>2. [Next]_vars
    BY <2>1 DEF TurnsNext, Next
  <2>3. QED  BY <2>1, <2>2, NextIndInv, TurnsStep
<1>3. QED  BY <1>1, <1>2, PTL DEF TurnsSpec

\* A get of a client that waits its turn answers with every put acknowledged
\* before it, or with one that followed it, whichever replicas ClientPut and
\* ClientGet skipped, missed or were refused by, until a process dies.
THEOREM ReadsAfterTurns == TurnsSpec => [](crashes = 0 => CompletedWritesAreRead)
<1>1. IndInv /\ TurnsInv => (crashes = 0 => CompletedWritesAreRead)
  BY DEF TurnsInv, ReadsKeepUp, ShowsIn, CompletedWritesAreRead
<1>2. QED  BY <1>1, TurnsKeepOrder, PTL

=============================================================================
