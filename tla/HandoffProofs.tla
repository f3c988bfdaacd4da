--------------------------- MODULE HandoffProofs ---------------------------
(***************************************************************************)
(* The safety of joins and leaves for every number of servers, whatever    *)
(* their order on the ring, all quorum sizes, and any number of commands,  *)
(* puts and broken calls.                                                  *)
(***************************************************************************)
EXTENDS Handoff, VersionVectorProofs

-----------------------------------------------------------------------------
(* Where a key belongs                                                       *)

\* The walk meets each server once.
LEMMA RankFacts ==
  /\ IsFiniteSet(Server)
  /\ \A n \in Server : Rank[n] \in Int
  /\ \A m, n \in Server : Rank[m] = Rank[n] => m = n
<1>1. Len(Preference) \in Nat /\ DOMAIN Preference = 1 .. Len(Preference)
  BY PreferenceIsEveryone
<1>2. \A n \in Server : \E i \in DOMAIN Preference : Preference[i] = n
  BY PreferenceIsEveryone DEF ToSet
<1>3. \A n \in Server : Rank[n] \in DOMAIN Preference /\ Preference[Rank[n]] = n
  BY <1>2 DEF Rank
<1>4. IsFiniteSet(1 .. Len(Preference))
  BY <1>1, FS_Interval
<1>5. Rank \in Injection(Server, 1 .. Len(Preference))
  <2>1. Rank \in [Server -> 1 .. Len(Preference)]
    BY <1>1, <1>3 DEF Rank
  <2>2. QED  BY <1>3, <2>1 DEF Injection, IsInjective
<1>6. QED  BY <1>1, <1>3, <1>4, <1>5, FS_Injection

LEMMA BeforeIsFinite ==
  ASSUME NEW mem \in SUBSET Server, NEW n \in Server
  PROVE  /\ IsFiniteSet(mem) /\ Cardinality(mem) \in Nat
         /\ Before(mem, n) \in SUBSET mem /\ n \notin Before(mem, n)
         /\ IsFiniteSet(Before(mem, n)) /\ Cardinality(Before(mem, n)) \in Nat
<1>1. Before(mem, n) \in SUBSET mem /\ n \notin Before(mem, n)
  BY RankFacts DEF Before
<1>2. QED  BY <1>1, RankFacts, FS_Subset, FS_CardinalityType

\* Of two members the one that is met first has fewer before it.
LEMMA BeforeGrows ==
  ASSUME NEW mem \in SUBSET Server, NEW m \in mem, NEW n \in Server
  PROVE  /\ Rank[m] < Rank[n] => Cardinality(Before(mem, m)) < Cardinality(Before(mem, n))
         /\ Rank[n] < Rank[m] => Cardinality(Before(mem, n)) <= Cardinality(Before(mem, m))
<1>1. ASSUME Rank[m] < Rank[n]
      PROVE  Cardinality(Before(mem, m)) < Cardinality(Before(mem, n))
  <2>1. Before(mem, m) \in SUBSET Before(mem, n) /\ m \in Before(mem, n)
    BY <1>1, RankFacts DEF Before
  <2>2. Before(mem, m) # Before(mem, n)
    BY <2>1, BeforeIsFinite
  <2>3. /\ IsFiniteSet(Before(mem, n)) /\ Cardinality(Before(mem, n)) \in Nat
        /\ Cardinality(Before(mem, m)) \in Nat
    BY BeforeIsFinite
  <2>4. Cardinality(Before(mem, m)) <= Cardinality(Before(mem, n))
    BY <2>1, <2>3, FS_Subset
  <2>5. Cardinality(Before(mem, m)) # Cardinality(Before(mem, n))
    BY <2>1, <2>2, <2>3, FS_Subset
  <2>6. QED  BY <2>3, <2>4, <2>5
<1>2. ASSUME Rank[n] < Rank[m]
      PROVE  Cardinality(Before(mem, n)) <= Cardinality(Before(mem, m))
  <2>1. Before(mem, n) \in SUBSET Before(mem, m)
    BY <1>2, RankFacts DEF Before
  <2>2. IsFiniteSet(Before(mem, m))
    BY BeforeIsFinite
  <2>3. QED  BY <2>1, <2>2, FS_Subset
<1>3. QED  BY <1>1, <1>2

\* The members are numbered, from 0, in the order in which they are met.
LEMMA Numbering ==
  ASSUME NEW mem \in SUBSET Server
  PROVE  [n \in mem |-> Cardinality(Before(mem, n))] \in Bijection(mem, 0 .. Cardinality(mem) - 1)
<1> DEFINE pos == [n \in mem |-> Cardinality(Before(mem, n))]
           C == Cardinality(mem)
<1>1. IsFiniteSet(mem) /\ C \in Nat
  BY RankFacts, FS_Subset, FS_CardinalityType
<1>2. ASSUME NEW n \in mem
      PROVE  Cardinality(Before(mem, n)) \in 0 .. C - 1
  <2>1. Before(mem, n) \in SUBSET mem /\ Before(mem, n) # mem /\ Cardinality(Before(mem, n)) \in Nat
    BY BeforeIsFinite
  <2>2. Cardinality(Before(mem, n)) <= C /\ Cardinality(Before(mem, n)) # C
    BY <1>1, <2>1, FS_Subset
  <2>3. QED  BY <1>1, <2>1, <2>2
<1>3. \A m, n \in mem : pos[m] = pos[n] => m = n
  <2>1. SUFFICES ASSUME NEW m \in mem, NEW n \in mem, m # n
                 PROVE  pos[m] # pos[n]
    OBVIOUS
  <2>2. Rank[m] < Rank[n] \/ Rank[n] < Rank[m]
    BY <2>1, RankFacts
  <2>3. pos[m] \in Int /\ pos[n] \in Int
    BY <1>2
  <2>4. QED  BY <2>2, <2>3, BeforeGrows
<1>4. pos \in Injection(mem, 0 .. C - 1)
  <2>1. pos \in [mem -> 0 .. C - 1]
    BY <1>2
  <2> HIDE DEF pos, C
  <2>2. QED  BY <1>3, <2>1 DEF Injection, IsInjective
<1>5. IsFiniteSet(0 .. C - 1) /\ Cardinality(0 .. C - 1) = C
  <2> HIDE DEF C
  <2>1. 0 \in Int /\ C - 1 \in Int
    BY <1>1
  <2>2. QED  BY <1>1, <2>1, FS_Interval
<1>6. pos \in Surjection(mem, 0 .. C - 1)
  <2> HIDE DEF pos
  <2>1. Cardinality(mem) = Cardinality(0 .. C - 1)
    BY <1>5
  <2> HIDE DEF C
  <2>2. QED  BY <1>4, <1>5, <2>1, FS_Injection
<1>7. QED  BY <1>4, <1>6 DEF Bijection

\* getReplicasNodes lists no more servers than it is asked for.
LEMMA ListIsShort ==
  ASSUME NEW mem \in SUBSET Server, NEW count \in Nat
  PROVE  /\ getReplicasNodes(mem, count) \in SUBSET mem
         /\ IsFiniteSet(getReplicasNodes(mem, count))
         /\ Cardinality(getReplicasNodes(mem, count)) \in 0 .. count
<1> DEFINE G == getReplicasNodes(mem, count)
           pos == [n \in G |-> Cardinality(Before(mem, n))]
<1>1. G \in SUBSET mem /\ \A n \in G : n \in Server /\ Cardinality(Before(mem, n)) < count
  BY DEF getReplicasNodes
<1>2. pos \in Injection(G, 0 .. count - 1)
  <2>1. ASSUME NEW n \in G
        PROVE  Cardinality(Before(mem, n)) \in 0 .. count - 1
    <3>1. Cardinality(Before(mem, n)) < count /\ Cardinality(Before(mem, n)) \in Nat
      BY <1>1, BeforeIsFinite
    <3>2. QED  BY <3>1
  <2>2. \A m, n \in G : pos[m] = pos[n] => m = n
    <3>1. \A m, n \in mem : Cardinality(Before(mem, m)) = Cardinality(Before(mem, n)) => m = n
      BY Numbering DEF Bijection, Injection, IsInjective
    <3>2. QED  BY <1>1, <3>1
  <2>3. QED  BY <2>1, <2>2 DEF Injection, IsInjective
<1>3. IsFiniteSet(0 .. count - 1) /\ Cardinality(0 .. count - 1) = count
  <2>1. 0 \in Int /\ count - 1 \in Int
    OBVIOUS
  <2>2. QED  BY <2>1, FS_Interval
<1>4. IsFiniteSet(G) /\ Cardinality(G) <= count
  <2> HIDE DEF pos, G
  <2>1. QED  BY <1>2, <1>3, FS_Injection
<1>5. Cardinality(G) \in Nat
  BY <1>4, FS_CardinalityType
<1>6. QED  BY <1>1, <1>4, <1>5

\* One server more changes the list by one exchange at most: it takes the place
\* of the last one listed, or is not listed itself, unless the list was not full.
LEMMA OneServerMore ==
  ASSUME NEW mem \in SUBSET Server, NEW x \in Server \ mem, NEW count \in Nat \ {0}
  PROVE  LET old == getReplicasNodes(mem, count)
             new == getReplicasNodes(mem \union {x}, count)
         IN  /\ new \subseteq old \union {x}
             /\ \A d, e \in old \ new : d = e
             /\ old \ new # {} => x \in new
             /\ old \ new = {} /\ Cardinality(mem) >= count => x \notin new
<1> DEFINE pos(n) == Cardinality(Before(mem, n))
           mem2 == mem \union {x}
           pos2(n) == Cardinality(Before(mem2, n))
           old == getReplicasNodes(mem, count)
           new == getReplicasNodes(mem2, count)
<1>1. \A n \in Server : pos(n) \in Nat /\ IsFiniteSet(Before(mem, n)) /\ x \notin Before(mem, n)
  BY BeforeIsFinite
<1>2. \A n \in Server : pos2(n) = IF Rank[x] < Rank[n] THEN pos(n) + 1 ELSE pos(n)
  <2>1. TAKE n \in Server
  <2>2. CASE Rank[x] < Rank[n]
    <3>1. Before(mem2, n) = Before(mem, n) \union {x}
      BY <2>2 DEF Before
    <3>2. QED  BY <1>1, <2>2, <3>1, FS_AddElement
  <2>3. CASE ~(Rank[x] < Rank[n])
    <3>1. Before(mem2, n) = Before(mem, n)
      BY <2>3 DEF Before
    <3>2. QED  BY <2>3, <3>1
  <2>4. QED  BY <2>2, <2>3
<1>3. /\ \A n : n \in old <=> n \in mem /\ pos(n) < count
      /\ \A n : n \in new <=> n \in mem2 /\ pos2(n) < count
  BY DEF getReplicasNodes
<1>5. \A n \in mem : Rank[x] < Rank[n] => pos(x) <= pos(n)
  BY BeforeGrows
<1>6. \A n \in mem : Rank[n] < Rank[x] => pos(n) < pos(x)
  BY BeforeGrows
<1>7. \A m, n \in mem : pos(m) = pos(n) => m = n
  BY Numbering DEF Bijection, Injection, IsInjective
<1>8. Cardinality(mem) \in Nat /\ \A k \in 0 .. Cardinality(mem) - 1 : \E n \in mem : pos(n) = k
  BY Numbering, BeforeIsFinite DEF Bijection, Surjection
<1>9. \A n \in mem : n \in Server /\ n # x /\ n \in mem2
  OBVIOUS
<1> HIDE DEF pos, pos2, old, new, mem2
<1>4. pos2(x) = pos(x)
  <2>1. ~(Rank[x] < Rank[x])
    BY RankFacts
  <2>2. QED  BY <1>2, <2>1
<1>10. ASSUME NEW n \in old \ new
       PROVE  n \in mem /\ pos(n) = count - 1 /\ Rank[x] < Rank[n]
  <2>1. n \in mem /\ n \in Server /\ pos(n) < count /\ ~(pos2(n) < count)
    BY <1>3, <1>9
  <2>2. pos(n) \in Nat /\ pos2(n) = IF Rank[x] < Rank[n] THEN pos(n) + 1 ELSE pos(n)
    BY <1>1, <1>2, <2>1
  <2>3. QED  BY <2>1, <2>2
<1>11. new \subseteq old \union {x}
  <2>1. mem2 = mem \union {x}
    BY DEF mem2
  <2>2. \A n \in new : n # x => n \in mem /\ pos2(n) < count /\ pos(n) <= pos2(n)
    BY <1>1, <1>2, <1>3, <1>9, <2>1
  <2>3. \A n \in new : n # x => pos(n) < count
    BY <1>1, <1>2, <1>9, <2>2
  <2>4. QED  BY <1>3, <2>2, <2>3
<1>12. \A d, e \in old \ new : d = e
  BY <1>7, <1>10
<1>13. ASSUME NEW d \in old \ new
       PROVE  x \in new
  <2>1. pos(x) <= pos(d) /\ pos(d) = count - 1 /\ pos(x) \in Nat
    BY <1>1, <1>5, <1>10
  <2>2. pos2(x) < count
    BY <1>4, <2>1
  <2>3. QED  BY <1>3, <2>2 DEF mem2
<1>14. ASSUME old \ new = {}, Cardinality(mem) >= count
       PROVE  x \notin new
  <2>1. PICK d \in mem : pos(d) = count - 1
    <3>1. count - 1 \in 0 .. Cardinality(mem) - 1
      BY <1>8, <1>14
    <3>2. QED  BY <1>8, <3>1
  <2>2. d \in old
    BY <1>3, <2>1
  <2>3. d \in new
    BY <1>14, <2>2
  <2>4. ~(Rank[x] < Rank[d])
    BY <1>2, <1>3, <1>9, <2>1, <2>3
  <2>5. Rank[d] < Rank[x]
    BY <1>9, <2>4, RankFacts
  <2>6. pos(d) < pos(x) /\ pos(x) \in Nat
    BY <1>1, <1>6, <2>5
  <2>7. ~(pos2(x) < count)
    BY <1>4, <2>1, <2>6
  <2>8. QED  BY <1>3, <2>7
<1>15. QED  BY <1>11, <1>12, <1>13, <1>14 DEF old, new, mem2

-----------------------------------------------------------------------------
(* The shape of the state                                                    *)

LEMMA ConstantFacts ==
  /\ REPLICA_N \in Nat \ {0} /\ W_COUNT \in Nat \ {0} /\ R_COUNT \in Nat \ {0}
  /\ Tries \in Nat \ {0} /\ MaxCommands \in Nat /\ MaxBroken \in Nat
  /\ NoServer \notin Server /\ NO_VALUE \notin Put
  /\ NoVersion \in Version /\ Absent \in Record
  BY CountsAreNat, NoneOfThem, OrderOfVersions DEF Absent, Record

\* A get meets records of servers.
LEMMA ReadsAreOfServers ==
  ASSUME TypeOK, NEW data \in Reads
  PROVE  \E a \in SUBSET Server : data = {store[m] : m \in a}
<1>1. PICK n \in Server : \E a \in Answers(ring[n]) : data = {store[m] : m \in a}
  BY DEF Reads
<1>2. Answers(ring[n]) \subseteq SUBSET Server
  BY DEF Answers, getReplicasNodes, TypeOK
<1>3. QED  BY <1>1, <1>2

\* What a client has read is a version.
LEMMA ReadsAreVersions ==
  ASSUME TypeOK
  PROVE  ReadVersions \subseteq Version
<1>0. SUFFICES ASSUME NEW data \in Reads
               PROVE  reconcile_version({r.version : r \in get_latest_data(data)}) \in Version
  BY DEF ReadVersions
<1>1. PICK a \in SUBSET Server : data = {store[m] : m \in a}
  BY ReadsAreOfServers
<1>2. \A m \in a : m \in Server /\ store[m].version \in Version
  BY DEF TypeOK, Record
<1>3. \A r \in get_latest_data({store[m] : m \in a}) : r.version \in Version
  BY <1>2 DEF get_latest_data, remove_unconflict_data
<1>4. {r.version : r \in get_latest_data({store[m] : m \in a})} \in SUBSET Version
  BY <1>3
<1>5. QED  BY <1>1, <1>4, ReconcileIsVersion

\* TypeOK in parts, of which most steps disturb one or two.
NodesType ==
  /\ ring \in [Server -> SUBSET Server] /\ stubs \in [Server -> SUBSET Server]
  /\ members \subseteq Server
  /\ issued \in 0 .. MaxCommands /\ broken \in 0 .. MaxBroken
  /\ {overlap, hurt, short, stale} \subseteq BOOLEAN

StoreType == store \in [Server -> Record]

CommandType == cmd \in [name : {"none", "JoinNetwork", "LeaveNetwork"}, addr : Server \union {NoServer},
                         todo : SUBSET Server, old : SUBSET Server]

MoveType == move \in [stage : {"none", "told", "sent", "accepted", "refused"},
                       peer : Server \union {NoServer}, data : Record, tries : 0 .. Tries]

PutSet == [phase : {"idle", "loop", "done"}, node : Server \union {NoServer},
           version : Version, list : SUBSET Server,
           try_cnt : 0 .. 2 * REPLICA_N, success_cnt : 0 .. 2 * REPLICA_N,
           near_cnt : 0 .. 2 * REPLICA_N, ret : {"none", "OK", "FAILED"}]

PutsType == put \in [Put -> PutSet] /\ \A p \in Put : put[p].near_cnt <= put[p].success_cnt

\* A put comes to the first server that is left of its list.
Visits(p, m) == PutAt(p, m) \/ PutBreaks(p, m) \/ PutSkips(p, m)

LEMMA TypeParts ==
  /\ TypeOK <=> NodesType /\ StoreType /\ CommandType /\ MoveType /\ PutsType
  /\ TypeOK' <=> NodesType' /\ StoreType' /\ CommandType' /\ MoveType' /\ PutsType'
<1>1. TypeOK <=> NodesType /\ StoreType /\ CommandType /\ MoveType /\ PutsType
  BY DEF TypeOK, NodesType, StoreType, CommandType, MoveType, PutsType, PutSet
<1>2. TypeOK' <=> NodesType' /\ StoreType' /\ CommandType' /\ MoveType' /\ PutsType'
  BY DEF TypeOK, NodesType, StoreType, CommandType, MoveType, PutsType, PutSet
<1>3. QED  BY <1>1, <1>2

\* A transfer is between two servers, the one that joins or leaves and a peer.
LEMMA TransferIsBetween ==
  ASSUME TypeOK, CommandsAreOrderly, move.stage # "none"
  PROVE  /\ cmd.name \in {"JoinNetwork", "LeaveNetwork"}
         /\ move.peer \in cmd.todo /\ move.peer \in Server
         /\ cmd.addr \in Server /\ cmd.addr # move.peer
         /\ Giver \in Server /\ Taker \in Server /\ Giver # Taker
<1>1. move # NoMove /\ cmd # NoCmd
  BY DEF CommandsAreOrderly, NoMove
<1>2. cmd.name \in {"JoinNetwork", "LeaveNetwork"}
  BY <1>1 DEF CommandsAreOrderly, TypeOK
<1>3. cmd.addr \in Server
  BY <1>2 DEF CommandsAreOrderly, TypeOK
<1>4. move.peer \in cmd.todo /\ move.peer \in Server /\ cmd.addr # move.peer
  BY DEF CommandsAreOrderly, TypeOK
<1>5. QED  BY <1>2, <1>3, <1>4 DEF Giver, Taker

LEMMA TypeInit == Init => TypeOK
<1>1. SUFFICES ASSUME Init PROVE TypeOK
  OBVIOUS
<1> USE ConstantFacts
<1>2. NodesType
  <2>1. members \subseteq Server
    BY <1>1 DEF Init
  <2>2. ring \in [Server -> SUBSET Server]
    BY <1>1, <2>1 DEF Init
  <2>3. stubs \in [Server -> SUBSET Server]
    BY <1>1, <2>2 DEF Init
  <2>4. issued \in 0 .. MaxCommands /\ broken \in 0 .. MaxBroken
    BY <1>1 DEF Init
  <2>5. QED  BY <1>1, <2>1, <2>2, <2>3, <2>4 DEF Init, NodesType
<1>3. StoreType
  BY <1>1 DEF Init, StoreType
<1>4. CommandType
  BY <1>1 DEF Init, NoCmd, CommandType
<1>5. MoveType
  BY <1>1 DEF Init, NoMove, MoveType
<1>6. PutsType
  <2>1. Idle \in PutSet /\ Idle.near_cnt <= Idle.success_cnt
    BY DEF Idle, PutSet
  <2>2. QED  BY <1>1, <2>1 DEF Init, PutsType
<1>7. QED  BY <1>2, <1>3, <1>4, <1>5, <1>6, TypeParts

\* The admin's command and the transfers.
LEMMA TypeAdmin ==
  ASSUME TypeOK, CommandsAreOrderly, Admin
  PROVE  TypeOK'
<1> USE ConstantFacts
<1>0. NodesType /\ StoreType /\ CommandType /\ MoveType /\ PutsType
  BY TypeParts
<1>1. PutsType'
  <2>1. put' = put
    BY DEF Admin, AdminJoin, AdminLeave, JoinNetwork, LeaveNetwork, TransferRead, TransferPut,
           TransferBreaks, TransferRemove, TransferRefused, Return
  <2>2. QED  BY <1>0, <2>1 DEF PutsType
<1>2. ASSUME NEW n \in Server, AdminJoin(n) PROVE TypeOK'
  <2>1. NodesType' /\ CommandType'
    BY <1>0, <1>2 DEF AdminJoin, Begins, NodesType, CommandType
  <2>2. StoreType' /\ MoveType'
    BY <1>0, <1>2 DEF AdminJoin, StoreType, MoveType
  <2>3. QED  BY <1>1, <2>1, <2>2, TypeParts
<1>3. ASSUME NEW n \in Server, AdminLeave(n) PROVE TypeOK'
  <2>1. NodesType' /\ CommandType'
    BY <1>0, <1>3 DEF AdminLeave, Begins, NodesType, CommandType
  <2>2. StoreType' /\ MoveType'
    BY <1>0, <1>3 DEF AdminLeave, StoreType, MoveType
  <2>3. QED  BY <1>1, <2>1, <2>2, TypeParts
<1>4. ASSUME NEW n \in Server, JoinNetwork(n) \/ LeaveNetwork(n) PROVE TypeOK'
  <2>1. cmd.name = "JoinNetwork" => cmd.addr \in Server
    BY DEF CommandsAreOrderly
  <2>2. NodesType'
    BY <1>0, <1>4, <2>1 DEF JoinNetwork, LeaveNetwork, Called, NodesType, history
  <2>3. MoveType'
    <3>1. move' = [stage |-> "told", peer |-> n, data |-> Absent, tries |-> 0]
      BY <1>4 DEF JoinNetwork, LeaveNetwork, NoMove
    <3>2. 0 \in 0 .. Tries
      OBVIOUS
    <3>3. QED  BY <3>1, <3>2 DEF MoveType
  <2>4. StoreType' /\ CommandType'
    BY <1>0, <1>4 DEF JoinNetwork, LeaveNetwork, StoreType, CommandType
  <2>5. QED  BY <1>1, <2>2, <2>3, <2>4, TypeParts
<1>5. ASSUME NEW m, Leaves(m) PROVE CommandType' /\ MoveType'
  BY <1>0, <1>5 DEF Leaves, NoMove, CommandType, MoveType
<1>6. CASE TransferRead
  <2>1. NodesType' /\ StoreType'
    BY <1>0, <1>6 DEF TransferRead, NodesType, StoreType, history
  <2>2. CASE Moves
    <3>1. Giver \in Server
      BY <1>6, TransferIsBetween DEF TransferRead
    <3>2. store[Giver] \in Record /\ 1 \in 0 .. Tries
      BY <1>0, <3>1 DEF StoreType
    <3>3. MoveType' /\ CommandType'
      BY <1>0, <1>6, <2>2, <3>2 DEF TransferRead, MoveType, CommandType
    <3>4. QED  BY <1>1, <2>1, <3>3, TypeParts
  <2>3. CASE ~Moves
    BY <1>1, <1>5, <1>6, <2>1, <2>3, TypeParts DEF TransferRead
  <2>4. QED  BY <2>2, <2>3
<1>7. CASE TransferPut
  <2>1. NodesType' /\ CommandType'
    BY <1>0, <1>7 DEF TransferPut, NodesType, CommandType, history
  <2>2. StoreType' /\ MoveType'
    BY <1>0, <1>7 DEF TransferPut, StoreType, MoveType
  <2>3. QED  BY <1>1, <2>1, <2>2, TypeParts
<1>8. CASE TransferBreaks
  <2>1. NodesType' /\ CommandType'
    BY <1>0, <1>8 DEF TransferBreaks, NodesType, CommandType
  <2>2. StoreType' /\ MoveType'
    BY <1>0, <1>8 DEF TransferBreaks, StoreType, MoveType
  <2>3. QED  BY <1>1, <2>1, <2>2, TypeParts
<1>9. CASE TransferRemove
  <2>1. NodesType' /\ StoreType'
    BY <1>0, <1>9 DEF TransferRemove, NodesType, StoreType, history
  <2>2. QED  BY <1>1, <1>5, <1>9, <2>1, TypeParts DEF TransferRemove
<1>10. CASE TransferRefused
  <2>1. NodesType' /\ StoreType'
    BY <1>0, <1>10 DEF TransferRefused, NodesType, StoreType, history
  <2>2. CASE cmd.name = "LeaveNetwork" /\ move.tries < Tries
    <3>1. Giver \in Server
      BY <2>2 DEF Giver, CommandsAreOrderly, TypeOK
    <3>2. store[Giver] \in Record /\ move.tries + 1 \in 0 .. Tries
      BY <1>0, <2>2, <3>1 DEF StoreType, MoveType
    <3>3. MoveType' /\ CommandType'
      BY <1>0, <1>10, <2>2, <3>2 DEF TransferRefused, MoveType, CommandType
    <3>4. QED  BY <1>1, <2>1, <3>3, TypeParts
  <2>3. CASE ~(cmd.name = "LeaveNetwork" /\ move.tries < Tries)
    BY <1>1, <1>5, <1>10, <2>1, <2>3, TypeParts DEF TransferRefused
  <2>4. QED  BY <2>2, <2>3
<1>11. CASE Return
  <2>1. NodesType' /\ CommandType'
    <3>1. After \subseteq Server
      BY <1>0 DEF After, NodesType, CommandType, CommandsAreOrderly
    <3>2. QED  BY <1>0, <1>11, <3>1 DEF Return, NoCmd, NodesType, CommandType, history
  <2>2. StoreType' /\ MoveType'
    BY <1>0, <1>11 DEF Return, StoreType, MoveType
  <2>3. QED  BY <1>1, <2>1, <2>2, TypeParts
<1>12. QED  BY <1>2, <1>3, <1>4, <1>6, <1>7, <1>8, <1>9, <1>10, <1>11 DEF Admin

\* What an attempt leaves of a put.
LEMMA AttemptIsCounted ==
  ASSUME TypeOK, PutProgress, NEW p \in Put, NEW m \in Server, AtPeer(p, m), NEW success \in {0, 1}
  PROVE  LET op == Counted(put[p], m, success)
         IN  /\ op \in PutSet
             /\ op.phase = "loop" /\ op.version = put[p].version
             /\ op.node = put[p].node /\ op.ret = put[p].ret
             /\ op.try_cnt = put[p].try_cnt + 1 /\ op.success_cnt = put[p].success_cnt + success
             /\ op.success_cnt <= op.try_cnt
             /\ op.near_cnt = put[p].near_cnt + (IF checkDataBelonging(m, members) THEN success ELSE 0)
             /\ op.near_cnt <= op.success_cnt
             /\ op.list \subseteq put[p].list \ {m}
             /\ op.list # {} => op.list = put[p].list \ {m}
             /\ op.try_cnt + Cardinality(op.list) <= 2 * REPLICA_N
<1> USE ConstantFacts
<1>1. /\ put[p] \in PutSet /\ put[p].near_cnt <= put[p].success_cnt /\ put[p].success_cnt <= put[p].try_cnt
      /\ put[p].phase = "loop" /\ m \in put[p].list
  BY TypeParts DEF PutsType, PutProgress, AtPeer, Running
<1>2. put[p].list \in SUBSET Server
  BY <1>1 DEF PutSet
<1>3. /\ Cardinality(put[p].list \ {m}) = Cardinality(put[p].list) - 1
      /\ Cardinality(put[p].list) \in Nat /\ Cardinality(put[p].list \ {m}) \in Nat
  <2>1. IsFiniteSet(put[p].list)
    BY <1>2, RankFacts, FS_Subset
  <2>2. QED  BY <1>1, <2>1, FS_RemoveElement, FS_CardinalityType
<1>4. put[p].try_cnt + Cardinality(put[p].list) <= 2 * REPLICA_N
  BY DEF PutProgress
<1>5. put[p].try_cnt \in Nat /\ put[p].success_cnt \in Nat /\ put[p].near_cnt \in Nat /\ 2 * REPLICA_N \in Nat
  BY <1>1 DEF PutSet
<1> DEFINE op == Counted(put[p], m, success)
<1> DEFINE left == IF success = 1 /\ put[p].try_cnt + 1 = REPLICA_N THEN {} ELSE put[p].list \ {m}
           near == put[p].near_cnt + (IF checkDataBelonging(m, members) THEN success ELSE 0)
<1>6. op = [phase |-> put[p].phase, node |-> put[p].node, version |-> put[p].version, list |-> left,
            try_cnt |-> put[p].try_cnt + 1, success_cnt |-> put[p].success_cnt + success,
            near_cnt |-> near, ret |-> put[p].ret]
  <2>1. op = [put[p] EXCEPT !.try_cnt = put[p].try_cnt + 1, !.success_cnt = put[p].success_cnt + success,
                            !.near_cnt = near, !.list = left]
    <3>1. put[p].near_cnt + 0 = put[p].near_cnt
      BY <1>5
    <3>2. near = IF checkDataBelonging(m, members) THEN put[p].near_cnt + success ELSE put[p].near_cnt
      BY <3>1
    <3> HIDE DEF near
    <3>3. QED  BY <3>2 DEF Counted
  <2> HIDE DEF op, left, near
  <2>2. QED  BY <1>1, <2>1 DEF PutSet
<1>61. left \in {{}, put[p].list \ {m}} /\ near \in {put[p].near_cnt, put[p].near_cnt + success}
  BY <1>5
<1>62. /\ op.phase = "loop" /\ op.version = put[p].version
       /\ op.node = put[p].node /\ op.ret = put[p].ret
       /\ op.try_cnt = put[p].try_cnt + 1 /\ op.success_cnt = put[p].success_cnt + success
       /\ op.near_cnt = near /\ op.list \in {{}, put[p].list \ {m}}
       /\ op = [phase |-> op.phase, node |-> op.node, version |-> op.version, list |-> op.list,
                try_cnt |-> op.try_cnt, success_cnt |-> op.success_cnt, near_cnt |-> op.near_cnt, ret |-> op.ret]
  <2> HIDE DEF op, left, near
  <2> QED  BY <1>1, <1>6, <1>61
<1> HIDE DEF op
<1>7. op.try_cnt + Cardinality(op.list) <= 2 * REPLICA_N /\ Cardinality(op.list) \in Nat
  <2>1. CASE op.list = {}
    BY <1>3, <1>4, <1>5, <1>62, <2>1, FS_EmptySet
  <2>2. CASE op.list = put[p].list \ {m}
    BY <1>3, <1>4, <1>5, <1>62, <2>2
  <2>3. QED  BY <1>62, <2>1, <2>2
<1>8. /\ op.near_cnt <= op.success_cnt /\ op.success_cnt <= op.try_cnt
      /\ op.try_cnt \in 0 .. 2 * REPLICA_N /\ op.success_cnt \in 0 .. 2 * REPLICA_N
      /\ op.near_cnt \in 0 .. 2 * REPLICA_N
  <2> HIDE DEF near
  <2> QED  BY <1>1, <1>5, <1>61, <1>62, <1>7
<1>9. op \in PutSet
  <2>1. /\ op.phase \in {"idle", "loop", "done"} /\ op.node \in Server \union {NoServer}
        /\ op.version \in Version /\ op.list \in SUBSET Server /\ op.ret \in {"none", "OK", "FAILED"}
    BY <1>1, <1>2, <1>62 DEF PutSet
  <2>2. QED  BY <1>62, <1>8, <2>1 DEF PutSet
<1>10. QED  BY <1>62, <1>7, <1>8, <1>9 DEF op

\* What ClientPut makes of an idle request.
LEMMA PutBegins ==
  ASSUME TypeOK, PutProgress, NEW p \in Put, NEW n \in Server, NEW v \in ReadVersions, ClientPut(p, n, v)
  PROVE  LET list == getReplicasNodes(ring[n], 2 * REPLICA_N)
             op == [phase |-> "loop", node |-> n, version |-> update_version(v, n), list |-> list,
                    try_cnt |-> 0, success_cnt |-> 0, near_cnt |-> 0, ret |-> "none"]
         IN  /\ put' = [put EXCEPT ![p] = op]
             /\ op \in PutSet /\ op.version # NoVersion /\ v \in Version
             /\ Cardinality(list) <= 2 * REPLICA_N
<1> USE ConstantFacts
<1> DEFINE list == getReplicasNodes(ring[n], 2 * REPLICA_N)
<1>1. put[p] = Idle
  BY DEF ClientPut, PutProgress
<1>2. put \in [Put -> PutSet] /\ ring[n] \in SUBSET Server
  BY TypeParts DEF PutsType, NodesType
<1>3. update_version(v, n) \in Version /\ update_version(v, n) # NoVersion /\ v \in Version
  BY ReadsAreVersions, BumpedVersion DEF ClientPut
<1>4. list \in SUBSET Server /\ Cardinality(list) <= 2 * REPLICA_N
  <2>1. 2 * REPLICA_N \in Nat
    OBVIOUS
  <2>2. ring[n] \in SUBSET Server
    BY <1>2
  <2> DEFINE count == 2 * REPLICA_N
  <2> HIDE DEF count
  <2>3. /\ getReplicasNodes(ring[n], count) \in SUBSET ring[n]
        /\ Cardinality(getReplicasNodes(ring[n], count)) \in 0 .. count
    BY <2>1, <2>2, ListIsShort DEF count
  <2>4. Cardinality(getReplicasNodes(ring[n], count)) <= count
    BY <2>1, <2>3 DEF count
  <2>5. list = getReplicasNodes(ring[n], count)
    BY DEF count
  <2>6. QED  BY <2>2, <2>3, <2>4, <2>5 DEF count
<1>5. put' = [put EXCEPT ![p] = [Idle EXCEPT !.phase = "loop", !.node = n, !.list = list,
                                             !.version = update_version(v, n)]]
  BY <1>1, <1>2 DEF ClientPut
<1> HIDE DEF list
<1> DEFINE op == [phase |-> "loop", node |-> n, version |-> update_version(v, n), list |-> list,
                  try_cnt |-> 0, success_cnt |-> 0, near_cnt |-> 0, ret |-> "none"]
<1>6. put' = [put EXCEPT ![p] = op]
  <2>1. ASSUME NEW new,
               new = [Idle EXCEPT !.phase = "loop", !.node = n, !.list = list, !.version = update_version(v, n)]
        PROVE  new = op
    BY <2>1 DEF Idle
  <2>2. QED  BY <1>5, <2>1
<1>7. op \in PutSet
  <2>1. 0 \in 0 .. 2 * REPLICA_N
    OBVIOUS
  <2>2. QED  BY <1>3, <1>4, <2>1 DEF PutSet
<1>8. QED  BY <1>3, <1>4, <1>6, <1>7 DEF list

LEMMA TypePuts ==
  ASSUME TypeOK, PutProgress, NEW p \in Put,
         PutStep(p) \/ \E v \in ReadVersions, n \in Server : ClientPut(p, n, v)
  PROVE  TypeOK'
<1> USE ConstantFacts
<1>0. NodesType /\ StoreType /\ CommandType /\ MoveType /\ PutsType
  BY TypeParts
<1>1. RecordOf(p) \in Record
  BY <1>0 DEF RecordOf, Record, PutsType, PutSet
<1>2. NodesType' /\ StoreType' /\ CommandType' /\ MoveType'
  <2>1. ASSUME NEW n \in Server, NEW v \in ReadVersions, ClientPut(p, n, v)
        PROVE  NodesType' /\ StoreType' /\ CommandType' /\ MoveType'
    BY <1>0, <2>1 DEF ClientPut, NodesType, StoreType, CommandType, MoveType
  <2>2. ASSUME NEW m \in Server, PutAt(p, m)
        PROVE  NodesType' /\ StoreType' /\ CommandType' /\ MoveType'
    BY <1>0, <1>1, <2>2 DEF PutAt, NodesType, StoreType, CommandType, MoveType, history
  <2>3. ASSUME NEW m \in Server, PutBreaks(p, m)
        PROVE  NodesType' /\ StoreType' /\ CommandType' /\ MoveType'
    BY <1>0, <1>1, <2>3 DEF PutBreaks, NodesType, StoreType, CommandType, MoveType, history
  <2>4. CASE PutReturn(p) \/ \E m \in Server : PutSkips(p, m)
    BY <1>0, <2>4 DEF PutReturn, PutSkips, NodesType, StoreType, CommandType, MoveType, history
  <2>5. QED  BY <2>1, <2>2, <2>3, <2>4 DEF PutStep
<1>3. PutsType'
  <2>1. ASSUME NEW op \in PutSet, op.near_cnt <= op.success_cnt, put' = [put EXCEPT ![p] = op]
        PROVE  PutsType'
    BY <1>0, <2>1 DEF PutsType
  <2>2. ASSUME NEW n \in Server, NEW v \in ReadVersions, ClientPut(p, n, v)
        PROVE  PutsType'
    <3> DEFINE op == [phase |-> "loop", node |-> n, version |-> update_version(v, n),
                      list |-> getReplicasNodes(ring[n], 2 * REPLICA_N),
                      try_cnt |-> 0, success_cnt |-> 0, near_cnt |-> 0, ret |-> "none"]
    <3>1. put' = [put EXCEPT ![p] = op] /\ op \in PutSet
      BY <2>2, PutBegins
    <3>2. op.near_cnt <= op.success_cnt
      OBVIOUS
    <3> HIDE DEF op
    <3>3. QED  BY <2>1, <3>1, <3>2
  <2>3. ASSUME NEW m \in Server, NEW success \in {0, 1}, AtPeer(p, m),
               put' = [put EXCEPT ![p] = Counted(@, m, success)]
        PROVE  PutsType'
    BY <1>0, <2>1, <2>3, AttemptIsCounted DEF PutsType
  <2>4. ASSUME NEW m \in Server, PutAt(p, m)
        PROVE  PutsType'
    BY <2>3, <2>4 DEF PutAt
  <2>5. ASSUME NEW m \in Server, PutBreaks(p, m)
        PROVE  PutsType'
    BY <2>3, <2>5 DEF PutBreaks
  <2>6. CASE PutReturn(p)
    <3> DEFINE op == [put[p] EXCEPT !.phase = "done", !.node = NoServer, !.try_cnt = 0,
                                    !.ret = IF put[p].success_cnt >= W_COUNT THEN "OK" ELSE "FAILED"]
    <3>1. put' = [put EXCEPT ![p] = op]
      BY <2>6 DEF PutReturn
    <3>2. put[p] \in PutSet /\ put[p].near_cnt <= put[p].success_cnt
      BY <1>0 DEF PutsType
    <3>3. op \in PutSet
      <4>1. 0 \in 0 .. 2 * REPLICA_N
        OBVIOUS
      <4>2. QED  BY <3>2, <4>1 DEF PutSet
    <3>4. op.near_cnt <= op.success_cnt
      BY <3>2 DEF PutSet
    <3> HIDE DEF op
    <3>5. QED  BY <2>1, <3>1, <3>3, <3>4
  <2>7. ASSUME NEW m \in Server, PutSkips(p, m)
        PROVE  PutsType'
    <3> DEFINE op == [put[p] EXCEPT !.list = put[p].list \ {m}]
    <3>1. put' = [put EXCEPT ![p] = op]
      BY <1>0, <2>7 DEF PutSkips, PutsType
    <3>2. put[p] \in PutSet /\ put[p].near_cnt <= put[p].success_cnt
      BY <1>0 DEF PutsType
    <3>3. op \in PutSet /\ op.near_cnt <= op.success_cnt
      BY <3>2 DEF PutSet
    <3> HIDE DEF op
    <3>4. QED  BY <2>1, <3>1, <3>3
  <2>8. QED  BY <2>2, <2>4, <2>5, <2>6, <2>7 DEF PutStep
<1>4. QED  BY <1>2, <1>3, TypeParts

-----------------------------------------------------------------------------
(* Puts and what they write                                                  *)

\* All steps but those of a put leave the puts alone.
LEMMA AdminKeepsPuts ==
  ASSUME Admin \/ UNCHANGED vars
  PROVE  put' = put
BY DEF Admin, AdminJoin, AdminLeave, JoinNetwork, LeaveNetwork, TransferRead, TransferPut,
       TransferBreaks, TransferRemove, TransferRefused, Return, vars

\* What one attempt does to its own put and to no other.
LEMMA AttemptMoves ==
  ASSUME TypeOK, PutProgress, NEW p \in Put, NEW m \in Server, Visits(p, m)
  PROVE  /\ put[p].phase = "loop" /\ put'[p].phase = "loop"
         /\ put'[p].version = put[p].version /\ put'[p].ret = put[p].ret
         /\ put'[p].success_cnt \in {put[p].success_cnt, put[p].success_cnt + 1}
         /\ \/ put'[p].near_cnt = put[p].near_cnt
            \/ /\ put'[p].near_cnt = put[p].near_cnt + 1 /\ checkDataBelonging(m, members)
               /\ put'[p].success_cnt = put[p].success_cnt + 1
         /\ put'[p].success_cnt <= put'[p].try_cnt
         /\ put'[p].list \subseteq put[p].list \ {m}
         /\ put'[p].try_cnt + Cardinality(put'[p].list) <= 2 * REPLICA_N
         /\ put[p].success_cnt \in Nat /\ put[p].near_cnt \in Nat
         /\ \A q \in Put \ {p} : put'[q] = put[q]
<1>1. AtPeer(p, m) /\ Running(p) /\ put[p].phase = "loop" /\ m \in put[p].list
  BY DEF Visits, PutAt, PutBreaks, PutSkips, AtPeer, Running
<1>2. /\ put \in [Put -> PutSet] /\ put[p] \in PutSet /\ put[p].success_cnt \in Nat /\ put[p].near_cnt \in Nat
      /\ put[p].try_cnt \in Nat
  BY TypeParts, ConstantFacts DEF PutsType, PutSet
<1>3. CASE PutAt(p, m) \/ PutBreaks(p, m)
  <2>1. PICK success \in {0, 1} : put' = [put EXCEPT ![p] = Counted(put[p], m, success)]
    BY <1>3 DEF PutAt, PutBreaks
  <2>2. put'[p] = Counted(put[p], m, success) /\ \A q \in Put \ {p} : put'[q] = put[q]
    BY <1>2, <2>1
  <2>3. QED  BY <1>1, <1>2, <2>2, AttemptIsCounted
<1>4. CASE PutSkips(p, m)
  <2> DEFINE left == put[p].list \ {m}
  <2>1. put' = [put EXCEPT ![p] = [put[p] EXCEPT !.list = left]]
    BY <1>2, <1>4 DEF PutSkips
  <2>2. put'[p] = [put[p] EXCEPT !.list = left] /\ \A q \in Put \ {p} : put'[q] = put[q]
    BY <1>2, <2>1
  <2> HIDE DEF left
  <2>3. /\ put'[p].phase = put[p].phase /\ put'[p].version = put[p].version /\ put'[p].ret = put[p].ret
        /\ put'[p].success_cnt = put[p].success_cnt /\ put'[p].near_cnt = put[p].near_cnt
        /\ put'[p].try_cnt = put[p].try_cnt /\ put'[p].list = left
    BY <1>2, <2>2 DEF PutSet
  <2>4. Cardinality(left) <= Cardinality(put[p].list) /\ Cardinality(left) \in Nat /\ Cardinality(put[p].list) \in Nat
    <3>1. put[p].list \in SUBSET Server /\ left \in SUBSET put[p].list
      BY <1>2 DEF PutSet, left
    <3>2. IsFiniteSet(put[p].list) /\ IsFiniteSet(left)
      BY <3>1, RankFacts, FS_Subset
    <3>3. QED  BY <3>1, <3>2, FS_Subset, FS_CardinalityType
  <2>5. put[p].try_cnt + Cardinality(put[p].list) <= 2 * REPLICA_N /\ put[p].success_cnt <= put[p].try_cnt
    BY <1>1 DEF PutProgress
  <2>6. put'[p].try_cnt + Cardinality(put'[p].list) <= 2 * REPLICA_N
    BY <1>2, <2>3, <2>4, <2>5, ConstantFacts
  <2>7. put'[p].list \subseteq put[p].list \ {m}
    BY <2>3 DEF left
  <2>8. QED  BY <1>1, <1>2, <2>2, <2>3, <2>5, <2>6, <2>7
<1>5. QED  BY <1>3, <1>4 DEF Visits

LEMMA ReturnMoves ==
  ASSUME TypeOK, NEW p \in Put, PutReturn(p)
  PROVE  /\ put[p].phase = "loop" /\ put'[p].phase = "done" /\ put[p].list = {}
         /\ put'[p].version = put[p].version /\ put'[p].list = put[p].list
         /\ put'[p].try_cnt = 0
         /\ put'[p].success_cnt = put[p].success_cnt /\ put'[p].near_cnt = put[p].near_cnt
         /\ put'[p].ret = IF put[p].success_cnt >= W_COUNT THEN "OK" ELSE "FAILED"
         /\ \A q \in Put \ {p} : put'[q] = put[q]
<1>1. put \in [Put -> PutSet]
  BY TypeParts DEF PutsType
<1>2. QED  BY <1>1 DEF PutReturn, Running, PutSet

LEMMA BeginMoves ==
  ASSUME TypeOK, PutProgress, NEW p \in Put, NEW n \in Server, NEW v \in ReadVersions, ClientPut(p, n, v)
  PROVE  /\ put[p].phase = "idle" /\ put'[p].phase = "loop"
         /\ v \in Version /\ v[n] < MaxVersion
         /\ put'[p].version = update_version(v, n) /\ put'[p].version \in Version
         /\ put'[p].version # NoVersion
         /\ put'[p].list = getReplicasNodes(ring[n], 2 * REPLICA_N)
         /\ put'[p].try_cnt = 0 /\ put'[p].success_cnt = 0 /\ put'[p].near_cnt = 0 /\ put'[p].ret = "none"
         /\ Cardinality(put'[p].list) <= 2 * REPLICA_N
         /\ \A q \in Put \ {p} : put'[q] = put[q]
<1>1. put \in [Put -> PutSet]
  BY TypeParts DEF PutsType
<1> DEFINE op == [phase |-> "loop", node |-> n, version |-> update_version(v, n),
                  list |-> getReplicasNodes(ring[n], 2 * REPLICA_N),
                  try_cnt |-> 0, success_cnt |-> 0, near_cnt |-> 0, ret |-> "none"]
<1>2. /\ put' = [put EXCEPT ![p] = op]
      /\ op.version # NoVersion /\ v \in Version /\ Cardinality(op.list) <= 2 * REPLICA_N
  BY PutBegins
<1>3. v[n] < MaxVersion /\ put[p].phase = "idle"
  BY DEF ClientPut
<1>4. put'[p] = op /\ \A q \in Put \ {p} : put'[q] = put[q]
  BY <1>1, <1>2
<1>5. update_version(v, n) \in Version
  BY <1>2, <1>3, BumpedVersion
<1>6. QED  BY <1>2, <1>3, <1>4, <1>5

\* The four kinds of steps.
LEMMA StepKinds ==
  ASSUME [Next]_vars
  PROVE  \/ UNCHANGED vars
         \/ Admin
         \/ \E p \in Put, m \in Server : Visits(p, m)
         \/ \E p \in Put : PutReturn(p)
         \/ \E p \in Put, n \in Server, v \in ReadVersions : ClientPut(p, n, v)
BY DEF Next, PutStep, Visits

LEMMA TypeStep ==
  ASSUME TypeOK, PutProgress, CommandsAreOrderly, [Next]_vars
  PROVE  TypeOK'
<1>1. CASE Next
  BY <1>1, TypeAdmin, TypePuts DEF Next
<1>2. CASE UNCHANGED vars
  BY <1>2 DEF vars, history, TypeOK
<1>3. QED  BY <1>1, <1>2

LEMMA ProgressStep ==
  ASSUME TypeOK, PutProgress, [Next]_vars
  PROVE  PutProgress'
<1> DEFINE Fine(op) == /\ op.phase = "idle" => op = Idle
                       /\ op.phase # "idle" => op.version # NoVersion
                       /\ op.ret = "OK" => op.success_cnt >= W_COUNT
                       /\ op.phase = "loop" => op.success_cnt <= op.try_cnt
                       /\ op.try_cnt + Cardinality(op.list) <= 2 * REPLICA_N
<1>0. \A p \in Put : Fine(put[p])
  BY DEF PutProgress, Running
<1>1. SUFFICES \A p \in Put : Fine(put'[p])
  BY DEF PutProgress, Running
<1>2. \A p \in Put : put[p] \in PutSet
  BY TypeParts DEF PutsType
<1>3. CASE Admin \/ UNCHANGED vars
  BY <1>0, <1>3, AdminKeepsPuts
<1>4. ASSUME NEW p \in Put, NEW m \in Server, Visits(p, m)
      PROVE  \A q \in Put : Fine(put'[q])
  <2>1. \A q \in Put \ {p} : Fine(put'[q])
    BY <1>0, <1>4, AttemptMoves
  <2>2. Fine(put'[p])
    <3>1. put'[p].phase # "idle" /\ put[p].phase # "idle" /\ put'[p].version = put[p].version
      BY <1>4, AttemptMoves
    <3>2. put'[p].ret = "OK" => put'[p].success_cnt >= W_COUNT
      BY <1>0, <1>4, AttemptMoves, ConstantFacts
    <3>3. put'[p].try_cnt + Cardinality(put'[p].list) <= 2 * REPLICA_N /\ put'[p].success_cnt <= put'[p].try_cnt
      BY <1>4, AttemptMoves
    <3>4. QED  BY <1>0, <3>1, <3>2, <3>3
  <2>3. QED  BY <2>1, <2>2
<1>5. ASSUME NEW p \in Put, PutReturn(p)
      PROVE  \A q \in Put : Fine(put'[q])
  <2>1. /\ put'[p].phase = "done" /\ put[p].version = put'[p].version /\ put[p].phase = "loop"
        /\ put'[p].ret = "OK" => put'[p].success_cnt >= W_COUNT
        /\ put'[p].list = {} /\ put'[p].try_cnt = 0
        /\ \A q \in Put \ {p} : put'[q] = put[q]
    BY <1>5, ReturnMoves
  <2>2. Cardinality(put'[p].list) = 0 /\ 2 * REPLICA_N \in Nat
    BY <2>1, FS_EmptySet, ConstantFacts
  <2>3. Fine(put'[p])
    BY <1>0, <2>1, <2>2
  <2>4. QED  BY <1>0, <2>1, <2>3
<1>6. ASSUME NEW p \in Put, NEW n \in Server, NEW v \in ReadVersions, ClientPut(p, n, v)
      PROVE  \A q \in Put : Fine(put'[q])
  <2>1. \A q \in Put \ {p} : Fine(put'[q])
    BY <1>0, <1>6, BeginMoves
  <2>2. Fine(put'[p])
    <3>1. /\ put'[p].phase = "loop" /\ put'[p].version # NoVersion /\ put'[p].try_cnt = 0 /\ put'[p].ret = "none"
          /\ put'[p].success_cnt = 0
          /\ Cardinality(put'[p].list) <= 2 * REPLICA_N
      BY <1>6, BeginMoves
    <3>2. Cardinality(put'[p].list) \in Nat
      <4>1. IsFiniteSet(put'[p].list)
        <5>1. ring[n] \in SUBSET Server /\ 2 * REPLICA_N \in Nat
          BY ConstantFacts DEF TypeOK
        <5>2. QED  BY <1>6, <5>1, BeginMoves, ListIsShort
      <4>2. QED  BY <4>1, FS_CardinalityType
    <3>3. QED  BY <3>1, <3>2, ConstantFacts
  <2>3. QED  BY <2>1, <2>2
<1>7. QED  BY <1>3, <1>4, <1>5, <1>6, StepKinds

\* A put that has started keeps its version.
LEMMA PutsRemember ==
  ASSUME TypeOK, PutProgress, [Next]_vars
  PROVE  /\ \A p \in Started : p \in Started' /\ put'[p].version = put[p].version
         /\ \A r : Written(r) => Written(r)'
<1>1. ASSUME NEW p \in Started
      PROVE  p \in Started' /\ put'[p].version = put[p].version
  <2>1. p \in Put /\ put[p].phase # "idle"
    BY DEF Started
  <2>2. put'[p].phase # "idle" /\ put'[p].version = put[p].version
    <3>1. CASE Admin \/ UNCHANGED vars
      BY <2>1, <3>1, AdminKeepsPuts
    <3>2. ASSUME NEW q \in Put, NEW m \in Server, Visits(q, m)
          PROVE  put'[p].phase # "idle" /\ put'[p].version = put[p].version
      BY <2>1, <3>2, AttemptMoves
    <3>3. ASSUME NEW q \in Put, PutReturn(q)
          PROVE  put'[p].phase # "idle" /\ put'[p].version = put[p].version
      BY <2>1, <3>3, ReturnMoves
    <3>4. ASSUME NEW q \in Put, NEW n \in Server, NEW v \in ReadVersions, ClientPut(q, n, v)
          PROVE  put'[p].phase # "idle" /\ put'[p].version = put[p].version
      BY <2>1, <3>4, BeginMoves
    <3>5. QED  BY <3>1, <3>2, <3>3, <3>4, StepKinds
  <2>3. QED  BY <2>1, <2>2 DEF Started
<1>2. QED  BY <1>1 DEF Written, RecordOf

LEMMA RecordsStep ==
  ASSUME TypeOK, PutProgress, RecordsAreWritten, CommandsAreOrderly, [Next]_vars
  PROVE  RecordsAreWritten'
<1>0. StoreType /\ Written(Absent)
  BY TypeParts DEF Written
<1>1. SUFFICES Written(move'.data) /\ \A n \in Server : Written(store'[n])
  BY PutsRemember DEF RecordsAreWritten
<1>2. Written(move.data) /\ \A n \in Server : Written(store[n])
  BY DEF RecordsAreWritten
<1>3. \A p \in Put : Running(p) => Written(RecordOf(p))
  BY DEF Running, Written, Started
<1>4. Written(NoMove.data)
  BY <1>0 DEF NoMove
<1>5. CASE UNCHANGED vars
  BY <1>2, <1>5 DEF vars
<1>6. CASE Admin
  <2>1. CASE \E n \in Server : AdminJoin(n) \/ AdminLeave(n)
    BY <1>2, <2>1 DEF AdminJoin, AdminLeave
  <2>2. CASE Return
    BY <1>2, <2>2 DEF Return
  <2>3. CASE \E n \in Server : JoinNetwork(n) \/ LeaveNetwork(n)
    <3>1. store' = store /\ move'.data = NoMove.data
      BY <2>3 DEF JoinNetwork, LeaveNetwork, NoMove
    <3>2. QED  BY <1>2, <1>4, <3>1
  <2>4. CASE TransferRead
    <3>1. Giver \in Server
      BY <2>4, TransferIsBetween DEF TransferRead
    <3>2. store' = store /\ move'.data \in {store[Giver], NoMove.data}
      BY <2>4, TypeParts DEF TransferRead, Leaves, MoveType
    <3>3. QED  BY <1>2, <1>4, <3>1, <3>2
  <2>5. CASE TransferPut \/ TransferBreaks
    <3>1. move'.data = move.data
      BY <2>5, TypeParts DEF TransferPut, TransferBreaks, MoveType
    <3>2. \A n \in Server : store'[n] \in {store[n], move.data}
      BY <1>0, <2>5 DEF TransferPut, TransferBreaks, StoreType
    <3>3. QED  BY <1>2, <3>1, <3>2
  <2>6. CASE TransferRemove
    <3>1. move'.data = NoMove.data
      BY <2>6 DEF TransferRemove, Leaves
    <3>2. \A n \in Server : store'[n] \in {store[n], Absent}
      BY <1>0, <2>6 DEF TransferRemove, StoreType
    <3>3. QED  BY <1>0, <1>2, <1>4, <3>1, <3>2
  <2>7. CASE TransferRefused
    <3>1. Giver \in Server
      BY <2>7, TransferIsBetween DEF TransferRefused
    <3>2. store' = store /\ move'.data \in {store[Giver], NoMove.data}
      BY <2>7, TypeParts DEF TransferRefused, Leaves, MoveType
    <3>3. QED  BY <1>2, <1>4, <3>1, <3>2
  <2>8. QED  BY <1>6, <2>1, <2>2, <2>3, <2>4, <2>5, <2>6, <2>7 DEF Admin
<1>7. ASSUME NEW p \in Put, NEW m \in Server, Visits(p, m)
      PROVE  Written(move'.data) /\ \A n \in Server : Written(store'[n])
  <2>1. move' = move /\ Running(p)
    BY <1>7 DEF Visits, PutAt, PutBreaks, PutSkips, AtPeer
  <2>2. \A n \in Server : store'[n] \in {store[n], RecordOf(p)}
    BY <1>0, <1>7 DEF Visits, PutAt, PutBreaks, PutSkips, StoreType
  <2>3. QED  BY <1>2, <1>3, <2>1, <2>2
<1>8. ASSUME NEW p \in Put, PutReturn(p)
      PROVE  Written(move'.data) /\ \A n \in Server : Written(store'[n])
  BY <1>2, <1>8 DEF PutReturn
<1>9. ASSUME NEW p \in Put, NEW n \in Server, NEW v \in ReadVersions, ClientPut(p, n, v)
      PROVE  Written(move'.data) /\ \A m \in Server : Written(store'[m])
  BY <1>2, <1>9 DEF ClientPut
<1>10. QED  BY <1>5, <1>6, <1>7, <1>8, <1>9, StepKinds

-----------------------------------------------------------------------------
(* Commands                                                                  *)

\* The steps of puts leave the network alone.
LEMMA PutsKeepNetwork ==
  ASSUME \/ \E p \in Put, m \in Server : Visits(p, m)
         \/ \E p \in Put : PutReturn(p)
         \/ \E p \in Put, n \in Server, v \in ReadVersions : ClientPut(p, n, v)
         \/ UNCHANGED vars
  PROVE  UNCHANGED <<ring, stubs, members, cmd, move, hurt, short, stale>>
BY DEF Visits, PutAt, PutBreaks, PutSkips, PutReturn, ClientPut, vars, history

\* The steps of a transfer change what is stored, and tick off the peer.
LEMMA TransfersKeepNetwork ==
  ASSUME TypeOK, CommandsAreOrderly,
         TransferRead \/ TransferPut \/ TransferBreaks \/ TransferRemove \/ TransferRefused
  PROVE  /\ UNCHANGED <<ring, stubs, members, put, overlap, short, stale>>
         /\ move.stage # "none"
         /\ \/ /\ cmd' = cmd /\ move'.peer = move.peer /\ move'.stage # "none"
               /\ move.stage = "told" => Moves
            \/ Leaves(move.peer)
<1>1. move \in [stage : {"none", "told", "sent", "accepted", "refused"},
               peer : Server \union {NoServer}, data : Record, tries : 0 .. Tries]
  BY DEF TypeOK
<1>2. /\ UNCHANGED <<ring, stubs, members, put, overlap, short, stale>>
      /\ move.stage # "none"
  BY DEF TransferRead, TransferPut, TransferBreaks, TransferRemove, TransferRefused, history
<1>3. \/ /\ cmd' = cmd /\ move'.peer = move.peer /\ move'.stage # "none"
         /\ move.stage = "told" => Moves
      \/ Leaves(move.peer)
  <2>1. CASE TransferRead
    BY <1>1, <2>1 DEF TransferRead
  <2>2. CASE TransferPut \/ TransferBreaks
    BY <1>1, <2>2 DEF TransferPut, TransferBreaks
  <2>3. CASE TransferRemove
    BY <2>3 DEF TransferRemove
  <2>4. CASE TransferRefused
    BY <1>1, <2>4 DEF TransferRefused
  <2>5. QED  BY <2>1, <2>2, <2>3, <2>4
<1>4. QED  BY <1>2, <1>3

\* Whether a key goes from the giver to the taker is seen from their rings.
LEMMA SameKeys ==
  ASSUME ring' = ring, cmd' = cmd, move'.peer = move.peer
  PROVE  KeyMoves' = KeyMoves
BY DEF KeyMoves, getJoinTransferKey, getLeaveTransferKey, checkDataBelonging

LEMMA OrderlyStep ==
  ASSUME TypeOK, CommandsAreOrderly, [Next]_vars
  PROVE  CommandsAreOrderly'
<1>0. NodesType /\ CommandType /\ NoServer \notin Server
  BY TypeParts, ConstantFacts
<1>1. CASE \/ UNCHANGED vars
           \/ \E p \in Put, m \in Server : Visits(p, m)
           \/ \E p \in Put : PutReturn(p)
           \/ \E p \in Put, n \in Server, v \in ReadVersions : ClientPut(p, n, v)
  <2>1. UNCHANGED <<ring, stubs, members, cmd, move>>
    BY <1>1, PutsKeepNetwork
  <2>2. QED  BY <2>1, SameKeys DEF CommandsAreOrderly
<1>2. ASSUME NEW n \in Server, AdminJoin(n)
      PROVE  CommandsAreOrderly'
  <2>1. /\ n \notin members /\ move = NoMove
        /\ cmd' = [name |-> "JoinNetwork", addr |-> n, todo |-> members, old |-> ring[n]]
        /\ UNCHANGED <<members, move>>
    BY <1>2 DEF AdminJoin, Begins, CommandsAreOrderly
  <2>2. \A m \in Server : m \notin stubs'[m]
    BY <1>0, <1>2, <2>1 DEF AdminJoin, NodesType, CommandsAreOrderly
  <2>3. QED  BY <2>1, <2>2 DEF CommandsAreOrderly, NoCmd, NoMove
<1>3. ASSUME NEW n \in Server, AdminLeave(n)
      PROVE  CommandsAreOrderly'
  <2>1. /\ n \in members /\ move = NoMove /\ n \notin stubs[n]
        /\ cmd' = [name |-> "LeaveNetwork", addr |-> n, todo |-> stubs[n], old |-> ring[n]]
        /\ UNCHANGED <<stubs, members, move>>
    BY <1>3 DEF AdminLeave, Begins, CommandsAreOrderly
  <2>2. QED  BY <2>1 DEF CommandsAreOrderly, NoCmd, NoMove
<1>4. ASSUME NEW n \in Server, JoinNetwork(n) \/ LeaveNetwork(n)
      PROVE  CommandsAreOrderly'
  <2>1. /\ n \in cmd.todo /\ n # cmd.addr /\ cmd # NoCmd
        /\ UNCHANGED <<members, cmd>>
        /\ move'.stage = "told" /\ move'.peer = n
    <3>1. /\ n \in cmd.todo /\ UNCHANGED <<members, cmd>>
          /\ cmd.name \in {"JoinNetwork", "LeaveNetwork"}
          /\ move' = [NoMove EXCEPT !.stage = "told", !.peer = n]
      BY <1>4 DEF JoinNetwork, LeaveNetwork, Called
    <3>2. move'.stage = "told" /\ move'.peer = n
      BY <3>1 DEF NoMove
    <3>3. n # cmd.addr
      BY <3>1 DEF CommandsAreOrderly
    <3>4. cmd # NoCmd
      BY <3>1 DEF NoCmd
    <3>5. QED  BY <3>1, <3>2, <3>3, <3>4
  <2>2. \A m \in Server : m \notin stubs'[m]
    BY <1>0, <1>4, <2>1 DEF JoinNetwork, LeaveNetwork, NodesType, CommandsAreOrderly
  <2>3. QED  BY <2>1, <2>2 DEF CommandsAreOrderly
<1>5. CASE TransferRead \/ TransferPut \/ TransferBreaks \/ TransferRemove \/ TransferRefused
  <2>1. /\ UNCHANGED <<ring, stubs, members>> /\ move.stage # "none"
        /\ \/ /\ cmd' = cmd /\ move'.peer = move.peer /\ move'.stage # "none"
              /\ move.stage = "told" => Moves
           \/ Leaves(move.peer)
    BY <1>5, TransfersKeepNetwork
  <2>2. cmd.name \in {"JoinNetwork", "LeaveNetwork"} /\ move # NoMove
    BY <2>1, TransferIsBetween DEF NoMove
  <2>3. CASE /\ cmd' = cmd /\ move'.peer = move.peer /\ move'.stage # "none"
             /\ move.stage = "told" => Moves
    <3>1. KeyMoves
      BY <2>1, <2>3, TypeParts DEF Moves, MoveType, CommandsAreOrderly
    <3>2. KeyMoves'
      BY <2>1, <2>3, <3>1, SameKeys
    <3>3. QED  BY <2>1, <2>2, <2>3, <3>2 DEF CommandsAreOrderly
  <2>4. CASE Leaves(move.peer)
    <3>1. /\ cmd'.name = cmd.name /\ cmd'.addr = cmd.addr /\ cmd'.todo = cmd.todo \ {move.peer}
          /\ move' = NoMove /\ cmd'.name # NoCmd.name
      BY <1>0, <2>2, <2>4 DEF Leaves, CommandType, NoCmd
    <3>2. QED  BY <2>1, <2>2, <3>1 DEF CommandsAreOrderly, NoMove, NoCmd
  <2>5. QED  BY <2>1, <2>3, <2>4
<1>6. CASE Return
  <2>1. cmd' = NoCmd /\ move' = NoMove /\ stubs' = stubs
    BY <1>6 DEF Return
  <2>2. QED  BY <2>1, <1>0 DEF CommandsAreOrderly, NoCmd, NoMove
<1>7. QED  BY <1>1, <1>2, <1>3, <1>4, <1>5, <1>6, StepKinds DEF Admin

\* Between two commands all rings and stubs name the members.
LEMMA RingsAtRest ==
  ASSUME TypeOK, RingsAgree, cmd = NoCmd
  PROVE  /\ After = members
         /\ \A m \in members : ring[m] = members /\ stubs[m] = members \ {m}
         /\ \A m \in Server \ members : m \notin ring[m]
<1>1. cmd.addr = NoServer /\ cmd.todo = {} /\ cmd.name = "none" /\ NoServer \notin members
  BY ConstantFacts DEF NoCmd, TypeOK
<1>2. After = members
  BY <1>1 DEF After
<1>3. \A m \in members : Told(m) /\ m # cmd.addr
  BY <1>1 DEF Told
<1>4. \A m \in members : ring[m] = members /\ stubs[m] = members \ {m}
  BY <1>2, <1>3 DEF RingsAgree
<1>5. \A m \in Server \ members : m \notin ring[m]
  BY <1>1, ConstantFacts DEF RingsAgree
<1>6. QED  BY <1>2, <1>4, <1>5

LEMMA RingsAtBegin ==
  ASSUME TypeOK, CommandsAreOrderly, RingsAgree, NEW n \in Server, AdminJoin(n) \/ AdminLeave(n), ~stale'
  PROVE  RingsAgree'
<1>0. ring \in [Server -> SUBSET Server] /\ stubs \in [Server -> SUBSET Server] /\ NoServer \notin Server
  BY ConstantFacts DEF TypeOK
<1>1. cmd = NoCmd /\ move = NoMove /\ move' = move /\ members' = members /\ members \subseteq Server
  BY DEF AdminJoin, AdminLeave, Begins, CommandsAreOrderly, TypeOK
<1>2. /\ \A m \in members : ring[m] = members /\ stubs[m] = members \ {m}
      /\ \A m \in Server \ members : m \notin ring[m]
  BY <1>1, RingsAtRest
<1>3. CASE AdminJoin(n)
  <2>1. /\ n \notin members /\ ring[n] \subseteq members
        /\ cmd' = [name |-> "JoinNetwork", addr |-> n, todo |-> members, old |-> ring[n]]
        /\ ring' = [ring EXCEPT ![n] = @ \union members \union {n}]
        /\ stubs' = [stubs EXCEPT ![n] = members]
    BY <1>3 DEF AdminJoin, Begins, TypeOK
  <2>2. ring'[n] = members \union {n} /\ stubs'[n] = members
    BY <1>0, <2>1
  <2>3. \A m \in Server \ {n} : ring'[m] = ring[m] /\ stubs'[m] = stubs[m]
    BY <1>0, <2>1
  <2>4. After' = members \union {n}
    BY <1>1, <2>1 DEF After
  <2>5. \A m \in members : ~Told(m)'
    BY <1>0, <1>1, <2>1 DEF Told, NoMove
  <2>6. QED  BY <1>1, <1>2, <2>1, <2>2, <2>3, <2>4, <2>5 DEF RingsAgree
<1>4. CASE AdminLeave(n)
  <2>1. /\ n \in members
        /\ cmd' = [name |-> "LeaveNetwork", addr |-> n, todo |-> members \ {n}, old |-> members]
        /\ ring' = [ring EXCEPT ![n] = @ \ {n}]
        /\ stubs' = stubs
    BY <1>2, <1>4 DEF AdminLeave, Begins
  <2>2. ring'[n] = members \ {n} /\ stubs'[n] = members \ {n}
    BY <1>0, <1>2, <2>1
  <2>3. \A m \in Server \ {n} : ring'[m] = ring[m] /\ stubs'[m] = stubs[m]
    BY <1>0, <2>1
  <2>4. After' = members \ {n}
    BY <1>1, <2>1 DEF After
  <2>5. \A m \in members \ {n} : ~Told(m)'
    BY <1>0, <1>1, <2>1 DEF Told, NoMove
  <2>6. QED  BY <1>1, <1>2, <2>1, <2>2, <2>3, <2>4, <2>5 DEF RingsAgree
<1>5. QED  BY <1>3, <1>4

LEMMA RingsAtCall ==
  ASSUME TypeOK, CommandsAreOrderly, RingsAgree, NEW m \in Server, JoinNetwork(m) \/ LeaveNetwork(m)
  PROVE  RingsAgree'
<1>0. ring \in [Server -> SUBSET Server] /\ stubs \in [Server -> SUBSET Server] /\ NoServer \notin Server
  BY ConstantFacts DEF TypeOK
<1>1. /\ m \in cmd.todo /\ m # cmd.addr /\ move = NoMove /\ UNCHANGED <<members, cmd>>
      /\ cmd.name \in {"JoinNetwork", "LeaveNetwork"}
      /\ move'.peer = m /\ m \in members /\ After' = After
  <2>1. /\ m \in cmd.todo /\ m # cmd.addr /\ move = NoMove /\ UNCHANGED <<members, cmd>>
        /\ cmd.name \in {"JoinNetwork", "LeaveNetwork"} /\ move'.peer = m
    BY DEF JoinNetwork, LeaveNetwork, Called, NoMove, CommandsAreOrderly
  <2>2. m \in members
    BY <2>1 DEF CommandsAreOrderly, RingsAgree, After
  <2>3. QED  BY <2>1, <2>2 DEF After
<1>2. ~Told(m) /\ Told(m)' /\ \A n \in Server \ {m} : Told(n)' = Told(n)
  BY <1>0, <1>1 DEF Told, NoMove
<1>3. ring[m] = members /\ stubs[m] = members \ {m}
  BY <1>1, <1>2 DEF RingsAgree
<1>4. ring'[m] = After /\ stubs'[m] = After \ {m}
  <2>1. CASE JoinNetwork(m)
    BY <1>0, <1>1, <1>3, <2>1 DEF JoinNetwork, Called, After
  <2>2. CASE LeaveNetwork(m)
    BY <1>0, <1>1, <1>3, <2>2 DEF LeaveNetwork, Called, After
  <2>3. QED  BY <2>1, <2>2
<1>5. \A n \in Server \ {m} : ring'[n] = ring[n] /\ stubs'[n] = stubs[n]
  BY <1>0 DEF JoinNetwork, LeaveNetwork
<1>6. cmd.addr \in Server
  BY <1>1 DEF CommandsAreOrderly, TypeOK
<1>7. members \subseteq Server
  BY DEF TypeOK
<1>8. QED  BY <1>1, <1>2, <1>4, <1>5, <1>6, <1>7 DEF RingsAgree

LEMMA RingsAtTransfer ==
  ASSUME TypeOK, CommandsAreOrderly, RingsAgree,
         TransferRead \/ TransferPut \/ TransferBreaks \/ TransferRemove \/ TransferRefused
  PROVE  RingsAgree'
<1>1. /\ UNCHANGED <<ring, stubs, members>> /\ move.stage # "none"
      /\ \/ cmd' = cmd /\ move'.peer = move.peer
         \/ Leaves(move.peer)
  BY TransfersKeepNetwork
<1>2. cmd.name \in {"JoinNetwork", "LeaveNetwork"} /\ move.peer \in cmd.todo
  BY <1>1, TransferIsBetween
<1>3. CASE cmd' = cmd /\ move'.peer = move.peer
  BY <1>1, <1>3 DEF RingsAgree, After, Told
<1>4. CASE Leaves(move.peer)
  <2>1. /\ cmd'.name = cmd.name /\ cmd'.addr = cmd.addr /\ cmd'.old = cmd.old
        /\ cmd'.todo = cmd.todo \ {move.peer} /\ move'.peer = NoServer
    BY <1>4, TypeParts DEF Leaves, CommandType, NoMove
  <2>2. \A m \in Server : Told(m)' = Told(m)
    BY <2>1, ConstantFacts DEF Told
  <2>3. After' = After /\ cmd # NoCmd /\ members \subseteq Server
    BY <1>1, <1>2, <2>1 DEF After, NoCmd, TypeOK
  <2>4. QED  BY <1>1, <2>1, <2>2, <2>3 DEF RingsAgree
<1>5. QED  BY <1>1, <1>3, <1>4

LEMMA RingsAtReturn ==
  ASSUME TypeOK, CommandsAreOrderly, RingsAgree, Return
  PROVE  RingsAgree'
<1>1. /\ cmd # NoCmd /\ cmd.todo = {} /\ members' = After /\ cmd' = NoCmd
      /\ UNCHANGED <<ring, stubs>>
  BY DEF Return
<1>2. cmd.name \in {"JoinNetwork", "LeaveNetwork"} /\ cmd.addr \in Server /\ members \subseteq Server
  BY <1>1 DEF CommandsAreOrderly, TypeOK
<1>3. After \subseteq Server /\ NoServer \notin After
  BY <1>2, ConstantFacts DEF After
<1>4. After' = After
  BY <1>1, <1>3 DEF After, NoCmd
<1>5. \A m \in members \ {cmd.addr} : ring[m] = After /\ stubs[m] = ring[m] \ {m}
  BY <1>1 DEF RingsAgree, Told
<1>6. ring[cmd.addr] = After /\ stubs[cmd.addr] = After \ {cmd.addr}
  BY <1>1 DEF RingsAgree
<1>7. \A m \in After : ring[m] = After /\ stubs[m] = After \ {m}
  BY <1>5, <1>6 DEF After
<1>8. \A m \in Server \ After : m \notin ring[m]
  BY <1>6 DEF After, RingsAgree
<1>9. QED  BY <1>1, <1>4, <1>7, <1>8, ConstantFacts DEF RingsAgree, NoCmd

LEMMA EnoughStep ==
  ASSUME TypeOK, CommandsAreOrderly, EnoughServers, [Next]_vars, ~short'
  PROVE  EnoughServers'
<1>0. /\ IsFiniteSet(members) /\ Cardinality(members) \in Nat /\ REPLICA_N \in Nat
      /\ NoServer \notin members
  BY RankFacts, FS_Subset, FS_CardinalityType, ConstantFacts DEF TypeOK
<1>1. CASE UNCHANGED <<members, cmd>>
  BY <1>1 DEF EnoughServers, After
<1>2. ASSUME NEW n \in Server, AdminJoin(n)
      PROVE  EnoughServers'
  <2>1. After = members /\ After' = members \union {n}
    <3>1. cmd = NoCmd /\ cmd'.name = "JoinNetwork" /\ cmd'.addr = n /\ members' = members
      BY <1>2 DEF AdminJoin, Begins
    <3>2. cmd.name = "none" /\ cmd.addr = NoServer
      BY <3>1 DEF NoCmd
    <3>3. QED  BY <1>0, <3>1, <3>2 DEF After
  <2>2. Cardinality(members \union {n}) \in {Cardinality(members), Cardinality(members) + 1}
    BY <1>0, FS_AddElement
  <2>3. Cardinality(members) >= REPLICA_N
    BY <2>1 DEF EnoughServers
  <2>4. Cardinality(members \union {n}) >= REPLICA_N
    BY <1>0, <2>2, <2>3
  <2>5. QED  BY <2>1, <2>4 DEF EnoughServers
<1>3. ASSUME NEW n \in Server, AdminLeave(n)
      PROVE  EnoughServers'
  <2>1. After' = members \ {n} /\ n \in members /\ ~(Cardinality(members) <= REPLICA_N)
    BY <1>3 DEF AdminLeave, Begins, After
  <2>2. Cardinality(members \ {n}) = Cardinality(members) - 1
    BY <1>0, <2>1, FS_RemoveElement
  <2>3. Cardinality(members \ {n}) >= REPLICA_N
    BY <1>0, <2>1, <2>2
  <2>4. QED  BY <2>1, <2>3 DEF EnoughServers
<1>4. ASSUME NEW n \in Server, JoinNetwork(n) \/ LeaveNetwork(n)
      PROVE  EnoughServers'
  BY <1>1, <1>4 DEF JoinNetwork, LeaveNetwork
<1>5. CASE TransferRead \/ TransferPut \/ TransferBreaks \/ TransferRemove \/ TransferRefused
  <2>1. UNCHANGED members /\ (cmd' = cmd \/ Leaves(move.peer))
    BY <1>5, TransfersKeepNetwork
  <2>2. cmd'.name = cmd.name /\ cmd'.addr = cmd.addr
    BY <2>1, TypeParts DEF Leaves, CommandType
  <2>3. QED  BY <2>1, <2>2 DEF EnoughServers, After
<1>6. CASE Return
  <2>1. After' = After \ {NoServer}
    BY <1>6 DEF Return, After, NoCmd
  <2>2. NoServer \notin After
    <3>1. cmd.name \in {"JoinNetwork", "LeaveNetwork"}
      BY <1>6, TypeParts DEF CommandType, CommandsAreOrderly, Return
    <3>2. QED  BY <1>0, <3>1, ConstantFacts DEF After, CommandsAreOrderly
  <2>3. QED  BY <2>1, <2>2 DEF EnoughServers
<1>7. QED  BY <1>1, <1>2, <1>3, <1>4, <1>5, <1>6, StepKinds, PutsKeepNetwork DEF Admin

-----------------------------------------------------------------------------
LEMMA ShapeInit == Init => ShapeInv
<1>1. SUFFICES ASSUME Init PROVE ShapeInv
  OBVIOUS
<1>2. TypeOK
  BY <1>1, TypeInit
<1>3. /\ cmd = NoCmd /\ move = NoMove /\ members \subseteq Server /\ Cardinality(members) >= REPLICA_N
      /\ \A p \in Put : put[p] = Idle
      /\ \A n \in Server : /\ store[n] = Absent
                           /\ ring[n] = IF n \in members THEN members ELSE {}
                           /\ stubs[n] = ring[n] \ {n}
  BY <1>1 DEF Init
<1>4. PutProgress
  <2>1. /\ Idle.phase = "idle" /\ Idle.ret = "none" /\ Idle.try_cnt = 0 /\ Idle.list = {}
    BY DEF Idle
  <2>2. Idle.try_cnt + Cardinality(Idle.list) <= 2 * REPLICA_N
    BY <2>1, ConstantFacts, FS_EmptySet
  <2>3. QED  BY <1>3, <2>1, <2>2 DEF PutProgress, Running
<1>5. RecordsAreWritten
  BY <1>3 DEF RecordsAreWritten, Written, NoMove
<1>6. CommandsAreOrderly
  BY <1>3, ConstantFacts DEF CommandsAreOrderly, NoCmd, NoMove
<1>7. After = members
  BY <1>3, ConstantFacts DEF After, NoCmd
<1>8. RingsAgree
  <2>1. NoServer \notin members /\ cmd.addr = NoServer /\ cmd.name = "none"
    BY <1>3, ConstantFacts DEF NoCmd
  <2>2. \A m \in members : ring[m] = members /\ stubs[m] = ring[m] \ {m}
    BY <1>3
  <2>3. \A m \in Server \ members : m \notin ring[m]
    BY <1>3
  <2>4. QED  BY <1>3, <1>7, <2>1, <2>2, <2>3 DEF RingsAgree
<1>9. EnoughServers
  BY <1>3, <1>7 DEF EnoughServers
<1>10. QED  BY <1>2, <1>4, <1>5, <1>6, <1>8, <1>9 DEF ShapeInv

LEMMA ShapeStep == ShapeInv /\ [Next]_vars => ShapeInv'
<1>1. SUFFICES ASSUME ShapeInv, [Next]_vars PROVE ShapeInv'
  OBVIOUS
<1>2. TypeOK /\ PutProgress /\ RecordsAreWritten /\ CommandsAreOrderly
  BY <1>1 DEF ShapeInv
<1>3. TypeOK' /\ PutProgress' /\ RecordsAreWritten' /\ CommandsAreOrderly'
  BY <1>1, <1>2, TypeStep, ProgressStep, RecordsStep, OrderlyStep
<1>4. (stale => stale') /\ (short => short')
  <2>1. CASE Admin
    <3>1. ASSUME NEW n \in Server, AdminJoin(n) \/ AdminLeave(n) \/ JoinNetwork(n) \/ LeaveNetwork(n)
          PROVE  (stale => stale') /\ (short => short')
      <4>1. CASE AdminJoin(n)
        BY <4>1 DEF AdminJoin
      <4>2. CASE AdminLeave(n)
        BY <4>2 DEF AdminLeave
      <4>3. CASE JoinNetwork(n) \/ LeaveNetwork(n)
        BY <4>3 DEF JoinNetwork, LeaveNetwork, history
      <4>4. QED  BY <3>1, <4>1, <4>2, <4>3
    <3>2. CASE TransferRead \/ TransferPut \/ TransferBreaks \/ TransferRemove \/ TransferRefused
      BY <1>2, <3>2, TransfersKeepNetwork
    <3>3. CASE Return
      BY <3>3 DEF Return, history
    <3>4. QED  BY <2>1, <3>1, <3>2, <3>3 DEF Admin
  <2>2. CASE ~Admin
    BY <1>1, <2>2, StepKinds, PutsKeepNetwork
  <2>3. QED  BY <2>1, <2>2
<1>5. ~stale' => RingsAgree'
  <2>1. SUFFICES ASSUME ~stale' PROVE RingsAgree'
    OBVIOUS
  <2>2. RingsAgree
    BY <1>1, <1>4, <2>1 DEF ShapeInv
  <2>3. CASE Admin
    <3>1. ASSUME NEW n \in Server, AdminJoin(n) \/ AdminLeave(n) PROVE RingsAgree'
      BY <1>2, <2>1, <2>2, <3>1, RingsAtBegin
    <3>2. ASSUME NEW n \in Server, JoinNetwork(n) \/ LeaveNetwork(n) PROVE RingsAgree'
      BY <1>2, <2>2, <3>2, RingsAtCall
    <3>3. CASE TransferRead \/ TransferPut \/ TransferBreaks \/ TransferRemove \/ TransferRefused
      BY <1>2, <2>2, <3>3, RingsAtTransfer
    <3>4. CASE Return
      BY <1>2, <2>2, <3>4, RingsAtReturn
    <3>5. QED  BY <2>3, <3>1, <3>2, <3>3, <3>4 DEF Admin
  <2>4. CASE ~Admin
    <3>1. UNCHANGED <<ring, stubs, members, cmd, move>>
      BY <1>1, <2>4, StepKinds, PutsKeepNetwork
    <3>2. QED  BY <2>2, <3>1 DEF RingsAgree, After, Told
  <2>5. QED  BY <2>3, <2>4
<1>6. ~short' => EnoughServers'
  BY <1>1, <1>2, <1>4, EnoughStep DEF ShapeInv
<1>7. QED  BY <1>3, <1>5, <1>6 DEF ShapeInv

(* Servers hold what puts have written, commands concern one joiner or       *)
(* leaver and its peers, and as long as no stale ring has been brought back  *)
(* all servers agree on the ring but for the command under way.              *)
THEOREM Shape == Spec => []ShapeInv
<1>1. QED  BY ShapeInit, ShapeStep, PTL DEF Spec

\* Joins, leaves, transfers and puts keep every variable in its type.
THEOREM TypeCorrect == Spec => []TypeOK
<1>1. ShapeInv => TypeOK
  BY DEF ShapeInv
<1>2. QED  BY <1>1, Shape, PTL

-----------------------------------------------------------------------------
(* The order of the writes                                                   *)

\* When each write knows the one before, so do the versions on the servers.
LEMMA KnownVersions ==
  ASSUME TypeOK, PutProgress
  PROVE  /\ \A p \in Put : put[p].version \in Version
         /\ \A p \in Started : p \in Put /\ put[p].version # NoVersion
         /\ Known \in SUBSET Version /\ NoVersion \in Known
         /\ \A r : Written(r) => r.version \in Known
         /\ Ordered => \A v, w \in Known : NotAbove(v, w) \/ NotAbove(w, v)
<1>1. \A p \in Put : put[p].version \in Version
  BY TypeParts DEF PutsType, PutSet
<1>2. \A p \in Started : p \in Put /\ put[p].version # NoVersion
  BY DEF Started, PutProgress
<1>3. Known \in SUBSET Version /\ NoVersion \in Known
  BY <1>1, <1>2, OrderOfVersions DEF Known
<1>4. \A r : Written(r) => r.version \in Known
  BY DEF Written, Known, Absent, RecordOf
<1>5. ASSUME Ordered, NEW v \in Known, NEW w \in Known
      PROVE  NotAbove(v, w) \/ NotAbove(w, v)
  BY <1>3, <1>5, OrderOfVersions DEF Known, Ordered, Precedes
<1>6. QED  BY <1>1, <1>2, <1>3, <1>4, <1>5

\* A read then returns the version of a write, or none.
LEMMA ReadsAreKnown ==
  ASSUME TypeOK, PutProgress, RecordsAreWritten, Ordered
  PROVE  ReadVersions \subseteq Known
<1>0. SUFFICES ASSUME NEW data \in Reads
               PROVE  reconcile_version({r.version : r \in get_latest_data(data)}) \in Known
  BY DEF ReadVersions
<1>1. PICK a \in SUBSET Server : data = {store[m] : m \in a}
  BY ReadsAreOfServers
<1> DEFINE V == {r.version : r \in get_latest_data({store[m] : m \in a})}
           W == {store[m].version : m \in a}
<1>2. a \in SUBSET Server /\ IsFiniteSet(a)
  BY RankFacts, FS_Subset
<1>3. V \in SUBSET W
  BY DEF get_latest_data, remove_unconflict_data
<1>4. W \subseteq Known
  BY <1>2, KnownVersions DEF RecordsAreWritten
<1>5. IsFiniteSet(W)
  <2> DEFINE f == [m \in a |-> store[m].version]
  <2>1. f \in Surjection(a, W)
    BY DEF Surjection
  <2> HIDE DEF f, W
  <2>2. QED  BY <1>2, <2>1, FS_Surjection
<1> HIDE DEF V, W
<1>6. V \in SUBSET Version /\ IsFiniteSet(V) /\ V \subseteq Known
  BY <1>3, <1>4, <1>5, KnownVersions, FS_Subset
<1>7. CASE V = {}
  <2>1. \A s \in Server : Largest({v[s] : v \in V} \union {0}) = 0
    <3>1. {0} \in SUBSET (0 .. MaxVersion)
      BY MaxVersionIsNat
    <3>2. Largest({0}) = 0
      BY <3>1, LargestExists
    <3>3. \A s \in Server : {v[s] : v \in V} \union {0} = {0}
      BY <1>7
    <3>4. QED  BY <3>2, <3>3
  <2>2. reconcile_version(V) = NoVersion
    BY <2>1 DEF reconcile_version, NoVersion
  <2>3. QED  BY <1>1, <2>2, KnownVersions DEF V
<1>8. CASE V # {}
  <2>1. \A v, w \in V : NotAbove(v, w) \/ NotAbove(w, v)
    BY <1>6, KnownVersions
  <2>2. reconcile_version(V) \in V
    BY <1>6, <1>8, <2>1, ReconcileOfChain
  <2>3. QED  BY <1>1, <1>6, <2>2 DEF V
<1>9. QED  BY <1>1, <1>7, <1>8 DEF V

\* A step that begins no put leaves what has been written as it is.
LEMMA SameWrites ==
  ASSUME TypeOK, PutProgress,
         \/ Admin \/ UNCHANGED vars
         \/ \E p \in Put, m \in Server : Visits(p, m)
         \/ \E p \in Put : PutReturn(p)
  PROVE  /\ Started' = Started /\ \A p \in Put : put'[p].version = put[p].version
         /\ Known' = Known /\ Ordered' = Ordered
         /\ VersionsAreConsecutive' = VersionsAreConsecutive
         /\ \A p \in Put : Newest(p)' = Newest(p)
<1>1. /\ \A p \in Put : (put'[p].phase = "idle" <=> put[p].phase = "idle")
      /\ \A p \in Put : put'[p].version = put[p].version
  <2>1. CASE Admin \/ UNCHANGED vars
    BY <2>1, AdminKeepsPuts
  <2>2. ASSUME NEW p \in Put, NEW m \in Server, Visits(p, m)
        PROVE  /\ \A q \in Put : (put'[q].phase = "idle" <=> put[q].phase = "idle")
               /\ \A q \in Put : put'[q].version = put[q].version
    BY <2>2, AttemptMoves
  <2>3. ASSUME NEW p \in Put, PutReturn(p)
        PROVE  /\ \A q \in Put : (put'[q].phase = "idle" <=> put[q].phase = "idle")
               /\ \A q \in Put : put'[q].version = put[q].version
    BY <2>3, ReturnMoves
  <2>4. QED  BY <2>1, <2>2, <2>3
<1>2. Started' = Started /\ \A p \in Started : p \in Put /\ put'[p].version = put[p].version
  BY <1>1 DEF Started
<1>3. Known' = Known
  BY <1>2 DEF Known
<1>4. Ordered' = Ordered
  BY <1>2 DEF Ordered
<1>5. VersionsAreConsecutive' = VersionsAreConsecutive
  BY <1>2, <1>3 DEF VersionsAreConsecutive
<1>6. \A p \in Put : Newest(p)' = Newest(p)
  BY <1>1, <1>2 DEF Newest
<1>7. QED  BY <1>1, <1>2, <1>3, <1>4, <1>5, <1>6

LEMMA OrderedBefore ==
  ASSUME TypeOK, PutProgress, [Next]_vars, Ordered'
  PROVE  Ordered
<1>1. \A p \in Started : p \in Started' /\ put'[p].version = put[p].version
  BY PutsRemember
<1>2. QED  BY <1>1 DEF Ordered

\* A put that knows the write before it has read the last one: nobody else
\* can have counted on from what it has read.
LEMMA NewWriteIsLast ==
  ASSUME TypeOK, PutProgress, RecordsAreWritten, Ordered => VersionsAreConsecutive, Ordered',
         NEW p \in Put, NEW n \in Server, NEW v \in ReadVersions, ClientPut(p, n, v)
  PROVE  /\ Ordered /\ v \in Known /\ p \notin Started
         /\ Started' = Started \union {p}
         /\ put'[p].version = update_version(v, n) /\ put'[p].version \in Version
         /\ \A q \in Put \ {p} : put'[q] = put[q]
         /\ \A w \in Known : NotAbove(w, v) /\ Precedes(w, put'[p].version)
<1>1. /\ put[p].phase = "idle" /\ put'[p].phase = "loop" /\ v \in Version /\ v[n] < MaxVersion
      /\ put'[p].version = update_version(v, n) /\ put'[p].version \in Version
      /\ \A q \in Put \ {p} : put'[q] = put[q]
  BY BeginMoves
<1>2. p \notin Started /\ Started' = Started \union {p}
  BY <1>1 DEF Started
<1>3. Ordered
  <2>1. \A q \in Started : q \in Started' /\ put'[q].version = put[q].version
    BY <1>1, <1>2 DEF Started
  <2>2. QED  BY <2>1 DEF Ordered
<1>4. v \in Known
  BY <1>3, ReadsAreKnown
<1>5. ASSUME NEW q \in Started
      PROVE  ~Precedes(v, put[q].version)
  <2>1. SUFFICES ASSUME Precedes(v, put[q].version)
                 PROVE  FALSE
    OBVIOUS
  <2>2. PICK r \in Started, s \in Server : put[r].version = update_version(v, s)
    BY <1>3, <1>4, <2>1 DEF VersionsAreConsecutive
  <2>3. r \in Put /\ r # p /\ r \in Started' /\ p \in Started' /\ put'[r].version = update_version(v, s)
    BY <1>1, <1>2, <2>2 DEF Started
  <2>4. \/ Precedes(update_version(v, s), update_version(v, n))
        \/ Precedes(update_version(v, n), update_version(v, s))
    BY <1>1, <2>3 DEF Ordered
  <2>5. QED  BY <1>1, <2>4, BumpsDoNotFollow
<1>6. ASSUME NEW w \in Known
      PROVE  NotAbove(w, v) /\ Precedes(w, put'[p].version)
  <2>0. w \in Version
    BY KnownVersions
  <2>1. NotAbove(w, v)
    <3>1. CASE w = NoVersion
      BY <1>1, <3>1, OrderOfVersions
    <3>2. CASE w # NoVersion
      <4>1. PICK q \in Started : w = put[q].version
        BY <3>2 DEF Known
      <4>2. NotAbove(v, w) \/ NotAbove(w, v)
        BY <1>3, <1>4, KnownVersions
      <4>3. QED  BY <1>1, <1>5, <2>0, <4>1, <4>2, OrderOfVersions DEF Precedes
    <3>3. QED  BY <3>1, <3>2
  <2>2. check_conflict_version(update_version(v, n), w) = 1
    BY <1>1, <2>0, <2>1, UpdateIsNewer
  <2>3. w = NoVersion \/ Precedes(w, put'[p].version)
    BY <1>1, <2>0, <2>2, NewerIffAfter
  <2>4. CASE w = NoVersion
    <3>1. put'[p].version # NoVersion
      BY BeginMoves
    <3>2. QED  BY <1>1, <2>1, <2>4, <3>1, OrderOfVersions DEF Precedes
  <2>5. QED  BY <2>1, <2>3, <2>4
<1>7. QED  BY <1>1, <1>2, <1>3, <1>4, <1>6

LEMMA VersionsStep ==
  ASSUME TypeOK, PutProgress, RecordsAreWritten, Ordered => VersionsAreConsecutive, [Next]_vars, Ordered'
  PROVE  VersionsAreConsecutive'
<1>1. Ordered /\ VersionsAreConsecutive
  BY OrderedBefore
<1>2. ASSUME NEW p \in Put, NEW n \in Server, NEW v \in ReadVersions, ClientPut(p, n, v)
      PROVE  VersionsAreConsecutive'
  <2> DEFINE u == put'[p].version
  <2>1. /\ v \in Known /\ p \notin Started /\ Started' = Started \union {p}
        /\ u = update_version(v, n) /\ u \in Version
        /\ \A q \in Put \ {p} : put'[q] = put[q]
        /\ \A w \in Known : NotAbove(w, v) /\ Precedes(w, u)
    BY <1>2, NewWriteIsLast
  <2>2. \A q \in Started : q \in Put /\ q # p /\ put'[q].version = put[q].version /\ put[q].version \in Known
    BY <2>1 DEF Started, Known
  <2>3. Known \subseteq Version
    BY KnownVersions
  <2>4. Known' \subseteq Known \union {u}
    BY <2>1, <2>2 DEF Known
  <2>5. SUFFICES ASSUME NEW w \in Known', NEW q \in Started', Precedes(w, put'[q].version)
                 PROVE  \E r \in Started', s \in Server : put'[r].version = update_version(w, s)
    BY DEF VersionsAreConsecutive
  <2>6. w \in Known
    <3>1. SUFFICES ASSUME w = u PROVE FALSE
      BY <2>4
    <3>2. CASE q = p
      BY <2>5, <3>1, <3>2 DEF Precedes
    <3>3. CASE q # p
      <4>1. Precedes(put[q].version, u) /\ Precedes(u, put[q].version) /\ put[q].version \in Version
        BY <2>1, <2>2, <2>3, <2>5, <3>1, <3>3
      <4>2. QED  BY <2>1, <4>1, OrderOfVersions DEF Precedes
    <3>4. QED  BY <3>2, <3>3
  <2>7. CASE \E r \in Started : Precedes(w, put[r].version)
    <3>1. PICK r \in Started, s \in Server : put[r].version = update_version(w, s)
      BY <1>1, <2>6, <2>7 DEF VersionsAreConsecutive
    <3>2. QED  BY <2>1, <2>2, <3>1
  <2>8. CASE ~ \E r \in Started : Precedes(w, put[r].version)
    <3>1. v = w
      <4>1. NotAbove(w, v) /\ v \in Version /\ w \in Version
        BY <2>1, <2>3, <2>6
      <4>2. CASE v = NoVersion
        BY <4>1, <4>2, OrderOfVersions
      <4>3. CASE v # NoVersion
        <5>1. PICK r \in Started : v = put[r].version
          BY <2>1, <4>3 DEF Known
        <5>2. QED  BY <2>8, <4>1, <5>1 DEF Precedes
      <4>4. QED  BY <4>2, <4>3
    <3>2. QED  BY <2>1, <3>1
  <2>9. QED  BY <2>7, <2>8
<1>3. QED  BY <1>1, <1>2, SameWrites, StepKinds

-----------------------------------------------------------------------------
(* One at a time                                                             *)

\* The history variables only go up.
LEMMA HistoryGrows ==
  ASSUME TypeOK, CommandsAreOrderly, [Next]_vars
  PROVE  /\ overlap => overlap'
         /\ hurt => hurt'
         /\ short => short'
         /\ stale => stale'
<1> DEFINE Grows == /\ overlap => overlap'
                    /\ hurt => hurt'
                    /\ short => short'
                    /\ stale => stale'
<1>1. ASSUME \/ UNCHANGED vars
             \/ \E p \in Put, m \in Server : Visits(p, m)
             \/ \E p \in Put : PutReturn(p)
      PROVE  Grows
  <2>1. UNCHANGED history
    BY <1>1 DEF Visits, PutAt, PutBreaks, PutSkips, PutReturn, vars
  <2>2. overlap' = overlap /\ hurt' = hurt /\ short' = short /\ stale' = stale
    BY <2>1 DEF history
  <2>3. QED  BY <2>2
<1>2. ASSUME NEW p \in Put, NEW n \in Server, NEW v \in ReadVersions, ClientPut(p, n, v)
      PROVE  Grows
  BY <1>2 DEF ClientPut
<1>3. ASSUME NEW n \in Server, AdminJoin(n)
      PROVE  Grows
  BY <1>3 DEF AdminJoin, Begins
<1>4. ASSUME NEW n \in Server, AdminLeave(n)
      PROVE  Grows
  BY <1>4 DEF AdminLeave, Begins
<1>5. ASSUME NEW n \in Server, JoinNetwork(n) \/ LeaveNetwork(n)
      PROVE  Grows
  BY <1>5 DEF JoinNetwork, LeaveNetwork, history
<1>6. ASSUME TransferRead \/ TransferPut \/ TransferRemove \/ TransferRefused \/ Return
      PROVE  Grows
  <2>1. overlap' = overlap /\ hurt' = hurt /\ short' = short /\ stale' = stale
    BY <1>6 DEF TransferRead, TransferPut, TransferRemove, TransferRefused, Return, history
  <2>2. QED  BY <2>1
<1>7. ASSUME TransferBreaks
      PROVE  Grows
  BY <1>7 DEF TransferBreaks
<1> HIDE DEF Grows
<1>8. Grows
  <2>1. Admin => Grows
    BY <1>3, <1>4, <1>5, <1>6, <1>7 DEF Admin
  <2>2. (\E p \in Put, n \in Server, v \in ReadVersions : ClientPut(p, n, v)) => Grows
    BY <1>2
  <2>3. QED  BY <1>1, <2>1, <2>2, StepKinds
<1>9. QED  BY <1>8 DEF Grows

\* Beside a command no put runs, and beside a put no command and no other put.
LEMMA AloneStep ==
  ASSUME TypeOK, PutProgress, CommandsAreOrderly, ~overlap => RunsAlone, [Next]_vars, ~overlap'
  PROVE  /\ RunsAlone /\ RunsAlone'
         /\ Admin => \A p \in Put : ~Running(p) /\ ~Running(p)'
<1>1. RunsAlone
  <2>1. overlap => overlap'
    BY HistoryGrows
  <2>2. ~overlap
    BY <2>1
  <2>3. QED  BY <2>2
<1>2. ASSUME UNCHANGED vars
      PROVE  RunsAlone'
  BY <1>1, <1>2 DEF RunsAlone, Running, vars
<1>3. ASSUME Admin
      PROVE  RunsAlone' /\ \A p \in Put : ~Running(p) /\ ~Running(p)'
  <2>1. \A p \in Put : ~Running(p)
    <3>1. ASSUME NEW n \in Server, AdminJoin(n) \/ AdminLeave(n)
          PROVE  \A p \in Put : ~Running(p)
      BY <3>1 DEF AdminJoin, AdminLeave, Begins
    <3>2. ASSUME NEW n \in Server, JoinNetwork(n) \/ LeaveNetwork(n)
          PROVE  \A p \in Put : ~Running(p)
      <4>1. cmd # NoCmd
        BY <3>2 DEF JoinNetwork, LeaveNetwork, Called, NoCmd
      <4>2. QED  BY <1>1, <4>1 DEF RunsAlone
    <3>3. CASE TransferRead \/ TransferPut \/ TransferBreaks \/ TransferRemove \/ TransferRefused
      <4>1. cmd # NoCmd
        BY <3>3, TransfersKeepNetwork DEF CommandsAreOrderly, NoMove
      <4>2. QED  BY <1>1, <4>1 DEF RunsAlone
    <3>4. CASE Return
      BY <1>1, <3>4 DEF Return, RunsAlone
    <3>5. QED  BY <1>3, <3>1, <3>2, <3>3, <3>4 DEF Admin
  <2>2. \A p \in Put : ~Running(p)'
    BY <1>3, <2>1, AdminKeepsPuts DEF Running
  <2>3. QED  BY <1>1, <2>1, <2>2 DEF RunsAlone
<1>4. ASSUME NEW p \in Put, NEW m \in Server, Visits(p, m)
      PROVE  RunsAlone'
  <2>1. cmd' = cmd /\ put'[p].phase = put[p].phase /\ \A q \in Put \ {p} : put'[q] = put[q]
    BY <1>4, AttemptMoves, PutsKeepNetwork
  <2>2. \A q \in Put : Running(q)' = Running(q)
    BY <2>1 DEF Running
  <2>3. QED  BY <1>1, <2>1, <2>2 DEF RunsAlone
<1>5. ASSUME NEW p \in Put, PutReturn(p)
      PROVE  RunsAlone'
  <2>1. /\ cmd' = cmd /\ put[p].phase = "loop" /\ put'[p].phase = "done"
        /\ \A q \in Put \ {p} : put'[q] = put[q]
    BY <1>5, ReturnMoves, PutsKeepNetwork
  <2>2. \A q \in Put : Running(q)' => Running(q)
    BY <2>1 DEF Running
  <2>3. QED  BY <1>1, <2>1, <2>2 DEF RunsAlone
<1>6. ASSUME NEW p \in Put, NEW n \in Server, NEW v \in ReadVersions, ClientPut(p, n, v)
      PROVE  RunsAlone'
  <2>1. /\ cmd' = cmd /\ put[p].phase = "idle" /\ put'[p].phase = "loop"
        /\ \A q \in Put \ {p} : put'[q] = put[q]
    BY <1>6, BeginMoves, PutsKeepNetwork
  <2>2. cmd = NoCmd /\ \A q \in Put : ~Running(q)
    BY <1>6 DEF ClientPut
  <2>3. \A q \in Put \ {p} : ~Running(q)'
    BY <2>1, <2>2 DEF Running
  <2>4. QED  BY <2>1, <2>2, <2>3 DEF RunsAlone
<1>7. QED  BY <1>1, <1>2, <1>3, <1>4, <1>5, <1>6, StepKinds

LEMMA NothingBesidePuts ==
  ASSUME TypeOK, CommandsAreOrderly, RunsAlone, NEW p \in Put, Running(p)
  PROVE  /\ cmd = NoCmd /\ move = NoMove /\ cmd.todo = {} /\ After = members
         /\ \A q \in Put \ {p} : ~Running(q)
<1>1. cmd = NoCmd /\ \A q \in Put \ {p} : ~Running(q)
  BY DEF RunsAlone
<1>2. move = NoMove
  BY <1>1 DEF CommandsAreOrderly
<1>3. cmd.todo = {} /\ cmd.name = "none" /\ cmd.addr = NoServer
  BY <1>1 DEF NoCmd
<1>4. NoServer \notin members
  BY ConstantFacts DEF TypeOK
<1>5. QED  BY <1>1, <1>2, <1>3, <1>4 DEF After

\* What an attempt stores, and when it counts.
LEMMA AttemptStores ==
  ASSUME TypeOK, PutProgress, NEW p \in Put, NEW m \in Server, Visits(p, m)
  PROVE  /\ Running(p) /\ p \in Started /\ m \in put[p].list /\ Before(put[p].list, m) = {}
         /\ \A n \in Server \ {m} : store'[n] = store[n]
         /\ store'[m] = store[m] \/ store'[m].version = put[p].version
         /\ \/ put'[p].success_cnt = put[p].success_cnt
            \/ put'[p].success_cnt = put[p].success_cnt + 1 /\ store'[m].version = put[p].version
<1>1. /\ StoreType /\ put \in [Put -> PutSet] /\ RecordOf(p).version = put[p].version
      /\ put[p].success_cnt \in Nat
  BY TypeParts, ConstantFacts DEF PutsType, PutSet, RecordOf
<1>2. AtPeer(p, m)
  BY DEF Visits, PutAt, PutBreaks, PutSkips
<1>3. Running(p) /\ m \in put[p].list /\ Before(put[p].list, m) = {} /\ p \in Started
  BY <1>2 DEF AtPeer, Running, Started
<1>31. CASE PutSkips(p, m)
  BY <1>1, <1>3, <1>31, AttemptMoves DEF PutSkips, PutSet
<1>4. ASSUME NEW success \in {0, 1}, put' = [put EXCEPT ![p] = Counted(put[p], m, success)]
      PROVE  put'[p].success_cnt = put[p].success_cnt + success
  <2>1. put'[p] = Counted(put[p], m, success)
    BY <1>1, <1>4
  <2>2. QED  BY <1>2, <2>1, AttemptIsCounted
<1>5. CASE PutAt(p, m)
  <2>1. \/ store' = [store EXCEPT ![m] = RecordOf(p)] /\ put' = [put EXCEPT ![p] = Counted(put[p], m, 1)]
        \/ store' = store /\ put' = [put EXCEPT ![p] = Counted(put[p], m, 0)]
    BY <1>5 DEF PutAt
  <2>2. CASE store' = [store EXCEPT ![m] = RecordOf(p)] /\ put' = [put EXCEPT ![p] = Counted(put[p], m, 1)]
    <3>1. store'[m] = RecordOf(p) /\ \A n \in Server \ {m} : store'[n] = store[n]
      BY <1>1, <2>2 DEF StoreType
    <3>2. put'[p].success_cnt = put[p].success_cnt + 1
      BY <1>4, <2>2
    <3>3. QED  BY <1>1, <1>3, <3>1, <3>2
  <2>3. CASE store' = store /\ put' = [put EXCEPT ![p] = Counted(put[p], m, 0)]
    <3>1. put'[p].success_cnt = put[p].success_cnt
      BY <1>1, <1>4, <2>3
    <3>2. QED  BY <1>1, <1>3, <2>3, <3>1
  <2>4. QED  BY <2>1, <2>2, <2>3
<1>6. CASE PutBreaks(p, m)
  <2>1. store'[m] \in {store[m], RecordOf(p)} /\ \A n \in Server \ {m} : store'[n] = store[n]
    BY <1>1, <1>6 DEF PutBreaks, StoreType
  <2>2. put' = [put EXCEPT ![p] = Counted(put[p], m, 0)]
    BY <1>6 DEF PutBreaks
  <2>3. put'[p].success_cnt = put[p].success_cnt
    BY <1>1, <1>4, <2>2
  <2>4. QED  BY <1>1, <1>3, <2>1, <2>3
<1>7. QED  BY <1>31, <1>5, <1>6 DEF Visits

LEMMA NewestStep ==
  ASSUME TypeOK, PutProgress, RecordsAreWritten, CommandsAreOrderly, [Next]_vars,
         Ordered => VersionsAreConsecutive, ~overlap => RunsAlone, RunningIsNewest,
         Ordered', ~overlap'
  PROVE  RunningIsNewest'
<1>0. RunsAlone /\ RunsAlone' /\ (Admin => \A p \in Put : ~Running(p)')
  BY AloneStep
<1>1. ASSUME Admin PROVE RunningIsNewest'
  BY <1>0, <1>1 DEF RunningIsNewest
<1>2. ASSUME UNCHANGED vars PROVE RunningIsNewest'
  BY <1>2 DEF RunningIsNewest, Running, Started, vars
<1>3. ASSUME NEW p \in Put, NEW m \in Server, Visits(p, m)
      PROVE  RunningIsNewest'
  <2>1. Running(p) /\ \A q \in Put \ {p} : ~Running(q)'
    <3>1. Running(p) /\ Running(p)'
      BY <1>3, AttemptMoves DEF Running
    <3>2. QED  BY <1>0, <3>1 DEF RunsAlone
  <2>2. /\ Started' = Started /\ \A q \in Put : put'[q].version = put[q].version
        /\ put'[p].list \subseteq put[p].list \ {m} /\ put[p].list \subseteq Server
    BY <1>3, SameWrites, AttemptMoves, TypeParts DEF PutsType, PutSet
  <2>3. \A n \in Server \ {m} : store'[n] = store[n]
    BY <1>3, AttemptStores
  <2>4. \A q \in Started \ {p} : Precedes(put'[q].version, put'[p].version)
    BY <2>1, <2>2 DEF RunningIsNewest, Started
  <2>5. \A n \in put'[p].list : store'[n].version # put'[p].version
    BY <2>1, <2>2, <2>3 DEF RunningIsNewest
  <2>6. QED  BY <2>1, <2>2, <2>4, <2>5 DEF RunningIsNewest
<1>4. ASSUME NEW p \in Put, PutReturn(p)
      PROVE  RunningIsNewest'
  <2>1. /\ put[p].phase = "loop" /\ put'[p].phase = "done" /\ store' = store
        /\ \A q \in Put \ {p} : put'[q] = put[q]
    BY <1>4, ReturnMoves DEF PutReturn
  <2>2. \A q \in Put : ~Running(q)'
    BY <1>0, <2>1 DEF RunsAlone, Running
  <2>3. QED  BY <2>2 DEF RunningIsNewest
<1>5. ASSUME NEW p \in Put, NEW n \in Server, NEW v \in ReadVersions, ClientPut(p, n, v)
      PROVE  RunningIsNewest'
  <2>1. /\ p \notin Started /\ Started' = Started \union {p}
        /\ \A q \in Put \ {p} : put'[q] = put[q]
        /\ \A w \in Known : Precedes(w, put'[p].version)
    BY <1>5, NewWriteIsLast
  <2>2. \A q \in Put \ {p} : ~Running(q)'
    <3>1. Running(p)'
      BY <1>5, BeginMoves DEF Running
    <3>2. QED  BY <1>0, <3>1 DEF RunsAlone
  <2>3. \A q \in Started' \ {p} : Precedes(put'[q].version, put'[p].version)
    BY <2>1 DEF Known, Started
  <2>4. \A m \in Server : store'[m].version # put'[p].version
    <3>1. store' = store
      BY <1>5 DEF ClientPut
    <3>2. \A m \in Server : store[m].version \in Known
      BY KnownVersions DEF RecordsAreWritten
    <3>3. QED  BY <2>1, <3>1, <3>2 DEF Precedes
  <2>5. put'[p].list \subseteq Server
    BY <1>5, TypeStep, TypeParts DEF PutsType, PutSet
  <2>6. QED  BY <2>2, <2>3, <2>4, <2>5 DEF RunningIsNewest
<1>6. QED  BY <1>1, <1>2, <1>3, <1>4, <1>5, StepKinds

-----------------------------------------------------------------------------
(* What a transfer does to the copies of a write                             *)

\* The answer of PeerPut in terms of the order of the writes.
LEMMA AnswerMeans ==
  ASSUME TypeOK, PutProgress, RecordsAreWritten, Ordered, NEW n \in Server
  PROVE  /\ Accepts(n, move.data) => /\ NotAbove(store[n].version, move.data.version)
                                     /\ store[n].version = NoVersion \/ Precedes(store[n].version, move.data.version)
         /\ ~Accepts(n, move.data) => NotAbove(move.data.version, store[n].version)
<1>1. /\ store[n].version \in Known /\ move.data.version \in Known
      /\ store[n].version \in Version /\ move.data.version \in Version
  BY KnownVersions DEF RecordsAreWritten
<1>2. Accepts(n, move.data) <=>
        store[n].version = NoVersion \/ Precedes(store[n].version, move.data.version)
  BY <1>1, NewerIffAfter DEF Accepts
<1>3. NotAbove(NoVersion, move.data.version)
  BY <1>1, OrderOfVersions
<1>4. NotAbove(store[n].version, move.data.version) \/ NotAbove(move.data.version, store[n].version)
  BY <1>1, KnownVersions
<1>5. store[n].version = move.data.version => NotAbove(move.data.version, store[n].version)
  BY <1>1, OrderOfVersions
<1>6. QED  BY <1>2, <1>3, <1>4, <1>5 DEF Precedes

\* The steps of a transfer, field by field.
LEMMA TransferMoves ==
  ASSUME TypeOK, CommandsAreOrderly
  PROVE  /\ TransferRead =>
              /\ move.stage = "told" /\ store' = store
              /\ \/ /\ Moves /\ move'.stage = "sent" /\ move'.data = store[Giver]
                    /\ cmd' = cmd /\ move'.peer = move.peer
                 \/ ~Moves /\ Leaves(move.peer)
         /\ TransferPut =>
              /\ move.stage = "sent" /\ move'.data = move.data /\ cmd' = cmd /\ move'.peer = move.peer
              /\ \A n \in Server \ {Taker} : store'[n] = store[n]
              /\ \/ Accepts(Taker, move.data) /\ store'[Taker] = move.data /\ move'.stage = "accepted"
                 \/ ~Accepts(Taker, move.data) /\ store' = store /\ move'.stage = "refused"
         /\ TransferBreaks =>
              /\ move.stage = "sent" /\ move'.stage = "refused" /\ hurt' /\ cmd' = cmd /\ move'.peer = move.peer
              /\ \A n \in Server \ {Taker} : store'[n] = store[n]
              /\ store' = store \/ (Accepts(Taker, move.data) /\ store'[Taker] = move.data)
         /\ TransferRemove =>
              /\ move.stage = "accepted" /\ Leaves(move.peer)
              /\ \A n \in Server \ {Giver} : store'[n] = store[n]
         /\ TransferRefused =>
              /\ move.stage = "refused" /\ store' = store
              /\ \/ move'.stage = "sent" /\ move'.data = store[Giver] /\ cmd' = cmd /\ move'.peer = move.peer
                 \/ Leaves(move.peer)
<1>1. StoreType /\ MoveType
  BY TypeParts
<1>2. ASSUME TransferRead
      PROVE  /\ move.stage = "told" /\ store' = store
             /\ \/ /\ Moves /\ move'.stage = "sent" /\ move'.data = store[Giver]
                   /\ cmd' = cmd /\ move'.peer = move.peer
                \/ ~Moves /\ Leaves(move.peer)
  BY <1>1, <1>2 DEF TransferRead, MoveType
<1>3. ASSUME TransferPut
      PROVE  /\ move.stage = "sent" /\ move'.data = move.data /\ cmd' = cmd /\ move'.peer = move.peer
             /\ \A n \in Server \ {Taker} : store'[n] = store[n]
             /\ \/ Accepts(Taker, move.data) /\ store'[Taker] = move.data /\ move'.stage = "accepted"
                \/ ~Accepts(Taker, move.data) /\ store' = store /\ move'.stage = "refused"
  <2>1. Taker \in Server
    BY <1>3, TransferIsBetween DEF TransferPut
  <2>2. QED  BY <1>1, <1>3, <2>1 DEF TransferPut, MoveType, StoreType
<1>4. ASSUME TransferBreaks
      PROVE  /\ move.stage = "sent" /\ move'.stage = "refused" /\ hurt' /\ cmd' = cmd /\ move'.peer = move.peer
             /\ \A n \in Server \ {Taker} : store'[n] = store[n]
             /\ store' = store \/ (Accepts(Taker, move.data) /\ store'[Taker] = move.data)
  <2>1. Taker \in Server
    BY <1>4, TransferIsBetween DEF TransferBreaks
  <2>2. hurt'
    BY <1>4 DEF TransferBreaks
  <2>3. move.stage = "sent" /\ move'.stage = "refused" /\ cmd' = cmd /\ move'.peer = move.peer
    BY <1>1, <1>4 DEF TransferBreaks, MoveType
  <2>4. store' = store \/ (Accepts(Taker, move.data) /\ store' = [store EXCEPT ![Taker] = move.data])
    BY <1>4 DEF TransferBreaks
  <2>5. /\ \A n \in Server \ {Taker} : store'[n] = store[n]
        /\ store' = store \/ (Accepts(Taker, move.data) /\ store'[Taker] = move.data)
    BY <1>1, <2>1, <2>4 DEF StoreType
  <2>6. QED  BY <2>2, <2>3, <2>5
<1>5. ASSUME TransferRemove
      PROVE  /\ move.stage = "accepted" /\ Leaves(move.peer)
             /\ \A n \in Server \ {Giver} : store'[n] = store[n]
  BY <1>1, <1>5 DEF TransferRemove, StoreType
<1>6. ASSUME TransferRefused
      PROVE  /\ move.stage = "refused" /\ store' = store
             /\ \/ move'.stage = "sent" /\ move'.data = store[Giver] /\ cmd' = cmd /\ move'.peer = move.peer
                \/ Leaves(move.peer)
  BY <1>1, <1>6 DEF TransferRefused, MoveType
<1>7. QED  BY <1>2, <1>3, <1>4, <1>5, <1>6

LEMMA SamePartners ==
  ASSUME cmd' = cmd, move'.peer = move.peer
  PROVE  Giver' = Giver /\ Taker' = Taker
BY DEF Giver, Taker

LEMMA TrackStep ==
  ASSUME TypeOK, PutProgress, RecordsAreWritten, CommandsAreOrderly, [Next]_vars,
         ~overlap => RunsAlone, TransferKeepsTrack, Ordered', ~overlap'
  PROVE  TransferKeepsTrack'
<1>0. Ordered /\ RunsAlone /\ RunsAlone' /\ CommandsAreOrderly'
  BY OrderedBefore, AloneStep, OrderlyStep
<1>1. ASSUME move'.stage \in {"none", "told"} PROVE TransferKeepsTrack'
  BY <1>1 DEF TransferKeepsTrack
<1>2. ASSUME UNCHANGED vars PROVE TransferKeepsTrack'
  <2>1. UNCHANGED <<cmd, move, store, hurt>>
    BY <1>2 DEF vars, history
  <2>2. QED  BY <2>1, SamePartners DEF TransferKeepsTrack
<1>3. ASSUME NEW p \in Put, Running(p) \/ Running(p)' PROVE TransferKeepsTrack'
  <2>1. move = NoMove \/ move' = NoMove
    BY <1>0, <1>3 DEF RunsAlone, CommandsAreOrderly
  <2>2. QED
    <3>1. CASE Admin
      BY <1>3, <3>1, AloneStep
    <3>2. CASE UNCHANGED vars
      BY <1>2, <3>2
    <3>3. CASE ~Admin /\ ~UNCHANGED vars
      <4>1. move' = move
        BY <3>3, StepKinds, PutsKeepNetwork
      <4>2. QED  BY <1>1, <2>1, <4>1 DEF NoMove
    <3>4. QED  BY <3>1, <3>2, <3>3
<1>4. ASSUME Admin PROVE TransferKeepsTrack'
  <2>1. ASSUME NEW n \in Server, AdminJoin(n) \/ AdminLeave(n) PROVE TransferKeepsTrack'
    <3>1. move' = NoMove
      BY <2>1 DEF AdminJoin, AdminLeave, Begins, CommandsAreOrderly
    <3>2. QED  BY <1>1, <3>1 DEF NoMove
  <2>2. ASSUME NEW n \in Server, JoinNetwork(n) \/ LeaveNetwork(n) PROVE TransferKeepsTrack'
    <3>1. move'.stage = "told"
      BY <2>2 DEF JoinNetwork, LeaveNetwork, NoMove
    <3>2. QED  BY <1>1, <3>1
  <2>3. ASSUME Leaves(move.peer) PROVE TransferKeepsTrack'
    BY <1>1, <2>3 DEF Leaves, NoMove
  <2>4. ASSUME TransferRead PROVE TransferKeepsTrack'
    BY <2>3, <2>4, TransferMoves, SamePartners DEF TransferKeepsTrack
  <2>5. ASSUME TransferPut PROVE TransferKeepsTrack'
    <3>1. Giver \in Server /\ Taker \in Server /\ Giver # Taker
      BY <2>5, TransferMoves, TransferIsBetween
    <3>2. store[Giver] = move.data /\ Giver' = Giver /\ Taker' = Taker
      BY <2>5, TransferMoves, SamePartners DEF TransferKeepsTrack
    <3>3. CASE Accepts(Taker, move.data)
      BY <2>5, <3>1, <3>2, <3>3, TransferMoves DEF TransferKeepsTrack
    <3>4. CASE ~Accepts(Taker, move.data)
      <4>1. NotAbove(move.data.version, store[Taker].version)
        BY <1>0, <3>1, <3>4, AnswerMeans
      <4>2. store' = store /\ move'.stage = "refused"
        BY <2>5, <3>4, TransferMoves
      <4>3. QED  BY <3>2, <4>1, <4>2 DEF TransferKeepsTrack
    <3>5. QED  BY <3>3, <3>4
  <2>6. ASSUME TransferBreaks PROVE TransferKeepsTrack'
    <3>1. move'.stage = "refused" /\ hurt'
      BY <2>6, TransferMoves
    <3>2. QED  BY <3>1 DEF TransferKeepsTrack
  <2>7. ASSUME TransferRemove PROVE TransferKeepsTrack'
    BY <2>3, <2>7, TransferMoves
  <2>8. ASSUME TransferRefused PROVE TransferKeepsTrack'
    BY <2>3, <2>8, TransferMoves, SamePartners DEF TransferKeepsTrack
  <2>9. ASSUME Return PROVE TransferKeepsTrack'
    BY <1>1, <2>9 DEF Return, NoMove
  <2>10. QED  BY <1>4, <2>1, <2>2, <2>4, <2>5, <2>6, <2>7, <2>8, <2>9 DEF Admin
<1>5. ASSUME NEW p \in Put, NEW m \in Server, Visits(p, m)
      PROVE  TransferKeepsTrack'
  BY <1>3, <1>5, AttemptStores
<1>6. ASSUME NEW p \in Put, PutReturn(p)
      PROVE  TransferKeepsTrack'
  BY <1>3, <1>6 DEF PutReturn
<1>7. ASSUME NEW p \in Put, NEW n \in Server, NEW v \in ReadVersions, ClientPut(p, n, v)
      PROVE  TransferKeepsTrack'
  <2>1. Running(p)'
    BY <1>7, BeginMoves DEF Running
  <2>2. QED  BY <1>3, <2>1
<1>8. QED  BY <1>2, <1>4, <1>5, <1>6, <1>7, StepKinds

\* A set of servers that loses one at most, and gains one for it, is not smaller.
LEMMA CountKept ==
  ASSUME NEW S \in SUBSET Server, NEW T \in SUBSET Server, NEW g,
         S \ {g} \subseteq T, g \in S => \E t \in T : t \notin S
  PROVE  Cardinality(S) \in Nat /\ Cardinality(T) \in Nat /\ Cardinality(S) <= Cardinality(T)
<1>1. /\ IsFiniteSet(S) /\ IsFiniteSet(T) /\ IsFiniteSet(S \ {g})
      /\ Cardinality(S) \in Nat /\ Cardinality(T) \in Nat /\ Cardinality(S \ {g}) \in Nat
  BY RankFacts, FS_Subset, FS_CardinalityType, FS_RemoveElement
<1>2. CASE g \notin S
  <2>1. S \in SUBSET T
    BY <1>2
  <2>2. QED  BY <1>1, <2>1, FS_Subset
<1>3. CASE g \in S
  <2>1. PICK t \in T : t \notin S
    BY <1>3
  <2> DEFINE U == (S \ {g}) \union {t}
  <2>2. Cardinality(S \ {g}) = Cardinality(S) - 1
    BY <1>1, <1>3, FS_RemoveElement
  <2>3. Cardinality(U) = Cardinality(S \ {g}) + 1
    BY <1>1, <2>1, FS_AddElement
  <2>4. U \in SUBSET T
    BY <2>1
  <2>5. Cardinality(U) <= Cardinality(T)
    BY <1>1, <2>4, FS_Subset
  <2> HIDE DEF U
  <2>6. QED  BY <1>1, <2>2, <2>3, <2>5
<1>4. QED  BY <1>2, <1>3

LEMMA CountOneMore ==
  ASSUME NEW S \in SUBSET Server, NEW T \in SUBSET Server, S \subseteq T, NEW m \in T, m \notin S
  PROVE  Cardinality(S) \in Nat /\ Cardinality(T) \in Nat /\ Cardinality(S) + 1 <= Cardinality(T)
<1>1. IsFiniteSet(S) /\ IsFiniteSet(T) /\ Cardinality(S) \in Nat /\ Cardinality(T) \in Nat
  BY RankFacts, FS_Subset, FS_CardinalityType
<1> DEFINE U == S \union {m}
<1>2. Cardinality(U) = Cardinality(S) + 1
  BY <1>1, FS_AddElement
<1>3. U \in SUBSET T
  OBVIOUS
<1>4. Cardinality(U) <= Cardinality(T)
  BY <1>1, <1>3, FS_Subset
<1> HIDE DEF U
<1>5. QED  BY <1>1, <1>2, <1>4

\* A put that has counted anything has been under way.
LEMMA CountingHasStarted ==
  ASSUME TypeOK, PutProgress, NEW p \in Put
  PROVE  /\ put[p].success_cnt \in Nat /\ put[p].try_cnt \in Nat /\ put[p].version \in Version
         /\ put[p].near_cnt \in Nat
         /\ p \in Started \/ (put[p].success_cnt = 0 /\ put[p].near_cnt = 0)
         /\ p \in Started => put[p].version # NoVersion
         /\ Holders(p) \in SUBSET Server
<1>1. put[p] \in PutSet
  BY TypeParts DEF PutsType
<1>2. put[p].success_cnt \in Nat /\ put[p].near_cnt \in Nat /\ put[p].try_cnt \in Nat /\ put[p].version \in Version
  BY <1>1, ConstantFacts DEF PutSet
<1>3. put[p].phase = "idle" => put[p].success_cnt = 0 /\ put[p].near_cnt = 0
  BY DEF PutProgress, Idle
<1>4. p \in Started \/ (put[p].success_cnt = 0 /\ put[p].near_cnt = 0)
  BY <1>3 DEF Started
<1>5. p \in Started => put[p].version # NoVersion
  BY DEF Started, PutProgress
<1>6. QED  BY <1>2, <1>4, <1>5 DEF Holders

\* The server that an attempt writes to has not got the write before; that
\* write follows all others.
LEMMA AttemptIsNew ==
  ASSUME TypeOK, PutProgress, RecordsAreWritten, Ordered, RunningIsNewest,
         NEW p \in Put, NEW m \in Server, Visits(p, m)
  PROVE  /\ m \notin Holders(p)
         /\ Holders(p) \subseteq Holders(p)'
         /\ put'[p].success_cnt = put[p].success_cnt + 1 => m \in Holders(p)'
         /\ \A q \in Started \ {p} : ~Newest(q) /\ Holders(q) \subseteq Holders(q)'
<1>1. /\ Running(p) /\ p \in Started /\ m \in put[p].list
      /\ \A n \in Server \ {m} : store'[n] = store[n]
      /\ store'[m] = store[m] \/ store'[m].version = put[p].version
      /\ put'[p].success_cnt = put[p].success_cnt + 1 => store'[m].version = put[p].version
  BY AttemptStores, CountingHasStarted
<1>2. \A q \in Put : put'[q].version = put[q].version /\ put[q].version \in Version
  BY SameWrites, KnownVersions
<1>3. /\ \A q \in Started \ {p} : q \in Put /\ Precedes(put[q].version, put[p].version)
      /\ store[m].version # put[p].version
  BY <1>1 DEF RunningIsNewest, Started
<1>4. store[m].version \in Known /\ store[m].version \in Version /\ put[p].version # NoVersion
  BY <1>1, KnownVersions DEF RecordsAreWritten
<1>5. m \notin Holders(p)
  <2>1. SUFFICES ASSUME NotAbove(put[p].version, store[m].version) PROVE FALSE
    BY DEF Holders
  <2>2. CASE store[m].version = NoVersion
    BY <1>2, <1>4, <2>1, <2>2, OrderOfVersions
  <2>3. CASE store[m].version # NoVersion
    <3>1. PICK q \in Started : store[m].version = put[q].version
      BY <1>4, <2>3 DEF Known
    <3>2. q # p /\ q \in Put /\ Precedes(put[q].version, put[p].version)
      BY <1>3, <3>1
    <3>3. QED  BY <1>2, <1>3, <2>1, <3>1, <3>2, OrderOfVersions DEF Precedes
  <2>4. QED  BY <2>2, <2>3
<1>6. ASSUME NEW q \in Put, NotAbove(put[q].version, put[p].version)
      PROVE  Holders(q) \subseteq Holders(q)'
  BY <1>1, <1>2, <1>6 DEF Holders
<1>7. Holders(p) \subseteq Holders(p)'
  BY <1>2, <1>6, OrderOfVersions
<1>8. put'[p].success_cnt = put[p].success_cnt + 1 => m \in Holders(p)'
  BY <1>1, <1>2, OrderOfVersions DEF Holders
<1>9. \A q \in Started \ {p} : ~Newest(q) /\ Holders(q) \subseteq Holders(q)'
  BY <1>1, <1>3, <1>6 DEF Newest, Precedes
<1>10. QED  BY <1>5, <1>7, <1>8, <1>9

\* What a step of the admin does to those who have a write: the giver that
\* removes its record is the only one to lose it.
LEMMA AdminKeepsHolders ==
  ASSUME TypeOK, PutProgress, RecordsAreWritten, CommandsAreOrderly, Ordered, Admin, NEW p \in Put
  PROVE  /\ Holders(p) \ {Giver} \subseteq Holders(p)'
         /\ ~(move.stage = "accepted" /\ TransferRemove) => Holders(p) \subseteq Holders(p)'
<1>1. put' = put /\ put[p].version \in Version
  BY AdminKeepsPuts, CountingHasStarted
<1>2. \A n \in Server : store[n].version \in Version /\ store[n].version \in Known
  BY KnownVersions DEF RecordsAreWritten
<1>3. ASSUME store' = store
      PROVE  Holders(p)' = Holders(p)
  BY <1>1, <1>3 DEF Holders
<1>4. ASSUME TransferPut \/ TransferBreaks
      PROVE  Holders(p) \subseteq Holders(p)'
  <2>1. /\ \A n \in Server \ {Taker} : store'[n] = store[n]
        /\ store' = store \/ (Accepts(Taker, move.data) /\ store'[Taker] = move.data)
    BY <1>4, TransferMoves
  <2>2. CASE store' = store
    BY <1>3, <2>2
  <2>3. CASE Accepts(Taker, move.data) /\ store'[Taker] = move.data
    <3>1. Taker \in Server
      BY <1>4, TransferMoves, TransferIsBetween
    <3>2. NotAbove(store[Taker].version, move.data.version) /\ move.data.version \in Version
      BY <2>3, <3>1, AnswerMeans, KnownVersions DEF RecordsAreWritten
    <3>3. NotAbove(put[p].version, store[Taker].version) => NotAbove(put[p].version, move.data.version)
      BY <1>1, <1>2, <3>1, <3>2, OrderOfVersions
    <3>4. QED  BY <1>1, <2>1, <2>3, <3>1, <3>3 DEF Holders
  <2>4. QED  BY <2>1, <2>2, <2>3
<1>5. ASSUME TransferRemove
      PROVE  move.stage = "accepted" /\ Holders(p) \ {Giver} \subseteq Holders(p)'
  <2>1. move.stage = "accepted" /\ \A n \in Server \ {Giver} : store'[n] = store[n]
    BY <1>5, TransferMoves
  <2>2. QED  BY <1>1, <2>1 DEF Holders
<1>6. ~TransferPut /\ ~TransferBreaks /\ ~TransferRemove => store' = store
  BY DEF Admin, AdminJoin, AdminLeave, JoinNetwork, LeaveNetwork, TransferRead, TransferRefused, Return
<1>7. QED  BY <1>3, <1>4, <1>5, <1>6

\* The giver that has the last write hands it to one that has not.
LEMMA TakerHadItNot ==
  ASSUME TypeOK, PutProgress, RecordsAreWritten, CommandsAreOrderly, Ordered, TransferKeepsTrack,
         TransferPut, Accepts(Taker, move.data), NEW p \in Started, Newest(p), Giver \in Holders(p)
  PROVE  Taker \in Server /\ Taker # Giver /\ Taker \notin Holders(p) /\ Taker \in Holders(p)'
<1>1. /\ move.stage = "sent" /\ store'[Taker] = move.data
      /\ Taker \in Server /\ Giver \in Server /\ Taker # Giver /\ p \in Put
  BY TransferMoves, TransferIsBetween DEF Started
<1>2. store[Giver] = move.data /\ NotAbove(put[p].version, move.data.version)
  BY <1>1 DEF TransferKeepsTrack, Holders
<1>3. put' = put /\ put[p].version \in Version /\ put[p].version # NoVersion
  BY <1>1, CountingHasStarted DEF TransferPut
<1>4. Taker \in Holders(p)'
  BY <1>1, <1>2, <1>3 DEF Holders
<1>5. /\ store[Taker].version = NoVersion \/ Precedes(store[Taker].version, move.data.version)
      /\ store[Taker].version \in Version /\ move.data.version \in Known /\ move.data.version \in Version
  BY <1>1, AnswerMeans, KnownVersions DEF RecordsAreWritten
<1>6. Taker \notin Holders(p)
  <2>1. SUFFICES ASSUME NotAbove(put[p].version, store[Taker].version) PROVE FALSE
    BY DEF Holders
  <2>2. store[Taker].version # NoVersion
    BY <1>3, <2>1, OrderOfVersions
  <2>3. Precedes(store[Taker].version, move.data.version)
    BY <1>5, <2>2
  <2>4. Precedes(put[p].version, move.data.version)
    BY <1>2, <1>3, <1>5, <2>1, <2>3, OrderOfVersions DEF Precedes
  <2>5. move.data.version # NoVersion
    BY <1>3, <1>5, <2>4, OrderOfVersions DEF Precedes
  <2>6. PICK q \in Started : move.data.version = put[q].version
    BY <1>5, <2>5 DEF Known
  <2>7. QED  BY <2>4, <2>6 DEF Newest
<1>7. QED  BY <1>1, <1>4, <1>6

LEMMA CopiesAdmin ==
  ASSUME TypeOK, PutProgress, RecordsAreWritten, CommandsAreOrderly, Ordered, TransferKeepsTrack,
         CopiesAreCounted, Admin
  PROVE  CopiesAreCounted'
<1>1. /\ put' = put /\ Started' = Started /\ \A p \in Put : Newest(p)' = Newest(p)
  BY AdminKeepsPuts, SameWrites
<1>2. CommandsAreOrderly' /\ TypeOK' /\ PutProgress'
  BY OrderlyStep, TypeStep, ProgressStep DEF Next
<1>3. SUFFICES ASSUME NEW p \in Put, Newest(p), Cardinality(Holders(p) \intersect Staying) >= put[p].success_cnt
               PROVE  Cardinality(Holders(p)' \intersect Staying') >= put[p].success_cnt
  BY <1>1 DEF CopiesAreCounted
<1> DEFINE S == Holders(p) \intersect Staying
           T == Holders(p)' \intersect Staying'
<1>4. S \in SUBSET Server /\ T \in SUBSET Server /\ put[p].success_cnt \in Nat
  BY CountingHasStarted DEF Holders
<1>5. CASE p \notin Started
  <2>1. put[p].success_cnt = 0
    BY <1>5, CountingHasStarted
  <2>2. Cardinality(T) \in Nat
    BY <1>4, CountKept
  <2>3. QED  BY <2>1, <2>2
<1>6. ASSUME S \subseteq T
      PROVE  Cardinality(T) >= put[p].success_cnt
  <2>1. /\ Cardinality(S) \in Nat /\ Cardinality(T) \in Nat /\ Cardinality(S) <= Cardinality(T)
    BY <1>4, <1>6, CountKept
  <2>2. Cardinality(S) >= put[p].success_cnt
    BY <1>3
  <2> HIDE DEF S, T
  <2>3. QED  BY <1>4, <2>1, <2>2
<1>7. CASE move'.stage # "accepted"
  <2>1. Staying' = Server
    BY <1>7 DEF Staying
  <2>2. Holders(p) \ {Giver} \subseteq Holders(p)' /\ (move.stage # "accepted" => Holders(p) \subseteq Holders(p)')
    BY AdminKeepsHolders
  <2>3. S \subseteq T
    <3>1. CASE move.stage = "accepted"
      <4>1. Staying = Server \ {Giver}
        BY <3>1 DEF Staying
      <4>2. QED  BY <1>4, <2>1, <2>2, <4>1
    <3>2. CASE move.stage # "accepted"
      BY <1>4, <2>1, <2>2, <3>2
    <3>3. QED  BY <3>1, <3>2
  <2>4. QED  BY <1>6, <2>3
<1>8. CASE p \in Started /\ move'.stage = "accepted"
  <2>1. TransferPut
    <3>1. TransferPut \/ move' = NoMove \/ move'.stage \in {"told", "sent", "refused"} \/ move' = move
      BY TransferMoves DEF Admin, AdminJoin, AdminLeave, JoinNetwork, LeaveNetwork, Return, NoMove, Leaves
    <3>2. CASE move' = move /\ ~TransferPut
      <4>1. ~TransferRead /\ ~TransferBreaks /\ ~TransferRemove /\ ~TransferRefused
        <5>1. move.stage = "accepted"
          BY <1>8, <3>2
        <5>2. ~TransferRead /\ ~TransferBreaks /\ ~TransferRefused
          BY <5>1, TransferMoves
        <5>3. ~TransferRemove
          BY <3>2, <5>1, TransferMoves DEF Leaves, NoMove
        <5>4. QED  BY <5>2, <5>3
      <4>2. move = NoMove \/ move' = NoMove
        BY <3>2, <4>1 DEF Admin, AdminJoin, AdminLeave, JoinNetwork, LeaveNetwork, Return, Begins,
                          CommandsAreOrderly, Called
      <4>3. QED  BY <1>8, <3>2, <4>2 DEF NoMove
    <3>3. QED  BY <1>8, <3>1, <3>2 DEF NoMove
  <2>2. /\ move.stage = "sent" /\ Accepts(Taker, move.data) /\ Giver' = Giver
    BY <1>8, <2>1, TransferMoves, SamePartners
  <2>3. Staying = Server /\ Staying' = Server \ {Giver}
    BY <1>8, <2>2 DEF Staying
  <2>4. Holders(p) \subseteq Holders(p)'
    BY <2>2, AdminKeepsHolders
  <2>5. S \ {Giver} \subseteq T
    BY <1>4, <2>3, <2>4
  <2>6. Giver \in S => \E t \in T : t \notin S
    <3>1. SUFFICES ASSUME Giver \in Holders(p) PROVE Taker \in T /\ Taker \notin S
      OBVIOUS
    <3>2. Taker \in Server /\ Taker # Giver /\ Taker \notin Holders(p) /\ Taker \in Holders(p)'
      BY <1>3, <1>8, <2>1, <2>2, <3>1, TakerHadItNot
    <3>3. QED  BY <2>3, <3>2
  <2>7. /\ Cardinality(S) \in Nat /\ Cardinality(T) \in Nat /\ Cardinality(S) <= Cardinality(T)
    <3> HIDE DEF S, T
    <3>1. QED  BY <1>4, <2>5, <2>6, CountKept
  <2>8. Cardinality(S) >= put[p].success_cnt
    BY <1>3
  <2> HIDE DEF S, T
  <2>9. Cardinality(T) >= put[p].success_cnt
    BY <1>4, <2>7, <2>8
  <2>10. QED  BY <2>9 DEF T
<1>9. QED  BY <1>5, <1>7, <1>8

\* A put that is served, or begins, moves nobody's copies.
LEMMA PutsKeepStaying ==
  ASSUME UNCHANGED <<cmd, move>>
  PROVE  Staying' = Staying
BY DEF Staying, Giver

LEMMA CopiesStep ==
  ASSUME TypeOK, PutProgress, RecordsAreWritten, CommandsAreOrderly, [Next]_vars,
         Ordered => VersionsAreConsecutive, ~overlap => RunsAlone,
         RunningIsNewest, TransferKeepsTrack, CopiesAreCounted, Ordered', ~overlap'
  PROVE  CopiesAreCounted'
<1>0. Ordered /\ RunsAlone /\ TypeOK' /\ PutProgress'
  BY OrderedBefore, AloneStep, TypeStep, ProgressStep
<1>1. CASE Admin
  BY <1>0, <1>1, CopiesAdmin
<1>2. ASSUME NEW p \in Put, Newest(p), put'[p].success_cnt = put[p].success_cnt,
             Holders(p) \subseteq Holders(p)', UNCHANGED <<cmd, move>>
      PROVE  Cardinality(Holders(p)' \intersect Staying') >= put'[p].success_cnt
  <2> DEFINE S == Holders(p) \intersect Staying
             T == Holders(p)' \intersect Staying'
  <2>1. S \in SUBSET Server /\ T \in SUBSET Server /\ S \subseteq T /\ put[p].success_cnt \in Nat
    BY <1>2, CountingHasStarted, PutsKeepStaying DEF Holders
  <2>2. Cardinality(S) >= put[p].success_cnt
    BY <1>2 DEF CopiesAreCounted
  <2>3. /\ Cardinality(S) \in Nat /\ Cardinality(T) \in Nat /\ Cardinality(S) <= Cardinality(T)
    <3> HIDE DEF S, T
    <3>1. QED  BY <2>1, CountKept
  <2> HIDE DEF S, T
  <2>4. Cardinality(T) >= put'[p].success_cnt
    BY <1>2, <2>1, <2>2, <2>3
  <2>5. QED  BY <2>4 DEF T
<1>3. ASSUME NEW p \in Put, put'[p].success_cnt = 0
      PROVE  Cardinality(Holders(p)' \intersect Staying') >= put'[p].success_cnt
  <2>1. Holders(p)' \intersect Staying' \in SUBSET Server
    BY DEF Holders
  <2>2. Cardinality(Holders(p)' \intersect Staying') \in Nat
    BY <2>1, CountKept
  <2>3. QED  BY <1>3, <2>2
<1>4. ASSUME UNCHANGED vars PROVE CopiesAreCounted'
  <2>1. UNCHANGED <<cmd, move, put, store>>
    BY <1>4 DEF vars
  <2>2. Staying' = Staying /\ \A p \in Put : Newest(p)' = Newest(p) /\ Holders(p)' = Holders(p)
    BY <2>1, PutsKeepStaying DEF Newest, Started, Holders
  <2>3. QED  BY <1>2, <2>1, <2>2 DEF CopiesAreCounted
<1>5. ASSUME NEW p \in Put, NEW m \in Server, Visits(p, m)
      PROVE  CopiesAreCounted'
  <2>1. /\ m \notin Holders(p) /\ Holders(p) \subseteq Holders(p)'
        /\ put'[p].success_cnt = put[p].success_cnt + 1 => m \in Holders(p)'
        /\ \A q \in Started \ {p} : ~Newest(q)
    BY <1>0, <1>5, AttemptIsNew
  <2>2. /\ put'[p].success_cnt \in {put[p].success_cnt, put[p].success_cnt + 1}
        /\ \A q \in Put \ {p} : put'[q] = put[q]
    BY <1>5, AttemptMoves
  <2>3. UNCHANGED <<cmd, move>> /\ \A q \in Put : Newest(q)' = Newest(q)
    BY <1>5, PutsKeepNetwork, SameWrites
  <2>4. move = NoMove
    BY <1>0, <1>5, NothingBesidePuts, AttemptStores
  <2>5. Staying = Server /\ Staying' = Server
    BY <2>3, <2>4 DEF Staying, NoMove
  <2>6. ASSUME Newest(p), put'[p].success_cnt = put[p].success_cnt + 1
        PROVE  Cardinality(Holders(p)' \intersect Staying') >= put'[p].success_cnt
    <3> DEFINE S == Holders(p) \intersect Staying
               T == Holders(p)' \intersect Staying'
    <3>1. S \in SUBSET Server /\ T \in SUBSET Server /\ S \subseteq T /\ m \in T /\ m \notin S
      BY <2>1, <2>5, <2>6 DEF Holders
    <3>2. Cardinality(S) >= put[p].success_cnt /\ put[p].success_cnt \in Nat
      BY <2>6, CountingHasStarted DEF CopiesAreCounted
    <3> HIDE DEF S, T
    <3>3. /\ Cardinality(S) \in Nat /\ Cardinality(T) \in Nat /\ Cardinality(S) + 1 <= Cardinality(T)
      BY <3>1, CountOneMore
    <3>4. Cardinality(T) >= put'[p].success_cnt
      BY <2>6, <3>2, <3>3
    <3>5. QED  BY <3>4 DEF T
  <2>7. ASSUME NEW q \in Put, Newest(q)'
        PROVE  Cardinality(Holders(q)' \intersect Staying') >= put'[q].success_cnt
    <3>1. CASE q = p
      BY <1>2, <2>1, <2>2, <2>3, <2>6, <2>7, <3>1
    <3>2. CASE q # p
      <4>1. q \notin Started /\ put'[q] = put[q]
        BY <2>1, <2>2, <2>3, <2>7, <3>2
      <4>2. put'[q].success_cnt = 0
        BY <4>1, CountingHasStarted
      <4>3. QED  BY <1>3, <4>2
    <3>3. QED  BY <3>1, <3>2
  <2>8. QED  BY <2>7 DEF CopiesAreCounted
<1>6. ASSUME NEW p \in Put, PutReturn(p)
      PROVE  CopiesAreCounted'
  <2>1. UNCHANGED <<cmd, move>> /\ store' = store
    BY <1>6 DEF PutReturn
  <2>2. \A q \in Put : Newest(q)' = Newest(q) /\ put'[q].version = put[q].version
    BY <1>6, SameWrites
  <2>3. \A q \in Put : put'[q].success_cnt = put[q].success_cnt
    BY <1>6, ReturnMoves
  <2>4. \A q \in Put : Holders(q)' = Holders(q)
    BY <2>1, <2>2 DEF Holders
  <2>5. QED  BY <1>2, <2>1, <2>2, <2>3, <2>4 DEF CopiesAreCounted
<1>7. ASSUME NEW p \in Put, NEW n \in Server, NEW v \in ReadVersions, ClientPut(p, n, v)
      PROVE  CopiesAreCounted'
  <2>1. /\ Started' = Started \union {p} /\ p \notin Started
        /\ \A q \in Put \ {p} : put'[q] = put[q]
        /\ \A w \in Known : Precedes(w, put'[p].version)
    BY <1>7, NewWriteIsLast
  <2>2. put'[p].success_cnt = 0
    BY <1>7, BeginMoves
  <2>3. ASSUME NEW q \in Put, Newest(q)'
        PROVE  put'[q].success_cnt = 0
    <3>1. CASE q = p
      BY <2>2, <3>1
    <3>2. CASE q # p
      <4>1. q \notin Started
        <5>1. q \in Started => Precedes(put'[q].version, put'[p].version)
          BY <2>1, <3>2 DEF Known
        <5>2. QED  BY <2>1, <2>3, <5>1 DEF Newest
      <4>2. QED  BY <2>1, <3>2, <4>1, CountingHasStarted
    <3>3. QED  BY <3>1, <3>2
  <2>4. QED  BY <1>3, <2>3 DEF CopiesAreCounted
<1>8. QED  BY <1>1, <1>4, <1>5, <1>6, <1>7, StepKinds

-----------------------------------------------------------------------------
(* Who is responsible, and who has the writes                                *)

\* What one server gains, when a command begins, another one loses.
LEMMA ExchangeIsOne ==
  ASSUME TypeOK, CommandsAreOrderly, EnoughServers
  PROVE  /\ cmd.name = "JoinNetwork" =>
              /\ Loses \subseteq members /\ \A d, e \in Loses : d = e
              /\ Loses # {} => cmd.addr \in Gains
         /\ cmd.name = "LeaveNetwork" =>
              /\ Gains \subseteq After /\ \A d, e \in Gains : d = e
              /\ Loses \subseteq {cmd.addr}
              /\ Gains = {} => Loses = {}
<1> DEFINE Old == getReplicasNodes(members, REPLICA_N)
           New == getReplicasNodes(After, REPLICA_N)
<1>0. REPLICA_N \in Nat \ {0} /\ REPLICA_N \in Nat /\ members \in SUBSET Server
  BY ConstantFacts DEF TypeOK
<1>1. ASSUME cmd.name = "JoinNetwork"
      PROVE  /\ Loses \subseteq members /\ \A d, e \in Loses : d = e
             /\ Loses # {} => cmd.addr \in Gains
  <2>1. cmd.addr \in Server \ members /\ After = members \union {cmd.addr}
    BY <1>1 DEF CommandsAreOrderly, After
  <2>2. (\A d, e \in Old \ New : d = e) /\ (Old \ New # {} => cmd.addr \in New)
    <3> DEFINE Joined == getReplicasNodes(members \union {cmd.addr}, REPLICA_N)
    <3>1. /\ \A d, e \in Old \ Joined : d = e
          /\ Old \ Joined # {} => cmd.addr \in Joined
      BY <1>0, <2>1, OneServerMore
    <3>2. New = Joined
      BY <2>1
    <3> HIDE DEF Old, New, Joined
    <3>3. QED  BY <3>1, <3>2
  <2>3. Old \subseteq members
    BY <1>0, ListIsShort
  <2>4. QED  BY <2>1, <2>2, <2>3 DEF Loses, Gains
<1>2. ASSUME cmd.name = "LeaveNetwork"
      PROVE  /\ Gains \subseteq After /\ \A d, e \in Gains : d = e
             /\ Loses \subseteq {cmd.addr}
             /\ Gains = {} => Loses = {}
  <2>1. cmd.addr \in members /\ After = members \ {cmd.addr}
    BY <1>2 DEF CommandsAreOrderly, After
  <2>2. After \in SUBSET Server /\ cmd.addr \in Server \ After /\ members = After \union {cmd.addr}
    BY <1>0, <2>1
  <2>3. /\ Old \subseteq New \union {cmd.addr}
        /\ \A d, e \in New \ Old : d = e
        /\ New \ Old = {} => cmd.addr \notin Old
    <3>1. Cardinality(After) >= REPLICA_N
      BY DEF EnoughServers
    <3> DEFINE Joined == getReplicasNodes(After \union {cmd.addr}, REPLICA_N)
    <3>2. /\ Joined \subseteq New \union {cmd.addr}
          /\ \A d, e \in New \ Joined : d = e
          /\ New \ Joined # {} => cmd.addr \in Joined
          /\ New \ Joined = {} /\ Cardinality(After) >= REPLICA_N => cmd.addr \notin Joined
      <4>1. \A mem \in SUBSET Server : \A x \in Server \ mem :
              LET old == getReplicasNodes(mem, REPLICA_N)
                  new == getReplicasNodes(mem \union {x}, REPLICA_N)
              IN  /\ new \subseteq old \union {x}
                  /\ \A d, e \in old \ new : d = e
                  /\ old \ new # {} => x \in new
                  /\ old \ new = {} /\ Cardinality(mem) >= REPLICA_N => x \notin new
        BY <1>0, OneServerMore
      <4>2. After \in SUBSET Server /\ cmd.addr \in Server \ After
        BY <2>2
      <4> HIDE DEF After
      <4>3. QED  BY <4>1, <4>2
    <3>3. Old = Joined
      BY <2>2
    <3> HIDE DEF Old, New, Joined
    <3>4. QED  BY <3>1, <3>2, <3>3
  <2>4. New \subseteq After
    BY <1>0, <2>2, ListIsShort
  <2>5. QED  BY <2>3, <2>4 DEF Loses, Gains
<1>3. QED  BY <1>1, <1>2

LEMMA ResponsibleSame ==
  ASSUME UNCHANGED <<members, cmd>>
  PROVE  Responsible' = Responsible
BY DEF Responsible, Gains, Loses, After

LEMMA ResponsibleAtRest ==
  ASSUME TypeOK, cmd = NoCmd
  PROVE  Responsible = getReplicasNodes(members, REPLICA_N)
<1>1. cmd.todo = {} /\ After = members
  BY ConstantFacts DEF NoCmd, After, TypeOK
<1>2. QED  BY <1>1 DEF Responsible

\* Nobody stops being responsible when a command begins ...
LEMMA ResponsibleAtBegin ==
  ASSUME TypeOK, TypeOK', CommandsAreOrderly', RingsAgree, EnoughServers',
         NEW n \in Server, AdminJoin(n) \/ AdminLeave(n)
  PROVE  Responsible \subseteq Responsible'
<1>1. cmd = NoCmd /\ members' = members
  BY DEF AdminJoin, AdminLeave, Begins
<1>2. Responsible = getReplicasNodes(members, REPLICA_N)
  BY <1>1, ResponsibleAtRest
<1>3. /\ cmd'.name = "JoinNetwork" =>
           /\ Loses' \subseteq members' /\ \A d, e \in Loses' : d = e
           /\ Loses' # {} => cmd'.addr \in Gains'
      /\ cmd'.name = "LeaveNetwork" =>
           /\ Gains' \subseteq After' /\ \A d, e \in Gains' : d = e
           /\ Loses' \subseteq {cmd'.addr}
           /\ Gains' = {} => Loses' = {}
  <2>1. (TypeOK /\ CommandsAreOrderly /\ EnoughServers =>
          /\ cmd.name = "JoinNetwork" =>
               /\ Loses \subseteq members /\ \A d, e \in Loses : d = e
               /\ Loses # {} => cmd.addr \in Gains
          /\ cmd.name = "LeaveNetwork" =>
               /\ Gains \subseteq After /\ \A d, e \in Gains : d = e
               /\ Loses \subseteq {cmd.addr}
               /\ Gains = {} => Loses = {})'
    BY ExchangeIsOne, PTL
  <2>2. QED  BY <2>1
<1>4. Loses' = {} => Responsible \subseteq Responsible'
  BY <1>1, <1>2 DEF Responsible, Loses
<1>5. CASE AdminJoin(n)
  <2>1. cmd'.name = "JoinNetwork" /\ cmd'.todo = members
    BY <1>5 DEF AdminJoin, Begins
  <2>2. Loses' \intersect cmd'.todo = Loses'
    BY <1>1, <1>3, <2>1
  <2>3. Loses' # {} => Responsible' = getReplicasNodes(members', REPLICA_N)
    BY <2>1, <2>2 DEF Responsible
  <2>4. QED  BY <1>1, <1>2, <1>4, <2>3
<1>6. CASE AdminLeave(n)
  <2>1. cmd'.name = "LeaveNetwork" /\ cmd'.addr = n /\ cmd'.todo = stubs[n] /\ n \in members
    BY <1>6 DEF AdminLeave, Begins
  <2>2. stubs[n] = members \ {n} /\ After' = members \ {n}
    BY <1>1, <2>1, RingsAtRest DEF After
  <2>3. Gains' \intersect cmd'.todo = Gains'
    BY <1>3, <2>1, <2>2
  <2>4. Gains' # {} => Responsible' = getReplicasNodes(members', REPLICA_N)
    BY <2>1, <2>3 DEF Responsible
  <2>5. QED  BY <1>1, <1>2, <1>3, <1>4, <2>1, <2>4
<1>7. QED  BY <1>5, <1>6

\* ... and when it is over those listed after it are.
LEMMA ResponsibleAtReturn ==
  ASSUME TypeOK, TypeOK', Return
  PROVE  Responsible' = Responsible
<1>1. cmd.todo = {} /\ members' = After /\ cmd' = NoCmd
  BY DEF Return
<1>2. Responsible = getReplicasNodes(After, REPLICA_N)
  BY <1>1 DEF Responsible
<1>3. (TypeOK /\ cmd = NoCmd => Responsible = getReplicasNodes(members, REPLICA_N))'
  BY ResponsibleAtRest, PTL
<1>4. QED  BY <1>1, <1>2, <1>3

\* In between the giver stops being responsible only when it is time for the
\* taker to be, and then the key is one that moves.
LEMMA ResponsibleAtHandover ==
  ASSUME TypeOK, CommandsAreOrderly, RingsAgree, EnoughServers,
         move.stage # "none", Leaves(move.peer), members' = members
  PROVE  /\ Responsible \ {Giver} \subseteq Responsible'
         /\ ~(Responsible \subseteq Responsible') => KeyMoves
         /\ KeyMoves /\ Giver \in Responsible => Taker \in Responsible' \ Responsible
<1> DEFINE peer == move.peer
           Old == getReplicasNodes(members, REPLICA_N)
           New == getReplicasNodes(After, REPLICA_N)
<1>1. /\ cmd.name \in {"JoinNetwork", "LeaveNetwork"}
      /\ peer \in cmd.todo /\ peer \in Server /\ cmd.addr \in Server /\ cmd.addr # peer
  BY TransferIsBetween
<1>2. /\ cmd'.name = cmd.name /\ cmd'.addr = cmd.addr /\ cmd'.todo = cmd.todo \ {peer}
  BY DEF Leaves, TypeOK
<1>3. After' = After /\ Loses' = Loses /\ Gains' = Gains
  BY <1>2 DEF After, Loses, Gains
<1>4. Old' = Old /\ New' = New
  BY <1>3
<1>5. CASE cmd.name = "JoinNetwork"
  <2>1. /\ \A d, e \in Loses : d = e
        /\ Loses # {} => cmd.addr \in Gains
    BY <1>5, ExchangeIsOne
  <2>2. peer \in members /\ Told(peer)
    BY <1>1, <1>5 DEF CommandsAreOrderly, Told
  <2>3. ring[peer] = After
    BY <1>1, <2>2 DEF RingsAgree
  <2>4. KeyMoves <=> peer \notin New
    BY <1>5, <2>3 DEF KeyMoves, getJoinTransferKey, checkDataBelonging
  <2>5. Giver = peer /\ Taker = cmd.addr
    BY <1>5 DEF Giver, Taker
  <2>6. /\ Responsible = IF Loses \intersect cmd.todo = {} THEN New ELSE Old
        /\ Responsible' = IF Loses \intersect (cmd.todo \ {peer}) = {} THEN New ELSE Old
    BY <1>2, <1>3, <1>4, <1>5 DEF Responsible
  <2>7. Loses = Old \ New /\ Gains = New \ Old
    BY DEF Loses, Gains
  <2> HIDE DEF Old, New, peer
  <2>8. CASE Loses \intersect cmd.todo = {}
    BY <2>4, <2>5, <2>6, <2>8
  <2>9. CASE Loses \intersect cmd.todo # {}
    <3>1. PICK d \in Loses : Loses = {d} /\ d \in cmd.todo
      BY <2>1, <2>9
    <3>2. CASE peer = d
      <4>1. Responsible = Old /\ Responsible' = New
        BY <2>6, <3>1, <3>2
      <4>2. QED  BY <2>1, <2>4, <2>5, <2>7, <3>1, <3>2, <4>1
    <3>3. CASE peer # d
      <4>1. Responsible = Old /\ Responsible' = Old /\ peer \notin Loses
        BY <2>6, <3>1, <3>3
      <4>2. QED  BY <2>4, <2>5, <2>7, <4>1
    <3>4. QED  BY <3>2, <3>3
  <2>10. QED  BY <2>8, <2>9
<1>6. CASE cmd.name = "LeaveNetwork"
  <2>1. (\A d, e \in Gains : d = e) /\ Loses \subseteq {cmd.addr}
    BY <1>6, ExchangeIsOne
  <2>2. cmd.old = members /\ ring[cmd.addr] = After
    BY <1>6 DEF RingsAgree, NoCmd
  <2>3. KeyMoves <=> peer \in New \ Old
    BY <1>6, <2>2 DEF KeyMoves, getLeaveTransferKey, checkDataBelonging
  <2>4. Giver = cmd.addr /\ Taker = peer
    BY <1>6 DEF Giver, Taker
  <2>5. /\ Responsible = IF Gains \intersect cmd.todo = {} THEN New ELSE Old
        /\ Responsible' = IF Gains \intersect (cmd.todo \ {peer}) = {} THEN New ELSE Old
    BY <1>2, <1>3, <1>4, <1>6 DEF Responsible
  <2>6. Loses = Old \ New /\ Gains = New \ Old /\ peer \in cmd.todo
    BY <1>1 DEF Loses, Gains
  <2> HIDE DEF Old, New, peer
  <2>7. CASE Gains \intersect cmd.todo = {}
    BY <2>3, <2>5, <2>6, <2>7
  <2>8. CASE Gains \intersect cmd.todo # {}
    <3>1. PICK d \in Gains : Gains = {d} /\ d \in cmd.todo
      BY <2>1, <2>8
    <3>2. CASE peer = d
      <4>1. Responsible = Old /\ Responsible' = New
        BY <2>5, <3>1, <3>2
      <4>2. QED  BY <2>1, <2>3, <2>4, <2>6, <3>1, <3>2, <4>1
    <3>3. CASE peer # d
      <4>1. Responsible = Old /\ Responsible' = Old /\ peer \notin Gains
        BY <2>5, <3>1, <3>3
      <4>2. QED  BY <2>3, <2>6, <4>1
    <3>4. QED  BY <3>2, <3>3
  <2>9. QED  BY <2>7, <2>8
<1>7. QED  BY <1>1, <1>5, <1>6

\* A giver that hands over, or stops being responsible, is made up for.
LEMMA HaveItAtHandover ==
  ASSUME TypeOK, PutProgress, RecordsAreWritten, CommandsAreOrderly, RingsAgree, EnoughServers, Ordered,
         TransferKeepsTrack, ~hurt, TransferRead \/ TransferRemove \/ TransferRefused, Leaves(move.peer),
         NEW p \in Started
  PROVE  LET S == Holders(p) \intersect Responsible
             T == Holders(p)' \intersect Responsible'
         IN  S \subseteq T \/ (S \ {Giver} \subseteq T /\ Taker \in T \ S)
<1> DEFINE S == Holders(p) \intersect Responsible
           T == Holders(p)' \intersect Responsible'
<1>1. /\ UNCHANGED <<members, put>> /\ move.stage # "none" /\ p \in Put
      /\ put[p].version \in Version /\ put[p].version # NoVersion
  BY TransfersKeepNetwork, CountingHasStarted DEF Started
<1>2. /\ Responsible \ {Giver} \subseteq Responsible'
      /\ ~(Responsible \subseteq Responsible') => KeyMoves
      /\ KeyMoves /\ Giver \in Responsible => Taker \in Responsible' \ Responsible
  BY <1>1, ResponsibleAtHandover
<1>3. /\ Holders(p) \ {Giver} \subseteq Holders(p)'
      /\ ~(move.stage = "accepted" /\ TransferRemove) => Holders(p) \subseteq Holders(p)'
  BY <1>1, AdminKeepsHolders DEF Admin
<1>4. S \ {Giver} \subseteq T
  BY <1>2, <1>3
<1>5. Giver \in Server /\ Taker \in Server /\ Giver # Taker
  BY <1>1, TransferIsBetween
<1>6. ASSUME Giver \in S
      PROVE  Giver \in T \/ Taker \in T \ S
  <2>1. CASE TransferRead
    <3>1. ~Moves /\ Holders(p) \subseteq Holders(p)'
      <4>1. move.stage = "told" /\ (~Moves \/ move'.stage = "sent")
        BY <2>1, TransferMoves
      <4>2. move'.stage = "none"
        BY DEF Leaves, NoMove
      <4>3. QED  BY <1>3, <4>1, <4>2
    <3>2. store[Giver] # Absent
      <4>1. SUFFICES ASSUME store[Giver].version = NoVersion PROVE FALSE
        BY DEF Absent
      <4>2. NotAbove(put[p].version, NoVersion)
        BY <1>6, <4>1 DEF Holders
      <4>3. QED  BY <1>1, <4>2, OrderOfVersions
    <3>3. ~KeyMoves
      BY <3>1, <3>2 DEF Moves
    <3>4. QED  BY <1>2, <1>6, <3>1, <3>3
  <2>2. CASE TransferRemove
    <3>1. move.stage = "accepted"
      BY <2>2, TransferMoves
    <3>2. KeyMoves /\ store[Giver] = store[Taker]
      BY <3>1 DEF CommandsAreOrderly, TransferKeepsTrack
    <3>3. Taker \in Holders(p)'
      BY <1>3, <1>5, <1>6, <3>2 DEF Holders
    <3>4. QED  BY <1>2, <1>6, <3>2, <3>3
  <2>3. CASE TransferRefused
    <3>1. move.stage = "refused" /\ store' = store
      BY <2>3, TransferMoves
    <3>2. KeyMoves /\ NotAbove(store[Giver].version, store[Taker].version)
      BY <3>1 DEF CommandsAreOrderly, TransferKeepsTrack
    <3>3. store[Giver].version \in Version /\ store[Taker].version \in Version
      BY <1>5 DEF TypeOK, Record
    <3>4. NotAbove(put[p].version, store[Taker].version)
      <4>1. NotAbove(put[p].version, store[Giver].version)
        BY <1>6 DEF Holders
      <4>2. QED  BY <1>1, <3>2, <3>3, <4>1, OrderOfVersions
    <3>5. Taker \in Holders(p)'
      BY <1>1, <1>5, <3>1, <3>4 DEF Holders
    <3>6. QED  BY <1>2, <1>6, <3>2, <3>5
  <2>4. QED  BY <2>1, <2>2, <2>3
<1>7. Giver \notin S => S \subseteq T
  BY <1>4
<1>8. Giver \in T => S \subseteq T
  BY <1>4
<1>9. QED  BY <1>4, <1>6, <1>7, <1>8

\* A step of the admin leaves as many of the servers responsible with a write.
LEMMA HaveItAdmin ==
  ASSUME TypeOK, PutProgress, RecordsAreWritten, CommandsAreOrderly, RingsAgree, EnoughServers, EnoughServers',
         Ordered, TransferKeepsTrack, ~hurt', Admin, ResponsibleHaveIt
  PROVE  ResponsibleHaveIt'
<1>1. put' = put /\ TypeOK' /\ CommandsAreOrderly' /\ ~hurt
  BY AdminKeepsPuts, TypeStep, OrderlyStep, HistoryGrows DEF Next
<1>2. SUFFICES ASSUME NEW p \in Put, Cardinality(Holders(p) \intersect Responsible) >= put[p].near_cnt
               PROVE  Cardinality(Holders(p)' \intersect Responsible') >= put[p].near_cnt
  BY <1>1 DEF ResponsibleHaveIt
<1> DEFINE S == Holders(p) \intersect Responsible
           T == Holders(p)' \intersect Responsible'
<1>3. S \in SUBSET Server /\ T \in SUBSET Server /\ put[p].near_cnt \in Nat
  BY CountingHasStarted DEF Holders
<1>4. p \notin Started => put[p].near_cnt = 0
  BY CountingHasStarted
<1>5. ASSUME S \subseteq T \/ (S \ {Giver} \subseteq T /\ Taker \in T \ S)
      PROVE  Cardinality(T) >= put[p].near_cnt
  <2>1. Cardinality(S) >= put[p].near_cnt
    BY <1>2
  <2> HIDE DEF S, T
  <2>2. /\ Cardinality(S) \in Nat /\ Cardinality(T) \in Nat /\ Cardinality(S) <= Cardinality(T)
    <3>1. CASE S \subseteq T
      BY <1>3, <3>1, CountKept
    <3>2. CASE S \ {Giver} \subseteq T /\ Taker \in T \ S
      BY <1>3, <3>2, CountKept
    <3>3. QED  BY <1>5, <3>1, <3>2
  <2>3. QED  BY <1>3, <2>1, <2>2
<1>6. ASSUME Holders(p) \subseteq Holders(p)', Responsible \subseteq Responsible'
      PROVE  S \subseteq T
  BY <1>6
<1>7. ~(move.stage = "accepted" /\ TransferRemove) => Holders(p) \subseteq Holders(p)'
  BY AdminKeepsHolders
<1>8. CASE p \notin Started
  <2>1. Cardinality(T) \in Nat
    BY <1>3, CountKept
  <2>2. QED  BY <1>4, <1>8, <2>1
<1>9. CASE p \in Started
  <2>1. ASSUME NEW n \in Server, AdminJoin(n) \/ AdminLeave(n)
        PROVE  S \subseteq T
    <3>1. Responsible \subseteq Responsible'
      BY <1>1, <2>1, ResponsibleAtBegin
    <3>2. move.stage = "none"
      BY <2>1 DEF AdminJoin, AdminLeave, Begins, CommandsAreOrderly, NoMove
    <3>3. QED  BY <1>6, <1>7, <3>1, <3>2
  <2>2. ASSUME NEW n \in Server, JoinNetwork(n) \/ LeaveNetwork(n)
        PROVE  S \subseteq T
    <3>1. UNCHANGED <<members, cmd>> /\ move.stage = "none"
      BY <2>2 DEF JoinNetwork, LeaveNetwork, Called, NoMove
    <3>2. QED  BY <1>6, <1>7, <3>1, ResponsibleSame
  <2>3. CASE Return
    <3>1. move.stage = "none" /\ Responsible' = Responsible
      BY <1>1, <2>3, ResponsibleAtReturn DEF Return, NoMove
    <3>2. QED  BY <1>5, <1>6, <1>7, <3>1
  <2>4. CASE TransferPut
    <3>1. UNCHANGED <<members, cmd>> /\ move.stage = "sent"
      BY <2>4 DEF TransferPut
    <3>2. QED  BY <1>5, <1>6, <1>7, <3>1, ResponsibleSame
  <2>5. ~TransferBreaks
    BY <1>1, TransferMoves
  <2>6. CASE TransferRead \/ TransferRemove \/ TransferRefused
    <3>1. CASE Leaves(move.peer)
      <4>1. S \subseteq T \/ (S \ {Giver} \subseteq T /\ Taker \in T \ S)
        BY <1>1, <1>9, <2>6, <3>1, HaveItAtHandover
      <4>2. QED  BY <1>5, <4>1
    <3>2. CASE ~Leaves(move.peer)
      <4>1. UNCHANGED <<members, cmd>> /\ ~TransferRemove
        BY <2>6, <3>2, TransferMoves, TransfersKeepNetwork
      <4>2. QED  BY <1>5, <1>6, <1>7, <4>1, ResponsibleSame
    <3>3. QED  BY <3>1, <3>2
  <2>7. QED  BY <1>5, <2>1, <2>2, <2>3, <2>4, <2>5, <2>6 DEF Admin
<1>10. QED  BY <1>8, <1>9

\* A put runs beside no command: the members are those responsible.
LEMMA AttemptIsNear ==
  ASSUME TypeOK, PutProgress, CommandsAreOrderly, RunsAlone,
         NEW p \in Put, NEW m \in Server, Visits(p, m), checkDataBelonging(m, members)
  PROVE  m \in Responsible
<1>1. Running(p)
  BY AttemptStores
<1>2. cmd = NoCmd
  BY <1>1, NothingBesidePuts
<1>3. QED  BY <1>2, ResponsibleAtRest DEF checkDataBelonging

LEMMA HaveItStep ==
  ASSUME TypeOK, PutProgress, RecordsAreWritten, CommandsAreOrderly, RingsAgree, EnoughServers, EnoughServers',
         [Next]_vars, Ordered => VersionsAreConsecutive, ~overlap => RunsAlone, RunningIsNewest,
         TransferKeepsTrack, ResponsibleHaveIt, Ordered', ~overlap', ~hurt'
  PROVE  ResponsibleHaveIt'
<1>0. Ordered /\ RunsAlone /\ REPLICA_N \in Nat
  BY OrderedBefore, AloneStep, ConstantFacts
<1>1. CASE Admin
  BY <1>0, <1>1, HaveItAdmin
<1>2. ASSUME NEW p \in Put, put'[p].near_cnt = put[p].near_cnt, Holders(p) \subseteq Holders(p)', UNCHANGED <<members, cmd>>
      PROVE  Cardinality(Holders(p)' \intersect Responsible') >= put'[p].near_cnt
  <2> DEFINE S == Holders(p) \intersect Responsible
             T == Holders(p)' \intersect Responsible'
  <2>1. S \in SUBSET Server /\ T \in SUBSET Server /\ S \subseteq T /\ put[p].near_cnt \in Nat
    BY <1>2, CountingHasStarted, ResponsibleSame DEF Holders
  <2>2. Cardinality(S) >= put[p].near_cnt
    BY <1>2 DEF ResponsibleHaveIt
  <2> HIDE DEF S, T
  <2>3. /\ Cardinality(S) \in Nat /\ Cardinality(T) \in Nat /\ Cardinality(S) <= Cardinality(T)
    BY <2>1, CountKept
  <2>4. Cardinality(T) >= put'[p].near_cnt
    BY <1>2, <2>1, <2>2, <2>3
  <2>5. QED  BY <2>4 DEF T
<1>3. ASSUME NEW p \in Put, put'[p].near_cnt = 0
      PROVE  Cardinality(Holders(p)' \intersect Responsible') >= put'[p].near_cnt
  <2>1. Holders(p)' \intersect Responsible' \in SUBSET Server
    BY DEF Holders
  <2>2. Cardinality(Holders(p)' \intersect Responsible') \in Nat
    BY <2>1, CountKept
  <2>3. QED  BY <1>3, <2>2
<1>4. ASSUME NEW p \in Put, put'[p] = put[p], UNCHANGED <<members, cmd>>,
             p \in Started => Holders(p) \subseteq Holders(p)'
      PROVE  Cardinality(Holders(p)' \intersect Responsible') >= put'[p].near_cnt
  <2>1. CASE p \in Started
    BY <1>2, <1>4, <2>1
  <2>2. CASE p \notin Started
    BY <1>3, <1>4, <2>2, CountingHasStarted
  <2>3. QED  BY <2>1, <2>2
<1>5. ASSUME store' = store
      PROVE  \A p \in Put : put'[p].version = put[p].version => Holders(p)' = Holders(p)
  BY <1>5 DEF Holders
<1>6. ASSUME UNCHANGED vars PROVE ResponsibleHaveIt'
  <2>1. UNCHANGED <<members, cmd, put, store>>
    BY <1>6 DEF vars
  <2>2. QED  BY <1>4, <1>5, <2>1 DEF ResponsibleHaveIt
<1>7. ASSUME NEW p \in Put, NEW m \in Server, Visits(p, m)
      PROVE  ResponsibleHaveIt'
  <2>1. /\ m \notin Holders(p) /\ Holders(p) \subseteq Holders(p)'
        /\ put'[p].success_cnt = put[p].success_cnt + 1 => m \in Holders(p)'
        /\ \A q \in Started \ {p} : Holders(q) \subseteq Holders(q)'
    BY <1>0, <1>7, AttemptIsNew
  <2>2. /\ \/ put'[p].near_cnt = put[p].near_cnt
           \/ /\ put'[p].near_cnt = put[p].near_cnt + 1 /\ checkDataBelonging(m, members)
              /\ put'[p].success_cnt = put[p].success_cnt + 1
        /\ \A q \in Put \ {p} : put'[q] = put[q]
    BY <1>7, AttemptMoves
  <2>3. UNCHANGED <<members, cmd>>
    BY <1>7, PutsKeepNetwork
  <2>4. ASSUME put'[p].near_cnt = put[p].near_cnt + 1, checkDataBelonging(m, members),
               put'[p].success_cnt = put[p].success_cnt + 1
        PROVE  Cardinality(Holders(p)' \intersect Responsible') >= put'[p].near_cnt
    <3> DEFINE S == Holders(p) \intersect Responsible
               T == Holders(p)' \intersect Responsible'
    <3>1. m \in Responsible /\ Responsible' = Responsible
      BY <1>0, <1>7, <2>3, <2>4, AttemptIsNear, ResponsibleSame
    <3>2. S \in SUBSET Server /\ T \in SUBSET Server /\ S \subseteq T /\ m \in T /\ m \notin S
      BY <2>1, <2>4, <3>1 DEF Holders
    <3>3. Cardinality(S) >= put[p].near_cnt /\ put[p].near_cnt \in Nat
      BY CountingHasStarted DEF ResponsibleHaveIt
    <3> HIDE DEF S, T
    <3>4. /\ Cardinality(S) \in Nat /\ Cardinality(T) \in Nat /\ Cardinality(S) + 1 <= Cardinality(T)
      BY <3>2, CountOneMore
    <3>5. Cardinality(T) >= put'[p].near_cnt
      BY <2>4, <3>3, <3>4
    <3>6. QED  BY <3>5 DEF T
  <2>5. Cardinality(Holders(p)' \intersect Responsible') >= put'[p].near_cnt
    BY <1>2, <2>1, <2>2, <2>3, <2>4
  <2>6. ASSUME NEW q \in Put \ {p}
        PROVE  Cardinality(Holders(q)' \intersect Responsible') >= put'[q].near_cnt
    BY <1>4, <2>1, <2>2, <2>3
  <2>7. QED  BY <2>5, <2>6 DEF ResponsibleHaveIt
<1>8. ASSUME NEW p \in Put, PutReturn(p)
      PROVE  ResponsibleHaveIt'
  <2>1. UNCHANGED <<members, cmd, store>>
    BY <1>8 DEF PutReturn
  <2>2. \A q \in Put : put'[q].version = put[q].version
    BY <1>8, SameWrites
  <2>3. \A q \in Put : put'[q].near_cnt = put[q].near_cnt
    BY <1>8, ReturnMoves
  <2>4. \A q \in Put : Holders(q)' = Holders(q)
    BY <1>5, <2>1, <2>2
  <2>5. QED  BY <1>2, <2>1, <2>3, <2>4 DEF ResponsibleHaveIt
<1>9. ASSUME NEW p \in Put, NEW n \in Server, NEW v \in ReadVersions, ClientPut(p, n, v)
      PROVE  ResponsibleHaveIt'
  <2>1. put'[p].near_cnt = 0 /\ \A q \in Put \ {p} : put'[q] = put[q]
    BY <1>9, BeginMoves
  <2>2. UNCHANGED <<members, cmd, store>>
    BY <1>9 DEF ClientPut
  <2>3. ASSUME NEW q \in Put
        PROVE  Cardinality(Holders(q)' \intersect Responsible') >= put'[q].near_cnt
    <3>1. CASE q = p
      BY <1>3, <2>1, <3>1
    <3>2. CASE q # p
      BY <1>4, <1>5, <2>1, <2>2, <3>2
    <3>3. QED  BY <3>1, <3>2
  <2>4. QED  BY <2>3 DEF ResponsibleHaveIt
<1>10. QED  BY <1>1, <1>6, <1>7, <1>8, <1>9, StepKinds

-----------------------------------------------------------------------------
(* The invariant                                                             *)

LEMMA IndInit == Init => IndInv
<1>1. SUFFICES ASSUME Init PROVE IndInv
  OBVIOUS
<1>2. ShapeInv
  BY <1>1, ShapeInit
<1>3. \A p \in Put : put[p] = Idle /\ put[p].success_cnt = 0 /\ put[p].near_cnt = 0
  BY <1>1 DEF Init, Idle
<1>4. Started = {} /\ \A p \in Put : ~Running(p)
  BY <1>3 DEF Started, Running, Idle
<1>5. VersionsAreConsecutive
  BY <1>4 DEF VersionsAreConsecutive
<1>6. RunsAlone /\ RunningIsNewest
  BY <1>4 DEF RunsAlone, RunningIsNewest
<1>7. TransferKeepsTrack
  BY <1>1 DEF Init, NoMove, TransferKeepsTrack
<1>8. \A p \in Put : \A Q \in SUBSET Server :
           /\ Cardinality(Holders(p) \intersect Q) >= put[p].success_cnt
           /\ Cardinality(Holders(p) \intersect Q) >= put[p].near_cnt
  <2>1. TAKE p \in Put
  <2>2. TAKE Q \in SUBSET Server
  <2>3. Holders(p) \intersect Q \in SUBSET Server
    BY DEF Holders
  <2>4. Cardinality(Holders(p) \intersect Q) \in Nat
    BY <2>3, CountKept
  <2>5. QED  BY <1>3, <2>4
<1>9. CopiesAreCounted
  <2>1. Staying \in SUBSET Server
    BY DEF Staying
  <2>2. QED  BY <1>8, <2>1 DEF CopiesAreCounted
<1>10. ResponsibleHaveIt
  <2>1. /\ cmd = NoCmd /\ TypeOK
    BY <1>1, <1>2 DEF Init, ShapeInv
  <2>2. Responsible \in SUBSET Server
    BY <2>1, ResponsibleAtRest, ListIsShort, ConstantFacts DEF TypeOK
  <2>3. QED  BY <1>8, <2>2 DEF ResponsibleHaveIt
<1>11. QED  BY <1>2, <1>5, <1>6, <1>7, <1>9, <1>10 DEF IndInv

LEMMA IndStep == IndInv /\ [Next]_vars => IndInv'
<1>1. SUFFICES ASSUME IndInv, [Next]_vars PROVE IndInv'
  OBVIOUS
<1>2. ShapeInv /\ ShapeInv'
  BY <1>1, ShapeStep DEF IndInv
<1>3. TypeOK /\ PutProgress /\ RecordsAreWritten /\ CommandsAreOrderly
  BY <1>2 DEF ShapeInv
<1>4. /\ overlap => overlap'
      /\ hurt => hurt'
      /\ short => short'
      /\ stale => stale'
  BY <1>1, <1>3, HistoryGrows
<1>5. Ordered' => Ordered
  BY <1>1, <1>3, OrderedBefore
<1>6. (Ordered => VersionsAreConsecutive) /\ (~overlap => RunsAlone)
  BY <1>1 DEF IndInv
<1>7. Ordered' => VersionsAreConsecutive'
  BY <1>1, <1>3, <1>6, VersionsStep
<1>8. ~overlap' => RunsAlone'
  BY <1>1, <1>3, <1>6, AloneStep
<1>9. ASSUME Ordered', ~overlap'
      PROVE  RunningIsNewest' /\ TransferKeepsTrack' /\ CopiesAreCounted'
  <2>1. RunningIsNewest /\ TransferKeepsTrack /\ CopiesAreCounted
    BY <1>1, <1>4, <1>5, <1>9 DEF IndInv
  <2>2. RunningIsNewest'
    BY <1>1, <1>3, <1>6, <1>9, <2>1, NewestStep
  <2>3. TransferKeepsTrack'
    BY <1>1, <1>3, <1>6, <1>9, <2>1, TrackStep
  <2>4. CopiesAreCounted'
    BY <1>1, <1>3, <1>6, <1>9, <2>1, CopiesStep
  <2>5. QED  BY <2>2, <2>3, <2>4
<1>10. ASSUME Ordered', ~overlap', ~hurt', ~short', ~stale'
       PROVE  ResponsibleHaveIt'
  <2>1. Ordered /\ ~overlap /\ ~hurt /\ ~short /\ ~stale
    BY <1>4, <1>5, <1>10
  <2>2. RunningIsNewest /\ TransferKeepsTrack /\ ResponsibleHaveIt
    BY <1>1, <2>1 DEF IndInv
  <2>3. RingsAgree /\ EnoughServers /\ EnoughServers'
    BY <1>2, <1>10, <2>1 DEF ShapeInv
  <2>4. QED  BY <1>1, <1>3, <1>6, <1>10, <2>2, <2>3, HaveItStep
<1>11. QED  BY <1>2, <1>7, <1>8, <1>9, <1>10 DEF IndInv

\* The shape of the state, the order of the writes, what a transfer keeps of
\* the record it carries, and how many servers have each write.
THEOREM Invariance == Spec => []IndInv
<1>1. QED  BY IndInit, IndStep, PTL DEF Spec

\* A transfer gives a key away only when another server has it: the last write
\* is on as many servers as its put has counted.
THEOREM CopiesStay == Spec => []CountedCopiesStay
<1>1. IndInv => CountedCopiesStay
  <2>1. SUFFICES ASSUME IndInv, Ordered, ~overlap, NEW p \in Put, Newest(p)
                 PROVE  Cardinality(Holders(p)) >= put[p].success_cnt
    BY DEF CountedCopiesStay
  <2> DEFINE S == Holders(p) \intersect Staying
             T == Holders(p)
  <2>2. Cardinality(S) >= put[p].success_cnt
    BY <2>1 DEF IndInv, CopiesAreCounted
  <2>3. S \in SUBSET Server /\ T \in SUBSET Server /\ S \subseteq T /\ put[p].success_cnt \in Nat
    BY <2>1, CountingHasStarted DEF Holders, IndInv, ShapeInv
  <2> HIDE DEF S, T
  <2>4. /\ Cardinality(S) \in Nat /\ Cardinality(T) \in Nat /\ Cardinality(S) <= Cardinality(T)
    BY <2>3, CountKept
  <2>5. Cardinality(T) >= put[p].success_cnt
    BY <2>2, <2>3, <2>4
  <2>6. QED  BY <2>5 DEF T
<1>2. QED  BY <1>1, Invariance, PTL

\* After joins and leaves whose transfers went through, any R_COUNT of the
\* servers responsible for the key include one that has each write that W_COUNT
\* of those responsible counted, or one that followed it.
THEOREM ReadsAfterHandoff == Spec => []AckedStaysReadable
<1>1. IndInv => AckedStaysReadable
  <2>1. SUFFICES ASSUME IndInv, W_COUNT + R_COUNT > REPLICA_N, Ordered,
                        ~overlap, ~hurt, ~short, ~stale, cmd = NoCmd,
                        NEW p \in Put, NEW a \in SUBSET getReplicasNodes(members, REPLICA_N),
                        put[p].near_cnt >= W_COUNT, Cardinality(a) >= R_COUNT
                 PROVE  a \intersect Holders(p) # {}
    BY DEF AckedStaysReadable
  <2>2. TypeOK /\ PutProgress /\ ResponsibleHaveIt
    BY <2>1 DEF IndInv, ShapeInv
  <2>3. Responsible = getReplicasNodes(members, REPLICA_N)
    BY <2>1, <2>2, ResponsibleAtRest
  <2> DEFINE G == getReplicasNodes(members, REPLICA_N)
             S == Holders(p) \intersect G
  <2>4. put[p].near_cnt >= W_COUNT /\ put[p].near_cnt \in Nat
    BY <2>1, <2>2, CountingHasStarted
  <2>5. Cardinality(S) >= put[p].near_cnt
    BY <2>1, <2>2, <2>3, <2>4 DEF ResponsibleHaveIt
  <2>6. /\ REPLICA_N \in Nat /\ W_COUNT \in Nat /\ R_COUNT \in Nat
        /\ IsFiniteSet(G) /\ Cardinality(G) \in 0 .. REPLICA_N
    BY <2>2, ConstantFacts, ListIsShort DEF TypeOK
  <2>7. S \in SUBSET G /\ a \in SUBSET G
    BY <2>1
  <2>8. /\ IsFiniteSet(S) /\ IsFiniteSet(a) /\ Cardinality(S) \in Nat /\ Cardinality(a) \in Nat
    <3> HIDE DEF G, S
    <3>1. QED  BY <2>6, <2>7, FS_Subset, FS_CardinalityType
  <2>9. a \intersect S # {}
    <3> HIDE DEF G, S
    <3>1. Cardinality(a) + Cardinality(S) > Cardinality(G)
      BY <2>1, <2>4, <2>5, <2>6, <2>8
    <3>2. QED  BY <2>6, <2>7, <3>1, FS_MajoritiesIntersect
  <2>10. QED  BY <2>9
<1>2. QED  BY <1>1, Invariance, PTL

=============================================================================
