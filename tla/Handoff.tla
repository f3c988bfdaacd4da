------------------------------ MODULE Handoff ------------------------------
(***************************************************************************)
(* What joins and leaves do to the data: the transfers of JoinNetwork and  *)
(* leaveNetwork in src/gossip_node.cpp, which change who is responsible    *)
(* for a key and move its record, next to the ClientPut handlers that      *)
(* write it meanwhile.                                                     *)
(*                                                                         *)
(* One key: Preference is the order in which its walk round the ring meets *)
(* the servers, and a ring is the set of its members (module HashRing); a  *)
(* list of servers that is walked in this order is a set as well.          *)
(* The admin gives one command at a time, joins servers that its table     *)
(* does not name and leaves servers that it does, and the calls of the     *)
(* commands themselves reach their peers (module Membership).  Processes   *)
(* do not die, PeerPut checks and stores in one step, and a put that is not  *)
(* taken changes nothing (module Replication).  How old a heartbeat is,    *)
(* above all right after a join, when the joiner's table names only        *)
(* itself, is in module Gossip: here any peer may be skipped.              *)
(***************************************************************************)
EXTENDS VersionVector, FiniteSets, Sequences, SequencesExt

CONSTANTS
  Put, Preference, REPLICA_N, W_COUNT, R_COUNT, NO_VALUE, NoServer,
  Tries,        \* how often leaveNetwork offers a key to a server
  MaxCommands,  \* how many commands the admin gives (bound)
  MaxBroken     \* how many PeerPut calls may break (bound)

ASSUME NoneOfThem == NoServer \notin Server /\ NO_VALUE \notin Put
ASSUME PreferenceIsEveryone ==
  Preference \in Seq(Server) /\ ToSet(Preference) = Server /\ Len(Preference) = Cardinality(Server)
ASSUME CountsAreNat ==
  {REPLICA_N, W_COUNT, R_COUNT, Tries} \subseteq Nat \ {0} /\ {MaxCommands, MaxBroken} \subseteq Nat

VARIABLES
  ring,     \* ring[n]: the members of n's ring_
  stubs,    \* stubs[n]: the servers in n's stubs_
  store,    \* store[n]: the record of the key in n's StateMachine
  members,  \* the servers the admin takes for joined
  cmd,      \* the command under way, the peers still to call, the leaver's old_ring
  move,     \* the transfer to or from the peer it has called
  put,      \* put[p]: the ClientPut handler of request p
  issued, broken,
  overlap,  \* history: a put ran beside a command or another put
  hurt,     \* history: a transfer broke
  short,    \* history: fewer than REPLICA_N servers were left
  stale     \* history: a server joined with one on its ring that has gone

history == <<overlap, hurt, short, stale>>
vars == <<ring, stubs, store, members, cmd, move, put, issued, broken, history>>

-----------------------------------------------------------------------------
Record == [value : Put \union {NO_VALUE}, version : Version]
Absent == [value |-> NO_VALUE, version |-> NoVersion]

NoCmd == [name |-> "none", addr |-> NoServer, todo |-> {}, old |-> {}]
NoMove == [stage |-> "none", peer |-> NoServer, data |-> Absent, tries |-> 0]
Idle == [phase |-> "idle", node |-> NoServer, version |-> NoVersion, list |-> {},
         try_cnt |-> 0, success_cnt |-> 0, near_cnt |-> 0, ret |-> "none"]

TypeOK ==
  /\ ring \in [Server -> SUBSET Server] /\ stubs \in [Server -> SUBSET Server]
  /\ store \in [Server -> Record]
  /\ members \subseteq Server
  /\ cmd \in [name : {"none", "JoinNetwork", "LeaveNetwork"}, addr : Server \union {NoServer},
              todo : SUBSET Server, old : SUBSET Server]
  /\ move \in [stage : {"none", "told", "sent", "accepted", "refused"},
               peer : Server \union {NoServer}, data : Record, tries : 0 .. Tries]
  /\ put \in [Put -> [phase : {"idle", "loop", "done"}, node : Server \union {NoServer},
                      version : Version, list : SUBSET Server,
                      try_cnt : 0 .. 2 * REPLICA_N, success_cnt : 0 .. 2 * REPLICA_N,
                      near_cnt : 0 .. 2 * REPLICA_N, \* history: successes at responsible servers
                      ret : {"none", "OK", "FAILED"}]]
  /\ \A p \in Put : put[p].near_cnt <= put[p].success_cnt
  /\ issued \in 0 .. MaxCommands /\ broken \in 0 .. MaxBroken
  /\ {overlap, hurt, short, stale} \subseteq BOOLEAN

Running(p) == put[p].phase = "loop"

-----------------------------------------------------------------------------
(* The ring *)

Rank == [n \in Server |-> CHOOSE i \in DOMAIN Preference : Preference[i] = n]

\* The members of a ring that the walk meets before n.
Before(mem, n) == {m \in mem : Rank[m] < Rank[n]}

getReplicasNodes(mem, count) == {n \in mem : Cardinality(Before(mem, n)) < count}
checkDataBelonging(n, mem) == n \in getReplicasNodes(mem, REPLICA_N)

\* Enough servers are there from the start; all have joined before any data.
Init ==
  /\ members \in {m \in SUBSET Server : Cardinality(m) >= REPLICA_N}
  /\ ring = [n \in Server |-> IF n \in members THEN members ELSE {}]
  /\ stubs = [n \in Server |-> ring[n] \ {n}]
  /\ store = [n \in Server |-> Absent]
  /\ cmd = NoCmd /\ move = NoMove /\ put = [p \in Put |-> Idle]
  /\ issued = 0 /\ broken = 0
  /\ overlap = FALSE /\ hurt = FALSE /\ short = FALSE /\ stale = FALSE

-----------------------------------------------------------------------------
(* AdminCmd *)

Begins(name, n, peers) ==
  /\ cmd = NoCmd /\ issued < MaxCommands
  /\ issued' = issued + 1
  /\ cmd' = [name |-> name, addr |-> n, todo |-> peers, old |-> ring[n]]
  /\ overlap' = (overlap \/ \E p \in Put : Running(p))

AdminJoin(n) ==
  /\ n \notin members
  /\ Begins("JoinNetwork", n, members)
  /\ ring' = [ring EXCEPT ![n] = @ \union members \union {n}]
  /\ stubs' = [stubs EXCEPT ![n] = members]
  /\ stale' = (stale \/ ~(ring[n] \subseteq members))
  /\ UNCHANGED <<store, members, move, put, broken, hurt, short>>

AdminLeave(n) ==
  /\ n \in members
  /\ Begins("LeaveNetwork", n, stubs[n])
  /\ ring' = [ring EXCEPT ![n] = @ \ {n}]
  /\ short' = (short \/ Cardinality(members) <= REPLICA_N)
  /\ UNCHANGED <<stubs, store, members, move, put, broken, hurt, stale>>

Called(name, m) == cmd.name = name /\ m \in cmd.todo /\ move = NoMove

\* The handlers JoinNetwork and LeaveNetwork on m, up to the transfer.
JoinNetwork(m) ==
  /\ Called("JoinNetwork", m)
  /\ ring' = [ring EXCEPT ![m] = @ \union {cmd.addr}]
  /\ stubs' = [stubs EXCEPT ![m] = @ \union {cmd.addr}]
  /\ move' = [NoMove EXCEPT !.stage = "told", !.peer = m]
  /\ UNCHANGED <<store, members, cmd, put, issued, broken, history>>

LeaveNetwork(m) ==
  /\ Called("LeaveNetwork", m)
  /\ ring' = [ring EXCEPT ![m] = @ \ {cmd.addr}]
  /\ stubs' = [stubs EXCEPT ![m] = @ \ {cmd.addr}]
  /\ move' = [NoMove EXCEPT !.stage = "told", !.peer = m]
  /\ UNCHANGED <<store, members, cmd, put, issued, broken, history>>

\* The members when the command is over.
After == IF cmd.name = "JoinNetwork" THEN members \union {cmd.addr} ELSE members \ {cmd.addr}

Return ==
  /\ cmd # NoCmd /\ cmd.todo = {} /\ move = NoMove
  /\ members' = After
  /\ cmd' = NoCmd
  /\ UNCHANGED <<ring, stubs, store, move, put, issued, broken, history>>

-----------------------------------------------------------------------------
(* The transfer: from the peer called to the joiner, or from the leaver to   *)
(* the peer called                                                           *)

Giver == IF cmd.name = "JoinNetwork" THEN move.peer ELSE cmd.addr
Taker == IF cmd.name = "JoinNetwork" THEN cmd.addr ELSE move.peer

\* A slip: the key is tested before the joiner is on the ring.
getJoinTransferKey_TooEarly(m) == ~checkDataBelonging(m, ring[m] \ {cmd.addr})

\* A key that m is not responsible for (any more).
getJoinTransferKey(m) == ~checkDataBelonging(m, ring[m])

\* A slip: both tests look at the ring as it is.
getLeaveTransferKey_OneRing(m) ==
  ~checkDataBelonging(m, ring[cmd.addr]) /\ checkDataBelonging(m, ring[cmd.addr])

\* A key that m becomes responsible for.
getLeaveTransferKey(m) ==
  ~checkDataBelonging(m, cmd.old) /\ checkDataBelonging(m, ring[cmd.addr])

KeyMoves == IF cmd.name = "JoinNetwork" THEN getJoinTransferKey(move.peer)
                                        ELSE getLeaveTransferKey(move.peer)
Moves == store[Giver] # Absent /\ KeyMoves

\* The peer has nothing left to do.
Leaves(m) == move' = NoMove /\ cmd' = [cmd EXCEPT !.todo = @ \ {m}]

\* get_value and get_version; the record goes into the request.
TransferRead ==
  /\ move.stage = "told"
  /\ IF Moves
     THEN move' = [move EXCEPT !.stage = "sent", !.data = store[Giver], !.tries = 1] /\ cmd' = cmd
     ELSE Leaves(move.peer)
  /\ UNCHANGED <<ring, stubs, store, members, put, issued, broken, history>>

Accepts(m, r) == check_conflict_version(r.version, store[m].version) = 1

\* PeerPut on the taker.
TransferPut ==
  /\ move.stage = "sent"
  /\ IF Accepts(Taker, move.data)
     THEN store' = [store EXCEPT ![Taker] = move.data] /\ move' = [move EXCEPT !.stage = "accepted"]
     ELSE UNCHANGED store /\ move' = [move EXCEPT !.stage = "refused"]
  /\ UNCHANGED <<ring, stubs, members, cmd, put, issued, broken, history>>

\* The call breaks on its way to the taker or on its way back.
TransferBreaks ==
  /\ move.stage = "sent" /\ broken < MaxBroken
  /\ broken' = broken + 1 /\ hurt' = TRUE
  /\ \/ UNCHANGED store
     \/ Accepts(Taker, move.data) /\ store' = [store EXCEPT ![Taker] = move.data]
  /\ move' = [move EXCEPT !.stage = "refused"]
  /\ UNCHANGED <<ring, stubs, members, cmd, put, issued, overlap, short, stale>>

\* The key is removed, whatever it holds by now.
TransferRemove ==
  /\ move.stage = "accepted"
  /\ store' = [store EXCEPT ![Giver] = Absent]
  /\ Leaves(move.peer)
  /\ UNCHANGED <<ring, stubs, members, put, issued, broken, history>>

\* A slip: after the last try the key is removed all the same.
TransferRefused_Removes ==
  /\ move.stage = "refused"
  /\ store' = [store EXCEPT ![Giver] = Absent]
  /\ Leaves(move.peer)
  /\ UNCHANGED <<ring, stubs, members, put, issued, broken, history>>

\* A slip: the tries are counted one too far.
TransferRefused_OneMore ==
  /\ move.stage = "refused"
  /\ IF cmd.name = "LeaveNetwork" /\ move.tries <= Tries
     THEN /\ move' = [move EXCEPT !.stage = "sent", !.data = store[Giver], !.tries = @ + 1]
          /\ cmd' = cmd
     ELSE Leaves(move.peer)
  /\ UNCHANGED <<ring, stubs, store, members, put, issued, broken, history>>

\* leaveNetwork tries again; JoinNetwork answers without success.
TransferRefused ==
  /\ move.stage = "refused"
  /\ IF cmd.name = "LeaveNetwork" /\ move.tries < Tries
     THEN /\ move' = [move EXCEPT !.stage = "sent", !.data = store[Giver], !.tries = @ + 1]
          /\ cmd' = cmd
     ELSE Leaves(move.peer)
  /\ UNCHANGED <<ring, stubs, store, members, put, issued, broken, history>>

-----------------------------------------------------------------------------
(* Clients *)

\* A get or put looks up a stub for every peer that it calls.
Connected(n) == ring[n] \ {n} \subseteq stubs[n]

\* The servers of which a get that walks the ring mem may answer the records.
\* Any peer may be skipped or fail, and more than REPLICA_N answer only when the
\* REPLICA_N-th attempt has failed.
Answers(mem) ==
  LET list == getReplicasNodes(mem, 2 * REPLICA_N)
  IN  {a \in SUBSET list :
         /\ Cardinality(a) >= R_COUNT
         /\ \/ Cardinality(a) <= REPLICA_N
            \/ \E m \in list \ a : /\ Cardinality(Before(a, m)) < REPLICA_N
                                  /\ Cardinality(Before(list, m)) >= REPLICA_N - 1}

\* The records that a get, at any server, may meet.
Reads ==
  LET answered == UNION {Answers(mem) : mem \in {ring[n] : n \in {s \in Server : Connected(s)}}}
  IN  {{store[m] : m \in a} : a \in answered}

\* The versions that a client can attach after it.
ReadVersions == {reconcile_version({r.version : r \in get_latest_data(data)}) : data \in Reads}

\* A server on the list takes the request.  One that has missed a leave would
\* find no stub for a server on its list (module Membership), and is left out.
ClientPut(p, n, version) ==
  /\ put[p].phase = "idle"
  /\ n \in ring[n] /\ Connected(n) /\ version[n] < MaxVersion
  /\ LET list == getReplicasNodes(ring[n], 2 * REPLICA_N)
     IN  /\ n \in list
         /\ put' = [put EXCEPT ![p] = [@ EXCEPT !.phase = "loop", !.node = n, !.list = list,
                                                !.version = update_version(version, n)]]
  /\ overlap' = (overlap \/ cmd # NoCmd \/ \E q \in Put : Running(q))
  /\ UNCHANGED <<ring, stubs, store, members, cmd, move, issued, broken, hurt, short, stale>>

\* After a success the REPLICA_N-th attempt is the last, after a failure the
\* loop goes on to the end of the list.
Counted(op, m, success) ==
  [op EXCEPT !.try_cnt = @ + 1, !.success_cnt = @ + success,
             !.near_cnt = IF checkDataBelonging(m, members) THEN @ + success ELSE @,
             !.list = IF success = 1 /\ op.try_cnt + 1 = REPLICA_N THEN {} ELSE @ \ {m}]

\* The first server that is left of the list.
AtPeer(p, m) == Running(p) /\ m \in put[p].list /\ Before(put[p].list, m) = {}
\* Of a server that has left meanwhile there is neither stub nor heartbeat.
Reachable(p, m) == m = put[p].node \/ m \in stubs[put[p].node]
RecordOf(p) == [value |-> p, version |-> put[p].version]

PutAt(p, m) ==
  /\ AtPeer(p, m) /\ Reachable(p, m)
  /\ LET stores == m = put[p].node \/ Accepts(m, RecordOf(p))
     IN  /\ store' = IF stores THEN [store EXCEPT ![m] = RecordOf(p)] ELSE store
         /\ put' = [put EXCEPT ![p] = Counted(@, m, IF stores THEN 1 ELSE 0)]
  /\ UNCHANGED <<ring, stubs, members, cmd, move, issued, broken, history>>

PutBreaks(p, m) ==
  /\ AtPeer(p, m) /\ Reachable(p, m) /\ m # put[p].node /\ broken < MaxBroken
  /\ broken' = broken + 1
  /\ \/ UNCHANGED store
     \/ Accepts(m, RecordOf(p)) /\ store' = [store EXCEPT ![m] = RecordOf(p)]
  /\ put' = [put EXCEPT ![p] = Counted(@, m, 0)]
  /\ UNCHANGED <<ring, stubs, members, cmd, move, issued, history>>

\* The peer's last heartbeat is too old: it is passed over and not counted.
PutSkips(p, m) ==
  /\ AtPeer(p, m) /\ m # put[p].node
  /\ put' = [put EXCEPT ![p].list = @ \ {m}]
  /\ UNCHANGED <<ring, stubs, store, members, cmd, move, issued, broken, history>>

PutReturn(p) ==
  /\ Running(p) /\ put[p].list = {}
  /\ put' = [put EXCEPT ![p] = [@ EXCEPT !.phase = "done", !.node = NoServer, !.try_cnt = 0,
                                         !.ret = IF put[p].success_cnt >= W_COUNT THEN "OK" ELSE "FAILED"]]
  /\ UNCHANGED <<ring, stubs, store, members, cmd, move, issued, broken, history>>

-----------------------------------------------------------------------------
Admin ==
  \/ \E n \in Server : AdminJoin(n) \/ AdminLeave(n) \/ JoinNetwork(n) \/ LeaveNetwork(n)
  \/ TransferRead \/ TransferPut \/ TransferBreaks \/ TransferRemove \/ TransferRefused
  \/ Return

PutStep(p) ==
  \/ \E n \in Server : PutAt(p, n) \/ PutBreaks(p, n) \/ PutSkips(p, n)
  \/ PutReturn(p)

Next ==
  \/ Admin
  \/ \E p \in Put : PutStep(p)
  \/ \E p \in {q \in Put : put[q].phase = "idle"} : \E v \in ReadVersions, n \in Server : ClientPut(p, n, v)

Spec == Init /\ [][Next]_vars

\* Puts come one after another (what they do to each other is in module
\* Replication), beside commands or only between them.
TakeTurns == \A p, q \in Put : Running(p)' /\ Running(q)' => p = q

-----------------------------------------------------------------------------
Started == {p \in Put : put[p].phase # "idle"}
Acked == {p \in Put : put[p].ret = "OK"}

\* Each write knows the one before.
Ordered ==
  \A p, q \in Started : p # q => \/ Precedes(put[p].version, put[q].version)
                                \/ Precedes(put[q].version, put[p].version)

\* The servers whose record is that of p or of a write that followed it.
Holders(p) == {m \in Server : NotAbove(put[p].version, store[m].version)}

\* No write has followed p.
Newest(p) == ~ \E q \in Started : Precedes(put[p].version, put[q].version)

\* What the properties below are about: puts that run alone, each after a read
\* that has seen the one before.  A behaviour that once leaves it never returns.
Calm == ~overlap' /\ Ordered'

(* A transfer gives a key away only when another server has it: whatever     *)
(* breaks or is refused on the way, as many servers, of the network or gone  *)
(* from it, have the last write as its put has counted, unless one ran       *)
(* beside a command or another put.                                          *)
CountedCopiesStay ==
  Ordered /\ ~overlap =>
    \A p \in Put : Newest(p) => Cardinality(Holders(p)) >= put[p].success_cnt

(* After joins and leaves whose transfers went through, by servers whose     *)
(* rings named nobody who had gone, and as long as there are REPLICA_N       *)
(* servers, any R_COUNT of those responsible for the key include one that    *)
(* has each write that W_COUNT of those then responsible counted, or one     *)
(* that followed it: what one server gains another one loses and hands over, *)
(* and a record left over from an earlier membership does not stand in its   *)
(* way.  A put that passed over peers and was answered OK for its copies on  *)
(* servers further round the ring is not among these: nobody hands them back.*)
AckedStaysReadable ==
  /\ W_COUNT + R_COUNT > REPLICA_N /\ Ordered
  /\ ~overlap /\ ~hurt /\ ~short /\ ~stale /\ cmd = NoCmd
  => \A p \in Put, a \in SUBSET getReplicasNodes(members, REPLICA_N) :
       put[p].near_cnt >= W_COUNT /\ Cardinality(a) >= R_COUNT => a \intersect Holders(p) # {}

(* "receive more than 2 acknowledgement before return to clients": a write   *)
(* answered OK is on W_COUNT servers, also when it ran beside a command.     *)
AckedHasCopies == Ordered => \A p \in Acked : Cardinality(Holders(p)) >= W_COUNT

-----------------------------------------------------------------------------
(* Why these hold: the inductive invariant.                                  *)

\* What a put has counted and where it stands.
PutProgress ==
  \A p \in Put :
    /\ put[p].phase = "idle" => put[p] = Idle
    /\ put[p].phase # "idle" => put[p].version # NoVersion
    /\ put[p].ret = "OK" => put[p].success_cnt >= W_COUNT
    /\ Running(p) => put[p].success_cnt <= put[p].try_cnt
    /\ put[p].try_cnt + Cardinality(put[p].list) <= 2 * REPLICA_N

Written(record) == record = Absent \/ \E p \in Started : record = RecordOf(p)

\* Servers hold, and transfers carry, what puts have written.
RecordsAreWritten == Written(move.data) /\ \A n \in Server : Written(store[n])

\* Which command is under way, with which peer, and for which keys.
CommandsAreOrderly ==
  /\ cmd.name = "none" => cmd = NoCmd
  /\ cmd = NoCmd => move = NoMove
  /\ cmd.name = "JoinNetwork" => cmd.addr \in Server \ members /\ cmd.todo \subseteq members
  /\ cmd.name = "LeaveNetwork" => cmd.addr \in members
  /\ cmd.addr \notin cmd.todo
  /\ move.stage = "none" => move = NoMove
  /\ move.stage # "none" => move.peer \in cmd.todo
  /\ move.stage \in {"sent", "accepted", "refused"} => KeyMoves
  /\ \A n \in Server : n \notin stubs[n]

\* The command has reached m.
Told(m) == m \notin cmd.todo \/ m = move.peer

\* Rings and stubs name the members before the command, or after it.
RingsAgree ==
  /\ \A m \in members \ {cmd.addr} :
       /\ ring[m] = IF Told(m) THEN After ELSE members
       /\ stubs[m] = ring[m] \ {m}
  /\ \A m \in Server \ members : m # cmd.addr => m \notin ring[m]
  /\ cmd # NoCmd => ring[cmd.addr] = After /\ stubs[cmd.addr] = After \ {cmd.addr}
  /\ cmd.name = "LeaveNetwork" => cmd.old = members /\ cmd.todo \subseteq After

EnoughServers == Cardinality(After) >= REPLICA_N

ShapeInv ==
  /\ TypeOK /\ PutProgress /\ RecordsAreWritten /\ CommandsAreOrderly
  /\ ~stale => RingsAgree
  /\ ~short => EnoughServers

\* Versions of writes, and none.
Known == {NoVersion} \union {put[p].version : p \in Started}

\* No gap: a version that is not the last one has been counted on from.
VersionsAreConsecutive ==
  \A v \in Known : (\E p \in Started : Precedes(v, put[p].version)) =>
    \E p \in Started, s \in Server : put[p].version = update_version(v, s)

\* A put runs alone.
RunsAlone ==
  \A p \in Put : Running(p) => cmd = NoCmd /\ \A q \in Put \ {p} : ~Running(q)

\* The put under way is the last one, and the servers still on its list have
\* not got it.
RunningIsNewest ==
  \A p \in Put : Running(p) =>
    /\ \A q \in Started \ {p} : Precedes(put[q].version, put[p].version)
    /\ \A m \in put[p].list : store[m].version # put[p].version

\* What the giver and the taker hold on the way.
TransferKeepsTrack ==
  /\ move.stage \in {"sent", "accepted"} => store[Giver] = move.data
  /\ move.stage = "accepted" => store[Taker] = move.data
  /\ move.stage = "refused" /\ ~hurt => NotAbove(store[Giver].version, store[Taker].version)

\* The copies that will be left: the giver's is about to be removed.
Staying == {n \in Server : ~(move.stage = "accepted" /\ n = Giver)}

CopiesAreCounted ==
  \A p \in Put : Newest(p) => Cardinality(Holders(p) \intersect Staying) >= put[p].success_cnt

\* The servers that a command makes responsible, or no longer responsible.
Gains == getReplicasNodes(After, REPLICA_N) \ getReplicasNodes(members, REPLICA_N)
Loses == getReplicasNodes(members, REPLICA_N) \ getReplicasNodes(After, REPLICA_N)

\* The servers responsible: those before the command until it has reached the
\* one with which the joiner or the leaver changes places, then those after it.
Responsible ==
  LET partner == IF cmd.name = "JoinNetwork" THEN Loses ELSE Gains
  IN  IF partner \intersect cmd.todo = {} THEN getReplicasNodes(After, REPLICA_N)
                                          ELSE getReplicasNodes(members, REPLICA_N)

ResponsibleHaveIt ==
  \A p \in Put : Cardinality(Holders(p) \intersect Responsible) >= put[p].near_cnt

IndInv ==
  /\ ShapeInv
  /\ Ordered => VersionsAreConsecutive
  /\ ~overlap => RunsAlone
  /\ Ordered /\ ~overlap => RunningIsNewest /\ TransferKeepsTrack /\ CopiesAreCounted
  /\ Ordered /\ ~overlap /\ ~hurt /\ ~short /\ ~stale => ResponsibleHaveIt

=============================================================================
