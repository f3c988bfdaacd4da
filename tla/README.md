# A verification project for cs739-cloud-native

The repository is a key-value store in the style of Dynamo: C++ servers that
talk gRPC, a consistent hashing ring, version vectors, read and write quorums
and gossiped heartbeats. This directory holds TLA+ modules translated from that
code, the TLC configurations that check them on small instances, and theorems
about them with proofs for TLAPS.

Paths below are relative to the repository, `src/` being its root, so the code
lives in `src/src/`. `PROJECT.json` maps each definition to the lines it models.

Contents: [1 the system](#1-the-system) ·
[2 the modules](#2-the-modules) ·
[3 what the runs show](#3-what-the-runs-show) ·
[4 what is proved](#4-what-is-proved) ·
[5 what the models found](#5-what-the-models-found) ·
[6 what is left out](#6-what-is-left-out) ·
[7 what could follow](#7-what-could-follow) ·
[8 how to run it](#8-how-to-run-it)

## 1 The system

### Components

| component | code | state | operations |
|---|---|---|---|
| read and write path | `GossipNode`, `gossip_node.cpp:253-452` | the locals of each handler | `ClientPut`, `ClientGet` (from clients), `PeerPut`, `PeerGet` (from servers), `peerPut`, `peerGet` (the callers) |
| version vectors | `StateMachine`, `state_machine.cpp:120-252` | none: functions of their arguments | `check_conflict_version`, `update_version`, `reconcile_version`, `remove_duplicate_data`, `remove_unconflict_data`, `get_latest_data` |
| storage | `StateMachine`, `state_machine.cpp:1-118` | `value_store_`, `version_store_`, a file | `put`, `remove`, `get_value`, `get_version`, `get_all_keys`, `read_file`, `flush_to_disk` |
| ring | `ConsistentHashingRing` | `ring_`, `node_count_` | `addNode`, `removeNode`, `getNode`, `getReplicasNodes`, `checkDataBelonging` |
| membership | `GossipNode`, `gossip_node.cpp:22-56, 106-200` | `ring_`, `stubs_`, `alive_`, `members_heartbeat_list_` | `AdminCmd`, `joinNetwork`, `JoinNetwork`, `leaveNetwork`, `LeaveNetwork` |
| heartbeats | `GossipNode`, `gossip_node.cpp:210-251` | `members_heartbeat_list_` | `gossip` (every interval), `Gossip` |
| key transfer | `GossipNode`, `gossip_node.cpp:85-104, 140-151, 174-187` | the store | transfers inside `JoinNetwork` and `leaveNetwork` |
| client library | `client_grpc.cpp` | `assigned_coordinator`, cached records (`state_machine_`), `server_config` (always empty) | `Put`, `Get`, `reconcile`, `random_pick_server` |
| admin library | `admin_grpc.cpp` | table of live servers | `Cmd`, with a deadline of 100 ms |
| programs | `client_cli.cpp`, `admin_cli.cpp`, `gossip_node_test.cpp` | none | read a line, call a library; start a server and the loop that gossips |
| load tools, samples | `performance/`, `s3_related/`, `example/` | none of the system's | not part of the store |

### How they interact

* A client sends `ClientPut` or `ClientGet` to one server. For a put, that server
  must be on the preference list of the key, the first `2 * REPLICA_N` different
  servers clockwise from the key's hash; otherwise it answers `NOT_COORDINATOR`
  and names a live server that is. For a get any server will do.
* The handler walks the list. It uses its own store for its own entry, passes
  over servers whose heartbeat is too old and calls `PeerPut` or `PeerGet` at
  the others, one after the other, without a deadline. It stops at
  `REPLICA_N` attempts, except that for a put the test is reached after a success
  and for a get after an answer. `W_COUNT` or `R_COUNT` successes make the
  answer `OK`.
* A put carries the version that the client last read (reconciled, if the read
  returned several). The coordinator raises its own counter in it, overwrites its own
  record without looking at it, and sends the result to the others, who store it
  only if `check_conflict_version` calls it newer.
* `AdminCmd` tells a server to join or leave. The server changes its own ring and
  calls `JoinNetwork` or `LeaveNetwork` at every server it has a stub for; these
  change theirs and keys are handed over with `PeerPut`.
* The main thread of each joined server sends the table of heartbeats, every
  `HEARTBEAT_INTERVAL`, to the servers it believes alive. The table is read by the
  data path and never changes the ring, although the comment at `gossip_node.h:53`
  has a server that is down leave the ring.
* The client library reads before each write of the user, keeps what it read, asks
  the user when the answer holds several records, writes the choice back under
  the reconciled version, and then writes.

### Where it is hard

* gRPC runs each handler on a thread of its own. There is no lock anywhere, so
  two handlers of one server interleave between any two accesses to the store,
  the ring, the stubs or the heartbeat table.
* Calls break; the caller cannot tell whether the peer stored the record, and
  the peer may store it after the client has been answered.
* The store is memory. A server that restarts is empty and answers at once.
* Each server has its own ring, and a join or leave arrives at different times,
  and possibly twice.
* Counters are bumped by whichever server coordinates, versions are compared by
  a walk with early returns, and the result decides what may be overwritten.

The hazards, each at its line and with the properties that watch it, are in
`PROJECT.json` under `hazards`.

### What makes each component correct

* Version vectors: the verdict does not depend on the order of pairs; "newer" is
  the order of version vectors; a reconciled write is newer than what it
  reconciles; a read of something never filters down to nothing.
* Read and write path: an acknowledged put is on `W_COUNT` replicas; a later
  read meets it; versions count writes that happened; requests end; the whole
  is a quorum store.
* Ring: placement depends on who is a member and on nothing else; the list is as
  long as asked for; a membership change moves a key between at most two servers.
* Storage: a reader sees a value with the version it was stored under; what was
  written to the file comes back.
* Membership: when joins and leaves are over, the servers agree on the ring, and
  every server on a ring can be called.
* Heartbeats: a server that is silent is noticed by everybody, and one that lives
  stays in sight as long as gossip gets through.
* Key transfer: no acknowledged record is on fewer servers after a join or leave
  than before; none is left where nobody looks for it.
* Client library: the version attached to a put stands for writes that happened;
  an acknowledged write is offered to later readers.

## 2 The modules

| module | models | extends / instantiates |
|---|---|---|
| `VersionVector` | the operators on versions and records, free of the order of pairs | |
| `VersionScan` | the loops of `StateMachine` over lists of pairs; the result list of `ClientGet` | `VersionVector` |
| `QuorumStore` | abstract: what read and write quorums promise, no mechanism | |
| `Replication` | the data path of all servers and its clients, crashes, broken calls | `VersionVector`, `QuorumStore` (refinement) |
| `HashRing` | one `ConsistentHashingRing` object | |
| `Membership` | the admin's commands, and the ring and stubs of every server | |
| `Gossip` | heartbeat tables, rounds of gossip, and what commands do to them | |
| `Handoff` | joins and leaves with their transfers of a key, beside puts | `VersionVector` |
| `ClientLibrary` | the client library, its users, and the servers as it sees them | `VersionVector` |
| `MCVersionScan`, `MCReplication`, `MCHashRing`, `MCMembership`, `MCGossip`, `MCHandoff`, `MCClientLibrary` | instances for TLC | the module named |
| `VersionVectorProofs`, `VersionScanProofs`, `ReplicationProofs`, `HashRingProofs`, `MembershipProofs`, `GossipProofs`, `HandoffProofs`, `ClientLibraryProofs` | theorems | the module named, `VersionVectorProofs` where versions are compared, `TLAPS` |

### VersionVector and VersionScan

The code keeps a version as a vector of (server, counter) pairs. In
`VersionVector` it is a function from servers to counters, 0 meaning "no pair";
`check_conflict_version` is stated with four questions (is a server of the
existing vector missing, is a common counter smaller, larger, is there a server
more) in the order in which the code decides. `VersionScan` keeps the vectors as
sequences and runs the code's loops, pass after pass, as recursive functions, the
return in the middle of the walk included (`CompareStep`, `InnerLoop`, `OuterLoop`);
`ScanAgrees` and `LatestAgrees` say the two are the same, and this is proved for
vectors and lists of any length. So every other module may use the short operators.

Nothing is said about overflow: a counter grows by one per write of one key at
one server and is 64 bits wide.

### Replication

One key, a fixed ring, so a fixed preference list (`Preference`). State:

| variable | code |
|---|---|
| `store[n]` | `value_store_[key]`, `version_store_[key]` of server n, as one record |
| `status[n]` | the process: `joined`; `down`; `started`, i.e. running again with an empty ring |
| `put[p]`, `get[g]` | the locals of the handler that runs the request: server, position in `replica_servers`, `try_cnt`, `success_cnt`, version, results, answer |
| `rpc[p][n]` | the `PeerPut` call of p at n: sent, checked (version read and compared), applied, rejected, lost |
| `crashes`, `broken` | how many processes died and calls broke so far (bounds) |

`answered`, `owed` and `Applied(p)` are what properties look at: the servers
that answered a get, the puts acknowledged when it began, the servers that have
ever stored a put.

A step ends where another thread can get in: before and after each call to a
peer, and between the comparison and the write of `PeerPut`. `PeerGet` reads
once and its caller waits, so call and answer are one step. The branches of the
loops are actions: own copy (`PutLocal`, part of `GetFrom`), stale heartbeat
(`SkipPeer`, `GetSkip`: always possible, since the age of heartbeats is not in
the model), call (`CallPeer`), and the ways a call ends (`PeerAccepted`,
`PeerDeclined`, `PeerDied`, `CallBroke`). A call that broke goes on existing in
`rpc` and may be executed later. `Crash` empties the store, since the file is
read only under `FIXED_CONFIG_TEST`, which is false, and ends the handlers that
ran there. `Restart` brings the service back before any `JoinNetwork`, with an
empty ring: it refuses puts, cancels gets, and answers peers.

Clients attach no version or one made from an answer (`ClientVersions`), which is
what `KeyValueStoreClient::Put` does, since it reads first.

### QuorumStore

Writes gather copies, reads gather answers, both end at a quorum or fail.
`Replication` implements it under the mapping at the end of that module:
`copies` are the servers that stored a put, `answers` the servers that answered a
get.

### HashRing

`ring` is the map `ring_`, from occupied positions to servers; `node_count_` is a
number of its own that `addNode` raises and `removeNode` lowers whether or not
the server is there, as in the code. `getReplicasNodes` compares a `size_t` with
an `int`: `Unsigned` models that. The loop of `getReplicasNodes` goes from point to
point; `Walk` goes from position to position and does nothing where no point lies,
and what it makes of one position is `Visit`. The loop ends after one turn, so `Walk`
takes `HashSize` steps. `FewServers` and `VirtualNodesExist` are assumed: fewer
servers than `size_t` has values, and at least one virtual node each. `point` is where `std::hash` puts the virtual
nodes, chosen at the start and different from run to run; `members` and `stray`
are history. In the code `addNode` inserts one point after the other; the ring
object is changed within one handler and the step here is the whole call.

### Membership

Who knows whom. State:

| variable | code |
|---|---|
| `ring[n]` | the servers with points on `ring_` of server n; where the points lie is `HashRing`'s matter |
| `stubs[n]`, `alive[n]` | the keys of `stubs_`; `alive_` |
| `status` | the servers marked true in the admin's `server_status_` |
| `call[c]` | one `AdminCmd` from `Cmd` to the end of its handler: command, address, `alive_servers`, the stubs already called, whether the admin still waits |
| `running` | whether the process of a server runs |
| `issued`, `late`, `broken`, `crashes` | how many commands were given, answers missed, calls broken and processes died (bounds) |
| `missed`, `untold` | history: which server was not reached by whose join, and by whose leave or crash |

The admin is one thread: `Send` starts a command when no other is awaited, and
`Note` is the entry `Cmd` makes when the call returns. `GiveUp` is the deadline of
100 ms; the handler goes on after it (gRPC cancels the call but the handler never
looks), and then a second command can run beside it. `AdminJoin` is `AdminCmd` up to
the loop of `joinNetwork`, `AdminLeave` the same for `leaveNetwork`; each round of
the loop is one of `JoinNetwork`, `LeaveNetwork` (the handler at the peer),
`PeerDown`, `PeerBroke`; `Return` ends the handler. `Crash` and `Restart` are those
of `Replication`.

What is simplified: clearing and rebuilding `stubs_`, and adding to `ring_`, `stubs_` in one
handler, are one step; a `JoinNetwork` call that broke is not executed later; the
loops iterate over an `unordered_map` that another handler may change, which is
undefined behaviour: `disturbed` then lets the loop end anywhere or show servers
that came in later. The transfers of keys do not touch what this module keeps:
their outcome goes into a flag that `AdminCmd` ignores.

### Gossip

`members_heartbeat_list_` holds times, and every use of one compares its distance
from now with an interval. The model holds the distances: `age[n][m]` in ticks,
growing with `Tick` up to `Check` (`CHECK_ALIVE_INTERVAL`), beyond which nothing can
tell ages apart; a missing entry reads as time 0 and so is `Check` too. `msg[n]`
is the request that a round of n sends, made once at its start and ageing like
the table. A round is `BeginRound`, then for each stub `SkipPeer` or `CallPeer` with
`Gossip` (the handler at the peer) or `CallFails`. The commands of the admin are here
for what they do to the table: a join stamps the joiner's own entry, `JoinNetwork`
makes one at each peer with the *peer's* time, `LeaveNetwork` erases it.

Only calls take time: `Tick` does not pass over a round that is due, a round that
has taken `Delay` ticks, or a command (`Overdue`), unless `MaxLate` allows it. `since`
and `met` are history: how long ago a server last put its own time anywhere, and
who has heard whom.

What is simplified: the clocks of all machines agree (the code compares times of
different machines, so a skew adds to an age or takes from it); the commands come
one at a time and are answered, `Membership` having the others; a loop over
`stubs_` that another handler changes may end or see the new servers.

### Handoff

Who holds the key while the ring changes. `ring[n]`, `stubs[n]` are as in `Membership`,
`store[n]`, `put[p]` as in `Replication`, and `move` is the transfer under way inside
`JoinNetwork` at a peer or `leaveNetwork` at the leaver: the peer told, the record
read and sent, accepted or refused, and removed. `Preference` is the order in
which the walk from the key's hash meets the servers, so a server is responsible
if it is among the first `REPLICA_N` members of a ring: `HashRing` shows that the
ring depends on its members only. Every list of servers in the module is walked in
this order, so it is kept as a set. A step of a put is one server of its list: an attempt
(`PutAt`, check and store at once, or `PutBreaks`) or a peer passed over for its old heartbeat
(`PutSkips`, which raises neither count). Any peer may be passed over at any time, since ages
are not in the model: right after a join the joiner's table names nobody but itself.
`near_cnt` is history: how many of the copies counted are on servers that were among the
responsible ones when they were counted. A client's version comes from a read at any server
(`Answers`): of any peers that are not passed over and do not fail, which are more than
`REPLICA_N` only if the `REPLICA_N`-th attempt has failed. Every interleaving of commands, transfers and
puts is a behaviour of `Spec`; the action constraints of the runs restrict which of them
overlap (`Calm`, part of `CalmBetween`: puts run alone, each after a read that has seen the one before;
`JoinsBesidePuts`: one put at a time beside joins), and the properties restrict with four
histories: `overlap`, a
put ran beside a command or another put; `hurt`, a transfer broke; `short`, fewer
than `REPLICA_N` servers were left; `stale`, a server joined with one on its ring that
has gone.

What is simplified: commands are those that make sense (a server not joined
joins, a joined one leaves, at least `REPLICA_N` are there from the start) and
the calls to the peers get through, `Membership` having the others; a put or get runs at a
server that has stubs for all of its ring (`Connected`, section 5), and calls no peer that has
left meanwhile (`Reachable`); processes do not die.

### ClientLibrary

`client[c]` is the library of one program: the call of its user (`phase`, and `goal`,
what it writes), `assigned_coordinator`, and `cache`, the record that its
`state_machine_` holds. A `ClientPut` or `ClientGet` at a server is one step, with
every choice of stale heartbeats (`alive`), broken calls to peers (`lost`), lost
answers (`late`) and answers that do not reach the library; what interleaves are
the calls of the clients, of which one `Put` makes two or more.

The library is modelled as it is, its undefined behaviour included: when the read
of a `Put` fails, `random_pick_server` takes an element of `server_config`, which
nothing fills, so the program reads a null pointer (phase `dead`). A server that was
started again and not joined yet names the empty address as coordinator, and the
library keeps to it: every later call fails until the program is started again
(`Start`). After `OK` the library bumps its copy for the server named in the answer,
which need not be the one that wrote (`misnamed`). `Close` names the lists on which a
read misses one server at most. The run `client` looks at the
behaviours that satisfy the action constraint `Calm`: calls of users do not overlap
and servers that take a put name themselves.

## 3 What the runs show

All runs are listed in `PROJECT.json`; every property of a passing run has a mutant there, a
plausible slip in the code under which TLC finds the property violated. The four
properties that TLC finds violated by the code itself need none.

| run | instance | shows |
|---|---|---|
| `version` | 3 servers, counters to 2, lists of 3 answers | `ScanAgrees`, `LatestAgrees`, `NewerMeansAfter`, `RepairIsAccepted`, `LatestNotEmpty` |
| `version_earlier` | 2 servers | a counterexample, see section 5 |
| `faults` | 4 servers, one of them off the list; list of 3 with `REPLICA_N = 2`; 1 put, 1 get, 1 crash, 1 broken call; fair | `AckedHasQuorum`, `ReadsMeetWrites`, `DataIsNotHidden`, `TypeOK`, the inductive invariant `IndInv`, `ImplementsPromise`, `RequestsReturn` |
| `sequential` | 3 servers, 2 puts and 2 gets taking turns (`TurnsSpec`), 1 broken call | `CompletedWritesAreRead` and its inductive invariant `TurnsInv`, `NoPhantomVersions` |
| `hash_ring` | 3 servers with 2 virtual nodes in all placements without a collision on 7 positions | `RingIsMembers`, `BelongsIsNearest`, `ListIsFull`, `OneServerTakesOver`, `TypeOK` |
| `membership` | 3 servers, 5 commands, 1 late answer, 1 broken call, 1 crash | `NobodyMissed`, `GoneIsGone`, `TypeOK` and the inductive invariant `IndInv` |
| `membership_late` | 3 servers, 2 commands and a late answer | a counterexample, see section 5 |
| `gossip` | 3 servers, 3 commands, 1 crash; `Beat = 2`, `Check = 4`, `Delay = 1` | `DeadIsNoticed`, `MetStayInSight`, `TypeOK` and the inductive invariant `IndInv` |
| `handoff` | 4 servers, 3 or 4 of them joined, 2 commands, 2 puts between them, any peers passed over, 1 broken call | `CountedCopiesStay`, `AckedStaysReadable`, `TypeOK` and the inductive invariant `IndInv` |
| `handoff_race` | the same with 1 join and puts beside it, no broken call | a counterexample, see section 5 |
| `client` | 3 servers, 1 client with 3 puts and any gets, 4 writes, 1 fault | `CacheIsWritten`, `AckedIsOffered`, `VersionsAreUnique`, `TypeOK` and the inductive invariant `IndInv` |
| `client_overlap` | 3 servers, 2 clients, 2 puts, late heartbeats, no fault | a counterexample, see section 5 |

What the less obvious ones mean:

* `RepairIsAccepted` (read repair goes through): whatever a read answers, a write
  under the reconciled version is newer than each record of the answer.
* `NoPhantomVersions`: each counter of each version anywhere stands for a put
  which that server coordinated, with its causal past. This is what makes
  comparing versions meaningful; it would fail if a coordinator bumped another
  server's counter.
* `DataIsNotHidden`: an empty replica, never written or restarted, does not push
  data out of an answer. Under `check_conflict_version` nothing is "earlier" than
  everything, so this depends on the order of the two tests for empty vectors.
* `ReadsMeetWrites`: only claimed for preference lists on which the two quorums
  overlap (`StrictQuorum`). With `W_COUNT = R_COUNT = 2` that is three servers;
  on the six of `2 * REPLICA_N` a read and a write may pass each other, which is
  Dynamo's sloppy quorum and not an error.
* `CompletedWritesAreRead` is the guarantee a user hopes for. It holds when requests
  take turns, each write is based on the one before and no server loses its
  memory. It does not hold of `Spec`: a put still in its loop can overwrite a
  newer record (`PutLocal` does not look; `PeerPutApply` looked earlier).
* `OneServerTakesOver` is what the key transfers assume: a join gives a key to
  the joiner and takes it from at most one server, a leave the reverse.
* `ListIsFull` holds as long as only members leave. A second `LeaveNetwork` for
  the same server lowers `node_count_` again, and lists get too short for a
  quorum; the condition `~stray` says so.

* `NobodyMissed`: at the end of every command all joined servers have each other
  on their rings and can call each other, whatever joins, repeated joins, leaves,
  crashes and restarts came before, as long as every answer reached the admin in
  time and except for pairs where the announcing call itself broke. It rests on
  the agreement of three tables, the admin's, the rings and the stubs, which no
  single handler sees.
* `GoneIsGone`: a server that has left or crashed is on the ring of those joined servers
  only that were not told. In particular nobody is taught a server again that
  it was told off.

* `DeadIsNoticed`: no entry of anybody, and none in a message, is younger than the
  last time the server put its own time on record. Servers pass on what they
  have heard and keep the younger of two; if passing on made news younger, two
  servers could keep a dead one alive between them for ever. A message
  on its way may bring back an entry that `LeaveNetwork` has erased, but not
  beyond the interval.
* `MetStayInSight`: a server sends only to those it believes alive, so belief
  depends on belief. Two joined servers that have heard each other do not lose
  sight while rounds take at most `Delay` and `Beat + Delay < Check`. The code's
  `CHECK_ALIVE_INTERVAL` is exactly twice `HEARTBEAT_INTERVAL`, which leaves
  one interval for a round and its calls. A round that takes as long as that
  takes two servers out of each other's sight, and nothing brings them together
  again unless a third one relays.
* `CountedCopiesStay`: a record counted by its put is not lost by a transfer that is
  refused, breaks, or arrives and is not acknowledged: the giver removes its
  copy only after another server took it.
* `AckedStaysReadable`: across any joins and leaves, a write that `W_COUNT` of the servers
  responsible at the time have counted (`near_cnt`) is found by any read quorum of those
  responsible afterwards. It depends on the transfers at join and leave covering exactly
  what a membership change moves, and on records that a server kept from an earlier
  membership not standing in the way of the newer one. Which peers the put passed over or
  failed at, and which the reads before it reached, does not matter. Left out:
  * writes answered `OK` for copies that are not on `W_COUNT` responsible servers, because
    peers were passed over or failed and the loop went on to servers further round the
    ring (section 5): nothing hands these back;
  * puts beside a command or beside another put (`overlap`), and writes that have not seen
    the one before (`Ordered`);
  * commands whose transfer broke (`hurt`): the record then stays on a server nobody asks;
  * fewer than `REPLICA_N` members (`short`): a leaver then has nobody to hand to;
  * servers that joined with outdated rings (`stale`, section 5);
  * the time during a command, in which the ring is ahead of the data and a read may miss
    the write.
* `CacheIsWritten`: the version a client attaches to its next write has, for each
  counter, a write that the named server versioned and whose past it knows.
  The library computes it itself after `OK`, from the answer.
* `AckedIsOffered`: what an acknowledged write means to the next user. It
  goes through all of the library: read, choice among conflicting records,
  write-back, write. Three conditions name where it fails: two calls of users
  that overlap (run `client_overlap`), two versions that the comparison misjudges
  (`Misjudged`, run `version_earlier`), a server that named another one. The condition
  `~Misjudged` is no technicality: with clients that take turns, late heartbeats and
  no fault, four writes lead to `{n1:2, n3:1}` and `{n1:1, n2:1, n3:1}`, the second is
  called earlier, and an acknowledged write is gone from the answers.
* `VersionsAreUnique`: a server counts on from the version it is sent and not from
  the one it holds, so one version may be given twice; clients that take turns do
  not get there unless a write-back was not acknowledged, as long as a read misses
  one replica at most (`Close`). Without that they do: with five replicas of which
  three answer a read, a write that reached two and failed is missed by the next
  Put's read, and the same coordinator gives its version again.

### Bounds

* Counters of versions to 2: puts that would pass the bound are not made. With
  at most two puts no counter can get there otherwise; all relations between
  two counters appear with 0, 1, 2. The comparison looks at one pair of counters
  at a time and remembers only its result so far (`CompareStep`), so three
  servers show each pair of successive influences and one more.
* Lists of three answers are what `REPLICA_N = 3` attempts return at most.
* One key: keys share nothing on the data path but the preference list.
* Two puts: the properties speak of a put and one that follows or disturbs it.
* One crash and one broken call: each handler has a quorum of 2 out of 3, so
  one failure reaches the OK path with a fault and the failing path together
  with passed-over peers, of which there is no bound.
* Four servers with three on the list give a server that must answer
  `NOT_COORDINATOR`; `REPLICA_N = 2` on a list of 3 separates the end of the
  attempts from the end of the list. The code's values are 3 and 6.
* Seven positions for six points, turned so that one lies at 0: gaps, wrapping
  around, neighbouring points of one server and alternating ones all occur.
  `MaxDrift = 1` lets `node_count_` be wrong by one in both directions, below
  zero included.

* Three servers in `Membership` are two that already know each other, or ought to,
  and one that comes or goes; two slots for commands, since with one late answer
  no more than two handlers run. Five commands: with fewer a server that is not
  rebuilding its stubs at a rejoin (mutant `AdminJoin_KeepsStubs`) is not caught.
  The proofs have no such bounds.
* Heartbeats: `Beat = 2`, `Delay = 1`, `Check = 4` are the smallest intervals that differ
  and leave a margin; three servers let news go round past the one it is about.
  No late tick and no broken call in the run, since `MetStayInSight` says nothing
  after one; the proofs of both properties have them.
* Handoff: four servers with `REPLICA_N = 3`, so that a join moves the key off a
  server and a leave brings it back; two commands are a join and a leave, a leave and the
  rejoin, or two of a kind. Counters to 1: each server coordinates one put at most. Two puts
  with any peers passed over make a copy that is too old, and one broken call makes a transfer
  that fails or arrives unseen. Two offers of a key at leave (`Tries`) for the code's five
  tell the last one from those before. A call of a transfer may break at any time, one of a
  put between the commands (`CalmBetween`). The proofs have any number of all of these.
* Client: one client that may be started again at another server stands for
  clients that take turns; what the library keeps between two calls of the user is
  replaced by the next read, so a second one would add nothing but the server
  it talks to. Three puts and four writes: a write, two conflicting ones that
  differ in what they know, and a write-back.

Deadlock is not checked for `Replication`, whose requests end, for `VersionScan`,
whose lists are full at some point, and for `Membership`, `Gossip`, `Handoff` and
`ClientLibrary`, whose admin has given its last command or whose users have made
their last call at some point. It is checked for `HashRing`.

### Fairness

`FairSpec` assumes weak fairness of each handler (`PutStep`, `GetStep`,
`PeerStep`): the thread gRPC gave it is scheduled, and a pending call ends in an
answer or an error, since a dead peer's connection is reported by the transport.
Nothing is assumed of clients, crashes, restarts or broken calls. `RequestsReturn`
needs no more. Without the assumption about dead peers it fails, since calls have
no deadline: the mutant `PeerDied_WaitForReady` is that case.

## 4 What is proved

For any number of servers, requests, crashes and broken calls, any preference
list without repetitions of at most `2 * REPLICA_N` servers and any positive
`W_COUNT`, `R_COUNT`. Assumptions: the sets of servers and requests are finite,
counters have a largest value.

`ReplicationProofs`

* `Invariance`: `Spec => []IndInv`. `TypeOK` and `AckedHasQuorum` are not
  inductive: that a handler returns `OK` with `success_cnt >= W_COUNT` says
  something about replicas only if `success_cnt` counts *different* servers that
  hold the record. `PutInLoop` says that: they lie behind the loop's position in
  the list, the list names no server twice, and no call is out to a server
  ahead of it. It also bounds `try_cnt` by the position, from which the types
  follow. `PutDone` carries the result over the return, `GetProgress` does the same
  for gets, `UnversionedIsAbsent` says that a record without a version is the
  answer "no such key".
* The proof has one lemma per action and part it can disturb; actions that touch
  one put leave the others alone by `PutKept`.
* `TypeCorrect`, `AckedWritesHaveQuorum`, `ReadQuorumMeetsWriteQuorum`
  (two subsets of a list with more elements together than the list overlap) and
  `ReadsReturnData` (from `FilterKeepsSomething` and `GetProgress`) follow.

* `VersionsAreCausal`, `Spec => []NoPhantomVersions`. A put's
  version, once given, does not change, so a witness stays one (`WitnessKept`); a
  reconciled version takes each counter from a version that has a witness whose
  past is below it (`ReconcileCausal`), the coordinator's new counter is witnessed
  by the put itself (`BumpCausal`), and stores and answers only copy versions.
* `Refinement`, `Spec => ImplementsPromise`. Each action
  maps to `Copy`, `Acknowledge`, `BeginRead`, `Answer`, `ReturnRead`, `Fail` or a
  stutter; `IndInv` supplies that a return happens with a quorum.
* `QuorumsMeet`: the abstract store keeps its promise for all sizes of the two quorums
  that overlap, so `ReadsMeetWrites` of the data path follows from the refinement
  as well as directly. `Covered` is its invariant: a write answered OK is on a
  write quorum, and only such writes are owed to a read.
* `TurnsKeepOrder`, `TurnsSpec => []TurnsInv`, and from it `ReadsAfterTurns`,
  `CompletedWritesAreRead` for clients that take turns, until a process dies:
  `Request` is taken when no other one is being served, a put moreover when no call of an
  earlier put, broken or not, still runs at a server (`TakeTurns`). What is
  to be shown relates whole requests: a put that was acknowledged long ago, and the
  answers a get collects now. Four facts carry it. The put that runs, or whose
  broken calls still run, is the last one and knows all others
  (`OnlyTheLastWrites`); so a replica only moves forward, although `PutLocal` does not
  look and `PeerPut` looked earlier (`CopiesMoveForward`). For that, a new put must not
  take a version in the middle: versions have no gap, each one that is not the
  last has been counted on from (`VersionsAreConsecutive`), and counting on from it
  again at any server gives a version that does not follow the one that exists
  (`BumpsDoNotFollow`). And at each point of a get's loop `W_COUNT` replicas have the
  write and have not been asked yet, or have been and the answers show it
  (`ReadsKeepUp`); after `R_COUNT` answers one of them has been asked.

`VersionVectorProofs`: `NewerIffAfter`, `BeforeIsEarlierOrConflict` (see section 5),
`UpdateIsNewer`, `RepairIsNewer` for any
number of versions, and `FilterKeepsNewer` for any finite set of
records: each one is in the answer, or one that the comparison calls newer, since
"earlier" is transitive and irreflexive although it is not the order of
version vectors. So an answer is not empty (`FilterKeepsSomething`).

`VersionScanProofs`: all properties of the run `version`, for vectors and lists of any
length. `LoopsAgree`: the state of the nested loops is the pair "something was smaller,
something was larger" of what they have passed, coded in one number (`Verdict`); a pair of the
existing vector that the incoming one does not name ends them wherever it stands
(`InnerUnlisted`, `OuterUnlisted`). `FiltersAgree`: both filters are one loop that
selects some indexes (`FilterLoop`); entries with equal records never make each
other old (`OldIffEarlier`), so indexes can be forgotten. `NewerIsAfter`,
`SomethingIsAnswered` and `RepairsAreAccepted` follow from these and the theorems on
`VersionVector`; the last one has no bound on the counters (`BumpIsNewer`).
A loop is a recursive function here, and what holds after any number of passes is
shown by a counterexample with the fewest (`Passes`, from the well-founded order
of the naturals), since the induction theorems of the library cannot be used.

`MembershipProofs`: `MembershipInvariance`, `Spec => []IndInv`, for any number of
servers, slots, commands, broken calls and crashes, from it `MembershipTypes`,
`JoinedServersKnowEachOther` and `GoneServersAreOffTheRings`. The two properties speak of the time between
commands and are not inductive. While no answer is late, commands take turns
(`CallsTakeTurns`); then a join carries all servers that are joined, and others
only if nobody was told that they are gone (`TableIsRight`, `JoinCarries`), and its
loop has made the server known to each peer visited (`JoinSpreads`).
`JoinedKnowJoined` and `RingsLoseLeavers` are the two properties in the form that
also holds during a command. There is one lemma per action; `Alone` says that no
other slot is in use.

`GossipProofs`: `GossipInvariance`, `Spec => []IndInv`, for any number of servers,
commands, late ticks, broken calls and crashes and all intervals with
`Beat + Delay < Check`; from it `GossipTypes`, `SilentServersAreNoticed` and
`HeardServersStayInSight`. `DeadIsNoticed` needs nothing but the types: ages and `since` grow
together, and a handler takes the younger of two ages that both obey it.
`MetStayInSight` is not: that an entry is young enough follows from where the
round of the server it names stands. `RoundsAreOnTime` bounds a round by `Delay` and the
pause between two by `Beat`; `OwnIsYoungest` says that nobody's entry of a joined
server is younger than its own, so hearing of it from a third one does not hide
when its rounds took place; and `MetAreCalled` bounds the entry by the age of the
last round if its call is still to come (at most `Beat + Delay`), and by that of
this round if it has been made. `CommandsAreOrderly` carries these over joins, which
stamp entries outside of any round. The lemmas go by action.

`HashRingProofs`: `TypeCorrect`; `RingHasNoHistory`, `Spec => []RingIsMembers`, by an
invariant that names the server at each position; and what the walk computes.
`KeysBelongToTheNearest`: after j positions the list has the different servers met so far,
or is full (`ListSoFar`); each position comes once in a turn (`OneTurn`), so a
server is met at its nearest point and those before it in the list are those
that come nearer. `PreferenceListsAreFull` adds that `node_count_` is at least
the number of members as long as only members have left (`CounterIsEnough`).
`OneTakesOverFromOne`: one server more pushes at most one out of the n nearest
(`OneMore`), and every step changes the members by one at most.

`HandoffProofs`: `Shape`, `Spec => []ShapeInv`, and `Invariance`, `Spec => []IndInv`, for any
number of servers, commands, puts and broken calls and any `REPLICA_N`; from them
`TypeCorrect`, `CopiesStay` and `ReadsAfterHandoff`. `ShapeInv` holds whatever overlaps:
while nobody joined on an outdated ring, each ring names the members before or
after the command, depending on whether it has been told (`RingsAgree`). On top of
it, if puts run alone: the giver and the taker of a transfer hold what was sent
(`TransferKeepsTrack`), so the copies counted by the last put outlive the removal
(`CopiesAreCounted`, which counts those that will stay). For reads it is not enough that
copies exist; they must be where reads look. `Responsible` is the set of the first
`REPLICA_N` members before the command until it has reached the one server that changes
places with the joiner or leaver, and after that the set afterwards. `ResponsibleHaveIt`
counts the copies there, and the transfer to or from that one server keeps the count when
the set changes. A put runs beside no command, so a copy that it counts on a server
responsible then (`near_cnt`) is a copy on a server of `Responsible`, whichever peers it has
passed over.

`ClientLibraryProofs`: `Invariance`, `Spec => []IndInv`, for any number of clients, servers,
writes and faults; from it `TypeCorrect`, `CachesAreWritten`, `AckedStaysOffered` and
`VersionsStayUnique`. `CachesAreWritten` goes along the lines of `VersionsAreCausal`: the
library copies and reconciles versions as a store does (`CountersAreWritten`).
`AckedStaysOffered`: `W_COUNT` servers have the write or one that knew of it, those
that are down counted in (`AckedIsHeld`), and a library that is about to write
knows every acknowledged write (`WritersKnowAcked`), because its read met one of
these servers and the filter keeps something newer of everything
(`FilterKeepsNewer`). `VersionsStayUnique` is `VersionsAreUnique` as long as no pair of
versions was misjudged: nobody has a counter of a server that the server itself has
not (`OwnCountersAhead`), and a library that writes knows what all servers hold but
for one (`WritersKnowTheRest`), so the coordinator's new version is new.

Only model-checked: `RequestsReturn` (liveness under fairness is out of the prover's
reach), and `VersionsAreUnique` after the comparison has misjudged a pair of versions:
the invariant above rests on what reads answer, and those then drop records. Not
covered by a proof is what the models themselves leave out (section 6).

Every other property that a passing run checks is stated by a theorem.

## 5 What the models found

Those named after a run are counterexamples of TLC; the others say where they come
from.

* `version_earlier`: the verdict -1, "earlier", is also given to a version that
  is concurrent: `{A:1, B:1}` against `{A:2}`. A smaller counter decides before
  the server that only the incoming vector names is looked at. A read drops
  such a record although the other one does not follow it.
* Proved as `BeforeIsEarlierOrConflict`: a version that comes before another one is
  called a conflict as soon as it does not name all servers of it, `{A:1}`
  against `{A:1, B:1}`: a server that the incoming vector does not list
  ends the walk. A read then returns an old record beside the new one until
  somebody reconciles.
* `membership_late`: a join whose answer comes after 100 ms succeeds, but the
  admin's table says otherwise. The next server that joins is not told of it and
  does not announce itself to it; both take keys without knowing of each other.
* `handoff_race`: `JoinNetwork` reads a record, sends it to the joiner, and removes the
  key afterwards whatever it holds by then (`gossip_node.cpp:143-148`). A later write that is
  stored and counted between the two is erased. In the run its put has passed over one
  peer with an old heartbeat, has counted two copies and is answered `OK`; one is left.
* If leaves may run beside puts as well (`TakeTurns` in the place of `JoinsBesidePuts`), TLC
  finds a shorter way to one copy: a put counts its copy on the leaver, the leaver hands it
  to the coordinator of the same put, whose turn has not come yet, and removes its own; the
  coordinator then stores its own copy over the one handed over, without a look, and counts a
  second one (`gossip_node.cpp:183`, `335`). The two other peers are passed over.
* `client_overlap`: two clients read the same version and write through the same server.
  Both writes get the version `{n1:1}`. The first is stored on two servers and
  acknowledged; the second replaces it on the coordinator n1 and reaches nobody else, since
  the other peers are passed over, so it is answered `FAILED`. A read that meets both records
  answers both: `remove_duplicate_data` compares values too (`state_machine.cpp:174`), and
  equal versions push nothing out (`:194`). But a read of n1 and a peer that missed the first
  write answers the second value alone, without a conflict; the write that was acknowledged
  is hidden.
* `PeerPut` compares and writes in two steps without a lock (`PeerPutCheck`, `PeerPutApply`
  of `Replication`), so it may overwrite a record that is newer although the
  comment at `gossip_node.cpp:380` says it applies only what does not conflict.
* If the `REPLICA_N`-th attempt of a put fails, `try_cnt == REPLICA_N` is never tested
  at that value again (`gossip_node.cpp:347`), and the put goes to all servers
  of the list: with five servers it is stored on four, where `gossip_node.h:58` has
  three.
* A peer that is passed over for its heartbeat raises neither count
  (`gossip_node.cpp:339-341`), so a put may leave the first `REPLICA_N` servers without having
  failed anywhere. Right after a join the joiner's table names only itself. With servers
  s1 to s5 in the order of the key, s5 just joined and having heard of s4 only, a put at s5 is
  stored on s4 and s5 and answered `OK` after two attempts; every read quorum of s1, s2 and
  s3 misses it, and no transfer or gossip brings it to them. `AckedStaysReadable` counts the
  copies on responsible servers for this reason.
* `AdminCmd` rebuilds `stubs_` from the list it was sent and never clears `ring_`
  (`gossip_node.cpp:27`). A leaves, B leaves, A joins again: B is on A's ring without a
  stub. `ClientPut` and `ClientGet` at A call `stubs_[B]`, a null pointer, if B's heartbeat
  is still recent; otherwise B only wastes places of A's preference lists. The condition
  on stubs in `Handoff`'s `ClientPut` leaves this case out.
* A consequence of the same line, found by TLC in `Handoff` with four commands when
  `AckedStaysReadable` is checked without its condition `~stale`: n leaves, k leaves, n joins
  again with k still on its ring, a write is acknowledged, n leaves. For its transfer n
  compares its ring with and without itself; both name k, which has gone, so the key seems to
  have no new owner, or k is it, and nothing reaches the server that is now
  responsible. A read quorum no longer meets the write.
* With `Check = 2 * Beat` and rounds that take a whole `Beat`, two joined servers can
  take turns in believing each other dead: the margin that `IntervalsAreNat` asks for
  in `Gossip` is used up.
* "Hinted handoff" (`src/README.md:3`) is the spreading of writes past servers that look
  dead; nothing hands such a write back when they return. Only joins and leaves
  transfer records.

## 6 What is left out

Not modelled, or only partly:

* Storage at the grain of single map accesses: two threads that assign and rehash
  one `unordered_map` are undefined behaviour whose outcomes are not worth
  enumerating; all modules read and write a record in one step.
* The file of the storage: it is written at each change and read only under
  `FIXED_CONFIG_TEST`, which is `false`, so that a restart is empty.
* One module for all: `Replication` and `Handoff` let every heartbeat be stale or fresh at every
  moment, which contains whatever `Gossip` does; `Handoff` takes from `Membership` the
  commands that are answered; `ClientLibrary` takes a put or get of `Replication` as one
  step. A composition of all of them is out of TLC's reach.
* Clocks of different machines that disagree.
* Placements with colliding hashes: `RingIsMembers` is about rings without.
* The command shells, load tools, S3 and Lambda samples: input and output only.
* Wording, colours, logging; hashing itself; gRPC's wire format.

## 7 What could follow

* Proofs: `VersionsAreUnique` without the condition on misjudged versions; that
  `Preference` of `Handoff` and the walk of `HashRing` name the same servers, which
  would tie the two modules by a theorem.
* Abstract specifications: for `Membership`, a set of members that changes by
  commands, implemented while answers are in time; for `Handoff`, a set of copies
  that never loses the last current one.
* A bound on the number of servers a membership change disturbs, in terms of points
  on the ring.

## 8 How to run it

In this directory: `tlc -config MCReplicationFaults.cfg MCReplication.tla`, and likewise for each
run of `PROJECT.json`; `tlapm ReplicationProofs.tla` and likewise for each module of proofs. The
longest run takes about two minutes.
