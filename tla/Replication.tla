---------------------------- MODULE Replication ----------------------------
(***************************************************************************)
(* GossipNode's data path (src/gossip_node.cpp) for one key on a ring that *)
(* does not change: ClientPut and ClientGet on the server a client talks   *)
(* to, PeerPut and PeerGet on the replicas, and the process crashes that   *)
(* wipe the in-memory StateMachine.                                        *)
(*                                                                         *)
(* Every handler runs on a thread of the gRPC server and no lock is taken, *)
(* so handlers interleave between any two accesses to the store, and the   *)
(* steps below are cut there.  Keys do not interact on this path; one key  *)
(* is enough.  Two simplifications of the data:                            *)
(*  - StateMachine::put assigns value_store_[key] and version_store_[key]  *)
(*    one after the other; here they change together;                      *)
(*  - the value of a write is the identity of its request.                 *)
(***************************************************************************)
EXTENDS VersionVector, Sequences, FiniteSets

CONSTANTS
  Put, Get,     \* client requests
  Preference,   \* getReplicasNodes(key, 2 * REPLICA_N), the same on all servers
  REPLICA_N, W_COUNT, R_COUNT,
  NO_VALUE,     \* what get_value returns for a key it does not hold
  NoServer,     \* the server of a request that has not been received yet
  MaxCrashes,   \* how many times processes may die (bound)
  MaxBroken     \* how many calls may break although the peer lives (bound)

ASSUME ServerFinite == IsFiniteSet(Server) /\ NoServer \notin Server
ASSUME RequestsFinite ==
  /\ IsFiniteSet(Put) /\ IsFiniteSet(Get)
  /\ Put \intersect Get = {} /\ NO_VALUE \notin Put
ASSUME CountsAreNat ==
  /\ REPLICA_N \in Nat \ {0}
  /\ W_COUNT \in Nat \ {0}
  /\ R_COUNT \in Nat \ {0}
  /\ MaxCrashes \in Nat
  /\ MaxBroken \in Nat
ASSUME PreferenceIsList ==
  /\ Preference \in Seq(Server)
  /\ Len(Preference) <= 2 * REPLICA_N
  /\ \A i, j \in 1 .. Len(Preference) : Preference[i] = Preference[j] => i = j

Replica == {Preference[i] : i \in 1 .. Len(Preference)}

VARIABLES
  store,    \* store[n]: the record of the key in n's StateMachine
  status,   \* status[n]: "joined", "started" (not re-admitted yet) or "down"
  put,      \* put[p]: the ClientPut handler running request p
  rpc,      \* rpc[p][n]: the PeerPut call of request p to server n
  get,      \* get[g]: the ClientGet handler running request g
  crashes,  \* processes that have died so far
  broken    \* calls that have broken so far

vars == <<store, status, put, rpc, get, crashes, broken>>

-----------------------------------------------------------------------------
Record == [value : Put \union {NO_VALUE}, version : Version]

\* get_value and get_version of a key that is not there.
Absent == [value |-> NO_VALUE, version |-> NoVersion]

RecordOf(p) == [value |-> p, version |-> put[p].version]

PutRequest ==
  [phase : {"idle", "loop", "done"},
   node : Server \union {NoServer},
   version : Version,
   next : 1 .. Len(Preference) + 1,    \* position in replica_servers
   try_cnt : 0 .. Len(Preference),
   success_cnt : 0 .. Len(Preference),
   ret : {"none", "OK", "FAILED", "NOT_COORDINATOR", "UNAVAILABLE"}]

GetRequest ==
  [phase : {"idle", "loop", "done"},
   node : Server \union {NoServer},
   next : 1 .. Len(Preference) + 1,
   try_cnt : 0 .. Len(Preference),
   answered : SUBSET Replica,          \* success_cnt is its cardinality
   results : SUBSET Record,
   reply : SUBSET Record,              \* get_res_data of the response
   ret : {"none", "OK", "CANCELLED", "UNAVAILABLE"},
   owed : SUBSET Put]                  \* history: acknowledged before it began

CallStage == {"none", "sent", "checked", "applied", "rejected", "lost"}

TypeOK ==
  /\ store \in [Server -> Record]
  /\ status \in [Server -> {"joined", "started", "down"}]
  /\ put \in [Put -> PutRequest]
  /\ rpc \in [Put -> [Server -> CallStage]]
  /\ get \in [Get -> GetRequest]
  /\ crashes \in 0 .. MaxCrashes
  /\ broken \in 0 .. MaxBroken

Init ==
  /\ store = [n \in Server |-> Absent]
  /\ status = [n \in Server |-> "joined"]
  /\ put = [p \in Put |->
              [phase |-> "idle", node |-> NoServer, version |-> NoVersion,
               next |-> 1, try_cnt |-> 0, success_cnt |-> 0, ret |-> "none"]]
  /\ rpc = [p \in Put |-> [n \in Server |-> "none"]]
  /\ get = [g \in Get |->
              [phase |-> "idle", node |-> NoServer, next |-> 1, try_cnt |-> 0,
               answered |-> {}, results |-> {}, reply |-> {}, ret |-> "none",
               owed |-> {}]]
  /\ crashes = 0
  /\ broken = 0

\* The servers that have stored the record of p at some time.
Applied(p) == {n \in Replica : rpc[p][n] = "applied"}

Acked == {p \in Put : put[p].ret = "OK"}

(***************************************************************************)
(* The version a client may attach to a write.  KeyValueStoreClient::Put   *)
(* always reads first: on an empty system it learns NO_VALUE and no        *)
(* version; otherwise it attaches the version of the one record it was     *)
(* given, or reconciles those of several.  (After an OK the library also    *)
(* caches a version it computes itself, with response.coordinator(); only  *)
(* a put nested in a reconciling get can attach that one, and it is left   *)
(* to a model of the library.)                                             *)
(***************************************************************************)
ClientVersions ==
  {NoVersion} \union
  {reconcile_version({r.version : r \in get[g].reply}) :
     g \in {h \in Get : get[h].ret = "OK"}}

-----------------------------------------------------------------------------
(* ClientPut *)

\* A slip: the version is bumped for the first server of the list, which is
\* what response.coordinator() usually names, instead of for node_id_.
ClientPut_BumpsFirst(p, n, version) ==
  /\ put[p].phase = "idle"
  /\ status[n] = "joined" /\ n \in Replica
  /\ version[n] < MaxVersion
  /\ put' = [put EXCEPT ![p] = [@ EXCEPT !.phase = "loop", !.node = n,
                                         !.version = update_version(version, Preference[1])]]
  /\ UNCHANGED <<store, status, rpc, get, crashes, broken>>

\* A server on the list takes the request and versions the write.
ClientPut(p, n, version) ==
  /\ put[p].phase = "idle"
  /\ status[n] = "joined" /\ n \in Replica
  /\ version[n] < MaxVersion
  /\ put' = [put EXCEPT ![p] = [@ EXCEPT !.phase = "loop", !.node = n,
                                         !.version = update_version(version, n)]]
  /\ UNCHANGED <<store, status, rpc, get, crashes, broken>>

\* A server off the list, or one whose ring is still empty after a restart.
ClientPutRefused(p, n) ==
  /\ put[p].phase = "idle"
  /\ \/ status[n] = "joined" /\ n \notin Replica
     \/ status[n] = "started"
  /\ put' = [put EXCEPT ![p] = [@ EXCEPT !.phase = "done", !.node = n,
                                         !.ret = "NOT_COORDINATOR"]]
  /\ UNCHANGED <<store, status, rpc, get, crashes, broken>>

\* The loop over replica_servers has reached peer_server n for request p.
AtPeer(p, n) ==
  /\ put[p].phase = "loop"
  /\ put[p].next <= Len(Preference)
  /\ n = Preference[put[p].next]

\* One more attempt; one server further down the list.  A server passed over
\* leaves the counters alone, and try_cnt is not tested.
Tried(op) == [op EXCEPT !.try_cnt = @ + 1]

Passed(op) == [op EXCEPT !.next = @ + 1]

\* A slip: the loop stays at the peer it has just counted.
Acknowledged_Stays(op) ==
  [op EXCEPT !.success_cnt = @ + 1,
             !.next = IF op.try_cnt = REPLICA_N THEN Len(Preference) + 1 ELSE @]

\* success_cnt++, and the loop breaks if this was the REPLICA_N-th attempt.
Acknowledged(op) ==
  [op EXCEPT !.success_cnt = @ + 1,
             !.next = IF op.try_cnt = REPLICA_N THEN Len(Preference) + 1 ELSE @ + 1]

\* The server's own copy: state_machine_.put, whatever it held before.
PutLocal(p, n) ==
  /\ AtPeer(p, n) /\ n = put[p].node
  /\ store' = [store EXCEPT ![n] = RecordOf(p)]
  /\ rpc' = [rpc EXCEPT ![p][n] = "applied"]
  /\ put' = [put EXCEPT ![p] = Acknowledged(Tried(@))]
  /\ UNCHANGED <<status, get, crashes, broken>>

(***************************************************************************)
(* The heartbeat of a peer is fresh or not when the loop comes to it: the  *)
(* age depends on gossip and clocks, which are not part of this module, so *)
(* both branches are possible for every peer.                              *)
(***************************************************************************)
SkipPeer(p, n) ==
  /\ AtPeer(p, n) /\ n # put[p].node /\ rpc[p][n] = "none"
  /\ put' = [put EXCEPT ![p] = Passed(@)]
  /\ UNCHANGED <<store, status, rpc, get, crashes, broken>>

CallPeer(p, n) ==
  /\ AtPeer(p, n) /\ n # put[p].node /\ rpc[p][n] = "none"
  /\ rpc' = [rpc EXCEPT ![p][n] = "sent"]
  /\ put' = [put EXCEPT ![p] = Tried(@)]
  /\ UNCHANGED <<store, status, get, crashes, broken>>

\* peerPut returns 0: the call went through and the peer stored the record.
PeerAccepted(p, n) ==
  /\ AtPeer(p, n) /\ n # put[p].node /\ rpc[p][n] = "applied"
  /\ put' = [put EXCEPT ![p] = Acknowledged(@)]
  /\ UNCHANGED <<store, status, rpc, get, crashes, broken>>

\* peerPut returns 1: the peer held something newer, the same or in conflict.
PeerDeclined(p, n) ==
  /\ AtPeer(p, n) /\ n # put[p].node /\ rpc[p][n] = "rejected"
  /\ put' = [put EXCEPT ![p] = Passed(@)]
  /\ UNCHANGED <<store, status, rpc, get, crashes, broken>>

\* A slip: a call to a peer that was already down waits for it to come back.
PeerDied_WaitForReady(p, n) ==
  /\ AtPeer(p, n) /\ n # put[p].node
  /\ rpc[p][n] = "lost"
  /\ put' = [put EXCEPT ![p] = Passed(@)]
  /\ UNCHANGED <<store, status, rpc, get, crashes, broken>>

\* The peer is down, or died before it answered.
PeerDied(p, n) ==
  /\ AtPeer(p, n) /\ n # put[p].node
  /\ \/ rpc[p][n] = "lost"
     \/ rpc[p][n] # "none" /\ status[n] = "down"
  /\ put' = [put EXCEPT ![p] = Passed(@)]
  /\ UNCHANGED <<store, status, rpc, get, crashes, broken>>

\* A slip: the status of the call is not looked at, a broken call counts.
CallBroke_Counts(p, n) ==
  /\ AtPeer(p, n) /\ n # put[p].node
  /\ rpc[p][n] \in {"sent", "checked", "applied", "rejected"}
  /\ broken < MaxBroken
  /\ broken' = broken + 1
  /\ put' = [put EXCEPT ![p] = Acknowledged(@)]
  /\ UNCHANGED <<store, status, rpc, get, crashes>>

\* The call breaks on the way; it may have been executed, may still be, or
\* its answer is lost.
CallBroke(p, n) ==
  /\ AtPeer(p, n) /\ n # put[p].node
  /\ rpc[p][n] \in {"sent", "checked", "applied", "rejected"}
  /\ broken < MaxBroken
  /\ broken' = broken + 1
  /\ put' = [put EXCEPT ![p] = Passed(@)]
  /\ UNCHANGED <<store, status, rpc, get, crashes>>

\* A slip of the quorum test: W_COUNT - 1 successes are enough.
PutReturn_OffByOne(p) ==
  /\ put[p].phase = "loop" /\ put[p].next > Len(Preference)
  /\ put' = [put EXCEPT ![p] = [@ EXCEPT !.phase = "done",
                                         !.ret = IF put[p].success_cnt >= W_COUNT - 1
                                                THEN "OK" ELSE "FAILED"]]
  /\ UNCHANGED <<store, status, rpc, get, crashes, broken>>

PutReturn(p) ==
  /\ put[p].phase = "loop" /\ put[p].next > Len(Preference)
  /\ put' = [put EXCEPT ![p] = [@ EXCEPT !.phase = "done",
                                         !.ret = IF put[p].success_cnt >= W_COUNT
                                                THEN "OK" ELSE "FAILED"]]
  /\ UNCHANGED <<store, status, rpc, get, crashes, broken>>

-----------------------------------------------------------------------------
(* PeerPut on the replica: the version it holds is read and compared first,  *)
(* and written afterwards; other handlers may run in between.                *)

PeerPutCheck(p, n) ==
  /\ rpc[p][n] = "sent" /\ status[n] # "down"
  /\ rpc' = [rpc EXCEPT ![p][n] =
               IF check_conflict_version(put[p].version, store[n].version) = 1
               THEN "checked" ELSE "rejected"]
  /\ UNCHANGED <<store, status, put, get, crashes, broken>>

PeerPutApply(p, n) ==
  /\ rpc[p][n] = "checked"
  /\ store' = [store EXCEPT ![n] = RecordOf(p)]
  /\ rpc' = [rpc EXCEPT ![p][n] = "applied"]
  /\ UNCHANGED <<status, put, get, crashes, broken>>

-----------------------------------------------------------------------------
(* ClientGet *)

ClientGet(g, n) ==
  /\ get[g].phase = "idle" /\ status[n] = "joined"
  /\ get' = [get EXCEPT ![g] = [@ EXCEPT !.phase = "loop", !.node = n, !.owed = Acked]]
  /\ UNCHANGED <<store, status, put, rpc, crashes, broken>>

\* After a restart the ring is empty: no replica is asked, the get is CANCELLED.
ClientGetUnjoined(g, n) ==
  /\ get[g].phase = "idle" /\ status[n] = "started"
  /\ get' = [get EXCEPT ![g] = [@ EXCEPT !.phase = "done", !.ret = "CANCELLED"]]
  /\ UNCHANGED <<store, status, put, rpc, crashes, broken>>

AtReplica(g, n) ==
  /\ get[g].phase = "loop"
  /\ get[g].next <= Len(Preference)
  /\ n = Preference[get[g].next]

\* One more result; the loop breaks if this was the REPLICA_N-th attempt.
Collected(op, n) ==
  [op EXCEPT !.try_cnt = @ + 1,
             !.answered = @ \union {n},
             !.results = @ \union {store[n]},
             !.next = IF op.try_cnt + 1 = REPLICA_N THEN Len(Preference) + 1 ELSE @ + 1]

(* The own copy is read, or PeerGet is called and answers.  The caller waits *)
(* for the answer and PeerGet only reads, so call and answer are one step.   *)
GetFrom(g, n) ==
  /\ AtReplica(g, n)
  /\ n = get[g].node \/ status[n] # "down"
  /\ get' = [get EXCEPT ![g] = Collected(@, n)]
  /\ UNCHANGED <<store, status, put, rpc, crashes, broken>>

\* The peer's heartbeat is stale.
GetSkip(g, n) ==
  /\ AtReplica(g, n) /\ n # get[g].node
  /\ get' = [get EXCEPT ![g] = Passed(@)]
  /\ UNCHANGED <<store, status, put, rpc, crashes, broken>>

\* peerGet returns 1: the peer is down.  This branch does not test try_cnt.
GetDied(g, n) ==
  /\ AtReplica(g, n) /\ n # get[g].node /\ status[n] = "down"
  /\ get' = [get EXCEPT ![g] = Passed(Tried(@))]
  /\ UNCHANGED <<store, status, put, rpc, crashes, broken>>

\* The call breaks on the way.
GetBroke(g, n) ==
  /\ AtReplica(g, n) /\ n # get[g].node
  /\ broken < MaxBroken
  /\ broken' = broken + 1
  /\ get' = [get EXCEPT ![g] = Passed(Tried(@))]
  /\ UNCHANGED <<store, status, put, rpc, crashes>>

\* The handler is done with the locals nobody looks at any more.
Returned(op) ==
  [op EXCEPT !.phase = "done", !.node = NoServer, !.next = 1, !.try_cnt = 0]

\* A slip of the quorum test: R_COUNT - 1 answers are enough.
GetReturn_OffByOne(g) ==
  /\ get[g].phase = "loop" /\ get[g].next > Len(Preference)
  /\ get' = [get EXCEPT ![g] = Returned(
       [@ EXCEPT !.reply = get_latest_data(get[g].results),
                 !.ret = IF Cardinality(get[g].answered) >= R_COUNT - 1 THEN "OK" ELSE "CANCELLED"])]
  /\ UNCHANGED <<store, status, put, rpc, crashes, broken>>

GetReturn(g) ==
  /\ get[g].phase = "loop" /\ get[g].next > Len(Preference)
  /\ get' = [get EXCEPT ![g] = Returned(
       [@ EXCEPT !.reply = get_latest_data(get[g].results),
                 !.ret = IF Cardinality(get[g].answered) >= R_COUNT THEN "OK" ELSE "CANCELLED"])]
  /\ UNCHANGED <<store, status, put, rpc, crashes, broken>>

-----------------------------------------------------------------------------
(***************************************************************************)
(* The process of server n dies.  Its StateMachine is memory; the file     *)
(* that flush_to_disk writes is read back only under FIXED_CONFIG_TEST,    *)
(* which is false, so the record is gone.  The handlers it was running die *)
(* with it: clients see their call break, and so do the PeerPut calls it   *)
(* had not finished.                                                       *)
(***************************************************************************)
Crash(n) ==
  /\ status[n] # "down" /\ crashes < MaxCrashes
  /\ crashes' = crashes + 1
  /\ status' = [status EXCEPT ![n] = "down"]
  /\ store' = [store EXCEPT ![n] = Absent]
  /\ put' = [p \in Put |->
       IF put[p].phase = "loop" /\ put[p].node = n
       THEN [put[p] EXCEPT !.phase = "done", !.ret = "UNAVAILABLE"] ELSE put[p]]
  /\ get' = [g \in Get |->
       IF get[g].phase = "loop" /\ get[g].node = n
       THEN Returned([get[g] EXCEPT !.ret = "UNAVAILABLE"]) ELSE get[g]]
  /\ rpc' = [p \in Put |-> [m \in Server |->
       IF m = n /\ rpc[p][m] \in {"sent", "checked"} THEN "lost" ELSE rpc[p][m]]]
  /\ UNCHANGED broken

\* The process is started again; no JoinNetwork command has reached it yet,
\* but its service already answers PeerPut and PeerGet.
Restart(n) ==
  /\ status[n] = "down"
  /\ status' = [status EXCEPT ![n] = "started"]
  /\ UNCHANGED <<store, put, rpc, get, crashes, broken>>

-----------------------------------------------------------------------------
PutStep(p) ==
  \/ PutReturn(p)
  \/ \E n \in Server :
        \/ PutLocal(p, n) \/ SkipPeer(p, n) \/ CallPeer(p, n)
        \/ PeerAccepted(p, n) \/ PeerDeclined(p, n)
        \/ PeerDied(p, n) \/ CallBroke(p, n)

GetStep(g) ==
  \/ GetReturn(g)
  \/ \E n \in Server : 
        GetFrom(g, n) \/ GetSkip(g, n) \/ GetDied(g, n) \/ GetBroke(g, n)

PeerStep(p, n) == PeerPutCheck(p, n) \/ PeerPutApply(p, n)

Request ==
  \/ \E p \in Put, n \in Server :
        \/ \E version \in ClientVersions : ClientPut(p, n, version)
        \/ ClientPutRefused(p, n)
  \/ \E g \in Get, n \in Server : ClientGet(g, n) \/ ClientGetUnjoined(g, n)

Serve ==
  \/ \E p \in Put : PutStep(p)
  \/ \E g \in Get : GetStep(g)
  \/ \E p \in Put, n \in Server : PeerStep(p, n)
  \/ \E n \in Server : Crash(n) \/ Restart(n)

Next == Request \/ Serve

Spec == Init /\ [][Next]_vars

(* A handler that can take a step takes it: the threads of the gRPC server   *)
(* are scheduled, and a pending call ends in an answer or an error.          *)
Fairness ==
  /\ \A p \in Put : WF_vars(PutStep(p))
  /\ \A g \in Get : WF_vars(GetStep(g))
  /\ \A p \in Put, n \in Server : WF_vars(PeerStep(p, n))

FairSpec == Spec /\ Fairness

(* Clients that take turns: one request is served at a time, and a put       *)
(* begins only when no call of an earlier put, broken or not, still runs.    *)
(* Reads may overlap calls that broke and ran on.                            *)
InLoop == {p \in Put : put[p].phase = "loop"} \union {g \in Get : get[g].phase = "loop"}

Executing == {p \in Put : \E n \in Server : rpc[p][n] \in {"sent", "checked"}}

TakeTurns ==
  /\ InLoop # {} => InLoop' \subseteq InLoop
  /\ \A p \in Put : put[p].phase = "idle" /\ put'[p].phase = "loop" => Executing = {}

\* Serving begins no request and no put, so turns are a matter of Request.
TurnsNext == (Request /\ TakeTurns) \/ Serve

TurnsSpec == Init /\ [][TurnsNext]_vars

-----------------------------------------------------------------------------
(* "receive more than 2 acknowledgement before return to clients": a put     *)
(* answered OK has been stored by W_COUNT different replicas, whatever calls *)
(* broke, were refused or ran late.                                          *)
AckedHasQuorum ==
  \A p \in Acked : Cardinality(Applied(p)) >= W_COUNT

StrictQuorum == W_COUNT + R_COUNT > Cardinality(Replica)

(* A get answered OK has read from a replica that stored each put            *)
(* acknowledged before the get began, if the preference list is short enough *)
(* for the two quorums to overlap (three servers with the code's constants). *)
ReadsMeetWrites ==
  StrictQuorum =>
    \A g \in Get : get[g].ret = "OK" =>
      \A p \in get[g].owed : Applied(p) \intersect get[g].answered # {}

\* Some put coordinated by s gave s the counter of version, and what that
\* put had seen is part of what version has seen.
Witnessed(version, s) ==
  \E q \in Put :
    /\ put[q].node = s
    /\ put[q].version[s] = version[s]
    /\ NotAbove(put[q].version, version)

Causal(version) == \A s \in Server : Lists(version, s) => Witnessed(version, s)

(* No version claims a write that did not happen: each counter of a version  *)
(* on a replica, in a call or in an answer belongs to a put which that       *)
(* server coordinated, with all its causal past.  A replica that compares    *)
(* versions never yields to a phantom.                                       *)
NoPhantomVersions ==
  /\ \A p \in Put : Causal(put[p].version)
  /\ \A n \in Server : Causal(store[n].version)
  /\ \A g \in Get : \A r \in get[g].results : Causal(r.version)

(* A get that reached a replica holding data answers with data: the NO_VALUE *)
(* records of empty or restarted replicas neither replace nor accompany it,  *)
(* and the filter never empties the answer.                                  *)
DataIsNotHidden ==
  \A g \in Get : get[g].ret = "OK" =>
    /\ get[g].reply # {}
    /\ Absent \in get[g].reply => get[g].results = {Absent}

Started == {p \in Put : put[p].version # NoVersion}

\* No two puts conflict: each was made knowing the other's effect or vice versa.
CausallyOrdered ==
  \A p, q \in Started : p # q => \/ Precedes(put[p].version, put[q].version)
                                \/ Precedes(put[q].version, put[p].version)

(* When writes come one after the other, each based on what a read returned, *)
(* and no server loses its memory, a read after an acknowledged write        *)
(* answers with that write or one that followed it, whichever replicas were  *)
(* skipped, refused or failed on both sides.  Under Spec this is false: a    *)
(* put that is still in its loop overwrites the local record with an older   *)
(* one, and so does a PeerPut between its check and its write.               *)
CompletedWritesAreRead ==
  StrictQuorum /\ CausallyOrdered =>
    \A g \in Get : get[g].ret = "OK" =>
      \A p \in get[g].owed : \E r \in get[g].reply : NotAbove(put[p].version, r.version)

(* Every request the server takes is answered: the loops end although calls  *)
(* break, peers crash and late calls linger.                                 *)
RequestsReturn ==
  /\ \A p \in Put : put[p].phase = "loop" ~> put[p].phase = "done"
  /\ \A g \in Get : get[g].phase = "loop" ~> get[g].phase = "done"

-----------------------------------------------------------------------------
(***************************************************************************)
(* The inductive invariant behind the properties above: how far a handler  *)
(* has come ties its counters to what the replicas and answers show.       *)
(***************************************************************************)
Position == 1 .. Len(Preference)

\* The servers the loop of p has left behind.
Visited(p) == {Preference[i] : i \in {j \in Position : j < put[p].next}}

PutIdle(p) ==
  put[p].phase = "idle" =>
    /\ put[p].node = NoServer
    /\ put[p].version = NoVersion
    /\ put[p].next = 1 /\ put[p].try_cnt = 0 /\ put[p].success_cnt = 0
    /\ put[p].ret = "none"
    /\ \A n \in Server : rpc[p][n] = "none"

\* success_cnt counts different replicas which hold the record and lie behind
\* the loop; nothing has been sent to those that lie ahead of it.
PutInLoop(p) ==
  put[p].phase = "loop" =>
    /\ put[p].node \in Server
    /\ put[p].ret = "none"
    /\ put[p].version # NoVersion
    /\ put[p].success_cnt < put[p].next
    /\ put[p].success_cnt <= Cardinality(Applied(p) \intersect Visited(p))
    /\ put[p].try_cnt <= put[p].next
    /\ put[p].try_cnt <= Len(Preference)
    /\ \A i \in Position :
         /\ i > put[p].next => rpc[p][Preference[i]] = "none"
         /\ i >= put[p].next /\ Preference[i] = put[p].node => rpc[p][Preference[i]] = "none"
         /\ i = put[p].next /\ rpc[p][Preference[i]] = "none" => put[p].try_cnt < put[p].next

PutDone(p) ==
  put[p].phase = "done" =>
    /\ put[p].ret # "none"
    /\ put[p].ret = "OK" => Cardinality(Applied(p)) >= W_COUNT

\* Only a put that was versioned calls peers.
CallsHaveVersions ==
  \A p \in Put, n \in Server : rpc[p][n] # "none" => put[p].version # NoVersion

GetProgress(g) ==
  /\ get[g].phase = "idle" => /\ get[g].next = 1 /\ get[g].try_cnt = 0
                              /\ get[g].answered = {} /\ get[g].results = {}
  /\ get[g].phase # "done" => get[g].ret = "none"
  /\ get[g].try_cnt < get[g].next
  /\ IsFiniteSet(get[g].results)
  /\ get[g].answered # {} => get[g].results # {}
  /\ get[g].ret = "OK" => /\ Cardinality(get[g].answered) >= R_COUNT
                          /\ get[g].reply = get_latest_data(get[g].results)
  /\ \A p \in get[g].owed : put[p].phase = "done" /\ put[p].ret = "OK"

\* A record without a version is the answer "no such key".
UnversionedIsAbsent ==
  /\ \A n \in Server : store[n].version = NoVersion => store[n] = Absent
  /\ \A g \in Get : \A r \in get[g].results : r.version = NoVersion => r = Absent

IndInv ==
  /\ TypeOK
  /\ \A p \in Put : PutIdle(p) /\ PutInLoop(p) /\ PutDone(p)
  /\ CallsHaveVersions
  /\ \A g \in Get : GetProgress(g)
  /\ UnversionedIsAbsent

-----------------------------------------------------------------------------
(***************************************************************************)
(* Why CompletedWritesAreRead holds of clients that take turns: the put    *)
(* that runs is always the last one, so replicas only move forward.        *)
(***************************************************************************)

\* Versions of writes, and none.
Known == {NoVersion} \union {put[p].version : p \in Started}

RecordsAreWritten ==
  /\ \A n \in Server : store[n].version \in Known
  /\ \A g \in Get : \A r \in get[g].results : r.version \in Known

\* No gap: a version that is not the last one has been counted on from.
VersionsAreConsecutive ==
  \A v \in Known : (\E p \in Started : Precedes(v, put[p].version)) =>
    \E p \in Started, s \in Server : put[p].version = update_version(v, s)

\* Handlers and calls that still run are those of a put that knows the others.
OnlyTheLastWrites ==
  \A p \in Put : put[p].phase = "loop" \/ p \in Executing =>
    \A q \in Started : NotAbove(put[q].version, put[p].version)

\* A replica that has stored a put keeps it, or one that knew of it.
CopiesMoveForward ==
  \A p \in Put : \A n \in Applied(p) : NotAbove(put[p].version, store[n].version)

\* What the answers collected so far say of p, its versions included.
ShowsIn(records, p) == \E r \in records : NotAbove(put[p].version, r.version)

\* The replicas with p that the get has not asked yet, or that it knows p from.
Offers(g, p) == {n \in Applied(p) : n \in get[g].answered => ShowsIn(get[g].results, p)}

ReadsKeepUp ==
  \A g \in Get : \A p \in get[g].owed :
    /\ get[g].phase = "loop" => Cardinality(Offers(g, p)) >= W_COUNT
    /\ StrictQuorum /\ get[g].ret = "OK" => ShowsIn(get[g].reply, p)

TurnsInv ==
  /\ RecordsAreWritten
  /\ CausallyOrdered /\ crashes = 0 =>
       VersionsAreConsecutive /\ OnlyTheLastWrites /\ CopiesMoveForward /\ ReadsKeepUp

-----------------------------------------------------------------------------
(* Refinement: the handlers implement the quorum promise of QuorumStore.     *)
Outcome(p) ==
  IF put[p].phase # "done" THEN "open"
  ELSE IF put[p].ret = "OK" THEN "OK" ELSE "failed"

ReadPhase(g) ==
  IF get[g].phase = "idle" THEN "idle"
  ELSE IF get[g].phase = "loop" THEN "open"
  ELSE IF get[g].ret = "OK" THEN "OK" ELSE "failed"

Promise == INSTANCE QuorumStore WITH
  copies <- [p \in Put |-> Applied(p)],
  outcome <- [p \in Put |-> Outcome(p)],
  answers <- [g \in Get |-> get[g].answered],
  reading <- [g \in Get |-> ReadPhase(g)],
  owed <- [g \in Get |-> get[g].owed],
  WriteQuorum <- {Q \in SUBSET Replica : Cardinality(Q) >= W_COUNT},
  ReadQuorum <- {Q \in SUBSET Replica : Cardinality(Q) >= R_COUNT}

(* Whatever the handlers, broken calls and crashes do, clients see a store   *)
(* that acknowledges with W_COUNT copies and answers from R_COUNT replicas.  *)
ImplementsPromise == Promise!Spec

=============================================================================
