--------------------------- MODULE ClientLibrary ---------------------------
(***************************************************************************)
(* KeyValueStoreClient (src/client_grpc.cpp) and the servers as it sees    *)
(* them: Put that reads first, Get that asks the user about conflicting    *)
(* records and writes the choice back, the version the library keeps after *)
(* each, and the server it talks to.                                       *)
(*                                                                         *)
(* One key on a ring that does not change.  A ClientPut or ClientGet of a  *)
(* server is one step here (module Replication has the steps of it); what  *)
(* interleaves are the calls of the clients, of which one Put makes two,   *)
(* three or more.  The value of a write is the identity of the user's Put. *)
(* Which of several records a user picks is arbitrary.                     *)
(***************************************************************************)
EXTENDS VersionVector, FiniteSets, Sequences, SequencesExt

CONSTANTS
  Client, Put, Preference, REPLICA_N, W_COUNT, R_COUNT,
  NO_VALUE,
  NoServer,     \* the empty address, and the server of no call
  NoPut,        \* what a Get of the user writes
  MaxWrites,    \* how many writes servers version (bound)
  MaxFaults     \* how often servers die, calls to live ones break or clients
                \* are started once more (bound)

ASSUME NoneOfThem == NoServer \notin Server /\ NO_VALUE \notin Put /\ NoPut \notin Put
ASSUME PreferenceIsList ==
  Preference \in Seq(Server) /\ Len(Preference) <= 2 * REPLICA_N /\ IsInjective(Preference)
ASSUME CountsAreNat ==
  {REPLICA_N, W_COUNT, R_COUNT} \subseteq Nat \ {0} /\ {MaxWrites, MaxFaults} \subseteq Nat

Replica == ToSet(Preference)

VARIABLES
  store,    \* store[n]: the record of the key in n's StateMachine
  status,   \* status[n]: "joined", "started" (not re-admitted yet) or "down"
  client,   \* client[c]: the call of the user under way, and what the library keeps
  begun,    \* the puts users have asked for
  faults,   \* crashes, broken calls and new starts so far
  written,  \* history: the writes servers have versioned
  acked,    \* history: those of them that were answered OK
  overlap,  \* history: calls of two users ran at the same time
  misnamed, \* history: a server named another one in its answer to a put
  unsure,   \* history: a write-back was not answered OK
  back      \* history: a server has come back without its data

history == <<written, acked, overlap, misnamed, unsure, back>>
vars == <<store, status, client, begun, faults, history>>

-----------------------------------------------------------------------------
Record == [value : Put \union {NO_VALUE}, version : Version]
Absent == [value |-> NO_VALUE, version |-> NoVersion]

KeyValueStoreClient ==
  [phase : {"idle", "repairing", "writing", "dead"},
   goal : Put \union {NoPut},
   assigned_coordinator : Server \union {NoServer},
   cache : Record]                          \* the key in its state_machine_

\* A write and the server that gave it its version.
Write == [node : Server, value : Put \union {NO_VALUE}, version : Version]

TypeOK ==
  /\ store \in [Server -> Record]
  /\ status \in [Server -> {"joined", "started", "down"}]
  /\ client \in [Client -> KeyValueStoreClient]
  /\ begun \subseteq Put
  /\ written \subseteq Write /\ acked \subseteq written
  /\ faults \in 0 .. MaxFaults
  /\ {overlap, misnamed, unsure, back} \subseteq BOOLEAN

Started(n) ==
  [phase |-> "idle", goal |-> NoPut, assigned_coordinator |-> n, cache |-> Absent]

Init ==
  /\ store = [n \in Server |-> Absent] /\ status = [n \in Server |-> "joined"]
  /\ client \in [Client -> {Started(n) : n \in Server}]
  /\ begun = {} /\ faults = 0
  /\ written = {} /\ acked = {} /\ overlap = FALSE /\ misnamed = FALSE /\ unsure = FALSE /\ back = FALSE

-----------------------------------------------------------------------------
(* The servers' side *)

Rank == [m \in Replica |-> CHOOSE i \in DOMAIN Preference : Preference[i] = m]

\* The attempts on servers found alive that come before the one on m.
Before(alive, m) == Cardinality({k \in alive : Rank[k] < Rank[m]})

\* The loop of ClientPut and ClientGet over the list, for the servers it finds
\* alive: it ends at the REPLICA_N-th attempt if that one succeeds.
Asked(alive, good) ==
  IF \E m \in alive \intersect good : Before(alive, m) = REPLICA_N - 1
  THEN {m \in alive : Before(alive, m) < REPLICA_N} ELSE alive

Up(m) == status[m] # "down"
Accepts(m, version) == check_conflict_version(version, store[m].version) = 1

\* assigned_coordinator: the first server of the list whose heartbeat is
\* fresh.  A server's own one is; those of the others may be or not.
Named(n) ==
  IF status[n] = "started" THEN {NoServer}
  ELSE IF n \notin Replica THEN Replica \union {NoServer}
  ELSE {m \in Replica : Rank[m] <= Rank[n]}

\* The servers n finds alive, itself among them if it is on the list.
Fresh(n) == {a \in SUBSET Replica : n \in Replica => n \in a}

\* is_coordinator.
Coordinates(n) == status[n] = "joined" /\ n \in Replica

-----------------------------------------------------------------------------
(* Users *)

\* The library is past its read.
Writing(c) == client[c].phase \in {"repairing", "writing"}

\* The program is started, or once more, with the address of some server.
Start(c, n) ==
  /\ client[c].phase \in {"idle", "dead"} /\ faults < MaxFaults
  /\ faults' = faults + 1
  /\ client' = [client EXCEPT ![c] = Started(n)]
  /\ UNCHANGED <<store, status, begun, history>>

\* The call of the user is over.  What the library keeps of the key is not
\* looked at again: the next call reads, and a read that succeeds replaces it.
Returned(lib) == [lib EXCEPT !.phase = "idle", !.goal = NoPut, !.cache = Absent]

\* What the library does when its read, or the write-back in it, is over.
Proceed(lib) == IF lib.goal = NoPut THEN Returned(lib) ELSE [lib EXCEPT !.phase = "writing"]

-----------------------------------------------------------------------------
(* Get, with which a Put of the user begins as well: goal is what it writes  *)

\* A slip: the library keeps the version of the record picked, as read.
reconcile_Picked(lib, reply, r) ==
  IF reply = {r} THEN Proceed([lib EXCEPT !.cache = r])
  ELSE [lib EXCEPT !.phase = "repairing", !.cache = r]

\* One record is kept as it is; of several the user picks one, which is kept
\* with the reconciled version and written back.
reconcile(lib, reply, r) ==
  IF reply = {r} THEN Proceed([lib EXCEPT !.cache = r])
  ELSE [lib EXCEPT !.phase = "repairing",
          !.cache = [value |-> r.value, version |-> reconcile_version({q.version : q \in reply})]]

\* The library call begins, and ends unless the read succeeds.
Begins(c, goal) ==
  /\ client[c].phase = "idle" /\ goal \notin begun
  /\ begun' = begun \union ({goal} \ {NoPut})

Get(c, goal, n) ==
  /\ Begins(c, goal) /\ client[c].assigned_coordinator = n /\ status[n] = "joined"
  /\ overlap' = (overlap \/ \E d \in Client : Writing(d))
  /\ \E alive \in Fresh(n), lost \in SUBSET (Replica \ {n}) :
       LET answers == {m \in alive : m = n \/ (Up(m) /\ m \notin lost)}
           answered == Asked(alive, answers) \intersect answers
           reply == get_latest_data({store[m] : m \in answered})
       IN  /\ lost \subseteq {m \in alive : Up(m)} /\ faults + Cardinality(lost) <= MaxFaults
           /\ faults' = faults + Cardinality(lost)
           /\ Cardinality(answered) >= R_COUNT
           /\ \E coordinator \in Named(n), r \in reply :
                client' = [client EXCEPT ![c] =
                  reconcile([@ EXCEPT !.goal = goal, !.assigned_coordinator = coordinator], reply, r)]
  /\ UNCHANGED <<store, status, written, acked, misnamed, unsure, back>>

\* The library returns false from Get; Put picks a server from server_config,
\* which is empty: undefined behaviour, a null pointer is read.
Fails(c, goal) ==
  /\ Begins(c, goal)
  /\ client' = IF goal = NoPut THEN client ELSE [client EXCEPT ![c].phase = "dead"]
  /\ UNCHANGED <<store, status, history>>

\* The server is down, or there is none at that address.
NotThere(c) ==
  LET n == client[c].assigned_coordinator IN IF n = NoServer THEN TRUE ELSE ~Up(n)

\* CANCELLED: too few replicas answer, or the server's ring is empty.
Cancels(n) ==
  status[n] = "started" \/ \E alive \in Fresh(n) : Cardinality({m \in alive : m = n \/ Up(m)}) < R_COUNT

GetFails(c, goal) ==
  /\ IF NotThere(c) THEN TRUE ELSE Cancels(client[c].assigned_coordinator)
  /\ Fails(c, goal) /\ UNCHANGED faults

\* The deadline of 100 ms passes, or the call breaks.
GetBreaks(c, goal) ==
  /\ ~NotThere(c) /\ faults < MaxFaults /\ faults' = faults + 1
  /\ Fails(c, goal)

-----------------------------------------------------------------------------
(* Put after its read, and the write-back of a Get *)

\* A slip: the value of the user's Put is written back.
ValueOf_Goal(lib) == lib.goal

ValueOf(lib) == IF lib.phase = "repairing" THEN lib.cache.value ELSE lib.goal

\* Whatever comes of it, a write-back is over and so is a write.
Over(lib) == IF lib.phase = "repairing" THEN Proceed(lib) ELSE Returned(lib)

\* A slip: the library keeps the value and leaves the version as it was.
Kept_OldVersion(lib, coordinator) ==
  [lib EXCEPT !.cache = [value |-> ValueOf(lib), version |-> lib.cache.version]]

\* After OK: the value, under the version attached, bumped for the server
\* that the answer names.
Kept(lib, coordinator) ==
  [lib EXCEPT !.cache = [value |-> ValueOf(lib), version |-> update_version(lib.cache.version, coordinator)]]

\* ClientPut on n, and its answer, which reaches the library if heard.
PutAnswered(c, n, heard) ==
  /\ Writing(c) /\ client[c].assigned_coordinator = n /\ Coordinates(n)
  /\ client[c].cache.version[n] < MaxVersion /\ Cardinality(written) < MaxWrites
  /\ \E alive \in Fresh(n), lost, late \in SUBSET (Replica \ {n}), coordinator \in Named(n) :
       LET lib == client[c]
           record == [value |-> ValueOf(lib), version |-> update_version(lib.cache.version, n)]
           write == [node |-> n, value |-> record.value, version |-> record.version]
           takes == {m \in alive : m = n \/ (Up(m) /\ m \notin lost /\ Accepts(m, record.version))}
           asked == Asked(alive, takes \ late)
           OK == Cardinality(asked \intersect (takes \ late)) >= W_COUNT
           breaks == Cardinality(lost \union late) + (IF heard THEN 0 ELSE 1)
       IN  /\ lost \intersect late = {} /\ lost \union late \subseteq {m \in alive : Up(m)}
           /\ faults + breaks <= MaxFaults /\ faults' = faults + breaks
           /\ lib.cache.version[coordinator] < MaxVersion
           /\ store' = [m \in Server |-> IF m \in asked \intersect takes THEN record ELSE store[m]]
           /\ client' = [client EXCEPT ![c] = Over(IF heard /\ OK THEN Kept(@, coordinator) ELSE @)]
           /\ written' = written \union {write}
           /\ acked' = IF heard /\ OK THEN acked \union {write} ELSE acked
           /\ misnamed' = (misnamed \/ coordinator # n)
           /\ unsure' = (unsure \/ (lib.phase = "repairing" /\ ~(heard /\ OK)))
  /\ UNCHANGED <<status, begun, overlap, back>>

\* NOT_COORDINATOR: the library goes to the server named, without a read.
PutRefused(c, n) ==
  /\ Writing(c) /\ client[c].assigned_coordinator = n /\ Up(n) /\ ~Coordinates(n)
  /\ \E coordinator \in Named(n) :
       client' = [client EXCEPT ![c].assigned_coordinator = coordinator]
  /\ UNCHANGED <<store, status, begun, faults, history>>

\* A slip: the status of the call is not looked at.
PutBreaks_Counts(c) ==
  /\ Writing(c)
  /\ \/ NotThere(c) /\ UNCHANGED faults
     \/ ~NotThere(c) /\ faults < MaxFaults /\ faults' = faults + 1
  /\ client' = [client EXCEPT ![c] = Over(
       IF @.assigned_coordinator = NoServer THEN @ ELSE Kept(@, @.assigned_coordinator))]
  /\ unsure' = (unsure \/ client[c].phase = "repairing")
  /\ UNCHANGED <<store, status, begun, written, acked, overlap, misnamed, back>>

\* The call does not reach a server.
PutBreaks(c) ==
  /\ Writing(c)
  /\ \/ NotThere(c) /\ UNCHANGED faults
     \/ ~NotThere(c) /\ faults < MaxFaults /\ faults' = faults + 1
  /\ client' = [client EXCEPT ![c] = Over(@)]
  /\ unsure' = (unsure \/ client[c].phase = "repairing")
  /\ UNCHANGED <<store, status, begun, written, acked, overlap, misnamed, back>>

-----------------------------------------------------------------------------
\* A server dies with what it holds, and may be started again.
Crash(n) ==
  /\ Up(n) /\ faults < MaxFaults
  /\ faults' = faults + 1
  /\ status' = [status EXCEPT ![n] = "down"] /\ store' = [store EXCEPT ![n] = Absent]
  /\ UNCHANGED <<client, begun, history>>

Restart(n) ==
  /\ ~Up(n)
  /\ status' = [status EXCEPT ![n] = "started"] /\ back' = TRUE
  /\ UNCHANGED <<store, client, begun, faults, written, acked, overlap, misnamed, unsure>>

Next ==
  \/ \E c \in Client, goal \in Put \union {NoPut} :
       GetFails(c, goal) \/ GetBreaks(c, goal) \/ \E n \in Server : Get(c, goal, n)
  \/ \E c \in Client :
       PutBreaks(c) \/ \E n \in Server : \/ Start(c, n) \/ PutRefused(c, n)
                                         \/ \E heard \in BOOLEAN : PutAnswered(c, n, heard)
  \/ \E n \in Server : Crash(n) \/ Restart(n)

Spec == Init /\ [][Next]_vars

\* Users take turns, and every server that takes a put names itself.
Calm == ~overlap' /\ ~misnamed'

-----------------------------------------------------------------------------
RecordOf(w) == [value |-> w.value, version |-> w.version]

\* Some write that s versioned gave s the counter of version, and all that it
\* knew is part of what version knows.
Witnessed(version, s) ==
  \E w \in written : w.node = s /\ w.version[s] = version[s] /\ NotAbove(w.version, version)

(* The version a client attaches to its next write is one that servers have  *)
(* given or a reconciliation of such: bumping its own copy for the server    *)
(* named in the answer, the library guesses right as long as each server     *)
(* that takes a put names itself.                                            *)
CacheIsWritten ==
  ~misnamed => \A c \in Client, s \in Server :
    Lists(client[c].cache.version, s) => Witnessed(client[c].cache.version, s)

\* What a read of a quorum of the servers that are up may answer.
Replies ==
  {get_latest_data({store[m] : m \in answered}) :
     answered \in {a \in SUBSET {n \in Replica : Up(n)} : Cardinality(a) >= R_COUNT}}

\* Quorums overlap, and no server has come back without its data.
Undisturbed == W_COUNT + R_COUNT > Cardinality(Replica) /\ ~misnamed /\ ~back

\* check_conflict_version takes conflicting versions for ordered ones when one
\* is behind on a server and lists another one besides (module VersionScan).
Misjudged ==
  \E v, w \in written : /\ check_conflict_version(v.version, w.version) = -1
                        /\ ~Precedes(v.version, w.version)

\* Each later read of a quorum has the write, or one that knew of it.
Offered(w) ==
  \A reply \in Replies : \E r \in reply :
    \/ r = RecordOf(w)
    \/ Precedes(w.version, r.version)

(* "vector clocks with reconciliation during reads": a write answered OK is  *)
(* offered to the user by each later read, as it is or superseded by a write *)
(* that knew of it.                                                          *)
NoAckedIsHidden == Undisturbed => \A w \in acked : Offered(w)

(* That holds when clients take turns, through read, choice, write-back and  *)
(* write, whatever calls break between them and servers die, as long as no   *)
(* two versions have come up that the comparison misjudges.                  *)
AckedIsOffered == Undisturbed /\ ~overlap /\ ~Misjudged => \A w \in acked : Offered(w)

\* A read misses one server of the list at most, and a put none that it finds
\* alive.
Close == Cardinality(Replica) <= R_COUNT + 1 /\ Cardinality(Replica) <= REPLICA_N

(* A server counts on from what the client attaches and not from what it     *)
(* holds, so that one version may be given to two values: with five replicas *)
(* of which three answer a read, when a write that failed has reached two.   *)
(* Clients that take turns do not get there as long as a read misses one     *)
(* replica at most, unless the write before a Put's own was a write-back     *)
(* that failed.                                                              *)
VersionsAreUnique ==
  /\ Close /\ ~misnamed /\ ~back /\ ~overlap /\ ~unsure
  /\ \A n \in Server : Up(n)
  => \A n, m \in Server : store[n].version = store[m].version => store[n].value = store[m].value

-----------------------------------------------------------------------------
(* Why these hold: the inductive invariant.                                  *)

\* A Put past its read has something to write.
GoalsAreSet == \A c \in Client : client[c].phase = "writing" => client[c].goal # NoPut

\* The servers of the list hold what servers have versioned.
StoresAreWritten ==
  /\ \A n \in Server : store[n] = Absent \/ (n \in Replica /\ \E w \in written : store[n] = RecordOf(w))
  /\ \A w \in written : w.version # NoVersion

CountersAreWritten ==
  \A s \in Server :
    /\ \A n \in Server : Lists(store[n].version, s) => Witnessed(store[n].version, s)
    /\ \A c \in Client : Lists(client[c].cache.version, s) => Witnessed(client[c].cache.version, s)

OneAtATime == \A c, d \in Client : Writing(c) /\ Writing(d) => c = d

\* The write, or one that knew of it.
Has(n, w) == store[n] = RecordOf(w) \/ Precedes(w.version, store[n].version)

\* As many servers have it as a put counts, those included that are down.
AckedIsHeld == \A w \in acked : Cardinality({n \in Replica : ~Up(n) \/ Has(n, w)}) >= W_COUNT

\* A library that writes knows every write answered OK.
WritersKnowAcked ==
  \A c \in Client : Writing(c) => \A w \in acked : NotAbove(w.version, client[c].cache.version)

\* Nobody has a counter of a server that the server itself has not.
OwnCountersAhead == \A n, m \in Replica : store[n].version[m] <= store[m].version[m]

\* A library that writes knows what the servers hold, but for one of them.
WritersKnowTheRest ==
  \A c \in Client : Writing(c) =>
    /\ \E x \in Server : \A n \in Replica \ {x} : NotAbove(store[n].version, client[c].cache.version)
    /\ \A m \in Replica : client[c].cache.version[m] <= store[m].version[m]

StoresAgree ==
  \A n, m \in Server : store[n].version = store[m].version => store[n].value = store[m].value

IndInv ==
  /\ TypeOK /\ GoalsAreSet /\ StoresAreWritten
  /\ ~misnamed => CountersAreWritten
  /\ ~overlap => OneAtATime
  /\ Undisturbed /\ ~overlap /\ ~Misjudged => AckedIsHeld /\ WritersKnowAcked
  /\ Close /\ ~misnamed /\ ~back /\ ~overlap /\ ~unsure /\ ~Misjudged /\ (\A n \in Server : Up(n))
     => OwnCountersAhead /\ WritersKnowTheRest /\ StoresAgree

=============================================================================
