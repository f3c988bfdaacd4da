------------------------------- MODULE Gossip -------------------------------
(***************************************************************************)
(* Heartbeats: members_heartbeat_list_ of every server, gossip and Gossip  *)
(* of src/gossip_node.cpp, the loop of main in src/gossip_node_test.cpp    *)
(* that calls gossip, and what the admin's commands do to the table.       *)
(*                                                                         *)
(* The code stores times and compares their distance from now() with two   *)
(* intervals.  Here the table holds ages, in ticks of a clock that all     *)
(* servers share (the code compares times of different machines), and an   *)
(* age stops at Check, where CHECK_ALIVE_INTERVAL has passed: a server     *)
(* without an entry, whose time is read as 0, is no different.             *)
(*                                                                         *)
(* The admin gives one command at a time and hears every answer in time;   *)
(* module Membership is about the others.  Keys are moved elsewhere.       *)
(***************************************************************************)
EXTENDS Integers, FiniteSets

CONSTANTS
  Server, NoServer,
  Beat,          \* HEARTBEAT_INTERVAL in ticks
  Check,         \* CHECK_ALIVE_INTERVAL in ticks
  Delay,         \* how many ticks a round of gossip takes unless it is late
  MaxCommands,   \* how many commands the admin gives (bound)
  MaxLate,       \* how many ticks pass over a late round or command (bound)
  MaxBroken,     \* how many calls between living servers may break (bound)
  MaxCrashes     \* how many processes may die (bound)

ASSUME NoServerIsNone == NoServer \notin Server
ASSUME IntervalsAreNat ==
  Beat \in Nat /\ Check \in Nat /\ Delay \in Nat /\ Delay <= Beat /\ Beat + Delay < Check
ASSUME BoundsAreNat ==
  MaxCommands \in Nat /\ MaxLate \in Nat /\ MaxBroken \in Nat /\ MaxCrashes \in Nat

VARIABLES
  running,   \* the servers whose process runs
  alive,     \* the servers whose alive_ is set
  stubs,     \* stubs[n]: the servers in stubs_
  age,       \* age[n][m]: how old m's entry in members_heartbeat_list_ of n is
  msg,       \* msg[n]: the same for the request of the round n is in
  round,     \* round[n]: the peers that round has still to come to
  calling,   \* calling[n]: the peer it waits for
  status,    \* server_status_: the servers the admin takes for joined
  cmd,       \* the command under way, and the peers its loop has still to call
  issued, late, broken, crashes,   \* how often so far
  since,     \* history: ticks since n put its own time on record anywhere
  met        \* history: <<m, n>>, m has heard n, neither was told to join or
             \*   leave since, and n has not passed m over before hearing m too

tables == <<age, msg, since>>
counters == <<issued, late, broken, crashes>>
loops == <<round, calling>>
vars == <<running, alive, stubs, tables, loops, status, cmd, counters, met>>

-----------------------------------------------------------------------------
Age == 0 .. Check
Nobody == [m \in Server |-> Check]
NoCmd == [name |-> "none", addr |-> NoServer, todo |-> {}]
Command == [name : {"JoinNetwork", "LeaveNetwork"}, addr : Server, todo : SUBSET Server]

TypeOK ==
  /\ running \subseteq Server /\ alive \subseteq running
  /\ stubs \in [Server -> SUBSET Server]
  /\ age \in [Server -> [Server -> Age]]
  /\ msg \in [Server -> [Server -> Age]]
  /\ round \in [Server -> SUBSET Server]
  /\ calling \in [Server -> Server \union {NoServer}]
  /\ status \subseteq Server
  /\ cmd \in {NoCmd} \union Command
  /\ cmd # NoCmd => cmd.addr \in running
  /\ issued \in 0 .. MaxCommands /\ late \in 0 .. MaxLate
  /\ broken \in 0 .. MaxBroken /\ crashes \in 0 .. MaxCrashes
  /\ since \in [Server -> Age]
  /\ met \subseteq Server \X Server

Init ==
  /\ running = Server /\ alive = {}
  /\ stubs = [n \in Server |-> {}]
  /\ age = [n \in Server |-> Nobody]
  /\ msg = [n \in Server |-> Nobody]
  /\ round = [n \in Server |-> {}]
  /\ calling = [n \in Server |-> NoServer]
  /\ status = {} /\ cmd = NoCmd
  /\ issued = 0 /\ late = 0 /\ broken = 0 /\ crashes = 0
  /\ since = Nobody /\ met = {}

Believes(n, m) == age[n][m] < Check
Without(n) == {p \in met : n \notin {p[1], p[2]}}

-----------------------------------------------------------------------------
(* Time *)

Older(a) == IF a < Check THEN a + 1 ELSE Check

Idle(n) == round[n] = {} /\ calling[n] = NoServer

\* Only calls take time: a round is due as soon as the own entry is Beat old,
\* and its last call is over Delay ticks later.  A command has 100 ms, much
\* less than a tick.
Overdue ==
  \/ cmd # NoCmd
  \/ \E n \in running :
       IF Idle(n) THEN n \in alive /\ age[n][n] >= Beat
       ELSE calling[n] = NoServer \/ msg[n][n] >= Delay

Tick ==
  /\ Overdue => late < MaxLate
  /\ late' = IF Overdue THEN late + 1 ELSE late
  /\ age' = [n \in Server |-> [m \in Server |-> Older(age[n][m])]]
  /\ msg' = [n \in Server |-> [m \in Server |-> Older(msg[n][m])]]
  /\ since' = [n \in Server |-> Older(since[n])]
  /\ UNCHANGED <<running, alive, stubs, loops, status, cmd, issued, broken, crashes, met>>

-----------------------------------------------------------------------------
(* gossip on n *)

\* Up to its loop: called by main when the own entry is too old.
BeginRound(n) ==
  /\ n \in running /\ n \in alive /\ Idle(n)
  /\ age[n][n] >= Beat
  /\ age' = [age EXCEPT ![n][n] = 0]
  /\ since' = [since EXCEPT ![n] = 0]
  /\ msg' = [msg EXCEPT ![n] = IF stubs[n] = {} THEN Nobody ELSE age'[n]]
  /\ round' = [round EXCEPT ![n] = stubs[n]]
  /\ UNCHANGED <<running, alive, stubs, calling, status, cmd, counters, met>>

\* With the last peer the request is gone.
Ends(n, peers) == msg' = IF peers = {} THEN [msg EXCEPT ![n] = Nobody] ELSE msg

\* m is not believed alive and gets no gossip.
SkipPeer(n, m) ==
  /\ m \in round[n] /\ calling[n] = NoServer /\ ~Believes(n, m)
  /\ round' = [round EXCEPT ![n] = @ \ {m}]
  /\ Ends(n, round[n] \ {m})
  /\ met' = IF <<n, m>> \in met THEN met ELSE met \ {<<m, n>>}
  /\ UNCHANGED <<running, alive, stubs, age, since, calling, status, cmd, counters>>

CallPeer(n, m) ==
  /\ m \in round[n] /\ calling[n] = NoServer /\ Believes(n, m)
  /\ round' = [round EXCEPT ![n] = @ \ {m}]
  /\ calling' = [calling EXCEPT ![n] = m]
  /\ UNCHANGED <<running, alive, stubs, tables, status, cmd, counters, met>>

Answered(n) ==
  /\ calling' = [calling EXCEPT ![n] = NoServer]
  /\ Ends(n, round[n])

\* The call fails, m being down, or breaks on its way to m.
CallFails(n, m) ==
  /\ calling[n] = m
  /\ m \in running => broken < MaxBroken
  /\ broken' = IF m \in running THEN broken + 1 ELSE broken
  /\ Answered(n)
  /\ UNCHANGED <<running, alive, stubs, age, since, round, status, cmd, issued, late, crashes, met>>

\* History: a joined server m has heard what a joined server n last stamped.
Heard(n, m) ==
  met' = IF {n, m} \subseteq alive /\ m \in stubs[n] /\ msg[n][n] = age[n][n]
         THEN met \union {<<m, n>>} ELSE met

\* A slip: what a message says of a server is taken for a sign of life now.
Gossip_StampsNow(n, m) ==
  /\ calling[n] = m /\ m \in running
  /\ age' = [age EXCEPT ![m] =
       [x \in Server |-> IF msg[n][x] < Check THEN 0 ELSE age[m][x]]]
  /\ Answered(n) /\ Heard(n, m)
  /\ UNCHANGED <<running, alive, stubs, since, round, status, cmd, counters>>

\* A slip: entries of servers already known are left as they are.
Gossip_AddsOnly(n, m) ==
  /\ calling[n] = m /\ m \in running
  /\ age' = [age EXCEPT ![m] =
       [x \in Server |-> IF age[m][x] < Check THEN age[m][x] ELSE msg[n][x]]]
  /\ Answered(n) /\ Heard(n, m)
  /\ UNCHANGED <<running, alive, stubs, since, round, status, cmd, counters>>

\* The handler Gossip on m: of two times the later one is kept, and an unknown
\* server is added.
Gossip(n, m) ==
  /\ calling[n] = m /\ m \in running
  /\ age' = [age EXCEPT ![m] =
       [x \in Server |-> IF msg[n][x] < age[m][x] THEN msg[n][x] ELSE age[m][x]]]
  /\ Answered(n) /\ Heard(n, m)
  /\ UNCHANGED <<running, alive, stubs, since, round, status, cmd, counters>>

-----------------------------------------------------------------------------
(* AdminCmd on n, and the handlers of the others it calls *)

Begins(name, n, peers) ==
  /\ cmd = NoCmd /\ issued < MaxCommands
  /\ n \in running
  /\ issued' = issued + 1
  /\ cmd' = [name |-> name, addr |-> n, todo |-> peers]
  /\ met' = Without(n)

\* JoinNetwork, until joinNetwork comes to its loop.  A loop of gossip over the
\* stubs that are rebuilt may come to an end or see the new ones.
AdminJoin(n) ==
  /\ Begins("JoinNetwork", n, status \ {n})
  /\ stubs' = [stubs EXCEPT ![n] = status \ {n}]
  /\ \E seen \in SUBSET (status \ {n}) :
       round' = [round EXCEPT ![n] = IF Idle(n) THEN {} ELSE seen]
  /\ age' = [age EXCEPT ![n][n] = 0]
  /\ since' = [since EXCEPT ![n] = 0]
  /\ UNCHANGED <<running, alive, msg, calling, status, late, broken, crashes>>

AdminLeave(n) ==
  /\ Begins("LeaveNetwork", n, stubs[n])
  /\ alive' = alive \ {n}
  /\ UNCHANGED <<running, stubs, tables, loops, status, late, broken, crashes>>

Called(name, m) == cmd.name = name /\ m \in cmd.todo
Done(m) == cmd' = [cmd EXCEPT !.todo = @ \ {m}]

\* A slip: joinNetwork calls without setting the id in its request.
JoinNetwork_NoId(m) ==
  /\ Called("JoinNetwork", m) /\ m \in running
  /\ stubs' = [stubs EXCEPT ![m] = @ \union {NoServer}]
  /\ Done(m)
  /\ UNCHANGED <<running, alive, tables, loops, status, counters, met>>

\* JoinNetwork on m: the entry is made with m's time.
JoinNetwork(m) ==
  /\ Called("JoinNetwork", m) /\ m \in running
  /\ LET n == cmd.addr
     IN  /\ age' = [age EXCEPT ![m][n] = 0]
         /\ since' = [since EXCEPT ![n] = 0]
         /\ stubs' = [stubs EXCEPT ![m] = @ \union {n}]
         /\ \E seen \in {{}, {n}} :
              round' = [round EXCEPT ![m] = IF Idle(m) THEN {} ELSE @ \union seen]
  /\ Done(m)
  /\ UNCHANGED <<running, alive, msg, calling, status, counters, met>>

\* LeaveNetwork on m: the entry is erased.
LeaveNetwork(m) ==
  /\ Called("LeaveNetwork", m) /\ m \in running
  /\ LET n == cmd.addr
     IN  /\ age' = [age EXCEPT ![m][n] = Check]
         /\ stubs' = [stubs EXCEPT ![m] = @ \ {n}]
         /\ round' = [round EXCEPT ![m] = @ \ {n}]
  /\ Done(m)
  /\ UNCHANGED <<running, alive, msg, since, calling, status, counters, met>>

PeerFails(m) ==
  /\ m \in cmd.todo
  /\ m \in running => broken < MaxBroken
  /\ broken' = IF m \in running THEN broken + 1 ELSE broken
  /\ Done(m)
  /\ UNCHANGED <<running, alive, stubs, tables, loops, status, issued, late, crashes, met>>

\* The loop is done and the admin is answered.
Return ==
  /\ cmd # NoCmd /\ cmd.todo = {}
  /\ LET joined == IF cmd.name = "JoinNetwork" THEN {cmd.addr} ELSE {}
     IN  /\ alive' = alive \union joined
         /\ status' = (status \ {cmd.addr}) \union joined
  /\ cmd' = NoCmd
  /\ UNCHANGED <<running, stubs, tables, loops, counters, met>>

-----------------------------------------------------------------------------
(* Processes *)

Crash(n) ==
  /\ n \in running /\ crashes < MaxCrashes
  /\ crashes' = crashes + 1
  /\ running' = running \ {n} /\ alive' = alive \ {n}
  /\ stubs' = [stubs EXCEPT ![n] = {}]
  /\ age' = [age EXCEPT ![n] = Nobody]
  /\ msg' = [msg EXCEPT ![n] = Nobody]
  /\ round' = [round EXCEPT ![n] = {}]
  /\ calling' = [calling EXCEPT ![n] = NoServer]
  /\ cmd' = IF cmd.addr = n THEN NoCmd ELSE cmd
  /\ status' = IF cmd.addr = n THEN status \ {n} ELSE status
  /\ met' = Without(n)
  /\ UNCHANGED <<issued, late, broken, since>>

Restart(n) ==
  /\ n \notin running
  /\ running' = running \union {n}
  /\ UNCHANGED <<alive, stubs, tables, loops, status, cmd, counters, met>>

-----------------------------------------------------------------------------
Round(n) ==
  \/ BeginRound(n)
  \/ \E m \in Server : SkipPeer(n, m) \/ CallPeer(n, m) \/ Gossip(n, m) \/ CallFails(n, m)

Loop ==
  \/ \E m \in Server : JoinNetwork(m) \/ LeaveNetwork(m) \/ PeerFails(m)
  \/ Return

Next ==
  \/ Tick \/ Loop
  \/ \E n \in Server : Round(n) \/ AdminJoin(n) \/ AdminLeave(n) \/ Crash(n) \/ Restart(n)

Spec == Init /\ [][Next]_vars

-----------------------------------------------------------------------------
Prompt == late = 0 /\ broken = 0

(* No entry is younger than the last time the server itself was heard of,    *)
(* and none on its way: news that goes round does not grow younger.  So who  *)
(* is silent for CHECK_ALIVE_INTERVAL is believed alive by nobody, however   *)
(* often the others tell each other, and whatever an old message brings back *)
(* after LeaveNetwork has erased it.                                         *)
DeadIsNoticed ==
  \A n, m \in Server : since[m] <= age[n][m] /\ since[m] <= msg[n][m]

(* As long as rounds are neither late nor broken, a joined server that has   *)
(* heard another one goes on believing it alive, and if both have, neither   *)
(* passes the other over: a round every HEARTBEAT_INTERVAL is enough for     *)
(* CHECK_ALIVE_INTERVAL although a server sends to those only it believes in *)
(* itself.                                                                   *)
MetStayInSight == Prompt => \A p \in met : Believes(p[1], p[2])

-----------------------------------------------------------------------------
(***************************************************************************)
(* The inductive invariant behind the two safety properties: while nothing *)
(* is late, a joined server's own entry is the youngest one anybody has of *)
(* it and tells how far its round is, and an entry is no older than the    *)
(* round that made it, or than the one before if its turn is still to come.*)
(***************************************************************************)
Joined == alive \union (IF cmd.name = "JoinNetwork" THEN {cmd.addr} ELSE {})

Pending(n, m) == m \in round[n] \/ calling[n] = m

CommandsAreOrderly ==
  /\ cmd.addr \notin cmd.todo
  /\ cmd.name = "JoinNetwork" => age[cmd.addr][cmd.addr] = 0
  /\ cmd.name = "LeaveNetwork" => cmd.addr \notin alive
  /\ \A n \in Server : n \notin stubs[n]

RoundsAreOnTime ==
  /\ \A n \in Server \ running : Idle(n)
  /\ \A n \in Server : ~Idle(n) => msg[n][n] <= Delay
  /\ \A n \in Joined : IF Idle(n) THEN age[n][n] <= Beat ELSE age[n][n] <= msg[n][n]

OwnIsYoungest ==
  \A n \in Joined, x \in Server : age[n][n] <= age[x][n] /\ age[n][n] <= msg[x][n]

MetAreCalled ==
  \A m, n \in Server : <<m, n>> \in met =>
    /\ m \in alive /\ n \in alive /\ m \in stubs[n]
    /\ ~Idle(n) => msg[n][n] = age[n][n]
    /\ age[m][n] <= IF Pending(n, m) THEN Beat + msg[n][n] ELSE age[n][n]

Punctual == CommandsAreOrderly /\ RoundsAreOnTime /\ OwnIsYoungest /\ MetAreCalled

IndInv == TypeOK /\ DeadIsNoticed /\ (Prompt => Punctual)

=============================================================================
