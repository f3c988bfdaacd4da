----------------------------- MODULE Membership -----------------------------
(***************************************************************************)
(* Who knows whom: the admin's commands and the rings and stubs of all     *)
(* servers (AdminCmd, joinNetwork, JoinNetwork, leaveNetwork, LeaveNetwork *)
(* of src/gossip_node.cpp and Cmd of src/admin_grpc.cpp).                  *)
(*                                                                         *)
(* The admin is one thread and waits for an answer, but for 100 ms only;   *)
(* the handler on the server goes on after that, and the next command may  *)
(* run beside it.  No handler takes a lock.  Three parts of the handlers   *)
(* are left to other modules:                                              *)
(*  - ring_ is the set of servers with points on it (HashRing);            *)
(*  - the keys that a join or leave hands over do not change who knows     *)
(*    whom: the outcome of a transfer only sets a flag nobody reads;       *)
(*  - members_heartbeat_list_ is written here and by gossip, and read by   *)
(*    gossip and the data path only.                                       *)
(***************************************************************************)
EXTENDS Integers, FiniteSets

CONSTANTS
  Server,
  Command,       \* slots for AdminCmd calls, more than can overlap
  NoServer,      \* the address in a slot that is not in use
  MaxCommands,   \* how many commands the admin gives (bound)
  MaxLate,       \* how many of them may miss the deadline (bound)
  MaxBroken,     \* how many calls between living servers may break (bound)
  MaxCrashes     \* how many processes may die (bound)

ASSUME ServersAreFinite == IsFiniteSet(Server) /\ NoServer \notin Server
ASSUME BoundsAreNat ==
  MaxCommands \in Nat /\ MaxLate \in Nat /\ MaxBroken \in Nat /\ MaxCrashes \in Nat

VARIABLES
  running,    \* the servers whose process runs
  alive,      \* alive[n]: alive_, told to join and not to leave
  ring,       \* ring[n]: the servers on ring_
  stubs,      \* stubs[n]: the servers in stubs_
  status,     \* server_status_: the servers the admin takes for joined
  call,       \* call[c]: one AdminCmd, from the admin to the end of its handler
  issued, late, broken, crashes,   \* how often so far
  missed,     \* history: <<m, n>>, n lived and m's JoinNetwork call to it broke
  untold      \* history: <<m, n>>, m went away and n was not told

members == <<alive, ring, stubs>>
counters == <<issued, late, broken, crashes>>
vars == <<running, members, status, call, counters, missed, untold>>

-----------------------------------------------------------------------------
CallState ==
  [stage : {"idle", "sent", "loop"},
   cmd : {"none", "JoinNetwork", "LeaveNetwork", "Ping"},
   addr : Server \union {NoServer},
   list : SUBSET Server,     \* alive_servers, then the stubs to call
   visited : SUBSET Server,  \* the peers the loop has called
   waiting : BOOLEAN,        \* the admin still waits for the answer
   disturbed : BOOLEAN]      \* stubs_ has changed under the loop

Unused ==
  [stage |-> "idle", cmd |-> "none", addr |-> NoServer, list |-> {},
   visited |-> {}, waiting |-> FALSE, disturbed |-> FALSE]

TypeOK ==
  /\ running \subseteq Server
  /\ alive \in [Server -> BOOLEAN]
  /\ ring \in [Server -> SUBSET Server]
  /\ stubs \in [Server -> SUBSET Server]
  /\ status \subseteq Server
  /\ call \in [Command -> CallState]
  /\ issued \in 0 .. MaxCommands
  /\ late \in 0 .. MaxLate
  /\ broken \in 0 .. MaxBroken
  /\ crashes \in 0 .. MaxCrashes
  /\ missed \subseteq Server \X Server
  /\ untold \subseteq Server \X Server

Init ==
  /\ running = Server
  /\ alive = [n \in Server |-> FALSE]
  /\ ring = [n \in Server |-> {}]
  /\ stubs = [n \in Server |-> {}]
  /\ status = {}
  /\ call = [c \in Command |-> Unused]
  /\ issued = 0 /\ late = 0 /\ broken = 0 /\ crashes = 0
  /\ missed = {} /\ untold = {}

From(n) == {n} \X (Server \ {n})
To(n, ms) == ms \X {n}

-----------------------------------------------------------------------------
(* The admin *)

\* Cmd up to its call.  JoinNetwork carries the servers that are joined.
Send(c, n, cmd) ==
  /\ call[c].stage = "idle"
  /\ \A d \in Command : ~call[d].waiting
  /\ issued < MaxCommands
  /\ issued' = issued + 1
  /\ call' = [call EXCEPT ![c] =
       [Unused EXCEPT !.stage = "sent", !.cmd = cmd, !.addr = n, !.waiting = TRUE,
                      !.list = IF cmd = "JoinNetwork" THEN status ELSE {}]]
  /\ UNCHANGED <<running, members, status, late, broken, crashes, missed, untold>>

\* A slip: the entry is made for the address of a call already cleared.
Note_Cleared(c, joined) ==
  status' = IF ~call[c].waiting THEN status
            ELSE IF joined THEN status \union {Unused.addr}
            ELSE status \ {Unused.addr}

\* Cmd after its call, if the admin has waited for the end of c.
Note(c, joined) ==
  status' = IF ~call[c].waiting THEN status
            ELSE IF joined THEN status \union {call[c].addr}
            ELSE status \ {call[c].addr}

\* The deadline passes; the handler does not notice.
GiveUp(c) ==
  /\ call[c].waiting
  /\ late < MaxLate
  /\ late' = late + 1
  /\ Note(c, FALSE)
  /\ call' = [call EXCEPT ![c].waiting = FALSE]
  /\ UNCHANGED <<running, members, issued, broken, crashes, missed, untold>>

\* The call ends before a handler has begun: the server is down, or the
\* deadline was over by then.
Unserved(c) ==
  /\ call[c].stage = "sent"
  /\ call[c].addr \notin running \/ ~call[c].waiting
  /\ Note(c, FALSE)
  /\ call' = [call EXCEPT ![c] = Unused]
  /\ UNCHANGED <<running, members, counters, missed, untold>>

-----------------------------------------------------------------------------
(* AdminCmd on server n *)

Served(c, n, cmd) ==
  /\ call[c].stage = "sent"
  /\ call[c].addr = n /\ n \in running
  /\ call[c].cmd = cmd

Ping(c, n) ==
  /\ Served(c, n, "Ping")
  /\ Note(c, alive[n])
  /\ call' = [call EXCEPT ![c] = Unused]
  /\ UNCHANGED <<running, members, counters, missed, untold>>

\* The handler of c begins its loop over stubs_[n] = peers; a loop that another
\* handler runs there has its map changed if peers is not what it was.
Loops(c, n, peers) ==
  call' = [d \in Command |->
    IF d = c THEN [call[c] EXCEPT !.stage = "loop", !.list = peers]
    ELSE IF call[d].addr = n /\ call[d].stage = "loop" /\ peers # stubs[n]
         THEN [call[d] EXCEPT !.disturbed = TRUE]
    ELSE call[d]]

\* A slip: the stubs are not rebuilt, those of an earlier time are called.
AdminJoin_KeepsStubs(c, n) ==
  /\ Served(c, n, "JoinNetwork")
  /\ stubs' = [stubs EXCEPT ![n] = IF @ = {} THEN call[c].list \ {n} ELSE @]
  /\ ring' = [ring EXCEPT ![n] = @ \union call[c].list \union {n}]
  /\ Loops(c, n, stubs'[n])
  /\ missed' = missed \ To(n, call[c].list)
  /\ UNCHANGED <<running, alive, status, counters, untold>>

\* JoinNetwork: stubs_ is rebuilt from the command, its servers are added to
\* the ring, then joinNetwork adds the server itself.
AdminJoin(c, n) ==
  /\ Served(c, n, "JoinNetwork")
  /\ stubs' = [stubs EXCEPT ![n] = call[c].list \ {n}]
  /\ ring' = [ring EXCEPT ![n] = @ \union call[c].list \union {n}]
  /\ Loops(c, n, stubs'[n])
  /\ missed' = missed \ To(n, call[c].list)
  /\ UNCHANGED <<running, alive, status, counters, untold>>

\* LeaveNetwork: alive_ is cleared, leaveNetwork takes the server off its ring.
AdminLeave(c, n) ==
  /\ Served(c, n, "LeaveNetwork")
  /\ alive' = [alive EXCEPT ![n] = FALSE]
  /\ ring' = [ring EXCEPT ![n] = @ \ {n}]
  /\ Loops(c, n, stubs[n])
  /\ untold' = untold \union From(n)
  /\ UNCHANGED <<running, stubs, status, counters, missed>>

\* The loop of c on n has come to the stub of m.
AtStub(c, n, m) ==
  /\ call[c].stage = "loop" /\ call[c].addr = n
  /\ m \in stubs[n] \ call[c].visited

\* m was called, and stubs_ of m has changed or not under loops that run there.
Visits(c, m, changed) ==
  call' = [d \in Command |->
    IF d = c THEN [call[c] EXCEPT !.visited = @ \union {m}]
    ELSE IF call[d].addr = m /\ call[d].stage = "loop" /\ changed
         THEN [call[d] EXCEPT !.disturbed = TRUE]
    ELSE call[d]]

(* JoinNetwork on m.  Whether the answer arrives does not matter: it decides *)
(* a flag that joinNetwork returns and AdminCmd ignores.                     *)
JoinNetwork(c, n, m) ==
  /\ AtStub(c, n, m) /\ call[c].cmd = "JoinNetwork"
  /\ m \in running
  /\ ring' = [ring EXCEPT ![m] = @ \union {n}]
  /\ stubs' = [stubs EXCEPT ![m] = @ \union {n}]
  /\ Visits(c, m, n \notin stubs[m])
  /\ missed' = missed \ {<<n, m>>}
  /\ UNCHANGED <<running, alive, status, counters, untold>>

\* LeaveNetwork on m.
LeaveNetwork(c, n, m) ==
  /\ AtStub(c, n, m) /\ call[c].cmd = "LeaveNetwork"
  /\ m \in running
  /\ ring' = [ring EXCEPT ![m] = @ \ {n}]
  /\ stubs' = [stubs EXCEPT ![m] = @ \ {n}]
  /\ Visits(c, m, n \in stubs[m])
  /\ untold' = untold \ {<<n, m>>}
  /\ UNCHANGED <<running, alive, status, counters, missed>>

\* The call fails, m being down; the loop goes on.
PeerDown(c, n, m) ==
  /\ AtStub(c, n, m) /\ m \notin running
  /\ Visits(c, m, FALSE)
  /\ UNCHANGED <<running, members, status, counters, missed, untold>>

\* The call breaks before it has reached m; the loop goes on.
PeerBroke(c, n, m) ==
  /\ AtStub(c, n, m) /\ m \in running
  /\ broken < MaxBroken
  /\ broken' = broken + 1
  /\ Visits(c, m, FALSE)
  /\ missed' = IF call[c].cmd = "JoinNetwork" THEN missed \union {<<n, m>>} ELSE missed
  /\ UNCHANGED <<running, members, status, issued, late, crashes, untold>>

\* A slip: a server that has left stays in the admin's table.
Return_StillListed(c, n) ==
  /\ call[c].stage = "loop" /\ call[c].addr = n
  /\ call[c].list \intersect stubs[n] \subseteq call[c].visited \/ call[c].disturbed
  /\ alive' = [alive EXCEPT ![n] = @ \/ call[c].cmd = "JoinNetwork"]
  /\ Note(c, TRUE)
  /\ call' = [call EXCEPT ![c] = Unused]
  /\ UNCHANGED <<running, ring, stubs, counters, missed, untold>>

(* The loop is done, a server that joins is alive_, and the admin is         *)
(* answered.  A map that changed under its iterator may end the loop         *)
(* anywhere, or show servers that came in later.                             *)
Return(c, n) ==
  /\ call[c].stage = "loop" /\ call[c].addr = n
  /\ call[c].list \intersect stubs[n] \subseteq call[c].visited \/ call[c].disturbed
  /\ alive' = [alive EXCEPT ![n] = @ \/ call[c].cmd = "JoinNetwork"]
  /\ Note(c, call[c].cmd = "JoinNetwork")
  /\ call' = [call EXCEPT ![c] = Unused]
  /\ UNCHANGED <<running, ring, stubs, counters, missed, untold>>

-----------------------------------------------------------------------------
(* Processes *)

\* The process of n dies with its handlers; the admin sees its call fail.
Crash(n) ==
  /\ n \in running /\ crashes < MaxCrashes
  /\ crashes' = crashes + 1
  /\ running' = running \ {n}
  /\ alive' = [alive EXCEPT ![n] = FALSE]
  /\ ring' = [ring EXCEPT ![n] = {}]
  /\ stubs' = [stubs EXCEPT ![n] = {}]
  /\ call' = [c \in Command |-> IF call[c].addr = n THEN Unused ELSE call[c]]
  /\ status' = IF \E c \in Command : call[c].addr = n /\ call[c].waiting
               THEN status \ {n} ELSE status
  /\ untold' = untold \union From(n)
  /\ UNCHANGED <<issued, late, broken, missed>>

Restart(n) ==
  /\ n \notin running
  /\ running' = running \union {n}
  /\ UNCHANGED <<members, status, call, counters, missed, untold>>

-----------------------------------------------------------------------------
Handler(c) ==
  \/ Unserved(c)
  \/ \E n \in Server :
       \/ Ping(c, n) \/ AdminJoin(c, n) \/ AdminLeave(c, n) \/ Return(c, n)
       \/ \E m \in Server :
            \/ JoinNetwork(c, n, m) \/ LeaveNetwork(c, n, m)
            \/ PeerDown(c, n, m) \/ PeerBroke(c, n, m)

Next ==
  \/ \E c \in Command, n \in Server, cmd \in {"JoinNetwork", "LeaveNetwork", "Ping"} :
        Send(c, n, cmd)
  \/ \E c \in Command : GiveUp(c) \/ Handler(c)
  \/ \E n \in Server : Crash(n) \/ Restart(n)

Spec == Init /\ [][Next]_vars

-----------------------------------------------------------------------------
Quiet == \A c \in Command : call[c].stage = "idle"

\* n has m on its ring and can call it.
Knows(n, m) == m \in ring[n] /\ (m # n => m \in stubs[n])

(* As long as all answers reach the admin in time, every joined server is on *)
(* the ring of every joined server, itself included, and can be called by    *)
(* it, whatever order of joins, repeated joins, leaves, crashes and restarts *)
(* made them, unless the very call that should have announced it broke: the  *)
(* list from the admin's table and one round of calls are enough.            *)
NobodyMissed ==
  late = 0 /\ Quiet =>
    \A m, n \in Server :
      alive[m] /\ alive[n] /\ <<m, n>> \notin missed => Knows(n, m)

(* And a server that has gone is on no joined server's ring, unless that one *)
(* was not told: it was out at the time, its call broke, or the server       *)
(* crashed and nobody tells.  Nobody brings a server back that was told off. *)
GoneIsGone ==
  late = 0 /\ Quiet =>
    \A m, n \in Server :
      alive[n] /\ ~alive[m] /\ m \in ring[n] => <<m, n>> \in untold

-----------------------------------------------------------------------------
(***************************************************************************)
(* The inductive invariant behind NobodyMissed and GoneIsGone: while no    *)
(* answer is late, at most one command is under way, and it is known what  *)
(* its loop has achieved so far.                                           *)
(***************************************************************************)
Active(c) == call[c].stage # "idle"

Joining(m) == \E c \in Command : call[c].stage = "loop" /\ call[c].cmd = "JoinNetwork" /\ call[c].addr = m

Leaving(m) == \E c \in Command : call[c].stage = "loop" /\ call[c].cmd = "LeaveNetwork" /\ call[c].addr = m

CallsTakeTurns ==
  /\ \A c \in Command : ~call[c].disturbed /\ (Active(c) <=> call[c].waiting)
  /\ \A c, d \in Command : Active(c) /\ Active(d) => c = d
  /\ \A c \in Command :
       /\ Active(c) => call[c].addr \in Server
       /\ call[c].stage = "loop" => /\ call[c].addr \in running
                                    /\ call[c].cmd \in {"JoinNetwork", "LeaveNetwork"}

\* The admin's table names every joined server, and others only if nobody has
\* been told that they are gone or they are leaving now.
TableIsRight ==
  /\ \A n \in Server : alive[n] => n \in running /\ n \in status
  /\ \A n \in status : ~alive[n] => Leaving(n) \/ From(n) \subseteq untold
  /\ \A n \in Server : Leaving(n) => ~alive[n]

\* What a command for n carries, and what its loop has made so far.
JoinCarries ==
  \A c \in Command : call[c].stage = "sent" /\ call[c].cmd = "JoinNetwork" =>
    /\ call[c].visited = {}
    /\ \A m \in Server : alive[m] => m \in call[c].list
    /\ \A m \in call[c].list \ {call[c].addr} : ~alive[m] => From(m) \subseteq untold

JoinSpreads ==
  \A c \in Command : call[c].stage = "loop" /\ call[c].cmd = "JoinNetwork" =>
    LET n == call[c].addr
    IN  /\ n \in ring[n]
        /\ \A m \in Server \ {n} : alive[m] =>
             /\ m \in call[c].list /\ Knows(n, m)
             /\ m \in call[c].visited /\ <<n, m>> \notin missed => Knows(m, n)

JoinedKnowJoined ==
  \A m, n \in Server : alive[m] /\ alive[n] /\ <<m, n>> \notin missed => Knows(n, m)

RingsLoseLeavers ==
  \A m, n \in Server :
    m \in ring[n] /\ m # n /\ ~alive[m] => <<m, n>> \in untold \/ Joining(m)

IndInv ==
  /\ TypeOK
  /\ late = 0 => /\ CallsTakeTurns /\ TableIsRight
                 /\ JoinCarries /\ JoinSpreads
                 /\ JoinedKnowJoined /\ RingsLoseLeavers

-----------------------------------------------------------------------------
(* "notify the existing network that a new physical node will join": when no *)
(* command is under way and no call between servers broke, joined servers    *)
(* know each other.                                                          *)
NetworkIsNotified ==
  Quiet /\ broken = 0 => \A m, n \in Server : alive[m] /\ alive[n] => Knows(n, m)

=============================================================================
