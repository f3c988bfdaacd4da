-------------------------- MODULE MembershipProofs --------------------------
(***************************************************************************)
(* What Membership keeps for any number of servers, commands, broken calls *)
(* and crashes, as long as no answer to the admin is late.                 *)
(***************************************************************************)
EXTENDS Membership, TLAPS

\* The part of the inductive invariant that speaks of punctual answers.
Orderly ==
  /\ CallsTakeTurns /\ TableIsRight
  /\ JoinCarries /\ JoinSpreads
  /\ JoinedKnowJoined /\ RingsLoseLeavers

Cmd == {"JoinNetwork", "LeaveNetwork", "Ping"}

-----------------------------------------------------------------------------
(* Types *)

LEMMA UnusedType == Unused \in CallState
BY DEF Unused, CallState

LEMMA PairsType ==
  \A n \in Server : /\ From(n) \subseteq Server \X Server
                    /\ \A ms \in SUBSET Server : To(n, ms) \subseteq Server \X Server
BY DEF From, To

LEMMA NoteType ==
  ASSUME TypeOK, NEW c \in Command, NEW joined \in BOOLEAN, Note(c, joined),
         joined => call[c].addr \in Server
  PROVE  status' \subseteq Server
BY DEF TypeOK, Note

LEMMA InitType == Init => TypeOK
BY UnusedType, BoundsAreNat DEF Init, TypeOK

LEMMA SendType ==
  ASSUME TypeOK, NEW c \in Command, NEW n \in Server, NEW cmd \in Cmd, Send(c, n, cmd)
  PROVE  TypeOK'
<1>1. [Unused EXCEPT !.stage = "sent", !.cmd = cmd, !.addr = n, !.waiting = TRUE,
                     !.list = IF cmd = "JoinNetwork" THEN status ELSE {}] \in CallState
  BY DEF TypeOK, Unused, CallState, Cmd
<1> QED
  BY <1>1, BoundsAreNat DEF TypeOK, Send, members

LEMMA GiveUpType ==
  ASSUME TypeOK, NEW c \in Command, GiveUp(c)
  PROVE  TypeOK'
<1>1. call' \in [Command -> CallState]
  <2>1. [call[c] EXCEPT !.waiting = FALSE] \in CallState
    BY DEF TypeOK, CallState
  <2> QED
    BY <2>1 DEF TypeOK, GiveUp
<1>2. late' \in 0 .. MaxLate
  BY BoundsAreNat DEF TypeOK, GiveUp
<1>3. status' \subseteq Server
  BY NoteType DEF GiveUp
<1> QED
  BY <1>1, <1>2, <1>3 DEF TypeOK, GiveUp, members

\* A slot that is cleared keeps the types.
LEMMA ClearedType ==
  ASSUME TypeOK, NEW c \in Command, call' = [call EXCEPT ![c] = Unused]
  PROVE  call' \in [Command -> CallState]
BY UnusedType DEF TypeOK

LEMMA UnservedType ==
  ASSUME TypeOK, NEW c \in Command, Unserved(c)
  PROVE  TypeOK'
BY NoteType, ClearedType DEF TypeOK, Unserved, members, counters

LEMMA PingType ==
  ASSUME TypeOK, NEW c \in Command, NEW n \in Server, Ping(c, n)
  PROVE  TypeOK'
<1>1. status' \subseteq Server
  BY NoteType DEF Ping, Served, TypeOK
<1> QED
  BY <1>1, ClearedType DEF TypeOK, Ping, members, counters

LEMMA ReturnType ==
  ASSUME TypeOK, NEW c \in Command, NEW n \in Server, Return(c, n)
  PROVE  TypeOK'
<1>1. status' \subseteq Server
  BY NoteType DEF Return
<1>2. alive' \in [Server -> BOOLEAN]
  BY DEF TypeOK, Return
<1> QED
  BY <1>1, <1>2, ClearedType DEF TypeOK, Return, members, counters

LEMMA LoopsType ==
  ASSUME TypeOK, NEW c \in Command, NEW n \in Server, NEW peers \in SUBSET Server,
         Loops(c, n, peers)
  PROVE  call' \in [Command -> CallState]
<1>1. [call[c] EXCEPT !.stage = "loop", !.list = peers] \in CallState
  BY DEF TypeOK, CallState
<1>2. \A d \in Command : [call[d] EXCEPT !.disturbed = TRUE] \in CallState
  BY DEF TypeOK, CallState
<1> QED
  BY <1>1, <1>2 DEF TypeOK, Loops

LEMMA VisitedType ==
  ASSUME TypeOK, NEW c \in Command, NEW m \in Server
  PROVE  /\ [call[c] EXCEPT !.visited = @ \union {m}] \in CallState
         /\ [call[c] EXCEPT !.disturbed = TRUE] \in CallState
         /\ call[c] \in CallState
BY DEF TypeOK, CallState

LEMMA AdminJoinType ==
  ASSUME TypeOK, NEW c \in Command, NEW n \in Server, AdminJoin(c, n)
  PROVE  TypeOK'
<1>1. call[c].list \subseteq Server
  BY DEF TypeOK, CallState
<1>2. ring' \in [Server -> SUBSET Server] /\ stubs' \in [Server -> SUBSET Server]
  BY <1>1 DEF TypeOK, AdminJoin
<1>3. call' \in [Command -> CallState]
  BY <1>2, LoopsType DEF AdminJoin
<1> QED
  BY <1>2, <1>3 DEF TypeOK, AdminJoin, counters

LEMMA AdminLeaveType ==
  ASSUME TypeOK, NEW c \in Command, NEW n \in Server, AdminLeave(c, n)
  PROVE  TypeOK'
<1>1. alive' \in [Server -> BOOLEAN] /\ ring' \in [Server -> SUBSET Server]
  BY DEF TypeOK, AdminLeave
<1>2. call' \in [Command -> CallState]
  BY LoopsType DEF TypeOK, AdminLeave
<1>3. untold' \subseteq Server \X Server
  BY PairsType DEF TypeOK, AdminLeave
<1> QED
  BY <1>1, <1>2, <1>3 DEF TypeOK, AdminLeave, counters

LEMMA PeerStepsType ==
  ASSUME TypeOK, NEW c \in Command, NEW n \in Server, NEW m \in Server,
         \/ JoinNetwork(c, n, m) \/ LeaveNetwork(c, n, m)
         \/ PeerDown(c, n, m) \/ PeerBroke(c, n, m)
  PROVE  TypeOK'
<1>1. call' \in [Command -> CallState]
  BY VisitedType DEF JoinNetwork, LeaveNetwork, PeerDown, PeerBroke, Visits
<1>2. CASE JoinNetwork(c, n, m)
  <2>1. ring' \in [Server -> SUBSET Server] /\ stubs' \in [Server -> SUBSET Server]
    BY <1>2 DEF TypeOK, JoinNetwork
  <2> QED
    BY <1>1, <1>2, <2>1 DEF TypeOK, JoinNetwork, counters
<1>3. CASE LeaveNetwork(c, n, m)
  <2>1. ring' \in [Server -> SUBSET Server] /\ stubs' \in [Server -> SUBSET Server]
    BY <1>3 DEF TypeOK, LeaveNetwork
  <2> QED
    BY <1>1, <1>3, <2>1 DEF TypeOK, LeaveNetwork, counters
<1>4. CASE PeerDown(c, n, m)
  BY <1>1, <1>4 DEF TypeOK, PeerDown, members, counters
<1>5. CASE PeerBroke(c, n, m)
  <2>1. broken' \in 0 .. MaxBroken
    BY <1>5, BoundsAreNat DEF TypeOK, PeerBroke
  <2>2. missed' \subseteq Server \X Server
    BY <1>5 DEF TypeOK, PeerBroke
  <2> QED
    BY <1>1, <1>5, <2>1, <2>2 DEF TypeOK, PeerBroke, members
<1> QED
  BY <1>2, <1>3, <1>4, <1>5

LEMMA CrashType ==
  ASSUME TypeOK, NEW n \in Server, Crash(n)
  PROVE  TypeOK'
<1>1. crashes' \in 0 .. MaxCrashes
  BY BoundsAreNat DEF TypeOK, Crash
<1>2. call' \in [Command -> CallState]
  BY UnusedType DEF TypeOK, Crash
<1>3. untold' \subseteq Server \X Server
  BY PairsType DEF TypeOK, Crash
<1> QED
  BY <1>1, <1>2, <1>3 DEF TypeOK, Crash

LEMMA RestartType ==
  ASSUME TypeOK, NEW n \in Server, Restart(n)
  PROVE  TypeOK'
BY DEF TypeOK, Restart, members, counters

LEMMA StepType == TypeOK /\ [Next]_vars => TypeOK'
<1> SUFFICES ASSUME TypeOK, [Next]_vars PROVE TypeOK'
  OBVIOUS
<1>1. CASE UNCHANGED vars
  BY <1>1 DEF TypeOK, vars, members, counters
<1>2. CASE \E c \in Command, n \in Server, cmd \in Cmd : Send(c, n, cmd)
  BY <1>2, SendType
<1>3. CASE \E c \in Command : GiveUp(c) \/ Unserved(c)
  BY <1>3, GiveUpType, UnservedType
<1>4. CASE \E c \in Command, n \in Server :
             Ping(c, n) \/ AdminJoin(c, n) \/ AdminLeave(c, n) \/ Return(c, n)
  BY <1>4, PingType, AdminJoinType, AdminLeaveType, ReturnType
<1>5. CASE \E c \in Command, n, m \in Server :
             \/ JoinNetwork(c, n, m) \/ LeaveNetwork(c, n, m)
             \/ PeerDown(c, n, m) \/ PeerBroke(c, n, m)
  BY <1>5, PeerStepsType
<1>6. CASE \E n \in Server : Crash(n) \/ Restart(n)
  BY <1>6, CrashType, RestartType
<1> QED
  BY <1>1, <1>2, <1>3, <1>4, <1>5, <1>6 DEF Next, Handler, Cmd

-----------------------------------------------------------------------------
(* One command at a time *)

\* While a command is under way no other slot is in use.
LEMMA Alone ==
  ASSUME TypeOK, CallsTakeTurns, NEW c \in Command, Active(c)
  PROVE  /\ \A d \in Command : d # c => call[d].stage = "idle" /\ ~call[d].waiting
         /\ call[c].addr \in Server /\ call[c].waiting
         /\ \A m : Joining(m) <=> /\ call[c].stage = "loop" /\ call[c].addr = m
                                  /\ call[c].cmd = "JoinNetwork"
         /\ \A m : Leaving(m) <=> /\ call[c].stage = "loop" /\ call[c].addr = m
                                  /\ call[c].cmd = "LeaveNetwork"
BY DEF CallsTakeTurns, Active, Joining, Leaving

\* What holds of the slots after a step that ends the command.
LEMMA Ended ==
  ASSUME TypeOK, CallsTakeTurns, NEW c \in Command, Active(c),
         call' = [call EXCEPT ![c] = Unused]
  PROVE  /\ CallsTakeTurns' /\ JoinCarries' /\ JoinSpreads'
         /\ \A m : ~Joining(m)' /\ ~Leaving(m)'
<1>1. \A d \in Command : call'[d].stage = "idle" /\ ~call'[d].waiting /\ ~call'[d].disturbed
  BY Alone DEF TypeOK, Unused, CallsTakeTurns
<1> QED
  BY <1>1 DEF CallsTakeTurns, Active, JoinCarries, JoinSpreads, Joining, Leaving

\* And after a step in which the loop of the command begins or goes on.
LEMMA GoesOn ==
  ASSUME TypeOK, CallsTakeTurns, NEW c \in Command, Active(c),
         \A d \in Command : d # c => call'[d] = call[d],
         call'[c].stage = "loop", call'[c].cmd = call[c].cmd,
         call'[c].addr = call[c].addr, call'[c].waiting = call[c].waiting,
         call'[c].disturbed = call[c].disturbed,
         call[c].addr \in running', call[c].cmd \in {"JoinNetwork", "LeaveNetwork"}
  PROVE  /\ CallsTakeTurns' /\ JoinCarries'
         /\ \A m : Joining(m)' <=> call[c].addr = m /\ call[c].cmd = "JoinNetwork"
         /\ \A m : Leaving(m)' <=> call[c].addr = m /\ call[c].cmd = "LeaveNetwork"
<1>1. \A d \in Command : d # c => call'[d].stage = "idle" /\ ~call'[d].waiting
  BY Alone
<1>2. call[c].addr \in Server /\ call[c].waiting /\ ~call[c].disturbed
  BY Alone DEF CallsTakeTurns
<1>3. CallsTakeTurns'
  BY <1>1, <1>2 DEF CallsTakeTurns, Active
<1>4. JoinCarries'
  BY <1>1 DEF JoinCarries
<1> QED
  BY <1>1, <1>3, <1>4 DEF Joining, Leaving

\* The slots after Visits: there is no other loop to disturb.
LEMMA VisitsAlone ==
  ASSUME TypeOK, CallsTakeTurns, NEW c \in Command, Active(c),
         NEW m, NEW changed, Visits(c, m, changed)
  PROVE  /\ \A d \in Command : d # c => call'[d] = call[d]
         /\ call'[c] = [call[c] EXCEPT !.visited = @ \union {m}]
BY Alone DEF Visits

-----------------------------------------------------------------------------
(* Every step keeps the orderly state *)

LEMMA SendOrderly ==
  ASSUME TypeOK, Orderly, NEW c \in Command, NEW n \in Server, NEW cmd \in Cmd,
         Send(c, n, cmd)
  PROVE  Orderly'
<1>1. \A d \in Command : call[d].stage = "idle"
  BY DEF Orderly, CallsTakeTurns, Active, Send
<1>2. /\ \A d \in Command : d # c => call'[d] = call[d]
      /\ call'[c].stage = "sent" /\ call'[c].addr = n /\ call'[c].waiting
      /\ ~call'[c].disturbed /\ call'[c].visited = {}
      /\ call'[c].cmd = "JoinNetwork" => call'[c].list = status
  BY DEF TypeOK, Send, Unused, Cmd
<1>3. CallsTakeTurns'
  BY <1>1, <1>2 DEF Orderly, CallsTakeTurns, Active
<1>4. \A m : /\ ~Joining(m) /\ ~Leaving(m)
            /\ ~Joining(m)' /\ ~Leaving(m)'
  BY <1>1, <1>2 DEF Joining, Leaving
<1>5. UNCHANGED <<running, alive, ring, stubs, status, missed, untold>>
  BY DEF Send, members
<1>6. TableIsRight'
  BY <1>4, <1>5 DEF Orderly, TableIsRight, From
<1>7. JoinCarries'
  BY <1>1, <1>2, <1>4, <1>5 DEF Orderly, TableIsRight, JoinCarries, From, TypeOK
<1>8. JoinSpreads'
  BY <1>1, <1>2 DEF JoinSpreads
<1>9. JoinedKnowJoined' /\ RingsLoseLeavers'
  BY <1>4, <1>5 DEF Orderly, JoinedKnowJoined, RingsLoseLeavers, Knows
<1> QED
  BY <1>3, <1>6, <1>7, <1>8, <1>9 DEF Orderly

\* Unserved and Ping: nothing is known afterwards that was not known before.
LEMMA AnsweredOrderly ==
  ASSUME TypeOK, Orderly, NEW c \in Command, NEW n \in Server,
         Unserved(c) \/ Ping(c, n)
  PROVE  Orderly'
<1>1. /\ Active(c) /\ call[c].stage = "sent" /\ call' = [call EXCEPT ![c] = Unused]
      /\ UNCHANGED <<running, alive, ring, stubs, missed, untold>>
  BY DEF Unserved, Ping, Served, Active, members
<1>2. CallsTakeTurns' /\ JoinCarries' /\ JoinSpreads'
  BY <1>1, Ended DEF Orderly
<1>3. \A m : /\ ~Joining(m) /\ ~Leaving(m)
            /\ ~Joining(m)' /\ ~Leaving(m)'
  BY <1>1, Ended, Alone DEF Orderly
<1>4. /\ \A m \in status' : m \notin status => alive[m]
      /\ \A m \in Server : m \in status /\ m \notin status' => ~alive[m]
  <2>1. call[c].addr \in Server /\ call[c].waiting
    BY <1>1, Alone DEF Orderly
  <2>2. CASE Unserved(c)
    BY <2>1, <2>2 DEF Unserved, Note, Orderly, TableIsRight
  <2>3. CASE Ping(c, n)
    BY <2>1, <2>3 DEF Ping, Served, Note
  <2> QED
    BY <2>2, <2>3
<1>5. TableIsRight'
  BY <1>1, <1>3, <1>4 DEF Orderly, TableIsRight, From
<1>6. JoinedKnowJoined' /\ RingsLoseLeavers'
  BY <1>1, <1>3 DEF Orderly, JoinedKnowJoined, RingsLoseLeavers, Knows
<1> QED
  BY <1>2, <1>5, <1>6 DEF Orderly

LEMMA ReturnOrderly ==
  ASSUME TypeOK, Orderly, NEW c \in Command, NEW n \in Server, Return(c, n)
  PROVE  Orderly'
<1>1. /\ Active(c) /\ call[c].stage = "loop" /\ call[c].addr = n
      /\ call[c].waiting /\ call' = [call EXCEPT ![c] = Unused]
      /\ UNCHANGED <<running, ring, stubs, missed, untold>>
      /\ call[c].list \intersect stubs[n] \subseteq call[c].visited
      /\ n \in running
  BY DEF Return, Active, Orderly, CallsTakeTurns
<1>2. CallsTakeTurns' /\ JoinCarries' /\ JoinSpreads' /\ \A m : ~Joining(m)' /\ ~Leaving(m)'
  BY <1>1, Ended DEF Orderly
<1>3. CASE call[c].cmd = "JoinNetwork"
  <2>1. /\ \A m \in Server : alive'[m] <=> alive[m] \/ m = n
        /\ status' = status \union {n}
    BY <1>1, <1>3 DEF Return, Note, TypeOK
  <2>2. \A m : ~Leaving(m) /\ (Joining(m) <=> m = n)
    BY <1>1, <1>3, Alone DEF Orderly
  <2>3. TableIsRight'
    BY <1>1, <1>2, <2>1, <2>2 DEF Orderly, TableIsRight, From, TypeOK
  <2>4. /\ n \in ring[n]
        /\ \A m \in Server \ {n} : alive[m] =>
              /\ m \in call[c].list /\ Knows(n, m)
              /\ m \in call[c].visited /\ <<n, m>> \notin missed => Knows(m, n)
    BY <1>1, <1>3 DEF Orderly, JoinSpreads
  <2>5. JoinedKnowJoined'
    BY <1>1, <2>1, <2>4 DEF Orderly, JoinedKnowJoined, Knows
  <2>6. RingsLoseLeavers'
    BY <1>1, <2>1, <2>2 DEF Orderly, RingsLoseLeavers
  <2> QED
    BY <1>2, <2>3, <2>5, <2>6 DEF Orderly
<1>4. CASE call[c].cmd = "LeaveNetwork"
  <2>1. /\ \A m \in Server : alive'[m] <=> alive[m]
        /\ status' = status \ {n}
    BY <1>1, <1>4 DEF Return, Note, TypeOK
  <2>2. \A m : ~Joining(m) /\ (Leaving(m) <=> m = n)
    BY <1>1, <1>4, Alone DEF Orderly
  <2>3. TableIsRight'
    BY <1>1, <1>2, <2>1, <2>2 DEF Orderly, TableIsRight, From, TypeOK
  <2>4. JoinedKnowJoined' /\ RingsLoseLeavers'
    BY <1>1, <2>1, <2>2 DEF Orderly, JoinedKnowJoined, RingsLoseLeavers, Knows
  <2> QED
    BY <1>2, <2>3, <2>4 DEF Orderly
<1> QED
  BY <1>1, <1>3, <1>4 DEF Orderly, CallsTakeTurns

LEMMA AdminJoinOrderly ==
  ASSUME TypeOK, Orderly, NEW c \in Command, NEW n \in Server, AdminJoin(c, n)
  PROVE  Orderly'
<1> DEFINE L == call[c].list
<1>1. /\ Active(c) /\ call[c].stage = "sent" /\ call[c].addr = n
      /\ call[c].cmd = "JoinNetwork" /\ n \in running
      /\ UNCHANGED <<running, alive, status, untold>>
      /\ missed' = missed \ To(n, L)
      /\ Loops(c, n, stubs'[n])
  BY DEF AdminJoin, Served, Active
<1>2. /\ \A d \in Command : d # c => call'[d] = call[d]
      /\ call'[c] = [call[c] EXCEPT !.stage = "loop", !.list = stubs'[n]]
  BY <1>1, Alone DEF Orderly, Loops
<1>3. /\ call'[c].stage = "loop" /\ call'[c].list = stubs'[n]
      /\ call'[c].cmd = call[c].cmd /\ call'[c].addr = n
      /\ call'[c].waiting = call[c].waiting
      /\ call'[c].disturbed = call[c].disturbed
      /\ call'[c].visited = call[c].visited
  BY <1>1, <1>2 DEF TypeOK, CallState
<1>4. /\ CallsTakeTurns' /\ JoinCarries'
      /\ \A m : (Joining(m)' <=> m = n) /\ ~Leaving(m)'
  BY <1>1, <1>2, <1>3, GoesOn DEF Orderly
<1>5. \A m : ~Joining(m) /\ ~Leaving(m)
  BY <1>1, Alone DEF Orderly
<1>6. /\ ring'[n] = ring[n] \union L \union {n}
      /\ stubs'[n] = L \ {n}
      /\ \A m \in Server \ {n} : ring'[m] = ring[m] /\ stubs'[m] = stubs[m]
  BY DEF AdminJoin, TypeOK
<1>7. /\ call[c].visited = {}
      /\ \A m \in Server : alive[m] => m \in L
      /\ \A m \in L \ {n} : ~alive[m] => From(m) \subseteq untold
  BY <1>1 DEF Orderly, JoinCarries
<1>8. TableIsRight'
  BY <1>1, <1>4, <1>5 DEF Orderly, TableIsRight, From
<1>9. JoinSpreads'
  <2>1. n \in ring'[n] /\ \A m \in Server \ {n} :
           alive'[m] => m \in call'[c].list /\ Knows(n, m)' /\ m \notin call'[c].visited
    BY <1>1, <1>3, <1>6, <1>7 DEF Knows
  <2>2. \A d \in Command : d # c => call'[d].stage = "idle"
    BY <1>1, <1>2, Alone DEF Orderly
  <2> QED
    BY <1>3, <2>1, <2>2 DEF JoinSpreads
<1>10. JoinedKnowJoined'
  <2> SUFFICES ASSUME NEW k \in Server, NEW j \in Server,
                      alive'[k], alive'[j], <<k, j>> \notin missed'
               PROVE  Knows(j, k)'
    BY DEF JoinedKnowJoined
  <2>1. CASE j = n
    BY <1>1, <1>6, <1>7, <2>1 DEF Knows
  <2>2. CASE j # n
    <3>1. <<k, j>> \notin missed
      BY <1>1, <2>2 DEF To
    <3> QED
      BY <1>1, <1>6, <2>2, <3>1 DEF Orderly, JoinedKnowJoined, Knows
  <2> QED
    BY <2>1, <2>2
<1>11. RingsLoseLeavers'
  <2> SUFFICES ASSUME NEW k \in Server, NEW j \in Server,
                      k \in ring'[j], k # j, ~alive'[k]
               PROVE  <<k, j>> \in untold'
    BY DEF RingsLoseLeavers
  <2>1. CASE k \in ring[j]
    BY <1>1, <1>5, <2>1 DEF Orderly, RingsLoseLeavers
  <2>2. CASE k \notin ring[j]
    BY <1>1, <1>6, <1>7, <2>2 DEF From
  <2> QED
    BY <2>1, <2>2
<1> QED
  BY <1>4, <1>8, <1>9, <1>10, <1>11 DEF Orderly

LEMMA AdminLeaveOrderly ==
  ASSUME TypeOK, Orderly, NEW c \in Command, NEW n \in Server, AdminLeave(c, n)
  PROVE  Orderly'
<1>1. /\ Active(c) /\ call[c].stage = "sent" /\ call[c].addr = n
      /\ call[c].cmd = "LeaveNetwork" /\ n \in running
      /\ UNCHANGED <<running, stubs, status, missed>>
      /\ untold' = untold \union From(n)
      /\ Loops(c, n, stubs[n])
  BY DEF AdminLeave, Served, Active
<1>2. /\ \A d \in Command : d # c => call'[d] = call[d]
      /\ call'[c] = [call[c] EXCEPT !.stage = "loop", !.list = stubs[n]]
  BY <1>1, Alone DEF Orderly, Loops
<1>3. /\ call'[c].stage = "loop"
      /\ call'[c].cmd = "LeaveNetwork" /\ call'[c].addr = n
      /\ call'[c].waiting = call[c].waiting
      /\ call'[c].disturbed = call[c].disturbed
  BY <1>1, <1>2 DEF TypeOK, CallState
<1>4. /\ CallsTakeTurns' /\ JoinCarries'
      /\ \A m : (Leaving(m)' <=> m = n) /\ ~Joining(m)'
  BY <1>1, <1>2, <1>3, GoesOn DEF Orderly
<1>5. \A m : ~Joining(m) /\ ~Leaving(m)
  BY <1>1, Alone DEF Orderly
<1>6. /\ ~alive'[n] /\ \A m \in Server \ {n} : alive'[m] = alive[m]
      /\ ring'[n] = ring[n] \ {n}
      /\ \A m \in Server \ {n} : ring'[m] = ring[m]
  BY DEF AdminLeave, TypeOK
<1>7. TableIsRight'
  BY <1>1, <1>4, <1>5, <1>6 DEF Orderly, TableIsRight, TypeOK
<1>8. JoinSpreads'
  BY <1>1, <1>2, <1>3, Alone DEF Orderly, JoinSpreads
<1>9. JoinedKnowJoined'
  BY <1>1, <1>6 DEF Orderly, JoinedKnowJoined, Knows
<1>10. RingsLoseLeavers'
  BY <1>1, <1>5, <1>6 DEF Orderly, RingsLoseLeavers, From
<1> QED
  BY <1>4, <1>7, <1>8, <1>9, <1>10 DEF Orderly

\* What the four steps at a stub have in common.
LEMMA AtStubAlone ==
  ASSUME TypeOK, Orderly, NEW c \in Command, NEW n \in Server, NEW m \in Server,
         NEW changed, AtStub(c, n, m), Visits(c, m, changed), running' = running
  PROVE  /\ Active(c) /\ call[c].stage = "loop" /\ call[c].addr = n
         /\ CallsTakeTurns' /\ JoinCarries'
         /\ \A k : (Joining(k)' <=> Joining(k)) /\ (Leaving(k)' <=> Leaving(k))
         /\ \A k : (Joining(k) <=> k = n /\ call[c].cmd = "JoinNetwork")
         /\ \A k : (Leaving(k) <=> k = n /\ call[c].cmd = "LeaveNetwork")
         /\ \A d \in Command : d # c => call'[d].stage = "idle"
         /\ call'[c].stage = "loop" /\ call'[c].addr = n
         /\ call'[c].cmd = call[c].cmd /\ call'[c].list = call[c].list
         /\ call'[c].visited = call[c].visited \union {m}
<1>1. Active(c) /\ call[c].stage = "loop" /\ call[c].addr = n
  BY DEF AtStub, Active
<1>2. /\ \A d \in Command : d # c => call'[d] = call[d]
      /\ call'[c] = [call[c] EXCEPT !.visited = @ \union {m}]
  BY <1>1, VisitsAlone DEF Orderly
<1>3. /\ call'[c].stage = "loop" /\ call'[c].addr = n
      /\ call'[c].cmd = call[c].cmd /\ call'[c].list = call[c].list
      /\ call'[c].waiting = call[c].waiting
      /\ call'[c].disturbed = call[c].disturbed
      /\ call'[c].visited = call[c].visited \union {m}
  BY <1>1, <1>2 DEF TypeOK, CallState
<1>4. n \in running' /\ call[c].cmd \in {"JoinNetwork", "LeaveNetwork"}
  BY <1>1 DEF Orderly, CallsTakeTurns
<1>5. /\ CallsTakeTurns' /\ JoinCarries'
      /\ \A k : Joining(k)' <=> n = k /\ call[c].cmd = "JoinNetwork"
      /\ \A k : Leaving(k)' <=> n = k /\ call[c].cmd = "LeaveNetwork"
  BY <1>1, <1>2, <1>3, <1>4, GoesOn DEF Orderly
<1>6. /\ \A k : Joining(k) <=> n = k /\ call[c].cmd = "JoinNetwork"
      /\ \A k : Leaving(k) <=> n = k /\ call[c].cmd = "LeaveNetwork"
      /\ \A d \in Command : d # c => call[d].stage = "idle"
  BY <1>1, Alone DEF Orderly
<1> QED
  BY <1>1, <1>2, <1>3, <1>5, <1>6

LEMMA JoinNetworkOrderly ==
  ASSUME TypeOK, Orderly, NEW c \in Command, NEW n \in Server, NEW m \in Server,
         JoinNetwork(c, n, m)
  PROVE  Orderly'
<1>1. /\ AtStub(c, n, m) /\ call[c].cmd = "JoinNetwork"
      /\ Visits(c, m, n \notin stubs[m])
      /\ UNCHANGED <<running, alive, status, untold>>
      /\ missed' = missed \ {<<n, m>>}
  BY DEF JoinNetwork
<1>2. /\ CallsTakeTurns' /\ JoinCarries'
      /\ call[c].stage = "loop" /\ call[c].addr = n
      /\ \A k : (Joining(k)' <=> k = n) /\ ~Leaving(k)'
      /\ \A k : (Joining(k) <=> k = n) /\ ~Leaving(k)
      /\ \A d \in Command : d # c => call'[d].stage = "idle"
      /\ call'[c].addr = n /\ call'[c].list = call[c].list
      /\ call'[c].visited = call[c].visited \union {m}
  BY <1>1, AtStubAlone
<1>3. /\ ring'[m] = ring[m] \union {n} /\ stubs'[m] = stubs[m] \union {n}
      /\ \A k \in Server \ {m} : ring'[k] = ring[k] /\ stubs'[k] = stubs[k]
  BY DEF JoinNetwork, TypeOK
<1>4. /\ \A j, k \in Server : Knows(j, k) => Knows(j, k)'
      /\ Knows(m, n)'
  BY <1>3 DEF Knows
<1>5. TableIsRight'
  BY <1>1, <1>2 DEF Orderly, TableIsRight, From
<1>6. JoinSpreads'
  <2>1. /\ n \in ring[n]
        /\ \A k \in Server \ {n} : alive[k] =>
             /\ k \in call[c].list /\ Knows(n, k)
             /\ k \in call[c].visited /\ <<n, k>> \notin missed => Knows(k, n)
    BY <1>1, <1>2 DEF Orderly, JoinSpreads
  <2>2. n \in ring'[n]
    BY <1>3, <2>1
  <2>3. \A k \in Server \ {n} : alive'[k] =>
          /\ k \in call'[c].list /\ Knows(n, k)'
          /\ k \in call'[c].visited /\ <<n, k>> \notin missed' => Knows(k, n)'
    BY <1>1, <1>2, <1>4, <2>1
  <2> QED
    BY <1>2, <2>2, <2>3 DEF JoinSpreads
<1>7. JoinedKnowJoined'
  <2> SUFFICES ASSUME NEW k \in Server, NEW j \in Server,
                      alive'[k], alive'[j], <<k, j>> \notin missed'
               PROVE  Knows(j, k)'
    BY DEF JoinedKnowJoined
  <2>1. CASE k = n /\ j = m
    BY <1>4, <2>1
  <2>2. CASE <<k, j>> \notin missed
    BY <1>1, <1>4, <2>2 DEF Orderly, JoinedKnowJoined
  <2> QED
    BY <1>1, <2>1, <2>2
<1>8. RingsLoseLeavers'
  BY <1>1, <1>2, <1>3 DEF Orderly, RingsLoseLeavers
<1> QED
  BY <1>2, <1>5, <1>6, <1>7, <1>8 DEF Orderly

LEMMA LeaveNetworkOrderly ==
  ASSUME TypeOK, Orderly, NEW c \in Command, NEW n \in Server, NEW m \in Server,
         LeaveNetwork(c, n, m)
  PROVE  Orderly'
<1>1. /\ AtStub(c, n, m) /\ call[c].cmd = "LeaveNetwork"
      /\ Visits(c, m, n \in stubs[m])
      /\ UNCHANGED <<running, alive, status, missed>>
      /\ untold' = untold \ {<<n, m>>}
  BY DEF LeaveNetwork
<1>2. /\ CallsTakeTurns' /\ JoinCarries'
      /\ \A k : ~Joining(k)' /\ (Leaving(k)' <=> k = n)
      /\ \A k : ~Joining(k) /\ (Leaving(k) <=> k = n)
      /\ \A d \in Command : d # c => call'[d].stage = "idle"
      /\ call'[c].cmd = "LeaveNetwork"
  BY <1>1, AtStubAlone
<1>3. /\ ring'[m] = ring[m] \ {n} /\ stubs'[m] = stubs[m] \ {n}
      /\ \A k \in Server \ {m} : ring'[k] = ring[k] /\ stubs'[k] = stubs[k]
  BY DEF LeaveNetwork, TypeOK
<1>4. ~alive[n]
  BY <1>2 DEF Orderly, TableIsRight
<1>5. TableIsRight'
  BY <1>1, <1>2 DEF Orderly, TableIsRight, From
<1>6. JoinSpreads'
  BY <1>2 DEF JoinSpreads
<1>7. JoinedKnowJoined'
  BY <1>1, <1>3, <1>4 DEF Orderly, JoinedKnowJoined, Knows
<1>8. RingsLoseLeavers'
  BY <1>1, <1>2, <1>3 DEF Orderly, RingsLoseLeavers
<1> QED
  BY <1>2, <1>5, <1>6, <1>7, <1>8 DEF Orderly

\* PeerDown and PeerBroke: the loop goes on, and if a server that lives was
\* not reached by a join this is recorded in missed.
LEMMA PeerFailedOrderly ==
  ASSUME TypeOK, Orderly, NEW c \in Command, NEW n \in Server, NEW m \in Server,
         PeerDown(c, n, m) \/ PeerBroke(c, n, m)
  PROVE  Orderly'
<1>1. /\ AtStub(c, n, m) /\ Visits(c, m, FALSE)
      /\ UNCHANGED <<running, alive, ring, stubs, status, untold>>
      /\ missed \subseteq missed'
      /\ call[c].cmd = "JoinNetwork" /\ m \in running => <<n, m>> \in missed'
  BY DEF PeerDown, PeerBroke, members
<1>2. /\ CallsTakeTurns' /\ JoinCarries'
      /\ call[c].stage = "loop" /\ call[c].addr = n
      /\ \A k : (Joining(k)' <=> Joining(k)) /\ (Leaving(k)' <=> Leaving(k))
      /\ \A d \in Command : d # c => call'[d].stage = "idle"
      /\ call'[c].addr = n /\ call'[c].list = call[c].list
      /\ call'[c].cmd = call[c].cmd
      /\ call'[c].visited = call[c].visited \union {m}
  BY <1>1, AtStubAlone
<1>3. TableIsRight'
  BY <1>1, <1>2 DEF Orderly, TableIsRight, From
<1>4. JoinSpreads'
  <2> SUFFICES ASSUME call[c].cmd = "JoinNetwork"
               PROVE  /\ n \in ring[n]
                      /\ \A k \in Server \ {n} : alive[k] =>
                           /\ k \in call[c].list /\ Knows(n, k)
                           /\ k \in call[c].visited \union {m} /\ <<n, k>> \notin missed'
                                => Knows(k, n)
    BY <1>1, <1>2 DEF JoinSpreads, Knows
  <2>1. /\ n \in ring[n]
        /\ \A k \in Server \ {n} : alive[k] =>
             /\ k \in call[c].list /\ Knows(n, k)
             /\ k \in call[c].visited /\ <<n, k>> \notin missed => Knows(k, n)
    BY <1>2 DEF Orderly, JoinSpreads
  <2>2. alive[m] => m \in running
    BY DEF Orderly, TableIsRight
  <2> QED
    BY <1>1, <2>1, <2>2
<1>5. JoinedKnowJoined' /\ RingsLoseLeavers'
  BY <1>1, <1>2 DEF Orderly, JoinedKnowJoined, RingsLoseLeavers, Knows
<1> QED
  BY <1>2, <1>3, <1>4, <1>5 DEF Orderly

LEMMA CrashOrderly ==
  ASSUME TypeOK, Orderly, NEW n \in Server, Crash(n)
  PROVE  Orderly'
<1>1. /\ running' = running \ {n} /\ missed' = missed /\ untold' = untold \union From(n)
      /\ ~alive'[n] /\ ring'[n] = {}
      /\ \A m \in Server \ {n} :
           alive'[m] = alive[m] /\ ring'[m] = ring[m] /\ stubs'[m] = stubs[m]
      /\ status' \subseteq status /\ status \ {n} \subseteq status'
  BY DEF Crash, TypeOK
<1>2. \A d \in Command : \/ call'[d] = call[d] /\ call[d].addr # n
                         \/ call[d].addr = n /\ call'[d] = Unused
  BY DEF Crash
<1>3. /\ \A d \in Command : call'[d].stage # "idle" => call'[d] = call[d] /\ call[d].addr # n
      /\ \A m \in Server \ {n} : (Joining(m)' <=> Joining(m)) /\ (Leaving(m)' <=> Leaving(m))
      /\ ~Joining(n)' /\ ~Leaving(n)'
  BY <1>2 DEF Unused, Joining, Leaving
<1>4. CallsTakeTurns'
  BY <1>1, <1>2 DEF Orderly, CallsTakeTurns, Active, Unused
<1>5. TableIsRight'
  <2>1. \A m \in Server : alive'[m] => m \in running' /\ m \in status'
    BY <1>1 DEF Orderly, TableIsRight
  <2>2. \A m \in status' : ~alive'[m] => Leaving(m)' \/ From(m) \subseteq untold'
    BY <1>1, <1>3 DEF Orderly, TableIsRight, TypeOK
  <2>3. \A m \in Server : Leaving(m)' => ~alive'[m]
    BY <1>1, <1>3 DEF Orderly, TableIsRight
  <2> QED
    BY <2>1, <2>2, <2>3 DEF TableIsRight, From
<1>6. JoinCarries'
  <2> SUFFICES ASSUME NEW c \in Command, call'[c].stage = "sent", call'[c].cmd = "JoinNetwork"
               PROVE  /\ call'[c].visited = {}
                      /\ \A m \in Server : alive'[m] => m \in call'[c].list
                      /\ \A m \in call'[c].list \ {call'[c].addr} :
                           ~alive'[m] => From(m) \subseteq untold'
    BY DEF JoinCarries, From
  <2>1. call'[c] = call[c] /\ call[c].list \subseteq Server
    BY <1>3 DEF TypeOK, CallState
  <2> QED
    BY <1>1, <2>1 DEF Orderly, JoinCarries
<1>7. JoinSpreads'
  <2> SUFFICES ASSUME NEW c \in Command, call'[c].stage = "loop", call'[c].cmd = "JoinNetwork",
                      NEW k, k = call'[c].addr
               PROVE  /\ k \in ring'[k]
                      /\ \A m \in Server \ {k} : alive'[m] =>
                           /\ m \in call'[c].list /\ Knows(k, m)'
                           /\ m \in call'[c].visited /\ <<k, m>> \notin missed' => Knows(m, k)'
    BY DEF JoinSpreads
  <2>1. call'[c] = call[c] /\ k \in Server \ {n} /\ k = call[c].addr
    BY <1>3 DEF Orderly, CallsTakeTurns, Active
  <2>2. /\ k \in ring[k]
        /\ \A m \in Server \ {k} : alive[m] =>
             /\ m \in call[c].list /\ Knows(k, m)
             /\ m \in call[c].visited /\ <<k, m>> \notin missed => Knows(m, k)
    BY <2>1 DEF Orderly, JoinSpreads
  <2> QED
    BY <1>1, <2>1, <2>2 DEF Knows
<1>8. JoinedKnowJoined'
  BY <1>1 DEF Orderly, JoinedKnowJoined, Knows
<1>9. RingsLoseLeavers'
  <2> SUFFICES ASSUME NEW k \in Server, NEW j \in Server,
                      k \in ring'[j], k # j, ~alive'[k]
               PROVE  <<k, j>> \in untold' \/ Joining(k)'
    BY DEF RingsLoseLeavers
  <2>1. CASE k = n
    BY <1>1, <2>1 DEF From
  <2>2. CASE k # n
    BY <1>1, <1>3, <2>2 DEF Orderly, RingsLoseLeavers
  <2> QED
    BY <2>1, <2>2
<1> QED
  BY <1>4, <1>5, <1>6, <1>7, <1>8, <1>9 DEF Orderly

LEMMA RestartOrderly ==
  ASSUME TypeOK, Orderly, NEW n \in Server, Restart(n)
  PROVE  Orderly'
<1>1. running \subseteq running' /\ UNCHANGED <<alive, ring, stubs, status, call, missed, untold>>
  BY DEF Restart, members
<1>2. CallsTakeTurns'
  BY <1>1 DEF Orderly, CallsTakeTurns, Active
<1>3. TableIsRight' /\ JoinCarries'
  BY <1>1 DEF Orderly, TableIsRight, JoinCarries, Leaving, From
<1>4. JoinSpreads' /\ JoinedKnowJoined' /\ RingsLoseLeavers'
  BY <1>1 DEF Orderly, JoinSpreads, JoinedKnowJoined, RingsLoseLeavers, Joining, Knows
<1> QED
  BY <1>2, <1>3, <1>4 DEF Orderly

-----------------------------------------------------------------------------
(* The theorems *)

LEMMA InitIndInv == Init => IndInv
<1> SUFFICES ASSUME Init PROVE IndInv
  OBVIOUS
<1>1. CallsTakeTurns /\ JoinCarries /\ JoinSpreads
  BY DEF Init, CallsTakeTurns, Active, JoinCarries, JoinSpreads, Unused
<1>2. TableIsRight /\ JoinedKnowJoined /\ RingsLoseLeavers
  BY DEF Init, TableIsRight, JoinedKnowJoined, RingsLoseLeavers, Leaving, Unused
<1> QED
  BY <1>1, <1>2, InitType DEF IndInv

\* An answer that was late once stays late, so the state was orderly before.
LEMMA LateStays ==
  ASSUME TypeOK, [Next]_vars, late' = 0
  PROVE  late = 0 /\ \A c \in Command : ~GiveUp(c)
<1>1. late \in Nat
  BY BoundsAreNat DEF TypeOK
<1>2. \A c \in Command : ~GiveUp(c)
  <2>1. \A c \in Command : GiveUp(c) => late' = late + 1
    BY DEF GiveUp
  <2> QED
    BY <1>1, <2>1
<1>3. late' = late
  <2>1. CASE UNCHANGED vars
    BY <2>1 DEF vars, counters
  <2>2. CASE \E c \in Command, n \in Server, cmd \in Cmd : Send(c, n, cmd)
    BY <2>2 DEF Send
  <2>3. CASE \E c \in Command : Handler(c)
    <3> PICK c \in Command : Handler(c)
      BY <2>3
    <3>1. CASE Unserved(c)
      BY <3>1 DEF Unserved, counters
    <3>2. CASE \E n \in Server : Ping(c, n) \/ AdminJoin(c, n) \/ AdminLeave(c, n) \/ Return(c, n)
      BY <3>2 DEF Ping, AdminJoin, AdminLeave, Return, counters
    <3>3. CASE \E n, m \in Server : \/ JoinNetwork(c, n, m) \/ LeaveNetwork(c, n, m)
                                   \/ PeerDown(c, n, m) \/ PeerBroke(c, n, m)
      BY <3>3 DEF JoinNetwork, LeaveNetwork, PeerDown, PeerBroke, counters
    <3> QED
      BY <3>1, <3>2, <3>3 DEF Handler
  <2>4. CASE \E n \in Server : Crash(n) \/ Restart(n)
    BY <2>4 DEF Crash, Restart, counters
  <2> QED
    BY <1>2, <2>1, <2>2, <2>3, <2>4 DEF Next, Cmd
<1> QED
  BY <1>2, <1>3

LEMMA StepIndInv == IndInv /\ [Next]_vars => IndInv'
<1> SUFFICES ASSUME IndInv, [Next]_vars PROVE IndInv'
  OBVIOUS
<1>1. TypeOK /\ TypeOK'
  BY StepType DEF IndInv
<1>2. ASSUME late' = 0 PROVE Orderly'
  <2>1. Orderly /\ \A c \in Command : ~GiveUp(c)
    BY <1>1, <1>2, LateStays DEF IndInv, Orderly
  <2>2. CASE UNCHANGED vars
    BY <2>1, <2>2 DEF Orderly, vars, members, CallsTakeTurns, Active, TableIsRight, Leaving,
       JoinCarries, JoinSpreads, Joining, JoinedKnowJoined, RingsLoseLeavers, Knows, From
  <2>3. CASE \E c \in Command, n \in Server, cmd \in Cmd : Send(c, n, cmd)
    BY <1>1, <2>1, <2>3, SendOrderly
  <2>4. CASE \E c \in Command : Unserved(c)
    <3> PICK c \in Command : Unserved(c)
      BY <2>4
    <3>1. call[c].addr \in Server
      BY <2>1 DEF Unserved, Orderly, CallsTakeTurns, Active
    <3> QED
      BY <1>1, <2>1, <3>1, AnsweredOrderly
  <2>5. CASE \E c \in Command, n \in Server :
               Ping(c, n) \/ AdminJoin(c, n) \/ AdminLeave(c, n) \/ Return(c, n)
    BY <1>1, <2>1, <2>5, AnsweredOrderly, AdminJoinOrderly, AdminLeaveOrderly, ReturnOrderly
  <2>6. CASE \E c \in Command, n, m \in Server :
               \/ JoinNetwork(c, n, m) \/ LeaveNetwork(c, n, m)
               \/ PeerDown(c, n, m) \/ PeerBroke(c, n, m)
    BY <1>1, <2>1, <2>6, JoinNetworkOrderly, LeaveNetworkOrderly, PeerFailedOrderly
  <2>7. CASE \E n \in Server : Crash(n) \/ Restart(n)
    BY <1>1, <2>1, <2>7, CrashOrderly, RestartOrderly
  <2> QED
    BY <2>1, <2>2, <2>3, <2>4, <2>5, <2>6, <2>7 DEF Next, Handler, Cmd
<1> QED
  BY <1>1, <1>2 DEF IndInv, Orderly

(* The inductive invariant: what a command that is under way carries and has *)
(* achieved, the admin's table, and what joined servers know of each other.  *)
THEOREM MembershipInvariance == Spec => []IndInv
<1> QED
  BY InitIndInv, StepIndInv, PTL DEF Spec

(* Type correctness of the membership handlers and of the admin's table. *)
THEOREM MembershipTypes == Spec => []TypeOK
<1>1. IndInv => TypeOK
  BY DEF IndInv
<1> QED
  BY <1>1, MembershipInvariance, PTL

(* While no answer to the admin is late, any two joined servers know each    *)
(* other, unless the call that should have announced one to the other broke. *)
THEOREM JoinedServersKnowEachOther == Spec => []NobodyMissed
<1>1. IndInv => NobodyMissed
  BY DEF IndInv, JoinedKnowJoined, NobodyMissed
<1> QED
  BY <1>1, MembershipInvariance, PTL

(* While no answer to the admin is late, a server that has gone is on the    *)
(* ring of those joined servers only that were not told of it.               *)
THEOREM GoneServersAreOffTheRings == Spec => []GoneIsGone
<1>1. IndInv => GoneIsGone
  BY DEF IndInv, RingsLoseLeavers, GoneIsGone, Quiet, Joining
<1> QED
  BY <1>1, MembershipInvariance, PTL

=============================================================================
