---------------------------- MODULE GossipProofs ----------------------------
(***************************************************************************)
(* What Gossip keeps for any number of servers, any intervals as far apart *)
(* as IntervalsAreNat says, and any number of commands, crashes, late      *)
(* rounds and broken calls.                                                *)
(***************************************************************************)
EXTENDS Gossip, TLAPS

-----------------------------------------------------------------------------
(* Types *)

LEMMA OlderType == \A a \in Age : Older(a) \in Age /\ a <= Older(a)
BY IntervalsAreNat DEF Age, Older

LEMMA NobodyType == Nobody \in [Server -> Age]
BY IntervalsAreNat DEF Nobody, Age

LEMMA InitType == Init => TypeOK
BY NobodyType, BoundsAreNat DEF Init, TypeOK

LEMMA TickType == TypeOK /\ Tick => TypeOK'
<1> SUFFICES ASSUME TypeOK, Tick PROVE TypeOK'
  OBVIOUS
<1>1. late' \in 0 .. MaxLate
  BY BoundsAreNat DEF TypeOK, Tick
<1>2. /\ age' \in [Server -> [Server -> Age]] /\ msg' \in [Server -> [Server -> Age]]
      /\ since' \in [Server -> Age]
  BY OlderType DEF TypeOK, Tick
<1> QED
  BY <1>1, <1>2 DEF TypeOK, Tick, loops

LEMMA EndsType ==
  ASSUME TypeOK, NEW n \in Server, NEW peers, Ends(n, peers)
  PROVE  msg' \in [Server -> [Server -> Age]]
BY NobodyType DEF TypeOK, Ends

LEMMA BeginRoundType ==
  ASSUME TypeOK, NEW n \in Server, BeginRound(n)
  PROVE  TypeOK'
<1>1. age' \in [Server -> [Server -> Age]] /\ since' \in [Server -> Age]
  BY IntervalsAreNat DEF TypeOK, BeginRound, Age
<1>2. msg' \in [Server -> [Server -> Age]]
  BY <1>1, NobodyType DEF TypeOK, BeginRound
<1> QED
  BY <1>1, <1>2 DEF TypeOK, BeginRound, counters

LEMMA PeerType ==
  ASSUME TypeOK, NEW n \in Server, NEW m \in Server,
         SkipPeer(n, m) \/ CallPeer(n, m) \/ CallFails(n, m)
  PROVE  TypeOK'
<1>1. CASE SkipPeer(n, m)
  BY <1>1, EndsType DEF TypeOK, SkipPeer, counters
<1>2. CASE CallPeer(n, m)
  BY <1>2 DEF TypeOK, CallPeer, tables, counters
<1>3. CASE CallFails(n, m)
  <2>1. broken' \in 0 .. MaxBroken
    BY <1>3, BoundsAreNat DEF TypeOK, CallFails
  <2> QED
    BY <1>3, <2>1, EndsType DEF TypeOK, CallFails, Answered
<1> QED
  BY <1>1, <1>2, <1>3

LEMMA GossipType ==
  ASSUME TypeOK, NEW n \in Server, NEW m \in Server, Gossip(n, m)
  PROVE  TypeOK'
<1>1. age' \in [Server -> [Server -> Age]]
  BY DEF TypeOK, Gossip
<1>2. met' \subseteq Server \X Server
  BY DEF TypeOK, Gossip, Heard
<1> QED
  BY <1>1, <1>2, EndsType DEF TypeOK, Gossip, Answered, counters

LEMMA BeginsType ==
  ASSUME TypeOK, NEW name \in {"JoinNetwork", "LeaveNetwork"}, NEW n \in Server,
         NEW peers \in SUBSET Server, Begins(name, n, peers)
  PROVE  /\ cmd' \in Command /\ cmd'.addr = n /\ n \in running
         /\ issued' \in 0 .. MaxCommands /\ met' \subseteq Server \X Server
BY BoundsAreNat DEF TypeOK, Begins, Without, Command

LEMMA AdminType ==
  ASSUME TypeOK, NEW n \in Server, AdminJoin(n) \/ AdminLeave(n)
  PROVE  TypeOK'
<1>1. CASE AdminJoin(n)
  <2>1. age' \in [Server -> [Server -> Age]] /\ since' \in [Server -> Age]
    BY <1>1, IntervalsAreNat DEF TypeOK, AdminJoin, Age
  <2>2. round' \in [Server -> SUBSET Server] /\ stubs' \in [Server -> SUBSET Server]
    BY <1>1 DEF TypeOK, AdminJoin
  <2> QED
    BY <1>1, <2>1, <2>2, BeginsType DEF TypeOK, AdminJoin
<1>2. CASE AdminLeave(n)
  BY <1>2, BeginsType DEF TypeOK, AdminLeave, tables, loops
<1> QED
  BY <1>1, <1>2

LEMMA DoneType ==
  ASSUME TypeOK, NEW m \in Server, m \in cmd.todo, Done(m)
  PROVE  cmd \in Command /\ cmd' \in Command /\ cmd'.addr = cmd.addr
<1>1. cmd \in Command
  BY DEF TypeOK, NoCmd
<1> QED
  BY <1>1 DEF Done, Command

LEMMA LoopType ==
  ASSUME TypeOK, NEW m \in Server, JoinNetwork(m) \/ LeaveNetwork(m) \/ PeerFails(m)
  PROVE  TypeOK'
<1>1. cmd \in Command /\ cmd' \in Command /\ cmd'.addr = cmd.addr
  BY DoneType DEF JoinNetwork, LeaveNetwork, PeerFails, Called
<1>2. cmd.addr \in Server /\ (cmd # NoCmd => cmd.addr \in running) /\ cmd # NoCmd
  BY <1>1, NoServerIsNone DEF Command, TypeOK, NoCmd
<1>3. CASE JoinNetwork(m)
  <2>1. age' \in [Server -> [Server -> Age]] /\ since' \in [Server -> Age]
    BY <1>2, <1>3, IntervalsAreNat DEF TypeOK, JoinNetwork, Age
  <2>2. round' \in [Server -> SUBSET Server] /\ stubs' \in [Server -> SUBSET Server]
    BY <1>2, <1>3 DEF TypeOK, JoinNetwork
  <2> QED
    BY <1>1, <1>2, <1>3, <2>1, <2>2 DEF TypeOK, JoinNetwork, counters
<1>4. CASE LeaveNetwork(m)
  <2>1. age' \in [Server -> [Server -> Age]]
    BY <1>2, <1>4, IntervalsAreNat DEF TypeOK, LeaveNetwork, Age
  <2>2. round' \in [Server -> SUBSET Server] /\ stubs' \in [Server -> SUBSET Server]
    BY <1>2, <1>4 DEF TypeOK, LeaveNetwork
  <2> QED
    BY <1>1, <1>2, <1>4, <2>1, <2>2 DEF TypeOK, LeaveNetwork, counters
<1>5. CASE PeerFails(m)
  BY <1>1, <1>2, <1>5, BoundsAreNat DEF TypeOK, PeerFails, tables, loops
<1> QED
  BY <1>3, <1>4, <1>5

LEMMA ReturnType ==
  ASSUME TypeOK, Return
  PROVE  TypeOK'
<1>1. cmd \in Command
  BY DEF TypeOK, Return
<1> QED
  BY <1>1 DEF TypeOK, Return, tables, loops, counters, Command

LEMMA ProcessType ==
  ASSUME TypeOK, NEW n \in Server, Crash(n) \/ Restart(n)
  PROVE  TypeOK'
<1>1. CASE Crash(n)
  <2>1. age' \in [Server -> [Server -> Age]] /\ msg' \in [Server -> [Server -> Age]]
    BY <1>1, NobodyType DEF TypeOK, Crash
  <2>2. /\ cmd' \in {NoCmd} \union Command /\ status' \subseteq Server
        /\ running' \subseteq Server /\ alive' \subseteq running'
        /\ met' \subseteq Server \X Server
    BY <1>1 DEF TypeOK, Crash, Without
  <2>3. cmd' # NoCmd => cmd'.addr \in running'
    BY <1>1 DEF TypeOK, Crash
  <2>4. crashes' \in 0 .. MaxCrashes
    BY <1>1, BoundsAreNat DEF TypeOK, Crash
  <2>5. /\ stubs' \in [Server -> SUBSET Server] /\ round' \in [Server -> SUBSET Server]
        /\ calling' \in [Server -> Server \union {NoServer}]
    BY <1>1 DEF TypeOK, Crash
  <2> QED
    BY <1>1, <2>1, <2>2, <2>3, <2>4, <2>5 DEF TypeOK, Crash
<1>2. CASE Restart(n)
  BY <1>2 DEF TypeOK, Restart, tables, loops, counters
<1> QED
  BY <1>1, <1>2

LEMMA StepType == TypeOK /\ [Next]_vars => TypeOK'
<1> SUFFICES ASSUME TypeOK, [Next]_vars PROVE TypeOK'
  OBVIOUS
<1>1. CASE UNCHANGED vars
  BY <1>1 DEF TypeOK, vars, tables, loops, counters
<1>2. CASE \E n \in Server : Round(n)
  BY <1>2, BeginRoundType, PeerType, GossipType DEF Round
<1>3. CASE Tick \/ Loop
  BY <1>3, TickType, LoopType, ReturnType DEF Loop
<1>4. CASE \E n \in Server : AdminJoin(n) \/ AdminLeave(n) \/ Crash(n) \/ Restart(n)
  BY <1>4, AdminType, ProcessType
<1> QED
  BY <1>1, <1>2, <1>3, <1>4 DEF Next

-----------------------------------------------------------------------------
(* News does not grow younger *)

LEMMA TickNews == TypeOK /\ DeadIsNoticed /\ Tick => DeadIsNoticed'
<1>1. \A a, b \in Age : a <= b => Older(a) <= Older(b)
  BY IntervalsAreNat DEF Age, Older
<1> QED
  BY <1>1 DEF TypeOK, DeadIsNoticed, Tick

LEMMA EndsNews ==
  ASSUME TypeOK, DeadIsNoticed, NEW n \in Server, NEW peers, Ends(n, peers)
  PROVE  \A k, m \in Server : since[m] <= msg'[k][m]
BY IntervalsAreNat DEF TypeOK, DeadIsNoticed, Ends, Nobody, Age

LEMMA RoundNews ==
  ASSUME TypeOK, DeadIsNoticed, NEW n \in Server, Round(n)
  PROVE  DeadIsNoticed'
<1>1. CASE BeginRound(n)
  <2>1. \A k, m \in Server : since'[m] <= age'[k][m]
    BY <1>1, IntervalsAreNat DEF TypeOK, DeadIsNoticed, BeginRound, Age
  <2>2. \A k, m \in Server : since'[m] <= msg[k][m] /\ since'[m] <= Check
    BY <1>1, IntervalsAreNat DEF TypeOK, DeadIsNoticed, BeginRound, Age
  <2> QED
    BY <1>1, <2>1, <2>2 DEF TypeOK, DeadIsNoticed, BeginRound, Nobody
<1>2. ASSUME NEW m \in Server, SkipPeer(n, m) PROVE DeadIsNoticed'
  BY <1>2, EndsNews DEF DeadIsNoticed, SkipPeer
<1>3. ASSUME NEW m \in Server, CallPeer(n, m) PROVE DeadIsNoticed'
  BY <1>3 DEF DeadIsNoticed, CallPeer, tables
<1>4. ASSUME NEW m \in Server, CallFails(n, m) PROVE DeadIsNoticed'
  BY <1>4, EndsNews DEF DeadIsNoticed, CallFails, Answered
<1>5. ASSUME NEW m \in Server, Gossip(n, m) PROVE DeadIsNoticed'
  <2>1. \A k, x \in Server : since[x] <= age'[k][x]
    BY <1>5 DEF TypeOK, DeadIsNoticed, Gossip
  <2> QED
    BY <1>5, <2>1, EndsNews DEF DeadIsNoticed, Gossip, Answered
<1> QED
  BY <1>1, <1>2, <1>3, <1>4, <1>5 DEF Round

LEMMA CommandNews ==
  ASSUME TypeOK, DeadIsNoticed, NEW n \in Server,
         \/ AdminJoin(n) \/ AdminLeave(n) \/ JoinNetwork(n) \/ LeaveNetwork(n)
         \/ PeerFails(n) \/ Return \/ Crash(n) \/ Restart(n)
  PROVE  DeadIsNoticed'
<1>1. CASE AdminJoin(n)
  BY <1>1, IntervalsAreNat DEF TypeOK, DeadIsNoticed, AdminJoin, Age
<1>2. CASE JoinNetwork(n)
  <2>1. cmd.addr \in Server
    BY <1>2 DEF JoinNetwork, Called, TypeOK, NoCmd, Command
  <2> QED
    BY <1>2, <2>1, IntervalsAreNat DEF TypeOK, DeadIsNoticed, JoinNetwork, Age
<1>3. CASE LeaveNetwork(n)
  BY <1>3, IntervalsAreNat DEF TypeOK, DeadIsNoticed, LeaveNetwork, Age
<1>4. CASE Crash(n)
  BY <1>4, IntervalsAreNat DEF TypeOK, DeadIsNoticed, Crash, Nobody, Age
<1>5. CASE AdminLeave(n) \/ PeerFails(n) \/ Return \/ Restart(n)
  BY <1>5 DEF DeadIsNoticed, AdminLeave, PeerFails, Return, Restart, tables
<1> QED
  BY <1>1, <1>2, <1>3, <1>4, <1>5

LEMMA StepNews == TypeOK /\ DeadIsNoticed /\ [Next]_vars => DeadIsNoticed'
<1> SUFFICES ASSUME TypeOK, DeadIsNoticed, [Next]_vars PROVE DeadIsNoticed'
  OBVIOUS
<1>1. CASE UNCHANGED vars
  BY <1>1 DEF DeadIsNoticed, vars, tables
<1>2. CASE Tick \/ \E n \in Server : Round(n)
  BY <1>2, TickNews, RoundNews
<1>3. CASE Return
  BY <1>3 DEF DeadIsNoticed, Return, tables
<1>4. CASE \E n \in Server : JoinNetwork(n) \/ LeaveNetwork(n) \/ PeerFails(n)
  BY <1>4, CommandNews
<1>5. CASE \E n \in Server : AdminJoin(n) \/ AdminLeave(n) \/ Crash(n) \/ Restart(n)
  BY <1>5, CommandNews
<1> QED
  BY <1>1, <1>2, <1>3, <1>4, <1>5 DEF Next, Loop

-----------------------------------------------------------------------------
(* While nothing is late *)

LEMMA InitPunctual == Init => Punctual
<1> SUFFICES ASSUME Init PROVE Punctual
  OBVIOUS
<1>1. CommandsAreOrderly
  BY DEF Init, CommandsAreOrderly, NoCmd
<1>2. Joined = {} /\ \A n \in Server : Idle(n)
  BY DEF Init, Joined, NoCmd, Idle
<1> QED
  BY <1>1, <1>2 DEF Init, Punctual, RoundsAreOnTime, OwnIsYoungest, MetAreCalled

\* Ages are integers, and cmd.addr is a server when there is a command.
LEMMA Ages ==
  ASSUME TypeOK
  PROVE  /\ Check \in Int /\ Beat \in Int /\ Delay \in Int
         /\ 0 <= Delay /\ Delay <= Beat /\ Beat + Delay < Check
         /\ \A n, m \in Server : /\ age[n][m] \in Int /\ 0 <= age[n][m] /\ age[n][m] <= Check
                                /\ msg[n][m] \in Int /\ 0 <= msg[n][m] /\ msg[n][m] <= Check
BY IntervalsAreNat DEF TypeOK, Age

LEMMA Insight ==
  ASSUME TypeOK, Punctual
  PROVE  \A p \in met : Believes(p[1], p[2])
<1> SUFFICES ASSUME NEW p \in met PROVE Believes(p[1], p[2])
  OBVIOUS
<1>1. PICK m \in Server, n \in Server : p = <<m, n>>
  BY DEF TypeOK
<1>2. /\ n \in Joined
      /\ ~Idle(n) => msg[n][n] = age[n][n]
      /\ age[m][n] <= IF Pending(n, m) THEN Beat + msg[n][n] ELSE age[n][n]
  BY <1>1 DEF Punctual, MetAreCalled, Joined
<1>3. IF Idle(n) THEN age[n][n] <= Beat /\ ~Pending(n, m) ELSE msg[n][n] <= Delay
  BY <1>2, NoServerIsNone DEF Punctual, RoundsAreOnTime, Idle, Pending
<1>4. age[m][n] < Check
  BY <1>2, <1>3, Ages
<1> QED
  BY <1>1, <1>4 DEF Believes

LEMMA OlderGrows ==
  /\ \A a \in Int : a < Check => Older(a) = a + 1
  /\ \A a, b \in Int : a <= b /\ b <= Check => Older(a) <= Older(b)
BY IntervalsAreNat DEF Older

LEMMA TickPunctual ==
  ASSUME TypeOK, Punctual, Tick, Prompt'
  PROVE  Punctual'
<1> USE Ages
<1>1. ~Overdue
  BY DEF Tick, Prompt, TypeOK, BoundsAreNat
<1>2. cmd = NoCmd /\ cmd' = NoCmd /\ Joined = alive /\ Joined' = alive
  BY <1>1 DEF Overdue, Tick, Joined, NoCmd
<1>3. /\ \A n, m \in Server : age'[n][m] = Older(age[n][m]) /\ msg'[n][m] = Older(msg[n][m])
      /\ \A n \in Server : Idle(n)' <=> Idle(n)
      /\ \A n, m \in Server : Pending(n, m)' <=> Pending(n, m)
  BY DEF Tick, TypeOK, Idle, Pending, loops
<1>4. \A n \in Server : IF Idle(n) THEN n \in alive => age[n][n] < Beat
                                   ELSE msg[n][n] < Delay
  BY <1>1 DEF Overdue, Punctual, RoundsAreOnTime, TypeOK
<1>5. \A a \in Int : a < Check => Older(a) = a + 1
  BY OlderGrows
<1>6. \A a, b \in Int : a <= b /\ b <= Check => Older(a) <= Older(b)
  BY OlderGrows
<1>7. CommandsAreOrderly'
  BY <1>2 DEF Punctual, CommandsAreOrderly, Tick, NoCmd
<1>8. RoundsAreOnTime'
  <2>1. \A n \in Server \ running' : Idle(n)'
    BY <1>3 DEF Punctual, RoundsAreOnTime, Tick
  <2>2. \A n \in Server : ~Idle(n)' => (msg[n][n])' <= Delay
    BY <1>3, <1>4, <1>5
  <2>3. ASSUME NEW n \in alive
        PROVE  IF Idle(n)' THEN age'[n][n] <= Beat ELSE age'[n][n] <= msg'[n][n]
    <3>1. n \in Server
      BY DEF TypeOK
    <3>2. CASE Idle(n)
      BY <1>3, <1>4, <1>5, <3>1, <3>2
    <3>3. CASE ~Idle(n)
      <4>1. age[n][n] <= msg[n][n]
        BY <1>2, <3>3 DEF Punctual, RoundsAreOnTime
      <4> QED
        BY <1>3, <1>6, <3>1, <3>3, <4>1
    <3> QED
      BY <3>2, <3>3
  <2> QED
    BY <1>2, <2>1, <2>2, <2>3 DEF RoundsAreOnTime
<1>9. OwnIsYoungest'
  BY <1>2, <1>3, <1>6 DEF Punctual, OwnIsYoungest, TypeOK
<1>10. MetAreCalled'
  <2> SUFFICES ASSUME NEW m \in Server, NEW n \in Server, <<m, n>> \in met
               PROVE  /\ m \in alive' /\ n \in alive' /\ m \in stubs'[n]
                      /\ ~Idle(n)' => msg'[n][n] = age'[n][n]
                      /\ age'[m][n] <= IF Pending(n, m)' THEN Beat + msg'[n][n] ELSE age'[n][n]
    BY DEF MetAreCalled, Tick
  <2>1. /\ m \in alive /\ n \in alive /\ m \in stubs[n]
        /\ ~Idle(n) => msg[n][n] = age[n][n]
        /\ age[m][n] <= IF Pending(n, m) THEN Beat + msg[n][n] ELSE age[n][n]
    BY DEF Punctual, MetAreCalled
  <2>2. CASE Pending(n, m)
    <3>1. msg[n][n] < Delay
      BY <1>4, <2>2, NoServerIsNone DEF Pending, Idle
    <3>2. age'[m][n] <= Beat + msg'[n][n] /\ msg'[n][n] = age'[n][n]
      <4>1. age'[m][n] = age[m][n] + 1 /\ msg'[n][n] = msg[n][n] + 1
        BY <1>3, <1>5, <2>1, <2>2, <3>1
      <4> QED
        BY <1>3, <2>1, <2>2, <4>1, NoServerIsNone DEF Pending, Idle
    <3> QED
      BY <1>3, <2>1, <2>2, <3>2 DEF Tick
  <2>3. CASE ~Pending(n, m)
    <3>1. age'[m][n] <= age'[n][n]
      BY <1>3, <1>6, <2>1, <2>3
    <3> QED
      BY <1>3, <2>1, <2>3, <3>1 DEF Tick
  <2> QED
    BY <2>2, <2>3
<1> QED
  BY <1>7, <1>8, <1>9, <1>10 DEF Punctual

LEMMA BeginRoundPunctual ==
  ASSUME TypeOK, Punctual, NEW k \in Server, BeginRound(k)
  PROVE  Punctual'
<1> USE Ages
<1>1. /\ age'[k][k] = 0
      /\ \A n, m \in Server : n # k \/ m # k => age'[n][m] = age[n][m]
      /\ \A n, m \in Server : n # k => msg'[n][m] = msg[n][m]
      /\ \A m \in Server : msg'[k][m] = IF stubs[k] = {} THEN Check ELSE age'[k][m]
  BY DEF BeginRound, TypeOK, Nobody
<1>2. /\ Idle(k) /\ k \in running /\ k \in alive /\ Joined' = Joined
      /\ \A n \in Server : n # k => (Idle(n)' <=> Idle(n))
      /\ \A n, m \in Server : n # k => (Pending(n, m)' <=> Pending(n, m))
      /\ \A m \in Server : ~Pending(k, m) /\ (Pending(k, m)' <=> m \in stubs[k])
      /\ Idle(k)' <=> stubs[k] = {}
  BY NoServerIsNone DEF BeginRound, TypeOK, Idle, Pending, Joined
<1>3. CommandsAreOrderly'
  BY <1>1 DEF Punctual, CommandsAreOrderly, BeginRound, TypeOK, NoCmd, Command
<1>4. RoundsAreOnTime'
  BY <1>1, <1>2 DEF Punctual, RoundsAreOnTime, BeginRound, TypeOK, Joined, Command, NoCmd
<1>5. OwnIsYoungest'
  <2> SUFFICES ASSUME NEW n \in Joined, NEW x \in Server
               PROVE  age'[n][n] <= age'[x][n] /\ age'[n][n] <= msg'[x][n]
    BY <1>2 DEF OwnIsYoungest
  <2>1. n \in Server /\ age[n][n] <= age[x][n] /\ age[n][n] <= msg[x][n]
    BY DEF Punctual, OwnIsYoungest, Joined, TypeOK, Command, NoCmd
  <2> QED
    BY <1>1, <2>1
<1>6. MetAreCalled'
  <2> SUFFICES ASSUME NEW m \in Server, NEW n \in Server, <<m, n>> \in met
               PROVE  /\ m \in alive /\ n \in alive /\ m \in stubs[n]
                      /\ ~Idle(n)' => msg'[n][n] = age'[n][n]
                      /\ age'[m][n] <= IF Pending(n, m)' THEN Beat + msg'[n][n] ELSE age'[n][n]
    BY DEF MetAreCalled, BeginRound
  <2>1. /\ m \in alive /\ n \in alive /\ m \in stubs[n] /\ m # n
        /\ ~Idle(n) => msg[n][n] = age[n][n]
        /\ age[m][n] <= IF Pending(n, m) THEN Beat + msg[n][n] ELSE age[n][n]
    BY DEF Punctual, MetAreCalled, CommandsAreOrderly
  <2>2. CASE n = k
    <3>1. age[k][k] <= Beat
      BY <1>2 DEF Punctual, RoundsAreOnTime, Joined
    <3> QED
      BY <1>1, <1>2, <2>1, <2>2, <3>1
  <2>3. CASE n # k
    BY <1>1, <1>2, <2>1, <2>3
  <2> QED
    BY <2>2, <2>3
<1> QED
  BY <1>3, <1>4, <1>5, <1>6 DEF Punctual

\* What the steps of a round to and past a peer have in common.
LEMMA EndsPunctual ==
  ASSUME TypeOK, Punctual, NEW k \in Server, Ends(k, round'[k]), ~Idle(k),
         calling'[k] = NoServer, UNCHANGED <<running, alive, stubs, status, cmd>>,
         \A n \in Server : n # k => round'[n] = round[n] /\ calling'[n] = calling[n],
         age' \in [Server -> [Server -> Age]],
         \A n \in Joined : age'[n][n] = age[n][n],
         \A x, n \in Server : n \in Joined => age[n][n] <= age'[x][n]
  PROVE  CommandsAreOrderly' /\ RoundsAreOnTime' /\ OwnIsYoungest'
<1> USE Ages
<1>1. /\ \A n, m \in Server : n # k \/ round'[k] # {} => msg'[n][m] = msg[n][m]
      /\ \A m \in Server : round'[k] = {} => msg'[k][m] = Check
  BY DEF Ends, TypeOK, Nobody
<1>2. /\ Joined' = Joined /\ Joined \subseteq Server
      /\ \A n \in Server : n # k => (Idle(n)' <=> Idle(n))
      /\ Idle(k)' <=> round'[k] = {}
  BY DEF Joined, Idle, TypeOK, NoCmd, Command
<1>3. CommandsAreOrderly'
  BY DEF Punctual, CommandsAreOrderly, Joined, TypeOK, NoCmd, Command
<1>4. RoundsAreOnTime'
  BY <1>1, <1>2 DEF Punctual, RoundsAreOnTime
<1>5. OwnIsYoungest'
  <2> SUFFICES ASSUME NEW n \in Joined, NEW x \in Server
               PROVE  age'[n][n] <= age'[x][n] /\ age'[n][n] <= msg'[x][n]
    BY <1>2 DEF OwnIsYoungest
  <2>1. n \in Server /\ age[n][n] <= msg[x][n] /\ age'[n][n] = age[n][n]
    BY <1>2 DEF Punctual, OwnIsYoungest
  <2>2. msg'[x][n] = msg[x][n] \/ msg'[x][n] = Check
    BY <1>1, <2>1
  <2> QED
    BY <1>2, <2>1, <2>2
<1> QED
  BY <1>3, <1>4, <1>5

LEMMA SkipPeerPunctual ==
  ASSUME TypeOK, Punctual, NEW k \in Server, NEW j \in Server, SkipPeer(k, j)
  PROVE  Punctual'
<1> USE Ages
<1>1. /\ age' = age /\ round'[k] = round[k] \ {j} /\ calling'[k] = NoServer /\ ~Idle(k)
      /\ \A n \in Server : n # k => round'[n] = round[n] /\ calling'[n] = calling[n]
      /\ Ends(k, round'[k])
  BY DEF SkipPeer, TypeOK, Idle
<1>2. CommandsAreOrderly' /\ RoundsAreOnTime' /\ OwnIsYoungest'
  <2>1. /\ age' \in [Server -> [Server -> Age]]
        /\ \A n \in Joined : age'[n][n] = age[n][n]
        /\ \A x, n \in Server : n \in Joined => age[n][n] <= age'[x][n]
    BY <1>1 DEF TypeOK, Punctual, OwnIsYoungest
  <2> QED
    BY <1>1, <2>1, EndsPunctual DEF SkipPeer
<1>3. <<j, k>> \notin met'
  <2>1. <<k, j>> \notin met
    BY Insight DEF SkipPeer
  <2> QED
    BY <2>1 DEF SkipPeer
<1>4. MetAreCalled'
  <2> SUFFICES ASSUME NEW m \in Server, NEW n \in Server, <<m, n>> \in met'
               PROVE  /\ m \in alive /\ n \in alive /\ m \in stubs[n]
                      /\ ~Idle(n)' => msg'[n][n] = age[n][n]
                      /\ age[m][n] <= IF Pending(n, m)' THEN Beat + msg'[n][n] ELSE age[n][n]
    BY <1>1 DEF MetAreCalled, SkipPeer
  <2>1. /\ m \in alive /\ n \in alive /\ m \in stubs[n]
        /\ ~Idle(n) => msg[n][n] = age[n][n]
        /\ age[m][n] <= IF Pending(n, m) THEN Beat + msg[n][n] ELSE age[n][n]
    BY DEF Punctual, MetAreCalled, SkipPeer
  <2>2. /\ Pending(n, m)' <=> Pending(n, m)
        /\ ~Idle(n)' => ~Idle(n) /\ msg'[n][n] = msg[n][n]
        /\ Pending(n, m) => ~Idle(n)'
    <3>1. calling' = calling /\ calling[k] = NoServer
      BY DEF SkipPeer
    <3>2. CASE n # k
      <4>1. round'[n] = round[n] /\ msg'[n] = msg[n]
        BY <1>1, <3>2 DEF Ends, TypeOK
      <4>2. Pending(n, m)' <=> Pending(n, m)
        BY <3>1, <4>1 DEF Pending
      <4>3. Idle(n)' <=> Idle(n)
        BY <3>1, <4>1 DEF Idle
      <4>4. Pending(n, m) => ~Idle(n)
        BY NoServerIsNone DEF Pending, Idle
      <4> QED
        BY <4>1, <4>2, <4>3, <4>4
    <3>3. CASE n = k
      <4>1. m # j
        BY <1>3, <3>3
      <4>2. Pending(n, m)' <=> Pending(n, m)
        BY <1>1, <3>1, <3>3, <4>1 DEF Pending
      <4>3. Pending(n, m) => ~Idle(n)'
        BY <1>1, <3>1, <3>3, <4>1, NoServerIsNone DEF Pending, Idle
      <4>4. ~Idle(n)' => ~Idle(n) /\ msg' = msg
        BY <1>1, <3>1, <3>3 DEF Idle, Ends
      <4> QED
        BY <4>2, <4>3, <4>4
    <3> QED
      BY <3>2, <3>3
  <2> QED
    BY <2>1, <2>2
<1> QED
  BY <1>2, <1>4 DEF Punctual

LEMMA CallPeerPunctual ==
  ASSUME TypeOK, Punctual, NEW k \in Server, NEW j \in Server, CallPeer(k, j)
  PROVE  Punctual'
<1>1. /\ \A n \in Server : Idle(n)' <=> Idle(n)
      /\ \A n, m \in Server : Pending(n, m)' <=> Pending(n, m)
      /\ Joined' = Joined
  BY NoServerIsNone DEF CallPeer, TypeOK, Idle, Pending, Joined
<1>2. UNCHANGED <<running, alive, stubs, age, msg, cmd, met>>
  BY DEF CallPeer, tables
<1>3. CommandsAreOrderly'
  BY <1>2 DEF Punctual, CommandsAreOrderly
<1>4. RoundsAreOnTime'
  BY <1>1, <1>2 DEF Punctual, RoundsAreOnTime, TypeOK, Joined, NoCmd, Command
<1>5. OwnIsYoungest'
  BY <1>1, <1>2 DEF Punctual, OwnIsYoungest
<1>6. MetAreCalled'
  BY <1>1, <1>2 DEF Punctual, MetAreCalled
<1> QED
  BY <1>3, <1>4, <1>5, <1>6 DEF Punctual

\* The answer to a call: what is known of a pair that has met.
LEMMA AnsweredPunctual ==
  ASSUME TypeOK, Punctual, NEW k \in Server, NEW j \in Server, calling[k] = j, Answered(k),
         UNCHANGED <<running, alive, stubs, round>>,
         age' \in [Server -> [Server -> Age]],
         \A x, n \in Server : age'[x][n] <= age[x][n],
         \A n \in Joined : age'[n][n] = age[n][n],
         NEW m \in Server, NEW n \in Server,
         <<m, n>> \in met, n # k \/ m # j \/ age'[m][n] <= msg[n][n]
  PROVE  /\ ~Idle(n)' => msg'[n][n] = age'[n][n]
         /\ age'[m][n] <= IF Pending(n, m)' THEN Beat + msg'[n][n] ELSE age'[n][n]
<1> USE Ages
<1>1. /\ n \in Joined
      /\ ~Idle(n) => msg[n][n] = age[n][n]
      /\ age[m][n] <= IF Pending(n, m) THEN Beat + msg[n][n] ELSE age[n][n]
  BY DEF Punctual, MetAreCalled, Joined
<1>2. /\ age'[n][n] = age[n][n] /\ age'[m][n] <= age[m][n]
      /\ age'[m][n] \in Int /\ age'[n][n] \in Int /\ 0 <= age'[n][n]
  BY <1>1 DEF Age
<1>3. CASE n # k
  <2>1. /\ msg'[n][n] = msg[n][n] /\ (Idle(n)' <=> Idle(n))
        /\ Pending(n, m)' <=> Pending(n, m)
    BY <1>3 DEF Answered, Ends, TypeOK, Idle, Pending
  <2> QED
    BY <1>1, <1>2, <2>1
<1>4. CASE n = k
  <2>1. /\ ~Idle(n) /\ (~Idle(n)' <=> round[n] # {})
        /\ Pending(n, m)' <=> m \in round[n]
        /\ round[n] # {} => msg'[n][n] = msg[n][n]
    BY <1>4, NoServerIsNone DEF Answered, Ends, TypeOK, Idle, Pending
  <2>2. CASE m # j
    <3>1. Pending(n, m) <=> m \in round[n]
      BY <1>4, <2>2 DEF Pending
    <3> QED
      BY <1>1, <1>2, <2>1, <3>1
  <2>3. CASE m = j
    BY <1>1, <1>2, <1>4, <2>1, <2>3
  <2> QED
    BY <2>2, <2>3
<1> QED
  BY <1>3, <1>4

LEMMA CallFailsPunctual ==
  ASSUME TypeOK, Punctual, NEW k \in Server, NEW j \in Server, CallFails(k, j), Prompt'
  PROVE  Punctual'
<1>1. j \notin alive /\ ~Idle(k)
  BY NoServerIsNone DEF CallFails, Prompt, TypeOK, Idle
<1>2. CommandsAreOrderly' /\ RoundsAreOnTime' /\ OwnIsYoungest'
  <2>1. /\ age' \in [Server -> [Server -> Age]]
        /\ \A n \in Joined : age'[n][n] = age[n][n]
        /\ \A x, n \in Server : n \in Joined => age[n][n] <= age'[x][n]
    BY DEF CallFails, TypeOK, Punctual, OwnIsYoungest
  <2>2. /\ Ends(k, round'[k]) /\ calling'[k] = NoServer
        /\ \A n \in Server : n # k => round'[n] = round[n] /\ calling'[n] = calling[n]
    BY DEF CallFails, Answered, TypeOK
  <2> QED
    BY <1>1, <2>1, <2>2, EndsPunctual DEF CallFails
<1>3. MetAreCalled'
  <2> SUFFICES ASSUME NEW m \in Server, NEW n \in Server, <<m, n>> \in met
               PROVE  /\ m \in alive /\ n \in alive /\ m \in stubs[n]
                      /\ ~Idle(n)' => msg'[n][n] = age'[n][n]
                      /\ age'[m][n] <= IF Pending(n, m)' THEN Beat + msg'[n][n] ELSE age'[n][n]
    BY DEF MetAreCalled, CallFails
  <2>1. m \in alive /\ n \in alive /\ m \in stubs[n] /\ m # j
    BY <1>1 DEF Punctual, MetAreCalled
  <2>2. /\ age' \in [Server -> [Server -> Age]]
        /\ \A x, y \in Server : age'[x][y] <= age[x][y]
        /\ \A y \in Joined : age'[y][y] = age[y][y]
    BY Ages DEF CallFails, TypeOK
  <2>3. /\ ~Idle(n)' => msg'[n][n] = age'[n][n]
        /\ age'[m][n] <= IF Pending(n, m)' THEN Beat + msg'[n][n] ELSE age'[n][n]
    BY <2>1, <2>2, AnsweredPunctual DEF CallFails
  <2> QED
    BY <2>1, <2>3
<1> QED
  BY <1>2, <1>3 DEF Punctual

LEMMA GossipPunctual ==
  ASSUME TypeOK, Punctual, NEW k \in Server, NEW j \in Server, Gossip(k, j)
  PROVE  Punctual'
<1> USE Ages
<1>1. /\ age' \in [Server -> [Server -> Age]]
      /\ \A x, y \in Server : age'[x][y] <= age[x][y]
      /\ \A x, y \in Server : \/ age'[x][y] = age[x][y]
                              \/ age'[x][y] = msg[k][y]
      /\ \A y \in Server : age'[j][y] <= msg[k][y]
  BY DEF Gossip, TypeOK
<1>2. /\ \A y \in Joined : y \in Server /\ age'[y][y] = age[y][y]
      /\ \A x, y \in Server : y \in Joined => age[y][y] <= age'[x][y]
  <2>1. ASSUME NEW y \in Joined, NEW x \in Server
        PROVE  y \in Server /\ age[y][y] <= age'[x][y] /\ age'[y][y] = age[y][y]
    <3>1. y \in Server /\ age[y][y] <= age[x][y] /\ age[y][y] <= msg[k][y]
      BY DEF Punctual, OwnIsYoungest, Joined, TypeOK, NoCmd, Command
    <3>2. age[y][y] <= age'[x][y]
      BY <1>1, <3>1
    <3>3. age'[y][y] = age[y][y]
      <4>1. /\ age'[y][y] \in Int /\ age[y][y] \in Int /\ age'[y][y] <= age[y][y]
            /\ age'[y][y] = age[y][y] \/ age'[y][y] = msg[k][y]
        BY <1>1, <3>1 DEF Age
      <4> QED
        BY <3>1, <4>1
    <3> QED
      BY <3>1, <3>2, <3>3
  <2> QED
    BY <2>1
<1>3. ~Idle(k) /\ Answered(k) /\ UNCHANGED <<running, alive, stubs, round, status, cmd>>
  BY NoServerIsNone DEF Gossip, Idle
<1>4. CommandsAreOrderly' /\ RoundsAreOnTime' /\ OwnIsYoungest'
  <2>1. /\ Ends(k, round'[k]) /\ calling'[k] = NoServer
        /\ \A n \in Server : n # k => round'[n] = round[n] /\ calling'[n] = calling[n]
    BY <1>3 DEF Answered, TypeOK
  <2> QED
    BY <1>1, <1>2, <1>3, <2>1, EndsPunctual
<1>5. MetAreCalled'
  <2> SUFFICES ASSUME NEW m \in Server, NEW n \in Server, <<m, n>> \in met'
               PROVE  /\ m \in alive /\ n \in alive /\ m \in stubs[n]
                      /\ ~Idle(n)' => msg'[n][n] = age'[n][n]
                      /\ age'[m][n] <= IF Pending(n, m)' THEN Beat + msg'[n][n] ELSE age'[n][n]
    BY <1>3 DEF MetAreCalled
  <2>1. /\ m \in alive /\ n \in alive /\ m \in stubs[n] /\ n \in Joined
        /\ ~Idle(n) => msg[n][n] = age[n][n]
    BY DEF Gossip, Heard, Punctual, MetAreCalled, Joined
  <2>2. CASE n = k /\ m = j
    <3>1. age'[m][n] <= msg[n][n] /\ msg[n][n] = age'[n][n]
      BY <1>1, <1>2, <1>3, <2>1, <2>2
    <3>2. /\ ~Idle(n)' <=> round[n] # {}
          /\ Pending(n, m)' <=> m \in round[n]
          /\ round[n] # {} => msg'[n][n] = msg[n][n]
      BY <1>3, <2>2, NoServerIsNone DEF Answered, Ends, TypeOK, Idle, Pending
    <3>3. age'[m][n] \in Int /\ age'[n][n] \in Int
      BY <1>1 DEF Age
    <3> QED
      BY <2>1, <3>1, <3>2, <3>3
  <2>3. CASE n # k \/ m # j
    <3>1. <<m, n>> \in met
      BY <2>3 DEF Gossip, Heard
    <3>2. /\ ~Idle(n)' => msg'[n][n] = age'[n][n]
          /\ age'[m][n] <= IF Pending(n, m)' THEN Beat + msg'[n][n] ELSE age'[n][n]
      BY <1>1, <1>2, <1>3, <2>3, <3>1, AnsweredPunctual DEF Gossip
    <3> QED
      BY <2>1, <3>2
  <2> QED
    BY <2>2, <2>3
<1> QED
  BY <1>4, <1>5 DEF Punctual

\* A pair keeps what it has as long as neither entry nor round change for the
\* worse.
LEMMA PairKeeps ==
  ASSUME TypeOK, Punctual, NEW m \in Server, NEW n \in Server, <<m, n>> \in met,
         msg' = msg, age'[n][n] = age[n][n], age'[m][n] = age[m][n] \/ age'[m][n] = 0,
         Idle(n) => Idle(n)', Pending(n, m) => Pending(n, m)'
  PROVE  /\ ~Idle(n)' => msg'[n][n] = age'[n][n]
         /\ age'[m][n] <= IF Pending(n, m)' THEN Beat + msg'[n][n] ELSE age'[n][n]
<1> USE Ages
<1>1. /\ ~Idle(n) => msg[n][n] = age[n][n]
      /\ age[m][n] <= IF Pending(n, m) THEN Beat + msg[n][n] ELSE age[n][n]
  BY DEF Punctual, MetAreCalled
<1>2. Pending(n, m)' => ~Idle(n)
  BY NoServerIsNone DEF Pending, Idle
<1> QED
  BY <1>1, <1>2

LEMMA AdminJoinPunctual ==
  ASSUME TypeOK, Punctual, NEW k \in Server, AdminJoin(k)
  PROVE  Punctual'
<1> USE Ages
<1>1. /\ k \in running /\ cmd = NoCmd /\ met' = Without(k)
      /\ cmd' = [name |-> "JoinNetwork", addr |-> k, todo |-> status \ {k}]
      /\ UNCHANGED <<running, alive, msg, calling>>
      /\ age'[k][k] = 0 /\ stubs'[k] = status \ {k}
      /\ Idle(k) => Idle(k)'
      /\ \A n, m \in Server : n # k \/ m # k => age'[n][m] = age[n][m]
      /\ \A n \in Server : n # k => stubs'[n] = stubs[n] /\ round'[n] = round[n]
  BY DEF AdminJoin, Begins, TypeOK, Idle
<1>2. Joined = alive /\ Joined' = alive \union {k} /\ Joined' \subseteq Server
  BY <1>1 DEF Joined, NoCmd, TypeOK
<1>3. \A n \in Server : n # k => (Idle(n)' <=> Idle(n))
  BY <1>1 DEF Idle
<1>4. CommandsAreOrderly'
  BY <1>1 DEF Punctual, CommandsAreOrderly
<1>5. RoundsAreOnTime'
  BY <1>1, <1>2, <1>3 DEF Punctual, RoundsAreOnTime
<1>6. OwnIsYoungest'
  <2> SUFFICES ASSUME NEW n \in alive \union {k}, NEW x \in Server
               PROVE  age'[n][n] <= age'[x][n] /\ age'[n][n] <= msg'[x][n]
    BY <1>2 DEF OwnIsYoungest
  <2>1. CASE n = k
    BY <1>1, <2>1
  <2>2. CASE n # k
    <3>1. n \in Joined /\ n \in Server
      BY <1>2, <2>2
    <3> QED
      BY <1>1, <2>2, <3>1 DEF Punctual, OwnIsYoungest
  <2> QED
    BY <2>1, <2>2
<1>7. MetAreCalled'
  <2> SUFFICES ASSUME NEW m \in Server, NEW n \in Server, <<m, n>> \in met, m # k, n # k
               PROVE  /\ m \in alive /\ n \in alive /\ m \in stubs'[n]
                      /\ ~Idle(n)' => msg'[n][n] = age'[n][n]
                      /\ age'[m][n] <= IF Pending(n, m)' THEN Beat + msg'[n][n] ELSE age'[n][n]
    BY <1>1 DEF MetAreCalled, Without
  <2>1. m \in alive /\ n \in alive /\ m \in stubs'[n]
    BY <1>1 DEF Punctual, MetAreCalled
  <2>2. Pending(n, m) => Pending(n, m)'
    BY <1>1 DEF Pending
  <2> QED
    BY <1>1, <1>3, <2>1, <2>2, PairKeeps
<1> QED
  BY <1>4, <1>5, <1>6, <1>7 DEF Punctual

LEMMA AdminLeavePunctual ==
  ASSUME TypeOK, Punctual, NEW k \in Server, AdminLeave(k)
  PROVE  Punctual'
<1>1. /\ cmd = NoCmd /\ met' = Without(k) /\ alive' = alive \ {k}
      /\ cmd' = [name |-> "LeaveNetwork", addr |-> k, todo |-> stubs[k]]
      /\ UNCHANGED <<running, stubs, age, msg, round, calling>>
  BY DEF AdminLeave, Begins, tables, loops
<1>2. Joined = alive /\ Joined' = alive \ {k}
  BY <1>1 DEF Joined, NoCmd
<1>3. /\ \A n \in Server : Idle(n)' <=> Idle(n)
      /\ \A n, m \in Server : Pending(n, m)' <=> Pending(n, m)
  BY <1>1 DEF Idle, Pending
<1>4. CommandsAreOrderly'
  BY <1>1 DEF Punctual, CommandsAreOrderly
<1>5. RoundsAreOnTime'
  BY <1>1, <1>2, <1>3 DEF Punctual, RoundsAreOnTime, TypeOK
<1>6. OwnIsYoungest'
  BY <1>1, <1>2 DEF Punctual, OwnIsYoungest
<1>7. MetAreCalled'
  BY <1>1, <1>3 DEF Punctual, MetAreCalled, Without
<1> QED
  BY <1>4, <1>5, <1>6, <1>7 DEF Punctual

\* What a call of a command under way leaves of the command.
LEMMA Doing ==
  ASSUME TypeOK, Punctual, NEW k \in Server, k \in cmd.todo, Done(k), alive' = alive
  PROVE  /\ cmd \in Command /\ cmd.addr \in Server /\ cmd.addr # k
         /\ cmd'.name = cmd.name /\ cmd'.addr = cmd.addr /\ cmd'.todo \subseteq cmd.todo
         /\ Joined' = Joined /\ Joined \subseteq Server
<1>1. cmd \in Command
  BY DoneType
<1> QED
  BY <1>1 DEF Done, Command, Joined, TypeOK, Punctual, CommandsAreOrderly

LEMMA JoinNetworkPunctual ==
  ASSUME TypeOK, Punctual, NEW k \in Server, JoinNetwork(k)
  PROVE  Punctual'
<1> USE Ages
<1> DEFINE a == cmd.addr
<1>1. /\ cmd.name = "JoinNetwork" /\ a \in Server /\ a # k /\ a \in Joined
      /\ cmd'.name = cmd.name /\ cmd'.addr = a /\ cmd'.todo \subseteq cmd.todo
      /\ Joined' = Joined /\ Joined \subseteq Server
  BY Doing DEF JoinNetwork, Called, Joined
<1>2. /\ UNCHANGED <<running, alive, msg, calling, met>>
      /\ k \in running /\ age'[k][a] = 0
      /\ \A n, m \in Server : n # k \/ m # a => age'[n][m] = age[n][m]
      /\ \A n \in Server : stubs'[n] \in {stubs[n], stubs[n] \union {a}} /\ round[n] \subseteq round'[n]
      /\ \A n \in Server : n # k => stubs'[n] = stubs[n] /\ round'[n] = round[n]
      /\ Idle(k) <=> Idle(k)'
  BY <1>1 DEF JoinNetwork, TypeOK, Idle
<1>3. \A n \in Server : Idle(n)' <=> Idle(n)
  BY <1>2 DEF Idle
<1>4. CommandsAreOrderly'
  BY <1>1, <1>2 DEF Punctual, CommandsAreOrderly
<1>5. RoundsAreOnTime'
  BY <1>1, <1>2, <1>3 DEF Punctual, RoundsAreOnTime
<1>6. OwnIsYoungest'
  <2> SUFFICES ASSUME NEW n \in Joined, NEW x \in Server
               PROVE  age'[n][n] <= age'[x][n] /\ age'[n][n] <= msg'[x][n]
    BY <1>1 DEF OwnIsYoungest
  <2>1. n \in Server /\ age[n][n] <= age[x][n] /\ age[n][n] <= msg[x][n] /\ age'[n][n] = age[n][n]
    BY <1>1, <1>2 DEF Punctual, OwnIsYoungest
  <2>2. CASE x = k /\ n = a
    BY <1>1, <1>2, <2>1, <2>2 DEF Punctual, CommandsAreOrderly
  <2>3. CASE x # k \/ n # a
    BY <1>2, <2>1, <2>3
  <2> QED
    BY <2>2, <2>3
<1>7. MetAreCalled'
  <2> SUFFICES ASSUME NEW m \in Server, NEW n \in Server, <<m, n>> \in met
               PROVE  /\ m \in alive /\ n \in alive /\ m \in stubs'[n]
                      /\ ~Idle(n)' => msg'[n][n] = age'[n][n]
                      /\ age'[m][n] <= IF Pending(n, m)' THEN Beat + msg'[n][n] ELSE age'[n][n]
    BY <1>2 DEF MetAreCalled
  <2>1. m \in alive /\ n \in alive /\ m \in stubs'[n]
    BY <1>2 DEF Punctual, MetAreCalled
  <2>2. Pending(n, m) => Pending(n, m)'
    BY <1>2 DEF Pending
  <2>3. age'[n][n] = age[n][n] /\ (age'[m][n] = age[m][n] \/ age'[m][n] = 0)
    BY <1>1, <1>2
  <2> QED
    BY <1>2, <1>3, <2>1, <2>2, <2>3, PairKeeps
<1> QED
  BY <1>4, <1>5, <1>6, <1>7 DEF Punctual

LEMMA LeaveNetworkPunctual ==
  ASSUME TypeOK, Punctual, NEW k \in Server, LeaveNetwork(k)
  PROVE  Punctual'
<1> USE Ages
<1> DEFINE a == cmd.addr
<1>1. /\ cmd.name = "LeaveNetwork" /\ a \in Server /\ a # k /\ a \notin Joined
      /\ cmd'.name = cmd.name /\ cmd'.addr = a /\ cmd'.todo \subseteq cmd.todo
      /\ Joined' = Joined /\ Joined \subseteq Server /\ a \notin alive
  BY Doing DEF LeaveNetwork, Called, Joined, Punctual, CommandsAreOrderly
<1>2. /\ UNCHANGED <<running, alive, msg, calling, met>>
      /\ k \in running /\ age'[k][a] = Check
      /\ \A n, m \in Server : n # k \/ m # a => age'[n][m] = age[n][m]
      /\ \A n \in Server : stubs'[n] \in {stubs[n], stubs[n] \ {a}}
      /\ \A n \in Server : round'[n] \in {round[n], round[n] \ {a}}
      /\ \A n \in Server : n # k => stubs'[n] = stubs[n] /\ round'[n] = round[n]
  BY <1>1 DEF LeaveNetwork, TypeOK
<1>3. \A n \in Server : Idle(n) => Idle(n)'
  BY <1>2 DEF Idle
<1>4. CommandsAreOrderly'
  BY <1>1, <1>2 DEF Punctual, CommandsAreOrderly
<1>5. RoundsAreOnTime'
  <2>1. \A n \in Joined : age'[n][n] = age[n][n]
    BY <1>1, <1>2
  <2> QED
    BY <1>1, <1>2, <1>3, <2>1 DEF Punctual, RoundsAreOnTime
<1>6. OwnIsYoungest'
  <2>1. \A n \in Joined, x \in Server : age'[x][n] = age[x][n]
    BY <1>1, <1>2
  <2> QED
    BY <1>1, <1>2, <2>1 DEF Punctual, OwnIsYoungest
<1>7. MetAreCalled'
  <2> SUFFICES ASSUME NEW m \in Server, NEW n \in Server, <<m, n>> \in met
               PROVE  /\ m \in alive /\ n \in alive /\ m \in stubs'[n]
                      /\ ~Idle(n)' => msg'[n][n] = age'[n][n]
                      /\ age'[m][n] <= IF Pending(n, m)' THEN Beat + msg'[n][n] ELSE age'[n][n]
    BY <1>2 DEF MetAreCalled
  <2>1. m \in alive /\ n \in alive /\ m # a /\ n # a /\ m \in stubs'[n]
    BY <1>1, <1>2 DEF Punctual, MetAreCalled
  <2>2. Pending(n, m) => Pending(n, m)'
    BY <1>2, <2>1 DEF Pending
  <2>3. age'[n][n] = age[n][n] /\ age'[m][n] = age[m][n]
    BY <1>2, <2>1
  <2> QED
    BY <1>2, <1>3, <2>1, <2>2, <2>3, PairKeeps
<1> QED
  BY <1>4, <1>5, <1>6, <1>7 DEF Punctual

\* Tables, loops and stubs stay, and no server is joined that was not.
LEMMA QuietPunctual ==
  ASSUME TypeOK, Punctual, UNCHANGED <<stubs, age, msg, round, calling, met>>,
         running \subseteq running', alive \subseteq alive', Joined' \subseteq Joined,
         CommandsAreOrderly'
  PROVE  Punctual'
<1>1. /\ \A n \in Server : Idle(n)' <=> Idle(n)
      /\ \A n, m \in Server : Pending(n, m)' <=> Pending(n, m)
  BY DEF Idle, Pending
<1>2. RoundsAreOnTime'
  BY <1>1 DEF Punctual, RoundsAreOnTime, TypeOK, Joined, NoCmd, Command
<1>3. OwnIsYoungest'
  BY DEF Punctual, OwnIsYoungest
<1>4. MetAreCalled'
  BY <1>1 DEF Punctual, MetAreCalled
<1> QED
  BY <1>2, <1>3, <1>4 DEF Punctual

LEMMA LoopEndsPunctual ==
  ASSUME TypeOK, Punctual, NEW k \in Server, PeerFails(k) \/ Return \/ Restart(k)
  PROVE  Punctual'
<1>1. CASE PeerFails(k)
  <2>1. Joined' = Joined /\ CommandsAreOrderly'
    BY <1>1, Doing DEF PeerFails, Joined, Punctual, CommandsAreOrderly, tables
  <2> QED
    BY <1>1, <2>1, QuietPunctual DEF PeerFails, tables, loops
<1>2. CASE Return
  <2>1. /\ Joined' = alive' /\ CommandsAreOrderly'
        /\ alive' = Joined
    BY <1>2 DEF Return, Joined, Punctual, CommandsAreOrderly, NoCmd
  <2> QED
    BY <1>2, <2>1, QuietPunctual DEF Return, Joined, tables, loops
<1>3. CASE Restart(k)
  <2>1. Joined' = Joined /\ CommandsAreOrderly'
    BY <1>3 DEF Restart, Joined, Punctual, CommandsAreOrderly, tables
  <2> QED
    BY <1>3, <2>1, QuietPunctual DEF Restart, tables, loops
<1> QED
  BY <1>1, <1>2, <1>3

LEMMA CrashPunctual ==
  ASSUME TypeOK, Punctual, NEW k \in Server, Crash(k)
  PROVE  Punctual'
<1> USE Ages
<1>1. /\ Joined' \subseteq Joined \ {k} /\ Joined \subseteq Server
      /\ running' = running \ {k} /\ alive' = alive \ {k} /\ met' = Without(k)
      /\ cmd' = NoCmd \/ (cmd' = cmd /\ cmd.addr # k)
  BY DEF Crash, Joined, TypeOK, NoCmd, Command
<1>2. /\ \A n, m \in Server : n # k => age'[n][m] = age[n][m] /\ msg'[n][m] = msg[n][m]
      /\ \A m \in Server : age'[k][m] = Check /\ msg'[k][m] = Check
      /\ \A n \in Server : n # k => round'[n] = round[n] /\ calling'[n] = calling[n]
      /\ \A n \in Server : stubs'[n] = stubs[n] \/ stubs'[n] = {}
      /\ \A n \in Server : n # k => stubs'[n] = stubs[n]
      /\ Idle(k)'
  BY DEF Crash, TypeOK, Nobody, Idle
<1>3. /\ \A n \in Server : n # k => (Idle(n)' <=> Idle(n))
      /\ \A n, m \in Server : n # k => (Pending(n, m)' <=> Pending(n, m))
  BY <1>2 DEF Idle, Pending
<1>4. CommandsAreOrderly'
  <2>1. /\ cmd'.addr \notin cmd'.todo
        /\ cmd'.name = "LeaveNetwork" => cmd'.addr \notin alive'
        /\ \A n \in Server : n \notin stubs'[n]
    BY <1>1, <1>2 DEF Punctual, CommandsAreOrderly, NoCmd
  <2>2. cmd'.name = "JoinNetwork" => age'[cmd'.addr][cmd'.addr] = 0
    BY <1>1, <1>2 DEF Punctual, CommandsAreOrderly, NoCmd, TypeOK, Command
  <2> QED
    BY <2>1, <2>2 DEF CommandsAreOrderly
<1>5. RoundsAreOnTime'
  BY <1>1, <1>2, <1>3 DEF Punctual, RoundsAreOnTime
<1>6. OwnIsYoungest'
  <2> SUFFICES ASSUME NEW n \in Joined, n # k, NEW x \in Server
               PROVE  age'[n][n] <= age'[x][n] /\ age'[n][n] <= msg'[x][n]
    BY <1>1 DEF OwnIsYoungest
  <2>1. n \in Server /\ age[n][n] <= age[x][n] /\ age[n][n] <= msg[x][n]
    BY <1>1 DEF Punctual, OwnIsYoungest
  <2> QED
    BY <1>2, <2>1
<1>7. MetAreCalled'
  <2> SUFFICES ASSUME NEW m \in Server, NEW n \in Server, <<m, n>> \in met, m # k, n # k
               PROVE  /\ m \in alive' /\ n \in alive' /\ m \in stubs'[n]
                      /\ ~Idle(n)' => msg'[n][n] = age'[n][n]
                      /\ age'[m][n] <= IF Pending(n, m)' THEN Beat + msg'[n][n] ELSE age'[n][n]
    BY <1>1 DEF MetAreCalled, Without
  <2>1. /\ m \in alive /\ n \in alive /\ m \in stubs[n]
        /\ ~Idle(n) => msg[n][n] = age[n][n]
        /\ age[m][n] <= IF Pending(n, m) THEN Beat + msg[n][n] ELSE age[n][n]
    BY DEF Punctual, MetAreCalled
  <2> QED
    BY <1>1, <1>2, <1>3, <2>1
<1> QED
  BY <1>4, <1>5, <1>6, <1>7 DEF Punctual

LEMMA PromptWasPrompt == TypeOK /\ [Next]_vars /\ Prompt' => Prompt
<1> SUFFICES ASSUME TypeOK, [Next]_vars, Prompt' PROVE Prompt
  OBVIOUS
<1>1. late \in Nat /\ broken \in Nat
  BY BoundsAreNat DEF TypeOK
<1>2. CASE Tick \/ UNCHANGED vars
  BY <1>1, <1>2 DEF Tick, Prompt, vars, counters
<1>3. ASSUME NEW n \in Server, Round(n) PROVE Prompt
  <2>1. CASE BeginRound(n)
    BY <2>1 DEF Prompt, BeginRound, counters
  <2>2. ASSUME NEW m \in Server, SkipPeer(n, m) \/ CallPeer(n, m) \/ Gossip(n, m)
        PROVE  Prompt
    BY <2>2 DEF Prompt, SkipPeer, CallPeer, Gossip, counters
  <2>3. ASSUME NEW m \in Server, CallFails(n, m) PROVE Prompt
    BY <1>1, <2>3 DEF Prompt, CallFails
  <2> QED
    BY <1>3, <2>1, <2>2, <2>3 DEF Round
<1>4. CASE Loop
  BY <1>1, <1>4 DEF Loop, Prompt, JoinNetwork, LeaveNetwork, PeerFails, Return, counters
<1>5. CASE \E n \in Server : AdminJoin(n) \/ AdminLeave(n) \/ Crash(n) \/ Restart(n)
  BY <1>1, <1>5 DEF Prompt, AdminJoin, AdminLeave, Crash, Restart, counters
<1> QED
  BY <1>2, <1>3, <1>4, <1>5 DEF Next

LEMMA StepPunctual == IndInv /\ [Next]_vars => (Prompt' => Punctual')
<1> SUFFICES ASSUME IndInv, [Next]_vars, Prompt' PROVE Punctual'
  OBVIOUS
<1>1. TypeOK /\ Punctual
  BY PromptWasPrompt DEF IndInv
<1>2. CASE UNCHANGED vars
  BY <1>1, <1>2, QuietPunctual
     DEF vars, tables, loops, counters, Joined, Punctual, CommandsAreOrderly
<1>3. CASE Tick
  BY <1>1, <1>3, TickPunctual
<1>4. CASE \E n \in Server : Round(n)
  BY <1>1, <1>4, BeginRoundPunctual, SkipPeerPunctual, CallPeerPunctual, CallFailsPunctual,
     GossipPunctual DEF Round
<1>5. CASE Return
  <2>1. \E k \in Server : TRUE
    BY <1>1, <1>5 DEF Return, TypeOK, Command
  <2> QED
    BY <1>1, <1>5, <2>1, LoopEndsPunctual
<1>6. CASE \E m \in Server : JoinNetwork(m) \/ LeaveNetwork(m) \/ PeerFails(m)
  BY <1>1, <1>6, JoinNetworkPunctual, LeaveNetworkPunctual, LoopEndsPunctual
<1>7. CASE \E n \in Server : AdminJoin(n) \/ AdminLeave(n) \/ Crash(n) \/ Restart(n)
  BY <1>1, <1>7, AdminJoinPunctual, AdminLeavePunctual, CrashPunctual, LoopEndsPunctual
<1> QED
  BY <1>2, <1>3, <1>4, <1>5, <1>6, <1>7 DEF Next, Loop

-----------------------------------------------------------------------------
(* The inductive invariant: how old the entries of heartbeat tables and of   *)
(* messages on their way may be, next to what the rounds under way have      *)
(* still to do.                                                              *)
THEOREM GossipInvariance == Spec => []IndInv
<1>1. Init => IndInv
  <2>1. Init => DeadIsNoticed
    BY IntervalsAreNat DEF Init, DeadIsNoticed, Nobody
  <2> QED
    BY <2>1, InitType, InitPunctual DEF IndInv
<1>2. IndInv /\ [Next]_vars => IndInv'
  BY StepType, StepNews, StepPunctual DEF IndInv
<1> QED
  BY <1>1, <1>2, PTL DEF Spec

(* Type correctness of the heartbeat tables, the rounds and the commands. *)
THEOREM GossipTypes == Spec => []TypeOK
<1>1. IndInv => TypeOK
  BY DEF IndInv
<1> QED
  BY <1>1, GossipInvariance, PTL

(* A server silent for CHECK_ALIVE_INTERVAL is believed alive by nobody,     *)
(* whatever the others tell each other and whatever breaks or is late.       *)
THEOREM SilentServersAreNoticed == Spec => []DeadIsNoticed
<1>1. IndInv => DeadIsNoticed
  BY DEF IndInv
<1> QED
  BY <1>1, GossipInvariance, PTL

(* While nothing is late or breaks, servers that have heard each other do    *)
(* not lose sight of each other: a round every HEARTBEAT_INTERVAL keeps the  *)
(* entries younger than CHECK_ALIVE_INTERVAL.                                *)
THEOREM HeardServersStayInSight == Spec => []MetStayInSight
<1>1. IndInv => MetStayInSight
  BY Insight DEF IndInv, MetStayInSight
<1> QED
  BY <1>1, GossipInvariance, PTL

=============================================================================
