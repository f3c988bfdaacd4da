---------------------------- MODULE QuorumStore ----------------------------
(***************************************************************************)
(* What the quorum of ClientPut and ClientGet promises for one key, with   *)
(* every mechanism left out: a write gathers copies on replicas and may be *)
(* acknowledged once a write quorum has taken it; a read gathers answers   *)
(* and may be returned once a read quorum has given one.  Copies may go on *)
(* appearing after the write has been answered.                            *)
(***************************************************************************)
CONSTANTS
  Replica,            \* the servers on the preference list of the key
  Put, Get,           \* write and read requests
  WriteQuorum,        \* the sets of replicas that suffice to acknowledge
  ReadQuorum          \* the sets of replicas that suffice to answer

VARIABLES
  copies,    \* copies[p]: the replicas that have ever taken write p
  outcome,   \* outcome[p]: what the client of write p was told
  answers,   \* answers[g]: the replicas that have answered read g
  reading,   \* reading[g]: how far read g has come
  owed       \* owed[g]: the writes acknowledged when read g began

vars == <<copies, outcome, answers, reading, owed>>

TypeOK ==
  /\ copies \in [Put -> SUBSET Replica]
  /\ outcome \in [Put -> {"open", "OK", "failed"}]
  /\ answers \in [Get -> SUBSET Replica]
  /\ reading \in [Get -> {"idle", "open", "OK", "failed"}]
  /\ owed \in [Get -> SUBSET Put]

Init ==
  /\ copies = [p \in Put |-> {}]
  /\ outcome = [p \in Put |-> "open"]
  /\ answers = [g \in Get |-> {}]
  /\ reading = [g \in Get |-> "idle"]
  /\ owed = [g \in Get |-> {}]

Acked == {p \in Put : outcome[p] = "OK"}

Copy(p, n) ==
  /\ copies' = [copies EXCEPT ![p] = @ \union {n}]
  /\ UNCHANGED <<outcome, answers, reading, owed>>

Acknowledge(p) ==
  /\ outcome[p] = "open"
  /\ copies[p] \in WriteQuorum
  /\ outcome' = [outcome EXCEPT ![p] = "OK"]
  /\ UNCHANGED <<copies, answers, reading, owed>>

BeginRead(g) ==
  /\ reading[g] = "idle"
  /\ reading' = [reading EXCEPT ![g] = "open"]
  /\ owed' = [owed EXCEPT ![g] = Acked]
  /\ UNCHANGED <<copies, outcome, answers>>

Answer(g, n) ==
  /\ reading[g] = "open"
  /\ answers' = [answers EXCEPT ![g] = @ \union {n}]
  /\ UNCHANGED <<copies, outcome, reading, owed>>

ReturnRead(g) ==
  /\ reading[g] = "open"
  /\ answers[g] \in ReadQuorum
  /\ reading' = [reading EXCEPT ![g] = "OK"]
  /\ UNCHANGED <<copies, outcome, answers, owed>>

(* Requests fail: a quorum was not reached, or servers died under them.    *)
(* One crash may take several requests with it.                            *)
Fail(ps, gs) ==
  /\ \A p \in ps : outcome[p] = "open"
  /\ \A g \in gs : reading[g] \in {"idle", "open"}
  /\ outcome' = [p \in Put |-> IF p \in ps THEN "failed" ELSE outcome[p]]
  /\ reading' = [g \in Get |-> IF g \in gs THEN "failed" ELSE reading[g]]
  /\ UNCHANGED <<copies, answers, owed>>

Next ==
  \/ \E p \in Put, n \in Replica : Copy(p, n)
  \/ \E p \in Put : Acknowledge(p)
  \/ \E g \in Get : BeginRead(g) \/ ReturnRead(g)
  \/ \E g \in Get, n \in Replica : Answer(g, n)
  \/ \E ps \in SUBSET Put, gs \in SUBSET Get : Fail(ps, gs)

Spec == Init /\ [][Next]_vars

-----------------------------------------------------------------------------
\* Read and write quorums cannot miss each other.
StrictQuorum == \A W \in WriteQuorum, R \in ReadQuorum : W \intersect R # {}

(* A read that was answered OK has asked a replica that took each write      *)
(* acknowledged before the read began: what the two quorums are for.         *)
ReadsMeetWrites ==
  StrictQuorum =>
    \A g \in Get : reading[g] = "OK" =>
      \A p \in owed[g] : copies[p] \intersect answers[g] # {}

=============================================================================
