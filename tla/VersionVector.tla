--------------------------- MODULE VersionVector ---------------------------
(***************************************************************************)
(* The version vectors of StateMachine (src/state_machine.cpp).            *)
(*                                                                         *)
(* The code keeps a version as a vector of (server, counter) pairs.  Every *)
(* vector it builds names a server at most once and starts its counter at  *)
(* 1, so a vector is abstracted to a function from servers to counters in  *)
(* which 0 stands for "the vector has no pair for this server".  The order *)
(* of the pairs is abstracted away here; module VersionScan keeps it and   *)
(* checks that the loops of the code compute these operators.              *)
(***************************************************************************)
EXTENDS Integers

CONSTANTS
  Server,       \* the node ids that may appear in a version
  MaxVersion    \* the largest counter: UINT64_MAX in the code (bound)

ASSUME MaxVersionIsNat == MaxVersion \in Nat

Version == [Server -> 0 .. MaxVersion]

\* The empty vector, which get_version returns for a key it does not hold.
NoVersion == [s \in Server |-> 0]

Lists(version, s) == version[s] > 0

-----------------------------------------------------------------------------
(***************************************************************************)
(* check_conflict_version walks both vectors.  The four questions it asks  *)
(* of them on the way:                                                     *)
(***************************************************************************)

\* Some server of the existing vector has no pair in the incoming one.
Unlisted(incoming, existing) ==
  \E s \in Server : Lists(existing, s) /\ ~Lists(incoming, s)

\* Some server of both has a smaller counter in the incoming vector ...
Behind(incoming, existing) ==
  \E s \in Server : Lists(incoming, s) /\ incoming[s] < existing[s]

\* ... or a larger one.
Ahead(incoming, existing) ==
  \E s \in Server : Lists(existing, s) /\ incoming[s] > existing[s]

\* Some server of the incoming vector has no pair in the existing one.
Extra(incoming, existing) == Unlisted(existing, incoming)

\* A slip: the two tests for an empty vector are swapped, so that nothing is
\* newer than something.
check_conflict_version_SizeSwapped(incoming, existing) ==
  IF incoming = NoVersion THEN 1
  ELSE IF existing = NoVersion THEN -1
  ELSE IF \/ Unlisted(incoming, existing)
          \/ Behind(incoming, existing) /\ Ahead(incoming, existing) THEN 2
  ELSE IF Behind(incoming, existing) THEN -1
  ELSE IF Ahead(incoming, existing) \/ Extra(incoming, existing) THEN 1
  ELSE 0

(***************************************************************************)
(* How an incoming version relates to an existing one, in the codes of the *)
(* source: 1 the incoming one is newer, 0 the same, -1 earlier, 2 they     *)
(* conflict.  The tests are in the order of the code: an empty existing    *)
(* vector first, then an empty incoming one, then the walk.                *)
(***************************************************************************)
check_conflict_version(incoming, existing) ==
  IF existing = NoVersion THEN 1
  ELSE IF incoming = NoVersion THEN -1
  ELSE IF \/ Unlisted(incoming, existing)
          \/ Behind(incoming, existing) /\ Ahead(incoming, existing) THEN 2
  ELSE IF Behind(incoming, existing) THEN -1
  ELSE IF Ahead(incoming, existing) \/ Extra(incoming, existing) THEN 1
  ELSE 0

-----------------------------------------------------------------------------
\* A slip of update_version: a new server starts at 0.
update_version_FromZero(original, server) ==
  IF Lists(original, server) THEN [original EXCEPT ![server] = @ + 1] ELSE original

\* The version of a write that server coordinates on top of original.
update_version(original, server) == [original EXCEPT ![server] = @ + 1]

\* The largest of a set of counters.
Largest(counters) == CHOOSE x \in counters : \A y \in counters : y <= x

\* A slip of reconcile_version: the smaller counter of two is kept.
reconcile_version_Smallest(versions) ==
  [s \in Server |->
     CHOOSE x \in {v[s] : v \in versions} : \A w \in versions : x <= w[s]]

\* The version a client gives to the value it picks among conflicting ones:
\* for every server named in any of them, the largest counter.
reconcile_version(versions) ==
  [s \in Server |-> Largest({v[s] : v \in versions} \union {0})]

-----------------------------------------------------------------------------
(***************************************************************************)
(* Records are what a replica answers a read with: a value and its         *)
(* version.  A read collects one per replica; a set of records is the      *)
(* result list after remove_duplicate_data.                                *)
(***************************************************************************)

\* A slip: the comparison of the two versions is made the wrong way round.
remove_unconflict_data_Swapped(records) ==
  {r \in records :
     ~ \E q \in records \ {r} : check_conflict_version(q.version, r.version) < 0}

\* Records that no other record makes old.
remove_unconflict_data(records) ==
  {r \in records :
     ~ \E q \in records \ {r} : check_conflict_version(r.version, q.version) < 0}

get_latest_data(records) == remove_unconflict_data(records)

-----------------------------------------------------------------------------
(***************************************************************************)
(* The reference: the order of version vectors, in which a version comes   *)
(* before another when no counter of it is larger and some counter is      *)
(* smaller, a missing pair counting as 0.                                  *)
(***************************************************************************)
NotAbove(a, b) == \A s \in Server : a[s] <= b[s]

Precedes(a, b) == NotAbove(a, b) /\ a # b

=============================================================================
