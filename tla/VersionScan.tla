---------------------------- MODULE VersionScan ----------------------------
(***************************************************************************)
(* The loops of StateMachine over vectors of (server, counter) pairs, in   *)
(* the order in which the code runs them, and the result list that         *)
(* GossipNode::ClientGet fills one replica answer at a time.               *)
(*                                                                         *)
(* The state is the result list; a step is results.push_back.  In every    *)
(* state the loops are compared with the operators of VersionVector, which *)
(* forget the order of the pairs and of the results, and with what a       *)
(* read-repair needs of them.                                              *)
(***************************************************************************)
EXTENDS VersionVector, SequencesExt

CONSTANTS
  Value,        \* the values that may be stored
  MaxResults    \* longest result list (bound; 2 * REPLICA_N in the code)

ASSUME MaxResultsIsNat == MaxResults \in Nat

VARIABLE results  \* list of [value, pairs], one per replica that answered

Pair == [server : Server, count : 1 .. MaxVersion]

\* Vectors as the code builds them: no server twice.
PairVector ==
  {p \in SeqOf(Pair, Cardinality(Server)) :
     \A i, j \in DOMAIN p : p[i].server = p[j].server => i = j}

Named(pairs) == {pairs[i].server : i \in DOMAIN pairs}

-----------------------------------------------------------------------------
\* A slip of the walk: a smaller counter after a larger one is no conflict.
CompareStep_LastWins(incoming, res, inc, ext) ==
  IF res = 2 \/ ext.server \notin Named(incoming) THEN 2
  ELSE IF inc.server # ext.server \/ inc.count = ext.count THEN res
  ELSE IF inc.count < ext.count THEN -1
  ELSE 1

\* A slip: a server missing from the incoming vector is taken for staleness.
CompareStep_UnlistedIsEarlier(incoming, res, inc, ext) ==
  IF ext.server \notin Named(incoming) THEN -1
  ELSE IF res = 2 \/ inc.server # ext.server \/ inc.count = ext.count THEN res
  ELSE IF inc.count < ext.count THEN IF res = 1 THEN 2 ELSE -1
  ELSE IF res = -1 THEN 2 ELSE 1

\* One comparison of the doubly nested loop.  The result 2 is a return.
CompareStep(incoming, res, inc, ext) ==
  IF res = 2 \/ ext.server \notin Named(incoming) THEN 2
  ELSE IF inc.server # ext.server \/ inc.count = ext.count THEN res
  ELSE IF inc.count < ext.count THEN IF res = 1 THEN 2 ELSE -1
  ELSE IF res = -1 THEN 2 ELSE 1

\* The inner loop: one pair of the incoming vector against the existing one.
InnerLoop(incoming, existing, start, inc) ==
  LET res[k \in 0 .. Len(existing)] ==
        IF k = 0 THEN start ELSE CompareStep(incoming, res[k - 1], inc, existing[k])
  IN  res[Len(existing)]

\* The outer loop: the pairs of the incoming vector one after the other.
OuterLoop(incoming, existing) ==
  LET res[k \in 0 .. Len(incoming)] ==
        IF k = 0 THEN 0 ELSE InnerLoop(incoming, existing, res[k - 1], incoming[k])
  IN  res[Len(incoming)]

ScanConflict(incoming, existing) ==
  LET walked == OuterLoop(incoming, existing)
  IN  IF existing = <<>> THEN 1
      ELSE IF incoming = <<>> THEN -1
      ELSE IF walked = 0 /\ ~(Named(incoming) \subseteq Named(existing)) THEN 1
      ELSE walked

\* Keep the first occurrence of a (value, vector) pair.
ScanDuplicates(list) ==
  LET unique[k \in 0 .. Len(list)] ==
        IF k = 0 THEN <<>>
        ELSE IF Contains(unique[k - 1], list[k]) THEN unique[k - 1]
        ELSE Append(unique[k - 1], list[k])
  IN  unique[Len(list)]

\* is_old_data: another entry makes entry i old.
IsOld(list, i) ==
  \E j \in DOMAIN list \ {i} : ScanConflict(list[i].pairs, list[j].pairs) < 0

\* A slip: the scan for a newer record looks at the later entries only.
ScanUnconflict_LaterOnly(list) ==
  LET kept[k \in 0 .. Len(list)] ==
        IF k = 0 THEN <<>>
        ELSE IF \E j \in (k + 1) .. Len(list) : ScanConflict(list[k].pairs, list[j].pairs) < 0
        THEN kept[k - 1]
        ELSE Append(kept[k - 1], list[k])
  IN  kept[Len(list)]

\* Drop every entry that is earlier than another one.
ScanUnconflict(list) ==
  LET kept[k \in 0 .. Len(list)] ==
        IF k = 0 THEN <<>>
        ELSE IF IsOld(list, k) THEN kept[k - 1]
        ELSE Append(kept[k - 1], list[k])
  IN  kept[Len(list)]

ScanLatest(list) == ScanUnconflict(ScanDuplicates(list))

\* update_version on the pairs: bump the pair of the server or append one.
ScanUpdate(pairs, server) ==
  IF server \in Named(pairs)
  THEN [i \in DOMAIN pairs |->
          IF pairs[i].server = server THEN [pairs[i] EXCEPT !.count = @ + 1] ELSE pairs[i]]
  ELSE Append(pairs, [server |-> server, count |-> 1])

-----------------------------------------------------------------------------
Init == results = <<>>

\* results.push_back(make_pair(value, vector_clock)) in ClientGet.
Collect(value, pairs) ==
  /\ Len(results) < MaxResults
  /\ results' = Append(results, [value |-> value, pairs |-> pairs])

Next == \E value \in Value, pairs \in PairVector : Collect(value, pairs)

Spec == Init /\ [][Next]_results

-----------------------------------------------------------------------------
\* The function a vector of pairs stands for.
AsVersion(pairs) ==
  [s \in Server |->
     IF s \in Named(pairs)
     THEN pairs[CHOOSE i \in DOMAIN pairs : pairs[i].server = s].count
     ELSE 0]

AsRecord(r) == [value |-> r.value, version |-> AsVersion(r.pairs)]

AsRecords(list) == {AsRecord(list[i]) : i \in DOMAIN list}

Versions(list) == {AsVersion(list[i].pairs) : i \in DOMAIN list}

TypeOK ==
  /\ results \in Seq([value : Value, pairs : PairVector])
  /\ Len(results) <= MaxResults

(* The nested loops of check_conflict_version, with their early returns in   *)
(* the middle of a walk, give the same verdict whatever the order of the     *)
(* pairs: the one of the operator in VersionVector; and update_version makes *)
(* the same version of the pairs in any order.                               *)
ScanAgrees ==
  \A i \in DOMAIN results :
     /\ \A j \in DOMAIN results :
          ScanConflict(results[i].pairs, results[j].pairs) =
            check_conflict_version(AsVersion(results[i].pairs), AsVersion(results[j].pairs))
     /\ \A s \in Server :
          AsVersion(ScanUpdate(results[i].pairs, s)) =
            update_version(AsVersion(results[i].pairs), s)

(* The two filters of get_latest_data together keep exactly the records that *)
(* the order-free get_latest_data keeps.                                     *)
LatestAgrees ==
  AsRecords(ScanLatest(results)) = get_latest_data(AsRecords(results))

(* A read that collected anything has something to answer with: "earlier     *)
(* than" has no cycle, so the filter of get_latest_data never drops          *)
(* everything.                                                               *)
LatestNotEmpty == results # <<>> => ScanLatest(results) # <<>>

(* The verdict 1, on which PeerPut overwrites what it holds, is given exactly *)
(* when the incoming version comes after the existing one in the order of    *)
(* version vectors (or there is nothing to overwrite).                       *)
NewerMeansAfter ==
  \A i, j \in DOMAIN results :
     LET incoming == AsVersion(results[i].pairs)
         existing == AsVersion(results[j].pairs)
     IN  ScanConflict(results[i].pairs, results[j].pairs) = 1
           <=> Precedes(existing, incoming) \/ existing = NoVersion

(* Read repair goes through: a value written under the reconciled version of *)
(* the answer, bumped by whichever server coordinates the write, is newer    *)
(* than every record of the answer, so each replica that holds one takes it. *)
RepairIsAccepted ==
  LET kept == ScanLatest(results)
      repaired(s) == update_version(reconcile_version(Versions(kept)), s)
  IN  \A k \in DOMAIN kept, s \in Server :
        check_conflict_version(repaired(s), AsVersion(kept[k].pairs)) = 1

(* What the comment on the codes says of -1: a record is dropped as earlier  *)
(* only if its version comes before the other one.                           *)
EarlierMeansBefore ==
  \A i, j \in DOMAIN results :
     ScanConflict(results[i].pairs, results[j].pairs) = -1 =>
        Precedes(AsVersion(results[i].pairs), AsVersion(results[j].pairs))

=============================================================================
