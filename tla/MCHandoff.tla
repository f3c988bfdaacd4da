----------------------------- MODULE MCHandoff -----------------------------
(* Small instances of Handoff. *)
EXTENDS Handoff, TLC
CONSTANTS s1, s2, s3, s4, p1, p2

FourInOrder == <<s1, s2, s3, s4>>

Symmetric == Permutations(Put)

\* Puts that run alone, whose own calls break after the first command only (bound).
CalmBetween == Calm /\ (put' # put /\ broken' # broken => issued = 1)

\* One put at a time, beside commands that make a server join.
JoinsBesidePuts == TakeTurns /\ cmd'.name # "LeaveNetwork"
=============================================================================
