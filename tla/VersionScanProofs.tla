------------------------- MODULE VersionScanProofs -------------------------
(***************************************************************************)
(* Proofs about VersionScan: the loops of StateMachine over vectors and    *)
(* lists compute the operators of VersionVector, for vectors and lists of  *)
(* any length in any order.                                                *)
(***************************************************************************)
EXTENDS VersionScan, VersionVectorProofs

-----------------------------------------------------------------------------
(* Counting loops *)

\* What holds before a loop and is kept by each pass holds after any of them.
LEMMA Passes ==
  ASSUME NEW n \in Nat, NEW Good \in SUBSET (0 .. n), 0 \in Good,
         \A k \in 0 .. n - 1 : k \in Good => k + 1 \in Good
  PROVE  \A k \in 0 .. n : k \in Good
<1> DEFINE Bad == (0 .. n) \ Good
           S == 0 .. n
           Below(x) == {y \in S : y < x}
           F == {Below(x) : x \in Bad}
<1> SUFFICES ASSUME Bad # {} PROVE FALSE
  OBVIOUS
<1>1. IsFiniteSet(S)
  BY FS_Interval
<1>2. F \subseteq FiniteSubsetsOf(S) /\ F # {}
  <2>1. \A x \in Bad : Below(x) \in SUBSET S /\ IsFiniteSet(Below(x))
    BY <1>1, FS_Subset
  <2> QED
    BY <2>1 DEF FiniteSubsetsOf
<1>3. PICK A \in F : \A B \in F : ~(<<B, A>> \in StrictSubsetOrdering(S))
  <2> HIDE DEF F, S, Bad
  <2>1. IsWellFoundedOn(StrictSubsetOrdering(S), FiniteSubsetsOf(S))
    BY FS_StrictSubsetOrderingWellFounded
  <2> QED
    BY <1>2, <2>1, WFMin
<1>4. PICK x \in Bad : A = Below(x)
  BY <1>3
<1>5. x # 0 /\ x \in 0 .. n /\ x - 1 \in 0 .. n - 1 /\ x - 1 \in 0 .. n /\ (x - 1) + 1 = x
  BY <1>4
<1>6. x - 1 \in Bad
  <2>1. x - 1 \notin Good
    BY <1>4, <1>5
  <2> QED
    BY <1>5, <2>1
<1>7. Below(x - 1) \subseteq Below(x) /\ x - 1 \in Below(x) /\ x - 1 \notin Below(x - 1)
  BY <1>5
<1>8. <<Below(x - 1), Below(x)>> \in StrictSubsetOrdering(S)
  BY <1>7 DEF StrictSubsetOrdering
<1> QED
  BY <1>3, <1>4, <1>6, <1>8

\* Loops of n passes, Body[k] telling what pass k makes of a value of T.
Bodies(n, T) == [1 .. n -> [T -> T]]

\* f follows the loop from pass to pass.
Follows(f, n, T, start, Body) ==
  /\ f \in [0 .. n -> T]
  /\ f[0] = start
  /\ \A k \in 1 .. n : f[k] = Body[k][f[k - 1]]

\* The recursive function that a loop is written as exists.
LEMMA LoopExists ==
  ASSUME NEW n \in Nat, NEW T, NEW start \in T, NEW Body \in Bodies(n, T)
  PROVE  \E f : Follows(f, n, T, start, Body)
<1> USE DEF Bodies
<1> DEFINE Is(f, m) == f \in [0 .. m -> T]
                       /\ f = [k \in 0 .. m |-> IF k = 0 THEN start ELSE Body[k][f[k - 1]]]
           Good == {m \in 0 .. n : \E f : Is(f, m)}
<1>1. 0 \in Good
  <2> DEFINE f == [k \in 0 .. 0 |-> start]
  <2>1. f \in [0 .. 0 -> T]
    OBVIOUS
  <2>2. f = [k \in 0 .. 0 |-> IF k = 0 THEN start ELSE Body[k][f[k - 1]]]
    OBVIOUS
  <2>3. Is(f, 0)
    BY <2>1, <2>2
  <2>4. 0 \in 0 .. n
    OBVIOUS
  <2> HIDE DEF Is
  <2> QED
    BY <2>3, <2>4
<1>2. ASSUME NEW m \in 0 .. n - 1, m \in Good
      PROVE  m + 1 \in Good
  <2>1. PICK f : Is(f, m)
    BY <1>2
  <2> DEFINE g == [k \in 0 .. m + 1 |-> IF k = m + 1 THEN Body[m + 1][f[m]] ELSE f[k]]
  <2>2. m \in Nat /\ m + 1 \in 1 .. n /\ m + 1 \in 0 .. n /\ f[m] \in T
    <3>1. m \in Nat /\ m \in 0 .. m /\ m + 1 \in 1 .. n /\ m + 1 \in 0 .. n
      OBVIOUS
    <3>2. f \in [0 .. m -> T]
      BY <2>1
    <3> QED
      BY <3>1, <3>2
  <2>3. Body[m + 1][f[m]] \in T
    BY <2>2
  <2>4. \A k \in 0 .. m + 1 : k # m + 1 => k \in 0 .. m /\ (k # 0 => k - 1 \in 0 .. m)
    BY <2>2
  <2>5. g \in [0 .. m + 1 -> T]
    BY <2>1, <2>3, <2>4
  <2>6. \A k \in 0 .. m : f[k] = IF k = 0 THEN start ELSE Body[k][f[k - 1]]
    BY <2>1
  <2>7. ASSUME NEW k \in 0 .. m + 1
        PROVE  g[k] = IF k = 0 THEN start ELSE Body[k][g[k - 1]]
    <3>1. CASE k = m + 1
      <4>1. m \in 0 .. m + 1 /\ m # m + 1 /\ (m + 1) - 1 = m /\ m + 1 # 0 /\ m + 1 \in 0 .. m + 1
        BY <2>2
      <4>2. g[m] = f[m] /\ g[m + 1] = Body[m + 1][f[m]]
        BY <4>1
      <4> HIDE DEF g
      <4> QED
        BY <3>1, <4>1, <4>2
    <3>2. CASE k # m + 1
      <4>1. k \in 0 .. m /\ g[k] = f[k]
        BY <2>4, <3>2
      <4>2. k # 0 => g[k - 1] = f[k - 1]
        <5>1. k # 0 => k - 1 \in 0 .. m + 1 /\ k - 1 # m + 1
          BY <2>2, <3>2
        <5> QED
          BY <5>1
      <4> HIDE DEF g
      <4> QED
        BY <2>6, <4>1, <4>2
    <3> QED
      BY <3>1, <3>2
  <2>8. g = [k \in 0 .. m + 1 |-> IF k = 0 THEN start ELSE Body[k][g[k - 1]]]
    BY <2>7
  <2>9. Is(g, m + 1)
    BY <2>5, <2>8
  <2> QED
    BY <2>2, <2>9
<1> HIDE DEF Is
<1>3. n \in 0 .. n /\ Good \in SUBSET (0 .. n)
  OBVIOUS
<1> HIDE DEF Good
<1>4. n \in Good
  BY <1>1, <1>2, <1>3, Passes
<1>5. PICK f : Is(f, n)
  BY <1>4 DEF Good
<1>6. f \in [0 .. n -> T] /\ \A k \in 0 .. n : f[k] = IF k = 0 THEN start ELSE Body[k][f[k - 1]]
  BY <1>5 DEF Is
<1>7. f[0] = start /\ \A k \in 1 .. n : f[k] = Body[k][f[k - 1]]
  BY <1>6
<1> QED
  BY <1>6, <1>7 DEF Follows

-----------------------------------------------------------------------------
(* The two loops of check_conflict_version *)

Codes == {-1, 0, 1, 2}

\* res after some comparisons: whether a counter was smaller, whether one was larger.
Verdict(smaller, larger) ==
  IF smaller /\ larger THEN 2 ELSE IF smaller THEN -1 ELSE IF larger THEN 1 ELSE 0

Smaller(inc, ext) == inc.server = ext.server /\ inc.count < ext.count
Larger(inc, ext) == inc.server = ext.server /\ inc.count > ext.count

LEMMA StepIsCode ==
  ASSUME NEW incoming, NEW res \in Codes, NEW inc, NEW ext
  PROVE  CompareStep(incoming, res, inc, ext) \in Codes
  BY DEF CompareStep, Codes

LEMMA StepVerdict ==
  ASSUME NEW incoming, NEW smaller \in BOOLEAN, NEW larger \in BOOLEAN,
         NEW inc \in Pair, NEW ext \in Pair, ext.server \in Named(incoming)
  PROVE  CompareStep(incoming, Verdict(smaller, larger), inc, ext) =
           Verdict(smaller \/ Smaller(inc, ext), larger \/ Larger(inc, ext))
<1>1. inc.count \in Int /\ ext.count \in Int
  BY MaxVersionIsNat DEF Pair
<1>2. CASE inc.server # ext.server \/ inc.count = ext.count
  BY <1>1, <1>2 DEF CompareStep, Verdict, Smaller, Larger
<1>3. CASE inc.server = ext.server /\ inc.count < ext.count
  BY <1>1, <1>3 DEF CompareStep, Verdict, Smaller, Larger
<1>4. CASE inc.server = ext.server /\ inc.count > ext.count
  BY <1>1, <1>4 DEF CompareStep, Verdict, Smaller, Larger
<1> QED
  BY <1>1, <1>2, <1>3, <1>4

\* The inner loop pass by pass.
LEMMA InnerPasses ==
  ASSUME NEW incoming, NEW existing \in Seq(Pair), NEW start \in Codes, NEW inc
  PROVE  \E f : /\ f[0] = start
                /\ \A k \in 0 .. Len(existing) - 1 :
                     f[k + 1] = CompareStep(incoming, f[k], inc, existing[k + 1])
                /\ InnerLoop(incoming, existing, start, inc) = f[Len(existing)]
<1> DEFINE n == Len(existing)
           Body == [k \in 1 .. n |-> [r \in Codes |-> CompareStep(incoming, r, inc, existing[k])]]
           Is(f) == f = [k \in 0 .. n |-> IF k = 0 THEN start
                                          ELSE CompareStep(incoming, f[k - 1], inc, existing[k])]
<1>1. n \in Nat
  OBVIOUS
<1>2. Body \in Bodies(n, Codes)
  BY StepIsCode DEF Bodies
<1>3. \A r \in Codes, k \in 1 .. n : Body[k][r] = CompareStep(incoming, r, inc, existing[k])
  OBVIOUS
<1> HIDE DEF Body, n
<1>4. PICK g : Follows(g, n, Codes, start, Body)
  BY <1>1, <1>2, LoopExists
<1>5. PICK f : /\ f \in [0 .. n -> Codes]
               /\ f[0] = start
               /\ \A k \in 1 .. n : f[k] = Body[k][f[k - 1]]
  BY <1>4 DEF Follows
<1>6. Is(f)
  <2>1. ASSUME NEW k \in 0 .. n, k # 0
        PROVE  f[k] = CompareStep(incoming, f[k - 1], inc, existing[k])
    <3>1. k \in 1 .. n /\ k - 1 \in 0 .. n
      BY <1>1, <2>1
    <3>2. f[k - 1] \in Codes
      BY <1>5, <3>1
    <3> QED
      BY <1>3, <1>5, <3>1, <3>2
  <2>2. \A k \in 0 .. n : f[k] = IF k = 0 THEN start
                                 ELSE CompareStep(incoming, f[k - 1], inc, existing[k])
    BY <1>5, <2>1
  <2>3. f = [k \in 0 .. n |-> f[k]]
    BY <1>5
  <2> QED
    BY <2>2, <2>3
<1> DEFINE res == CHOOSE h : Is(h)
<1>7. Is(res)
  BY <1>6
<1>8. InnerLoop(incoming, existing, start, inc) = res[n]
  BY DEF InnerLoop, n
<1> HIDE DEF res
<1>9. \A k \in 0 .. n : res[k] = IF k = 0 THEN start
                                 ELSE CompareStep(incoming, res[k - 1], inc, existing[k])
  BY <1>7
<1>10. \A k \in 0 .. n - 1 : res[k + 1] = CompareStep(incoming, res[k], inc, existing[k + 1])
  <2> TAKE k \in 0 .. n - 1
  <2>1. k + 1 \in 0 .. n /\ k + 1 # 0 /\ (k + 1) - 1 = k
    BY <1>1
  <2> QED
    BY <1>9, <2>1
<1>11. res[0] = start
  BY <1>1, <1>9
<1> QED
  BY <1>8, <1>10, <1>11 DEF n

LEMMA InnerIsCode ==
  ASSUME NEW incoming, NEW existing \in Seq(Pair), NEW start \in Codes, NEW inc
  PROVE  InnerLoop(incoming, existing, start, inc) \in Codes
<1> DEFINE n == Len(existing)
<1>1. PICK f : /\ f[0] = start
               /\ \A k \in 0 .. n - 1 : f[k + 1] = CompareStep(incoming, f[k], inc, existing[k + 1])
               /\ InnerLoop(incoming, existing, start, inc) = f[n]
  BY InnerPasses
<1> DEFINE Good == {k \in 0 .. n : f[k] \in Codes}
<1>2. n \in Nat /\ n \in 0 .. n
  OBVIOUS
<1> HIDE DEF n
<1>3. 0 \in Good
  BY <1>1, <1>2
<1>4. \A k \in 0 .. n - 1 : k \in Good => k + 1 \in Good
  BY <1>1, <1>2, StepIsCode
<1>5. Good \in SUBSET (0 .. n)
  OBVIOUS
<1> HIDE DEF Good
<1>6. n \in Good
  BY <1>2, <1>3, <1>4, <1>5, Passes
<1> QED
  BY <1>1, <1>6 DEF Good

\* If the incoming vector names all servers of the existing one, the inner loop
\* adds what its pair is smaller and larger than.
LEMMA InnerVerdict ==
  ASSUME NEW incoming, NEW existing \in Seq(Pair), Named(existing) \subseteq Named(incoming),
         NEW smaller \in BOOLEAN, NEW larger \in BOOLEAN, NEW inc \in Pair
  PROVE  InnerLoop(incoming, existing, Verdict(smaller, larger), inc) =
           Verdict(smaller \/ \E k \in DOMAIN existing : Smaller(inc, existing[k]),
                   larger \/ \E k \in DOMAIN existing : Larger(inc, existing[k]))
<1>0. Verdict(smaller, larger) \in Codes
  BY DEF Verdict, Codes
<1> SUFFICES ASSUME NEW start \in Codes, start = Verdict(smaller, larger)
             PROVE  InnerLoop(incoming, existing, start, inc) =
                      Verdict(smaller \/ \E k \in DOMAIN existing : Smaller(inc, existing[k]),
                              larger \/ \E k \in DOMAIN existing : Larger(inc, existing[k]))
  BY <1>0
<1> DEFINE n == Len(existing)
           S(k) == smaller \/ \E m \in 1 .. k : Smaller(inc, existing[m])
           L(k) == larger \/ \E m \in 1 .. k : Larger(inc, existing[m])
<1>1. PICK f : /\ f[0] = start
               /\ \A k \in 0 .. n - 1 : f[k + 1] = CompareStep(incoming, f[k], inc, existing[k + 1])
               /\ InnerLoop(incoming, existing, start, inc) = f[n]
  BY ONLY InnerPasses, existing \in Seq(Pair), start \in Codes
<1> DEFINE Good == {k \in 0 .. n : f[k] = Verdict(S(k), L(k))}
<1>2. n \in Nat /\ n \in 0 .. n /\ DOMAIN existing = 1 .. n
  OBVIOUS
<1>3. 0 \in Good
  <2>1. S(0) = smaller /\ L(0) = larger
    OBVIOUS
  <2>2. f[0] = Verdict(S(0), L(0))
    BY <1>1, <2>1
  <2> HIDE DEF S, L, n
  <2> QED
    BY <1>2, <2>2
<1>4. ASSUME NEW k \in 0 .. n - 1, k \in Good
      PROVE  k + 1 \in Good
  <2>1. k \in Nat /\ k + 1 \in 1 .. n /\ k + 1 \in 0 .. n
    BY <1>2
  <2>2. existing[k + 1] \in Pair /\ existing[k + 1].server \in Named(incoming)
    <3>1. k + 1 \in DOMAIN existing
      BY <1>2, <2>1
    <3>2. existing[k + 1] \in Pair
      BY <1>2, <2>1
    <3> QED
      BY <3>1, <3>2 DEF Named
  <2>3. \A m \in 1 .. k + 1 : m \in 1 .. k \/ m = k + 1
    BY <2>1
  <2>4. 1 .. k \subseteq 1 .. k + 1 /\ k + 1 \in 1 .. k + 1
    BY <2>1
  <2>5. /\ S(k + 1) = (S(k) \/ Smaller(inc, existing[k + 1]))
        /\ L(k + 1) = (L(k) \/ Larger(inc, existing[k + 1]))
    <3> HIDE DEF n, Good
    <3> QED
      BY <2>3, <2>4 DEF Smaller, Larger
  <2>6. S(k) \in BOOLEAN /\ L(k) \in BOOLEAN
    OBVIOUS
  <2>7. f[k] = Verdict(S(k), L(k))
    BY <1>4
  <2>8. f[k + 1] = CompareStep(incoming, f[k], inc, existing[k + 1])
    BY <1>1
  <2> HIDE DEF S, L
  <2>9. f[k + 1] = Verdict(S(k + 1), L(k + 1))
    BY <2>2, <2>5, <2>6, <2>7, <2>8, StepVerdict
  <2> QED
    BY <2>1, <2>9
<1>5. Good \in SUBSET (0 .. n)
  OBVIOUS
<1> HIDE DEF Good
<1>6. n \in Good
  BY <1>2, <1>3, <1>4, <1>5, Passes
<1>7. f[n] = Verdict(S(n), L(n))
  BY <1>6 DEF Good
<1> QED
  BY <1>1, <1>2, <1>7

\* A server that the incoming vector does not name ends the walk with 2.
LEMMA InnerUnlisted ==
  ASSUME NEW incoming, NEW existing \in Seq(Pair), ~(Named(existing) \subseteq Named(incoming)),
         NEW start \in Codes, NEW inc
  PROVE  InnerLoop(incoming, existing, start, inc) = 2
<1> DEFINE n == Len(existing)
<1>1. PICK f : /\ f[0] = start
               /\ \A k \in 0 .. n - 1 : f[k + 1] = CompareStep(incoming, f[k], inc, existing[k + 1])
               /\ InnerLoop(incoming, existing, start, inc) = f[n]
  BY InnerPasses
<1>2. n \in Nat /\ n \in 0 .. n /\ DOMAIN existing = 1 .. n
  OBVIOUS
<1>3. PICK m \in 1 .. n : existing[m].server \notin Named(incoming)
  BY <1>2 DEF Named
<1> HIDE DEF n
<1> DEFINE Good == {k \in 0 .. n : k >= m => f[k] = 2}
<1>4. 0 \in Good
  BY <1>2
<1>5. ASSUME NEW k \in 0 .. n - 1, k \in Good
      PROVE  k + 1 \in Good
  <2>1. k + 1 \in 0 .. n
    BY <1>2
  <2>2. k + 1 >= m => k >= m \/ k + 1 = m
    BY <1>2
  <2>3. f[k + 1] = CompareStep(incoming, f[k], inc, existing[k + 1])
    BY <1>1
  <2>4. k + 1 >= m => f[k + 1] = 2
    BY <1>3, <1>5, <2>2, <2>3 DEF CompareStep
  <2> QED
    BY <2>1, <2>4
<1>6. Good \in SUBSET (0 .. n)
  OBVIOUS
<1> HIDE DEF Good
<1>7. n \in Good
  BY <1>2, <1>4, <1>5, <1>6, Passes
<1> QED
  BY <1>1, <1>2, <1>7 DEF Good

\* The outer loop pass by pass.
LEMMA OuterPasses ==
  ASSUME NEW incoming \in Seq(Pair), NEW existing \in Seq(Pair)
  PROVE  \E f : /\ f[0] = 0
                /\ \A k \in 0 .. Len(incoming) - 1 :
                     f[k + 1] = InnerLoop(incoming, existing, f[k], incoming[k + 1])
                /\ \A k \in 0 .. Len(incoming) : f[k] \in Codes
                /\ OuterLoop(incoming, existing) = f[Len(incoming)]
<1> DEFINE n == Len(incoming)
           Body == [k \in 1 .. n |-> [r \in Codes |-> InnerLoop(incoming, existing, r, incoming[k])]]
           Is(f) == f = [k \in 0 .. n |-> IF k = 0 THEN 0
                                          ELSE InnerLoop(incoming, existing, f[k - 1], incoming[k])]
<1>1. n \in Nat /\ 0 \in Codes
  BY DEF Codes
<1>2. Body \in Bodies(n, Codes)
  BY InnerIsCode DEF Bodies
<1>3. \A r \in Codes, k \in 1 .. n : Body[k][r] = InnerLoop(incoming, existing, r, incoming[k])
  OBVIOUS
<1> HIDE DEF Body, n
<1>4. PICK g : Follows(g, n, Codes, 0, Body)
  BY <1>1, <1>2, LoopExists
<1>5. PICK f : /\ f \in [0 .. n -> Codes]
               /\ f[0] = 0
               /\ \A k \in 1 .. n : f[k] = Body[k][f[k - 1]]
  BY <1>4 DEF Follows
<1>6. Is(f)
  <2>1. ASSUME NEW k \in 0 .. n, k # 0
        PROVE  f[k] = InnerLoop(incoming, existing, f[k - 1], incoming[k])
    <3>1. k \in 1 .. n /\ k - 1 \in 0 .. n
      BY <1>1, <2>1
    <3>2. f[k - 1] \in Codes
      BY <1>5, <3>1
    <3> QED
      BY <1>3, <1>5, <3>1, <3>2
  <2>2. \A k \in 0 .. n : f[k] = IF k = 0 THEN 0
                                 ELSE InnerLoop(incoming, existing, f[k - 1], incoming[k])
    BY <1>5, <2>1
  <2>3. f = [k \in 0 .. n |-> f[k]]
    BY <1>5
  <2> QED
    BY <2>2, <2>3
<1> DEFINE res == CHOOSE h : Is(h)
<1>7. Is(res)
  BY <1>6
<1>8. OuterLoop(incoming, existing) = res[n]
  BY DEF OuterLoop, n
<1> HIDE DEF res
<1>9. \A k \in 0 .. n : res[k] = IF k = 0 THEN 0
                                 ELSE InnerLoop(incoming, existing, res[k - 1], incoming[k])
  BY <1>7
<1>10. \A k \in 0 .. n - 1 : res[k + 1] = InnerLoop(incoming, existing, res[k], incoming[k + 1])
  <2> TAKE k \in 0 .. n - 1
  <2>1. k + 1 \in 0 .. n /\ k + 1 # 0 /\ (k + 1) - 1 = k
    BY <1>1
  <2> QED
    BY <1>9, <2>1
<1>11. res[0] = 0
  BY <1>1, <1>9
<1>12. \A k \in 0 .. n : res[k] \in Codes
  <2> DEFINE Good == {k \in 0 .. n : res[k] \in Codes}
  <2>1. 0 \in Good
    BY <1>1, <1>11
  <2>2. \A k \in 0 .. n - 1 : k \in Good => k + 1 \in Good
    BY <1>1, <1>10, InnerIsCode
  <2>3. Good \in SUBSET (0 .. n)
    OBVIOUS
  <2> HIDE DEF Good
  <2>4. \A k \in 0 .. n : k \in Good
    BY <1>1, <2>1, <2>2, <2>3, Passes
  <2> QED
    BY <2>4 DEF Good
<1> QED
  BY <1>8, <1>10, <1>11, <1>12 DEF n

LEMMA OuterVerdict ==
  ASSUME NEW incoming \in Seq(Pair), NEW existing \in Seq(Pair),
         Named(existing) \subseteq Named(incoming)
  PROVE  OuterLoop(incoming, existing) =
           Verdict(\E i \in DOMAIN incoming, k \in DOMAIN existing : Smaller(incoming[i], existing[k]),
                   \E i \in DOMAIN incoming, k \in DOMAIN existing : Larger(incoming[i], existing[k]))
<1> DEFINE n == Len(incoming)
           SmallerTo(i) == \E k \in DOMAIN existing : Smaller(incoming[i], existing[k])
           LargerTo(i) == \E k \in DOMAIN existing : Larger(incoming[i], existing[k])
           S(j) == \E i \in 1 .. j : SmallerTo(i)
           L(j) == \E i \in 1 .. j : LargerTo(i)
<1>1. PICK f : /\ f[0] = 0
               /\ \A k \in 0 .. n - 1 :
                    f[k + 1] = InnerLoop(incoming, existing, f[k], incoming[k + 1])
               /\ OuterLoop(incoming, existing) = f[n]
  <2>1. PICK f : /\ f[0] = 0
                 /\ \A k \in 0 .. Len(incoming) - 1 :
                      f[k + 1] = InnerLoop(incoming, existing, f[k], incoming[k + 1])
                 /\ \A k \in 0 .. Len(incoming) : f[k] \in Codes
                 /\ OuterLoop(incoming, existing) = f[Len(incoming)]
    BY OuterPasses
  <2> QED
    BY <2>1
<1>2. n \in Nat /\ n \in 0 .. n /\ DOMAIN incoming = 1 .. n
  OBVIOUS
<1> DEFINE Good == {j \in 0 .. n : f[j] = Verdict(S(j), L(j))}
<1>3. 0 \in Good
  <2>1. S(0) = FALSE /\ L(0) = FALSE
    OBVIOUS
  <2>2. f[0] = Verdict(S(0), L(0))
    BY <1>1, <2>1 DEF Verdict
  <2> HIDE DEF S, L, n
  <2> QED
    BY <1>2, <2>2
<1>4. ASSUME NEW j \in 0 .. n - 1, j \in Good
      PROVE  j + 1 \in Good
  <2>1. j \in Nat /\ j + 1 \in 1 .. n /\ j + 1 \in 0 .. n
    BY <1>2
  <2>2. incoming[j + 1] \in Pair
    BY <1>2, <2>1
  <2>3. \A i \in 1 .. j + 1 : i \in 1 .. j \/ i = j + 1
    BY <2>1
  <2>4. 1 .. j \subseteq 1 .. j + 1 /\ j + 1 \in 1 .. j + 1
    BY <2>1
  <2>5. S(j + 1) = (S(j) \/ SmallerTo(j + 1)) /\ L(j + 1) = (L(j) \/ LargerTo(j + 1))
    <3> HIDE DEF n, Good, SmallerTo, LargerTo
    <3> QED
      BY <2>3, <2>4
  <2>6. S(j) \in BOOLEAN /\ L(j) \in BOOLEAN
    OBVIOUS
  <2>7. f[j] = Verdict(S(j), L(j))
    BY <1>4
  <2>8. f[j + 1] = InnerLoop(incoming, existing, f[j], incoming[j + 1])
    BY <1>1
  <2> HIDE DEF S, L
  <2>9. InnerLoop(incoming, existing, Verdict(S(j), L(j)), incoming[j + 1])
          = Verdict(S(j) \/ SmallerTo(j + 1), L(j) \/ LargerTo(j + 1))
    BY <2>2, <2>6, InnerVerdict
  <2> HIDE DEF SmallerTo, LargerTo
  <2>10. f[j + 1] = Verdict(S(j + 1), L(j + 1))
    BY <2>5, <2>7, <2>8, <2>9
  <2> QED
    BY <2>1, <2>10
<1>5. Good \in SUBSET (0 .. n)
  OBVIOUS
<1> HIDE DEF Good
<1>6. n \in Good
  BY <1>2, <1>3, <1>4, <1>5, Passes
<1>7. f[n] = Verdict(S(n), L(n))
  BY <1>6 DEF Good
<1>8. /\ S(n) = \E i \in DOMAIN incoming, k \in DOMAIN existing : Smaller(incoming[i], existing[k])
      /\ L(n) = \E i \in DOMAIN incoming, k \in DOMAIN existing : Larger(incoming[i], existing[k])
  BY <1>2
<1> HIDE DEF S, L
<1> QED
  BY <1>1, <1>7, <1>8

LEMMA OuterUnlisted ==
  ASSUME NEW incoming \in Seq(Pair), NEW existing \in Seq(Pair), incoming # <<>>,
         ~(Named(existing) \subseteq Named(incoming))
  PROVE  OuterLoop(incoming, existing) = 2
<1> DEFINE n == Len(incoming)
<1>1. PICK f : /\ f[0] = 0
               /\ \A k \in 0 .. n - 1 :
                    f[k + 1] = InnerLoop(incoming, existing, f[k], incoming[k + 1])
               /\ \A k \in 0 .. n : f[k] \in Codes
               /\ OuterLoop(incoming, existing) = f[n]
  BY OuterPasses
<1>2. n \in Nat /\ n # 0
  OBVIOUS
<1> HIDE DEF n
<1>3. n - 1 \in 0 .. n - 1 /\ n - 1 \in 0 .. n /\ (n - 1) + 1 = n
  BY <1>2
<1>4. f[n] = InnerLoop(incoming, existing, f[n - 1], incoming[n]) /\ f[n - 1] \in Codes
  BY <1>1, <1>3
<1> QED
  BY <1>1, <1>4, InnerUnlisted

-----------------------------------------------------------------------------
(* Vectors of pairs and versions *)

\* What PairVector says of a vector, without its bounds.
OneEach(pairs) ==
  /\ pairs \in Seq([server : Server, count : Nat])
  /\ \A i, j \in DOMAIN pairs : pairs[i].server = pairs[j].server => i = j

LEMMA AsVersionAt ==
  ASSUME NEW pairs, OneEach(pairs)
  PROVE  /\ \A i \in DOMAIN pairs : AsVersion(pairs)[pairs[i].server] = pairs[i].count
         /\ \A s \in Server : s \notin Named(pairs) => AsVersion(pairs)[s] = 0
         /\ Named(pairs) \subseteq Server
         /\ AsVersion(pairs) \in [Server -> Nat]
<1>1. \A i \in DOMAIN pairs : pairs[i].server \in Server /\ pairs[i].count \in Nat
  <2> TAKE i \in DOMAIN pairs
  <2> DEFINE R == [server : Server, count : Nat]
  <2>1. pairs \in Seq(R)
    BY DEF OneEach
  <2>2. pairs[i] \in R
    <3> HIDE DEF R
    <3> QED
      BY <2>1
  <2> QED
    BY <2>2
<1>2. ASSUME NEW i \in DOMAIN pairs
      PROVE  AsVersion(pairs)[pairs[i].server] = pairs[i].count
  <2> DEFINE j == CHOOSE j \in DOMAIN pairs : pairs[j].server = pairs[i].server
  <2>1. j \in DOMAIN pairs /\ pairs[j].server = pairs[i].server
    OBVIOUS
  <2>2. j = i
    BY <2>1 DEF OneEach
  <2>3. pairs[i].server \in Named(pairs)
    BY DEF Named
  <2>4. AsVersion(pairs)[pairs[i].server] = pairs[j].count
    BY <1>1, <2>3 DEF AsVersion
  <2> HIDE DEF j
  <2> QED
    BY <2>2, <2>4
<1>3. \A s \in Server : s \notin Named(pairs) => AsVersion(pairs)[s] = 0
  BY DEF AsVersion
<1>4. \A s \in Server : AsVersion(pairs)[s] \in Nat
  <2> TAKE s \in Server
  <2>1. CASE s \in Named(pairs)
    <3>1. PICK i \in DOMAIN pairs : s = pairs[i].server
      BY <2>1 DEF Named
    <3> QED
      BY <1>1, <1>2, <3>1
  <2>2. CASE s \notin Named(pairs)
    BY <1>3, <2>2
  <2> QED
    BY <2>1, <2>2
<1>5. AsVersion(pairs) = [s \in Server |-> AsVersion(pairs)[s]]
  BY DEF AsVersion
<1>6. AsVersion(pairs) \in [Server -> Nat]
  BY <1>4, <1>5
<1> QED
  BY <1>1, <1>2, <1>3, <1>6 DEF Named

LEMMA VectorIsVersion ==
  ASSUME NEW pairs \in PairVector
  PROVE  /\ pairs \in Seq(Pair) /\ OneEach(pairs)
         /\ AsVersion(pairs) \in Version
         /\ \A s \in Server : Lists(AsVersion(pairs), s) <=> s \in Named(pairs)
         /\ AsVersion(pairs) = NoVersion <=> pairs = <<>>
<1>1. pairs \in Seq(Pair)
  BY DEF PairVector, SeqOf
<1>2. \A i \in DOMAIN pairs : /\ pairs[i] \in Pair /\ pairs[i].server \in Server
                              /\ pairs[i].count \in 1 .. MaxVersion
  <2> TAKE i \in DOMAIN pairs
  <2>1. pairs[i] \in Pair
    BY <1>1
  <2> QED
    BY <2>1 DEF Pair
<1>3. OneEach(pairs)
  <2> DEFINE R == [server : Server, count : Nat]
  <2>1. Pair \subseteq R
    BY MaxVersionIsNat DEF Pair
  <2>2. pairs \in Seq(R)
    <3> HIDE DEF R
    <3>1. Len(pairs) \in Nat /\ pairs \in [1 .. Len(pairs) -> Pair]
      BY <1>1
    <3>2. pairs \in [1 .. Len(pairs) -> R]
      BY <2>1, <3>1
    <3> QED
      BY <3>1, <3>2
  <2> QED
    BY <2>2 DEF PairVector, OneEach
<1>4. \A s \in Server : s \in Named(pairs) => AsVersion(pairs)[s] \in 1 .. MaxVersion
  <2> SUFFICES ASSUME NEW s \in Server, s \in Named(pairs) PROVE AsVersion(pairs)[s] \in 1 .. MaxVersion
    OBVIOUS
  <2>1. PICK i \in DOMAIN pairs : s = pairs[i].server
    BY DEF Named
  <2> QED
    BY <1>2, <1>3, <2>1, AsVersionAt
<1>5. \A s \in Server : s \notin Named(pairs) => AsVersion(pairs)[s] = 0
  BY <1>3, AsVersionAt
<1>6. AsVersion(pairs) \in Version
  <2>1. \A s \in Server : AsVersion(pairs)[s] \in 0 .. MaxVersion
    <3> TAKE s \in Server
    <3>1. s \in Named(pairs) => AsVersion(pairs)[s] \in 1 .. MaxVersion
      BY <1>4
    <3>2. s \notin Named(pairs) => AsVersion(pairs)[s] = 0
      BY <1>5
    <3> QED
      BY <3>1, <3>2, MaxVersionIsNat
  <2>2. AsVersion(pairs) = [s \in Server |-> AsVersion(pairs)[s]]
    BY DEF AsVersion
  <2> QED
    BY <2>1, <2>2 DEF Version
<1>7. \A s \in Server : Lists(AsVersion(pairs), s) <=> s \in Named(pairs)
  <2> TAKE s \in Server
  <2>1. s \in Named(pairs) => AsVersion(pairs)[s] \in 1 .. MaxVersion
    BY <1>4
  <2>2. s \notin Named(pairs) => AsVersion(pairs)[s] = 0
    BY <1>5
  <2> QED
    BY <2>1, <2>2, MaxVersionIsNat DEF Lists
<1>8. AsVersion(pairs) = NoVersion <=> pairs = <<>>
  <2>1. ASSUME pairs = <<>>
        PROVE  AsVersion(pairs) = NoVersion
    <3>1. Named(pairs) = {}
      BY <2>1 DEF Named
    <3> QED
      BY <3>1 DEF AsVersion, NoVersion
  <2>2. ASSUME pairs # <<>>
        PROVE  AsVersion(pairs) # NoVersion
    <3>1. 1 \in DOMAIN pairs
      BY <1>1, <2>2
    <3>2. pairs[1].server \in Named(pairs) /\ pairs[1].server \in Server
      BY <1>2, <3>1 DEF Named
    <3> QED
      BY <1>7, <3>2 DEF NoVersion, Lists
  <2> QED
    BY <2>1, <2>2
<1> QED
  BY <1>1, <1>3, <1>6, <1>7, <1>8

LEMMA NamedAndListed ==
  ASSUME NEW a \in PairVector, NEW b \in PairVector
  PROVE  Unlisted(AsVersion(a), AsVersion(b)) <=> ~(Named(b) \subseteq Named(a))
<1>1. Named(a) \subseteq Server /\ Named(b) \subseteq Server
  BY VectorIsVersion, AsVersionAt
<1>2. \A s \in Server : /\ Lists(AsVersion(a), s) <=> s \in Named(a)
                        /\ Lists(AsVersion(b), s) <=> s \in Named(b)
  BY VectorIsVersion
<1> QED
  BY <1>1, <1>2 DEF Unlisted

\* Comparing the pairs that name the same server is comparing the counters.
LEMMA CountersCompared ==
  ASSUME NEW a \in PairVector, NEW b \in PairVector
  PROVE  /\ Behind(AsVersion(a), AsVersion(b)) <=>
              \E i \in DOMAIN a, k \in DOMAIN b : Smaller(a[i], b[k])
         /\ Ahead(AsVersion(a), AsVersion(b)) <=>
              \E i \in DOMAIN a, k \in DOMAIN b : Larger(a[i], b[k])
<1> DEFINE x == AsVersion(a)
           y == AsVersion(b)
<1>1. /\ \A i \in DOMAIN a : x[a[i].server] = a[i].count
      /\ \A k \in DOMAIN b : y[b[k].server] = b[k].count
      /\ Named(a) \subseteq Server /\ Named(b) \subseteq Server
  BY VectorIsVersion, AsVersionAt
<1>2. \A s \in Server : /\ Lists(x, s) <=> s \in Named(a)
                        /\ Lists(y, s) <=> s \in Named(b)
                        /\ x[s] \in Nat /\ y[s] \in Nat
  BY VectorIsVersion, AsVersionAt
<1> HIDE DEF x, y
<1>3. \A s : s \in Named(a) <=> \E i \in DOMAIN a : s = a[i].server
  BY DEF Named
<1>4. \A s : s \in Named(b) <=> \E k \in DOMAIN b : s = b[k].server
  BY DEF Named
<1>5. ASSUME NEW s \in Server, Lists(x, s), x[s] < y[s]
      PROVE  \E i \in DOMAIN a, k \in DOMAIN b : Smaller(a[i], b[k])
  <2>1. Lists(y, s)
    BY <1>2, <1>5 DEF Lists
  <2>2. PICK i \in DOMAIN a : s = a[i].server
    BY <1>2, <1>3, <1>5
  <2>3. PICK k \in DOMAIN b : s = b[k].server
    BY <1>2, <1>4, <2>1
  <2> QED
    BY <1>1, <1>5, <2>2, <2>3 DEF Smaller
<1>6. ASSUME NEW s \in Server, Lists(y, s), x[s] > y[s]
      PROVE  \E i \in DOMAIN a, k \in DOMAIN b : Larger(a[i], b[k])
  <2>1. Lists(x, s)
    BY <1>2, <1>6 DEF Lists
  <2>2. PICK i \in DOMAIN a : s = a[i].server
    BY <1>2, <1>3, <2>1
  <2>3. PICK k \in DOMAIN b : s = b[k].server
    BY <1>2, <1>4, <1>6
  <2> QED
    BY <1>1, <1>6, <2>2, <2>3 DEF Larger
<1>7. ASSUME NEW i \in DOMAIN a, NEW k \in DOMAIN b, a[i].server = b[k].server
      PROVE  /\ a[i].server \in Server
             /\ Lists(x, a[i].server) /\ Lists(y, a[i].server)
             /\ x[a[i].server] = a[i].count /\ y[a[i].server] = b[k].count
  <2>1. a[i].server \in Named(a) /\ a[i].server \in Named(b)
    BY <1>3, <1>4, <1>7
  <2> QED
    BY <1>1, <1>2, <1>7, <2>1
<1>8. Behind(x, y) <=> \E i \in DOMAIN a, k \in DOMAIN b : Smaller(a[i], b[k])
  BY <1>5, <1>7 DEF Behind, Smaller
<1>9. Ahead(x, y) <=> \E i \in DOMAIN a, k \in DOMAIN b : Larger(a[i], b[k])
  BY <1>6, <1>7 DEF Ahead, Larger
<1> QED
  BY <1>8, <1>9 DEF x, y

\* The loops of check_conflict_version give the verdict of the operator.
LEMMA ConflictLoopAgrees ==
  ASSUME NEW a \in PairVector, NEW b \in PairVector
  PROVE  ScanConflict(a, b) = check_conflict_version(AsVersion(a), AsVersion(b))
<1> DEFINE x == AsVersion(a)
           y == AsVersion(b)
           walked == OuterLoop(a, b)
<1>1. /\ a \in Seq(Pair) /\ b \in Seq(Pair)
      /\ x = NoVersion <=> a = <<>>
      /\ y = NoVersion <=> b = <<>>
  BY VectorIsVersion
<1>2. /\ Unlisted(x, y) <=> ~(Named(b) \subseteq Named(a))
      /\ Extra(x, y) <=> ~(Named(a) \subseteq Named(b))
  BY NamedAndListed DEF Extra
<1>3. Unlisted(x, y) /\ a # <<>> => walked = 2
  BY <1>1, <1>2, OuterUnlisted
<1>4. ~Unlisted(x, y) => walked = IF Behind(x, y) /\ Ahead(x, y) THEN 2
                                  ELSE IF Behind(x, y) THEN -1
                                  ELSE IF Ahead(x, y) THEN 1 ELSE 0
  <2> DEFINE S == \E i \in DOMAIN a, k \in DOMAIN b : Smaller(a[i], b[k])
             L == \E i \in DOMAIN a, k \in DOMAIN b : Larger(a[i], b[k])
  <2>1. Named(b) \subseteq Named(a) => walked = Verdict(S, L)
    BY <1>1, OuterVerdict
  <2>2. (Behind(x, y) <=> S) /\ (Ahead(x, y) <=> L)
    BY CountersCompared
  <2> HIDE DEF S, L, x, y, walked
  <2> QED
    BY <1>2, <2>1, <2>2 DEF Verdict
<1>5. ScanConflict(a, b) =
        IF b = <<>> THEN 1
        ELSE IF a = <<>> THEN -1
        ELSE IF walked = 0 /\ Extra(x, y) THEN 1
        ELSE walked
  BY <1>2 DEF ScanConflict
<1> HIDE DEF x, y, walked
<1>6. CASE a = <<>> \/ b = <<>>
  BY <1>1, <1>5, <1>6 DEF check_conflict_version, x, y
<1>7. CASE a # <<>> /\ b # <<>>
  <2>1. CASE Unlisted(x, y)
    BY <1>1, <1>3, <1>5, <1>7, <2>1 DEF check_conflict_version, x, y
  <2>2. CASE ~Unlisted(x, y)
    <3>1. ScanConflict(a, b) =
            IF Behind(x, y) /\ Ahead(x, y) THEN 2
            ELSE IF Behind(x, y) THEN -1
            ELSE IF Ahead(x, y) \/ Extra(x, y) THEN 1
            ELSE 0
      <4>1. CASE Behind(x, y) /\ Ahead(x, y)
        BY <1>4, <1>5, <1>7, <2>2, <4>1
      <4>2. CASE Behind(x, y) /\ ~Ahead(x, y)
        BY <1>4, <1>5, <1>7, <2>2, <4>2
      <4>3. CASE ~Behind(x, y) /\ Ahead(x, y)
        BY <1>4, <1>5, <1>7, <2>2, <4>3
      <4>4. CASE ~Behind(x, y) /\ ~Ahead(x, y)
        BY <1>4, <1>5, <1>7, <2>2, <4>4
      <4> QED
        BY <4>1, <4>2, <4>3, <4>4
    <3> QED
      BY <1>1, <1>7, <2>2, <3>1 DEF check_conflict_version, x, y
  <2> QED
    BY <2>1, <2>2
<1> QED
  BY <1>6, <1>7

\* The loop of update_version bumps the version.
LEMMA UpdateLoopAgrees ==
  ASSUME NEW a \in PairVector, NEW s \in Server
  PROVE  AsVersion(ScanUpdate(a, s)) = update_version(AsVersion(a), s)
<1> DEFINE u == ScanUpdate(a, s)
           R == [server : Server, count : Nat]
<1>0. /\ OneEach(a) /\ a \in Seq(R) /\ Len(a) \in Nat /\ DOMAIN a = 1 .. Len(a)
      /\ \A i \in DOMAIN a : a[i] \in R
  <2>1. OneEach(a)
    BY VectorIsVersion
  <2>2. a \in Seq(R)
    BY <2>1 DEF OneEach
  <2> HIDE DEF R
  <2> QED
    BY <2>1, <2>2
<1>1. /\ \A i \in DOMAIN a : AsVersion(a)[a[i].server] = a[i].count
      /\ \A t \in Server : t \notin Named(a) => AsVersion(a)[t] = 0
      /\ AsVersion(a) \in [Server -> Nat]
  BY <1>0, AsVersionAt
<1>2. CASE s \in Named(a)
  <2>1. /\ u = [i \in DOMAIN a |-> IF a[i].server = s THEN [a[i] EXCEPT !.count = @ + 1] ELSE a[i]]
        /\ DOMAIN u = DOMAIN a
    BY <1>2 DEF ScanUpdate
  <2>2. \A i \in DOMAIN a : /\ u[i] \in R /\ u[i].server = a[i].server
                            /\ u[i].count = IF a[i].server = s THEN a[i].count + 1 ELSE a[i].count
    BY <1>0, <2>1
  <2>3. u \in Seq(R)
    <3> HIDE DEF R, u
    <3>1. u = [i \in 1 .. Len(a) |-> u[i]]
      BY <1>0, <2>1
    <3>2. u \in [1 .. Len(a) -> R]
      BY <1>0, <2>2, <3>1
    <3> QED
      BY <1>0, <3>2
  <2> HIDE DEF u
  <2>4. OneEach(u)
    BY <1>0, <2>1, <2>2, <2>3 DEF OneEach
  <2>5. Named(u) = Named(a)
    BY <2>1, <2>2 DEF Named
  <2>6. /\ \A i \in DOMAIN a : AsVersion(u)[a[i].server] = u[i].count
        /\ \A t \in Server : t \notin Named(a) => AsVersion(u)[t] = 0
    BY <2>1, <2>2, <2>4, <2>5, AsVersionAt
  <2>7. ASSUME NEW t \in Server
        PROVE  AsVersion(u)[t] = IF t = s THEN AsVersion(a)[t] + 1 ELSE AsVersion(a)[t]
    <3>1. CASE t \in Named(a)
      <4>1. PICK i \in DOMAIN a : t = a[i].server
        BY <3>1 DEF Named
      <4> QED
        BY <1>1, <2>2, <2>6, <4>1
    <3>2. CASE t \notin Named(a)
      BY <1>1, <1>2, <2>6, <3>2
    <3> QED
      BY <3>1, <3>2
  <2>8. AsVersion(u) = [t \in Server |-> AsVersion(u)[t]]
    BY DEF AsVersion
  <2> QED
    BY <1>1, <2>7, <2>8 DEF update_version, u
<1>3. CASE s \notin Named(a)
  <2> DEFINE new == [server |-> s, count |-> 1]
  <2>1. u = Append(a, new) /\ new \in R
    BY <1>3 DEF ScanUpdate
  <2>2. /\ u \in Seq(R) /\ DOMAIN u = 1 .. Len(a) + 1
        /\ \A i \in 1 .. Len(a) : u[i] = a[i]
        /\ u[Len(a) + 1] = new
    <3> HIDE DEF R, u, new
    <3> QED
      BY <1>0, <2>1
  <2> HIDE DEF u
  <2>3. \A i \in DOMAIN u : i \in DOMAIN a \/ i = Len(a) + 1
    BY <1>0, <2>2
  <2>4. \A i \in DOMAIN a : a[i].server # s
    BY <1>3 DEF Named
  <2>5. OneEach(u)
    <3>1. \A i, j \in DOMAIN u : u[i].server = u[j].server => i = j
      BY <1>0, <2>2, <2>3, <2>4 DEF OneEach
    <3> QED
      BY <2>2, <3>1 DEF OneEach
  <2>6. DOMAIN a \subseteq DOMAIN u /\ Len(a) + 1 \in DOMAIN u
    BY <1>0, <2>2
  <2>7. \A i \in DOMAIN u : AsVersion(u)[u[i].server] = u[i].count
    BY <2>5, AsVersionAt
  <2>8. Named(u) = Named(a) \union {s}
    <3>1. \A i \in DOMAIN a : u[i] = a[i]
      BY <1>0, <2>2
    <3>2. u[Len(a) + 1].server = s
      BY <2>2
    <3> QED
      BY <2>3, <2>6, <3>1, <3>2 DEF Named
  <2>9. \A t \in Server : t \notin Named(u) => AsVersion(u)[t] = 0
    BY <2>5, AsVersionAt
  <2>10. ASSUME NEW t \in Server
         PROVE  AsVersion(u)[t] = IF t = s THEN AsVersion(a)[t] + 1 ELSE AsVersion(a)[t]
    <3>1. CASE t = s
      <4>1. AsVersion(u)[u[Len(a) + 1].server] = u[Len(a) + 1].count
        BY <2>6, <2>7
      <4>2. AsVersion(u)[s] = 1 /\ AsVersion(a)[s] = 0
        BY <1>1, <1>3, <2>2, <4>1
      <4> QED
        BY <3>1, <4>2
    <3>2. CASE t \in Named(a)
      <4>1. PICK i \in DOMAIN a : t = a[i].server
        BY <3>2 DEF Named
      <4>2. u[i] = a[i]
        BY <1>0, <2>2, <4>1
      <4> QED
        BY <1>1, <2>4, <2>6, <2>7, <4>1, <4>2
    <3>3. CASE t # s /\ t \notin Named(a)
      BY <1>1, <2>8, <2>9, <3>3
    <3> QED
      BY <3>1, <3>2, <3>3
  <2>11. AsVersion(u) = [t \in Server |-> AsVersion(u)[t]]
    BY DEF AsVersion
  <2> QED
    BY <1>1, <2>10, <2>11 DEF update_version, u
<1> QED
  BY <1>2, <1>3

-----------------------------------------------------------------------------
(* The two filters of get_latest_data *)

LEMMA ToSetAppend ==
  ASSUME NEW T, NEW s \in Seq(T), NEW x \in T
  PROVE  /\ Append(s, x) \in Seq(T)
         /\ ToSet(Append(s, x)) = ToSet(s) \union {x}
<1> DEFINE a == Append(s, x)
<1>1. /\ a \in Seq(T) /\ DOMAIN a = 1 .. Len(s) + 1 /\ DOMAIN s = 1 .. Len(s) /\ Len(s) \in Nat
      /\ \A i \in 1 .. Len(s) : a[i] = s[i]
      /\ a[Len(s) + 1] = x
  OBVIOUS
<1> HIDE DEF a
<1>2. \A i \in DOMAIN a : i \in DOMAIN s \/ i = Len(s) + 1
  BY <1>1
<1>3. DOMAIN s \subseteq DOMAIN a /\ Len(s) + 1 \in DOMAIN a
  BY <1>1
<1>4. \A i \in DOMAIN s : a[i] = s[i]
  BY <1>1
<1>5. ToSet(a) = ToSet(s) \union {x}
  BY <1>1, <1>2, <1>3, <1>4 DEF ToSet
<1> QED
  BY <1>1, <1>5 DEF a

\* Which entries the two loops skip.
Skips(mode, list, kept, k) ==
  IF mode = "duplicate" THEN Contains(kept, list[k]) ELSE IsOld(list, k)

\* One pass of either loop.
Keep(mode, list, kept, k) ==
  IF Skips(mode, list, kept, k) THEN kept ELSE Append(kept, list[k])

\* What a pass makes of the entries kept before it.
KeepsOrAdds(mode, T, list, s, k) ==
  /\ Keep(mode, list, s, k) \in Seq(T)
  /\ ToSet(Keep(mode, list, s, k)) =
       ToSet(s) \union (IF Skips(mode, list, s, k) THEN {} ELSE {list[k]})

LEMMA KeepResult ==
  ASSUME NEW mode, NEW T, NEW list \in Seq(T), NEW s \in Seq(T), NEW k \in DOMAIN list
  PROVE  KeepsOrAdds(mode, T, list, s, k)
<1>1. list[k] \in T
  OBVIOUS
<1>2. CASE Skips(mode, list, s, k)
  BY <1>2 DEF Keep, KeepsOrAdds
<1>3. CASE ~Skips(mode, list, s, k)
  <2> DEFINE x == list[k]
  <2>1. Keep(mode, list, s, k) = Append(s, x)
    BY <1>3 DEF Keep
  <2>2. x \in T
    BY <1>1
  <2> HIDE DEF x, KeepsOrAdds
  <2>3. Append(s, x) \in Seq(T) /\ ToSet(Append(s, x)) = ToSet(s) \union {x}
    BY <2>2, ToSetAppend
  <2> QED
    BY <1>3, <2>1, <2>3 DEF x, KeepsOrAdds
<1> QED
  BY <1>2, <1>3

\* f records what either loop has kept after each pass.
Keeps(f, mode, list) ==
  f = [k \in 0 .. Len(list) |-> IF k = 0 THEN <<>> ELSE Keep(mode, list, f[k - 1], k)]

LEMMA FilterExists ==
  ASSUME NEW mode, NEW T, NEW list \in Seq(T)
  PROVE  \E f : Keeps(f, mode, list)
<1> DEFINE n == Len(list)
           Body == [k \in 1 .. n |-> [s \in Seq(T) |-> Keep(mode, list, s, k)]]
<1>1. n \in Nat /\ <<>> \in Seq(T) /\ DOMAIN list = 1 .. n
  OBVIOUS
<1>2. \A k \in 1 .. n, s \in Seq(T) : Keep(mode, list, s, k) \in Seq(T)
  BY <1>1, KeepResult DEF KeepsOrAdds
<1>3. Body \in Bodies(n, Seq(T))
  BY <1>2 DEF Bodies
<1>4. \A s \in Seq(T), k \in 1 .. n : Body[k][s] = Keep(mode, list, s, k)
  OBVIOUS
<1> HIDE DEF Body, n
<1>5. PICK g : Follows(g, n, Seq(T), <<>>, Body)
  BY <1>1, <1>3, LoopExists
<1>6. PICK f : /\ f \in [0 .. n -> Seq(T)]
               /\ f[0] = <<>>
               /\ \A k \in 1 .. n : f[k] = Body[k][f[k - 1]]
  BY <1>5 DEF Follows
<1>7. ASSUME NEW k \in 0 .. n, k # 0
      PROVE  f[k] = Keep(mode, list, f[k - 1], k)
  <2>1. k \in 1 .. n /\ k - 1 \in 0 .. n
    BY <1>1, <1>7
  <2>2. f[k - 1] \in Seq(T)
    BY <1>6, <2>1
  <2> QED
    BY <1>4, <1>6, <2>1, <2>2
<1>8. \A k \in 0 .. n : f[k] = IF k = 0 THEN <<>> ELSE Keep(mode, list, f[k - 1], k)
  BY <1>6, <1>7
<1>9. f = [k \in 0 .. n |-> f[k]]
  BY <1>6
<1>10. f = [k \in 0 .. n |-> IF k = 0 THEN <<>> ELSE Keep(mode, list, f[k - 1], k)]
  BY <1>8, <1>9
<1>11. Keeps(f, mode, list)
  BY <1>10 DEF n, Keeps
<1> QED
  BY <1>11

LEMMA FilterPasses ==
  ASSUME NEW mode, NEW T, NEW list \in Seq(T), NEW f, Keeps(f, mode, list)
  PROVE  /\ f[0] = <<>>
         /\ \A k \in 0 .. Len(list) - 1 : /\ f[k + 1] = Keep(mode, list, f[k], k + 1)
                                          /\ k + 1 \in DOMAIN list
<1>1. Len(list) \in Nat /\ DOMAIN list = 1 .. Len(list)
  OBVIOUS
<1>2. \A k \in 0 .. Len(list) : f[k] = IF k = 0 THEN <<>> ELSE Keep(mode, list, f[k - 1], k)
  BY DEF Keeps
<1>3. f[0] = <<>>
  BY <1>1, <1>2
<1>4. ASSUME NEW k \in 0 .. Len(list) - 1
      PROVE  f[k + 1] = Keep(mode, list, f[k], k + 1) /\ k + 1 \in 1 .. Len(list)
  <2>1. k + 1 \in 0 .. Len(list) /\ k + 1 # 0 /\ (k + 1) - 1 = k /\ k + 1 \in 1 .. Len(list)
    BY <1>1
  <2> QED
    BY <1>2, <2>1
<1> QED
  BY <1>1, <1>3, <1>4

\* A loop selects the entries at the indexes W: it keeps no other entry, and
\* it skips one of these only when it is in the result already.
Selects(mode, T, list, W) ==
  \A s \in Seq(T), k \in DOMAIN list :
     IF Skips(mode, list, s, k) THEN k \in W => list[k] \in ToSet(s) ELSE k \in W

\* The entries at these indexes.
At(list, W) == {list[i] : i \in W}

\* What is known of the entries kept so far, once for both loops.
LEMMA FilterLoop ==
  ASSUME NEW mode, NEW T, NEW list \in Seq(T), NEW f, Keeps(f, mode, list),
         NEW W \in SUBSET (DOMAIN list), Selects(mode, T, list, W)
  PROVE  /\ f[Len(list)] \in Seq(T)
         /\ ToSet(f[Len(list)]) = At(list, W)
<1>0. \A z \in Seq(T), j \in DOMAIN list : KeepsOrAdds(mode, T, list, z, j)
  BY KeepResult
<1> DEFINE n == Len(list)
           Seen(k) == {i \in W : i <= k}
<1>1. /\ f[0] = <<>>
      /\ \A k \in 0 .. n - 1 : f[k + 1] = Keep(mode, list, f[k], k + 1) /\ k + 1 \in DOMAIN list
  BY FilterPasses
<1>2. n \in Nat /\ n \in 0 .. n /\ DOMAIN list = 1 .. n
  OBVIOUS
<1> DEFINE Good == {k \in 0 .. n : f[k] \in Seq(T) /\ ToSet(f[k]) = {list[i] : i \in Seen(k)}}
<1> HIDE DEF n
<1>3. 0 \in Good
  <2>1. <<>> \in Seq(T) /\ ToSet(<<>>) = {}
    BY DEF ToSet
  <2>2. Seen(0) = {}
    BY <1>2
  <2>3. 0 \in 0 .. n
    BY <1>2
  <2> HIDE DEF Seen
  <2>4. {list[i] : i \in Seen(0)} = {}
    BY <2>2
  <2>5. f[0] \in Seq(T) /\ ToSet(f[0]) = {list[i] : i \in Seen(0)}
    BY <1>1, <2>1, <2>4
  <2> QED
    BY <2>3, <2>5
<1>4. ASSUME NEW k \in 0 .. n - 1, k \in Good
      PROVE  k + 1 \in Good
  <2> DEFINE s == f[k]
             x == list[k + 1]
  <2>1. k \in Nat /\ k + 1 \in 0 .. n /\ k + 1 \in DOMAIN list
    BY <1>1, <1>2
  <2>2. s \in Seq(T) /\ ToSet(s) = {list[i] : i \in Seen(k)}
    BY <1>4
  <2>3. f[k + 1] = Keep(mode, list, s, k + 1)
    BY <1>1
  <2>4. Seen(k + 1) = Seen(k) \union (IF k + 1 \in W THEN {k + 1} ELSE {})
    BY <1>2, <2>1
  <2> HIDE DEF s, Seen
  <2>5. {list[i] : i \in Seen(k + 1)} =
          {list[i] : i \in Seen(k)} \union (IF k + 1 \in W THEN {x} ELSE {})
    BY <2>4
  <2>6. /\ Keep(mode, list, s, k + 1) \in Seq(T)
        /\ ToSet(Keep(mode, list, s, k + 1)) =
             ToSet(s) \union (IF Skips(mode, list, s, k + 1) THEN {} ELSE {x})
    <3>1. KeepsOrAdds(mode, T, list, s, k + 1)
      BY <1>0, <2>1, <2>2
    <3> QED
      BY <3>1 DEF KeepsOrAdds, x
  <2>7. IF Skips(mode, list, s, k + 1) THEN k + 1 \in W => x \in ToSet(s) ELSE k + 1 \in W
    BY <2>1, <2>2 DEF Selects
  <2> HIDE DEF x
  <2>8. f[k + 1] \in Seq(T) /\ ToSet(f[k + 1]) = {list[i] : i \in Seen(k + 1)}
    BY <2>2, <2>3, <2>5, <2>6, <2>7
  <2> QED
    BY <2>1, <2>8
<1>5. Good \in SUBSET (0 .. n)
  OBVIOUS
<1> HIDE DEF Good
<1>6. n \in Good
  BY <1>2, <1>3, <1>4, <1>5, Passes
<1>7. Seen(n) = W
  BY <1>2
<1> QED
  BY <1>6, <1>7 DEF Good, n, At

\* Removing duplicates removes no entry altogether.
LEMMA DuplicatesLoop ==
  ASSUME NEW T, NEW list \in Seq(T)
  PROVE  ScanDuplicates(list) \in Seq(T) /\ ToSet(ScanDuplicates(list)) = ToSet(list)
<1> DEFINE unique == CHOOSE f : Keeps(f, "duplicate", list)
<1>1. ScanDuplicates(list) = unique[Len(list)]
  BY DEF ScanDuplicates, Keeps, Keep, Skips
<1>2. Keeps(unique, "duplicate", list)
  <2>1. \E f : Keeps(f, "duplicate", list)
    BY FilterExists
  <2> QED
    BY <2>1
<1> HIDE DEF unique
<1> DEFINE W == DOMAIN list
<1>3. Selects("duplicate", T, list, W)
  BY DEF Selects, Skips, Contains, ToSet
<1>4. W \in SUBSET (DOMAIN list)
  OBVIOUS
<1> HIDE DEF W
<1>5. /\ unique[Len(list)] \in Seq(T)
      /\ ToSet(unique[Len(list)]) = At(list, W)
  BY <1>2, <1>3, <1>4, FilterLoop
<1> QED
  BY <1>1, <1>5 DEF ToSet, W, At

\* The other loop keeps the entries that are not old.
LEMMA UnconflictLoop ==
  ASSUME NEW T, NEW list \in Seq(T)
  PROVE  /\ ScanUnconflict(list) \in Seq(T)
         /\ ToSet(ScanUnconflict(list)) = {list[i] : i \in {j \in DOMAIN list : ~IsOld(list, j)}}
<1> DEFINE kept == CHOOSE f : Keeps(f, "old", list)
           W == {j \in DOMAIN list : ~IsOld(list, j)}
<1>1. ScanUnconflict(list) = kept[Len(list)]
  BY DEF ScanUnconflict, Keeps, Keep, Skips
<1>2. Keeps(kept, "old", list)
  <2>1. \E f : Keeps(f, "old", list)
    BY FilterExists
  <2> QED
    BY <2>1
<1> HIDE DEF kept
<1>3. Selects("old", T, list, W)
  BY DEF Selects, Skips
<1>5. W \in SUBSET (DOMAIN list)
  OBVIOUS
<1> HIDE DEF W
<1>6. kept[Len(list)] \in Seq(T) /\ ToSet(kept[Len(list)]) = At(list, W)
  BY <1>2, <1>3, <1>5, FilterLoop
<1> QED
  BY <1>1, <1>6 DEF W, At

-----------------------------------------------------------------------------
(* The filter of the code and the one of VersionVector *)

Entry == [value : Value, pairs : PairVector]

LEMMA EntryRecord ==
  ASSUME NEW r \in Entry
  PROVE  AsRecord(r).version = AsVersion(r.pairs) /\ AsVersion(r.pairs) \in Version
  BY VectorIsVersion DEF AsRecord, Entry

LEMMA RecordsOfList ==
  ASSUME NEW list
  PROVE  AsRecords(list) = {AsRecord(r) : r \in ToSet(list)}
  BY DEF AsRecords, ToSet

LEMMA Verdicts ==
  ASSUME NEW a, NEW b
  PROVE  /\ check_conflict_version(a, b) \in Codes
         /\ check_conflict_version(a, b) < 0 <=> check_conflict_version(a, b) = -1
<1>1. check_conflict_version(a, b) \in Codes
  BY DEF check_conflict_version, Codes
<1> QED
  BY <1>1 DEF Codes

\* An entry is old when another record is later: entries with the same record
\* never make each other old.
LEMMA OldIffEarlier ==
  ASSUME NEW list \in Seq(Entry), NEW i \in DOMAIN list
  PROVE  IsOld(list, i) <=>
           \E q \in AsRecords(list) \ {AsRecord(list[i])} :
              check_conflict_version(AsRecord(list[i]).version, q.version) < 0
<1>1. \A j \in DOMAIN list : list[j] \in Entry
  OBVIOUS
<1>2. \A j \in DOMAIN list : list[j].pairs \in PairVector
  BY <1>1 DEF Entry
<1>3. \A j \in DOMAIN list :
        ScanConflict(list[i].pairs, list[j].pairs) =
          check_conflict_version(AsRecord(list[i]).version, AsRecord(list[j]).version)
  BY <1>1, <1>2, ConflictLoopAgrees, EntryRecord
<1>4. ASSUME IsOld(list, i)
      PROVE  \E q \in AsRecords(list) \ {AsRecord(list[i])} :
                check_conflict_version(AsRecord(list[i]).version, q.version) < 0
  <2>1. PICK j \in DOMAIN list \ {i} : ScanConflict(list[i].pairs, list[j].pairs) < 0
    BY <1>4 DEF IsOld
  <2>2. check_conflict_version(AsRecord(list[i]).version, AsRecord(list[j]).version) < 0
    BY <1>3, <2>1
  <2>3. AsRecord(list[j]) # AsRecord(list[i])
    <3>1. AsRecord(list[i]).version \in Version
      BY <1>1, EntryRecord
    <3>2. check_conflict_version(AsRecord(list[i]).version, AsRecord(list[i]).version) # -1
      BY <3>1, NotEarlierThanItself
    <3> QED
      BY <2>2, <3>2, Verdicts
  <2>4. AsRecord(list[j]) \in AsRecords(list)
    BY <2>1 DEF AsRecords
  <2> QED
    BY <2>2, <2>3, <2>4
<1>5. ASSUME NEW q \in AsRecords(list) \ {AsRecord(list[i])},
             check_conflict_version(AsRecord(list[i]).version, q.version) < 0
      PROVE  IsOld(list, i)
  <2>1. PICK j \in DOMAIN list : q = AsRecord(list[j])
    BY <1>5 DEF AsRecords
  <2>2. j # i
    BY <1>5, <2>1
  <2>3. ScanConflict(list[i].pairs, list[j].pairs) < 0
    BY <1>3, <1>5, <2>1
  <2> QED
    BY <2>2, <2>3 DEF IsOld
<1> QED
  BY <1>4, <1>5

\* get_latest_data on lists, entry by entry, is get_latest_data on the set of
\* the records in the list.
LEMMA LatestLoopsAgree ==
  ASSUME NEW list \in Seq(Entry)
  PROVE  /\ ScanLatest(list) \in Seq(Entry)
         /\ AsRecords(ScanLatest(list)) = get_latest_data(AsRecords(list))
<1> DEFINE d == ScanDuplicates(list)
           u == ScanUnconflict(d)
<1>1. d \in Seq(Entry) /\ ToSet(d) = ToSet(list)
  BY DuplicatesLoop
<1>2. AsRecords(d) = AsRecords(list)
  BY <1>1, RecordsOfList
<1> HIDE DEF d
<1>3. /\ u \in Seq(Entry)
      /\ ToSet(u) = {d[i] : i \in {j \in DOMAIN d : ~IsOld(d, j)}}
  BY <1>1, UnconflictLoop
<1>4. AsRecords(u) = {AsRecord(r) : r \in ToSet(u)}
  BY RecordsOfList
<1> HIDE DEF u
<1>5. ASSUME NEW r \in AsRecords(u)
      PROVE  r \in get_latest_data(AsRecords(d))
  <2>1. PICK e \in ToSet(u) : r = AsRecord(e)
    BY <1>4, <1>5
  <2>2. PICK i \in DOMAIN d : ~IsOld(d, i) /\ e = d[i]
    BY <1>3, <2>1
  <2>3. r \in AsRecords(d)
    BY <2>1, <2>2 DEF AsRecords
  <2>4. ~ \E q \in AsRecords(d) \ {r} : check_conflict_version(r.version, q.version) < 0
    BY <1>1, <2>1, <2>2, OldIffEarlier
  <2> QED
    BY <2>3, <2>4 DEF get_latest_data, remove_unconflict_data
<1>6. ASSUME NEW r \in get_latest_data(AsRecords(d))
      PROVE  r \in AsRecords(u)
  <2>1. /\ r \in AsRecords(d)
        /\ ~ \E q \in AsRecords(d) \ {r} : check_conflict_version(r.version, q.version) < 0
    BY <1>6 DEF get_latest_data, remove_unconflict_data
  <2>2. PICK i \in DOMAIN d : r = AsRecord(d[i])
    BY <2>1 DEF AsRecords
  <2>3. ~IsOld(d, i)
    BY <1>1, <2>1, <2>2, OldIffEarlier
  <2>4. d[i] \in ToSet(u)
    BY <1>3, <2>3
  <2> QED
    BY <1>4, <2>2, <2>4
<1>7. AsRecords(u) = get_latest_data(AsRecords(list))
  BY <1>2, <1>5, <1>6
<1> QED
  BY <1>3, <1>7 DEF ScanLatest, u, d

LEMMA RecordsAreFinite ==
  ASSUME NEW list \in Seq(Entry)
  PROVE  /\ IsFiniteSet(AsRecords(list))
         /\ \A r \in AsRecords(list) : r.version \in Version
         /\ list # <<>> <=> AsRecords(list) # {}
<1>1. DOMAIN list = 1 .. Len(list) /\ Len(list) \in Nat /\ \A i \in DOMAIN list : list[i] \in Entry
  OBVIOUS
<1>2. IsFiniteSet(DOMAIN list)
  BY <1>1, FS_Interval
<1> DEFINE f == [i \in DOMAIN list |-> AsRecord(list[i])]
<1>3. f \in Surjection(DOMAIN list, AsRecords(list))
  BY DEF Surjection, AsRecords
<1>4. IsFiniteSet(AsRecords(list))
  BY <1>2, <1>3, FS_Surjection
<1>5. \A r \in AsRecords(list) : r.version \in Version
  BY <1>1, EntryRecord DEF AsRecords
<1>6. list # <<>> <=> DOMAIN list # {}
  <2>1. list = <<>> => DOMAIN list = {}
    OBVIOUS
  <2>2. DOMAIN list = {} => Len(list) = 0
    BY <1>1
  <2>3. Len(list) = 0 => list = <<>>
    OBVIOUS
  <2> QED
    BY <2>1, <2>2, <2>3
<1>7. DOMAIN list # {} <=> AsRecords(list) # {}
  BY DEF AsRecords
<1> QED
  BY <1>4, <1>5, <1>6, <1>7

\* A version bumped from above another one is newer, also past the bound.
LEMMA BumpIsNewer ==
  ASSUME NEW v \in Version, NEW w \in Version, NEW s \in Server, NotAbove(w, v)
  PROVE  check_conflict_version(update_version(v, s), w) = 1
<1> DEFINE u == update_version(v, s)
<1>1. \A t \in Server : /\ v[t] \in Int /\ w[t] \in Int /\ 0 <= w[t] /\ w[t] <= v[t]
  BY MaxVersionIsNat DEF Version, NotAbove
<1>2. u[s] = v[s] + 1 /\ \A t \in Server \ {s} : u[t] = v[t]
  BY DEF update_version, Version
<1> HIDE DEF u
<1>3. \A t \in Server : u[t] \in Int /\ w[t] <= u[t]
  <2>1. ASSUME NEW t \in Server
        PROVE  u[t] \in Int /\ w[t] <= u[t]
    <3>1. CASE t = s
      BY <1>1, <1>2, <3>1
    <3>2. CASE t # s
      BY <1>1, <1>2, <3>2
    <3> QED
      BY <3>1, <3>2
  <2> QED
    BY <2>1
<1>4. w[s] < u[s] /\ 0 < u[s]
  BY <1>1, <1>2
<1>5. u # NoVersion
  BY <1>4 DEF NoVersion
<1>6. ~Unlisted(u, w) /\ ~Behind(u, w)
  BY <1>1, <1>3 DEF Unlisted, Behind, Lists
<1>7. Ahead(u, w) \/ Extra(u, w)
  <2>1. CASE w[s] > 0
    BY <1>4, <2>1 DEF Ahead, Lists
  <2>2. CASE ~(w[s] > 0)
    BY <1>4, <2>2 DEF Extra, Unlisted, Lists
  <2> QED
    BY <2>1, <2>2
<1>8. check_conflict_version(u, w) = 1
  BY <1>5, <1>6, <1>7 DEF check_conflict_version
<1> QED
  BY <1>8 DEF u

-----------------------------------------------------------------------------
(* The result list *)

(* The types that the theorems below rest on: the result list of a read is a *)
(* list of records with one pair per server in a vector.                     *)
LEMMA TypeCorrect == Spec => []TypeOK
<1>1. Init => TypeOK
  <2>1. <<>> \in Seq([value : Value, pairs : PairVector]) /\ Len(<<>>) = 0
    OBVIOUS
  <2> QED
    BY <2>1, MaxResultsIsNat DEF Init, TypeOK
<1>2. TypeOK /\ [Next]_results => TypeOK'
  <2> SUFFICES ASSUME TypeOK, [Next]_results PROVE TypeOK'
    OBVIOUS
  <2> USE DEF TypeOK
  <2>1. ASSUME NEW value \in Value, NEW pairs \in PairVector, Collect(value, pairs)
        PROVE  TypeOK'
    <3> DEFINE T == [value : Value, pairs : PairVector]
               e == [value |-> value, pairs |-> pairs]
    <3>1. e \in T /\ results \in Seq(T) /\ Len(results) < MaxResults /\ results' = Append(results, e)
      BY <2>1 DEF Collect
    <3> HIDE DEF e, T
    <3>2. results' \in Seq(T) /\ Len(results') = Len(results) + 1 /\ Len(results) \in Nat
      BY <3>1
    <3>3. Len(results') <= MaxResults
      BY <3>1, <3>2, MaxResultsIsNat
    <3> QED
      BY <3>2, <3>3 DEF T
  <2>2. CASE UNCHANGED results
    BY <2>2
  <2> QED
    BY <2>1, <2>2 DEF Next
<1> QED
  BY <1>1, <1>2, PTL DEF Spec

LEMMA ResultsAreEntries ==
  ASSUME TypeOK
  PROVE  /\ results \in Seq(Entry)
         /\ \A i \in DOMAIN results :
              results[i].pairs \in PairVector /\ AsVersion(results[i].pairs) \in Version
<1>1. results \in Seq(Entry)
  BY DEF TypeOK, Entry
<1>2. \A i \in DOMAIN results : results[i] \in Entry
  BY <1>1
<1> QED
  BY <1>1, <1>2, EntryRecord DEF Entry

(* check_conflict_version and update_version, which walk the pairs in the   *)
(* order of the vectors, agree with the operators that know no order.       *)
THEOREM LoopsAgree == Spec => []ScanAgrees
<1>1. TypeOK => ScanAgrees
  BY ResultsAreEntries, ConflictLoopAgrees, UpdateLoopAgrees DEF ScanAgrees
<1> QED
  BY <1>1, TypeCorrect, PTL

(* PeerPut overwrites exactly when the incoming version comes after the one *)
(* it holds.                                                                *)
THEOREM NewerIsAfter == Spec => []NewerMeansAfter
<1>1. TypeOK => NewerMeansAfter
  BY ResultsAreEntries, ConflictLoopAgrees, NewerIffAfter DEF NewerMeansAfter
<1> QED
  BY <1>1, TypeCorrect, PTL

(* remove_duplicate_data and remove_unconflict_data, run one after the      *)
(* other, keep exactly the records no other record of the list is later     *)
(* than.                                                                    *)
THEOREM FiltersAgree == Spec => []LatestAgrees
<1>1. TypeOK => LatestAgrees
  BY ResultsAreEntries, LatestLoopsAgree DEF LatestAgrees
<1> QED
  BY <1>1, TypeCorrect, PTL

(* A read that collected anything answers something.                        *)
THEOREM SomethingIsAnswered == Spec => []LatestNotEmpty
<1>1. ASSUME TypeOK, results # <<>>
      PROVE  ScanLatest(results) # <<>>
  <2>1. /\ IsFiniteSet(AsRecords(results)) /\ AsRecords(results) # {}
        /\ \A r \in AsRecords(results) : r.version \in Version
    BY <1>1, ResultsAreEntries, RecordsAreFinite
  <2>2. get_latest_data(AsRecords(results)) # {}
    BY <2>1, FilterKeepsSomething
  <2>3. /\ ScanLatest(results) \in Seq(Entry)
        /\ AsRecords(ScanLatest(results)) = get_latest_data(AsRecords(results))
    BY <1>1, ResultsAreEntries, LatestLoopsAgree
  <2> QED
    BY <2>2, <2>3, RecordsAreFinite
<1>2. TypeOK => LatestNotEmpty
  BY <1>1 DEF LatestNotEmpty
<1> QED
  BY <1>2, TypeCorrect, PTL

(* A value written back under the reconciled version of an answer is newer  *)
(* than every record of the answer, whoever coordinates the write.          *)
THEOREM RepairsAreAccepted == Spec => []RepairIsAccepted
<1>1. ASSUME TypeOK
      PROVE  RepairIsAccepted
  <2> DEFINE kept == ScanLatest(results)
             V == Versions(kept)
  <2>1. kept \in Seq(Entry)
    BY <1>1, ResultsAreEntries, LatestLoopsAgree
  <2> HIDE DEF kept
  <2>2. \A k \in DOMAIN kept : AsVersion(kept[k].pairs) \in Version
    <3>1. \A k \in DOMAIN kept : kept[k] \in Entry
      BY <2>1
    <3> QED
      BY <3>1, EntryRecord
  <2>3. V \in SUBSET Version /\ \A k \in DOMAIN kept : AsVersion(kept[k].pairs) \in V
    BY <2>2 DEF Versions
  <2> HIDE DEF V
  <2>4. ASSUME NEW k \in DOMAIN kept, NEW s \in Server
        PROVE  check_conflict_version(update_version(reconcile_version(V), s),
                                      AsVersion(kept[k].pairs)) = 1
    <3> DEFINE w == AsVersion(kept[k].pairs)
    <3>1. w \in V /\ w \in Version
      BY <2>2, <2>3
    <3> HIDE DEF w
    <3>2. reconcile_version(V) \in Version /\ NotAbove(w, reconcile_version(V))
      BY <2>3, <3>1, ReconcileIsAbove
    <3>3. check_conflict_version(update_version(reconcile_version(V), s), w) = 1
      BY <3>1, <3>2, BumpIsNewer
    <3> QED
      BY <3>3 DEF w
  <2> QED
    BY <2>4 DEF RepairIsAccepted, kept, V
<1>2. TypeOK => RepairIsAccepted
  BY <1>1
<1> QED
  BY <1>2, TypeCorrect, PTL

=============================================================================
