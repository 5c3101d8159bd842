----------------------- MODULE LinknetAllocatorProofs ------------------------
(***************************************************************************)
(* Proofs about LinknetAllocator, for addresses of any width, linknets of  *)
(* any size and any number of stored networks.                             *)
(*                                                                         *)
(* The loops over intervals are functions of the position.  That such a    *)
(* function satisfies its equation, and what it computes, is shown by      *)
(* induction over positions in the form of a least counterexample (WFMin). *)
(***************************************************************************)
EXTENDS LinknetAllocator, FiniteSetTheorems, WellFoundedInduction, TLAPS

(***************************************************************************)
(* Induction and loops.                                                    *)
(***************************************************************************)
LEMMA LeastMember ==
  ASSUME NEW S \in SUBSET Nat, S # {}
  PROVE  \E x \in S : \A y \in S : x <= y
<1> DEFINE R == OpToRel(<, Nat)
<1>1. IsWellFoundedOn(R, Nat)
  BY NatLessThanWellFounded, Zenon
<1>2. R = {ss \in Nat \X Nat : ss[1] < ss[2]}
  BY Zenon DEF OpToRel
<1> HIDE DEF R
<1>3. PICK x \in S : \A y \in S : ~ (<<y, x>> \in R)
  BY <1>1, WFMin
<1>4. \A a, b \in Nat : b < a => <<b, a>> \in R
  BY <1>2
<1>5. ASSUME NEW y \in S PROVE x <= y
  <2>1. x \in Nat /\ y \in Nat /\ ~ (y < x)
    BY <1>3, <1>4
  <2> QED
    BY <2>1
<1> QED
  BY <1>5

LEMMA Induction ==
  ASSUME NEW T, NEW m \in Nat, m \in T, \A n \in Nat : n >= m /\ n \in T => n + 1 \in T
  PROVE  \A n \in Nat : n >= m => n \in T
<1> DEFINE S == {n \in Nat : n >= m /\ n \notin T}
<1>1. SUFFICES ASSUME S # {} PROVE FALSE
  OBVIOUS
<1>2. PICK x \in S : \A y \in S : x <= y
  <2>1. S \in SUBSET Nat
    OBVIOUS
  <2> HIDE DEF S
  <2> QED
    BY <1>1, <2>1, LeastMember
<1>3. x \in Nat /\ x > m /\ x - 1 \in Nat /\ x - 1 >= m
  OBVIOUS
<1>4. x - 1 \in T
  BY <1>2, <1>3
<1> QED
  BY <1>2, <1>3, <1>4

\* The trace of a loop that starts from a and takes step[n] at position n.
Trace(g, S, m, N, a, step) ==
  /\ g \in [m .. N -> S]
  /\ g[m] = a
  /\ \A n \in m .. N : n > m => g[n] = step[n][g[n - 1]]

LEMMA Loop ==
  ASSUME NEW S, NEW m \in Nat, NEW N \in Nat, N >= m, NEW a \in S,
         NEW step \in [m .. N -> [S -> S]]
  PROVE  \E g : Trace(g, S, m, N, a, step)
<1> DEFINE Upto(g, n) == Trace(g, S, m, n, a, step)
           T == {n \in Nat : n <= N => \E g : Upto(g, n)}
<1>1. m \in T
  <2>1. Upto([k \in m .. m |-> a], m)
    BY DEF Trace
  <2> QED
    BY <2>1
<1>2. ASSUME NEW n \in Nat, n >= m, n \in T PROVE n + 1 \in T
  <2>1. SUFFICES ASSUME n + 1 <= N PROVE \E g : Upto(g, n + 1)
    <3> HIDE DEF Upto
    <3> QED
      BY <1>2
  <2>2. PICK g : Upto(g, n)
    BY <1>2, <2>1
  <2> DEFINE h == [k \in m .. n + 1 |-> IF k = n + 1 THEN step[n + 1][g[n]] ELSE g[k]]
  <2>3. h \in [m .. n + 1 -> S] /\ h[m] = a
    BY <1>2, <2>1, <2>2 DEF Trace
  <2>4. ASSUME NEW k \in m .. n + 1, k > m PROVE h[k] = step[k][h[k - 1]]
    <3>1. CASE k = n + 1
      BY <3>1, <1>2
    <3>2. CASE k # n + 1
      <4>1. k \in m .. n /\ k \in m .. n + 1 /\ k - 1 \in m .. n + 1 /\ k - 1 # n + 1
        BY <3>2, <2>4, <1>2
      <4> QED
        BY <4>1, <3>2, <2>4, <2>2 DEF Trace
    <3> QED
      BY <3>1, <3>2
  <2>5. Upto(h, n + 1)
    BY <2>3, <2>4 DEF Trace
  <2> QED
    BY <2>5
<1>3. N \in T
  <2> HIDE DEF T
  <2> QED
    BY <1>1, <1>2, Induction
<1> QED
  BY <1>3

(***************************************************************************)
(* Sizes of networks.                                                      *)
(***************************************************************************)
LEMMA SizeUnfolds ==
  /\ Size[0] = 1
  /\ \A k \in 1 .. Bits : Size[k] = 2 * Size[k - 1]
<1>b. Bits \in Nat
  BY LinknetAssumption
<1> DEFINE step == [k \in 0 .. Bits |-> [s \in Nat |-> 2 * s]]
<1>1. step \in [0 .. Bits -> [Nat -> Nat]]
  OBVIOUS
<1>2. PICK g : Trace(g, Nat, 0, Bits, 1, step)
  <2>1. 0 \in Nat /\ 1 \in Nat /\ Bits >= 0
    BY <1>b
  <2> HIDE DEF step
  <2> QED
    BY <1>b, <1>1, <2>1, Loop, Zenon
<1>3. ASSUME NEW k \in 0 .. Bits PROVE g[k] = IF k = 0 THEN 1 ELSE 2 * g[k - 1]
  <2>1. CASE k # 0
    <3>1. k > 0 /\ k - 1 \in 0 .. Bits /\ g[k - 1] \in Nat
      BY <1>b, <1>2, <2>1 DEF Trace
    <3> QED
      BY <1>2, <2>1, <3>1 DEF Trace
  <2> QED
    BY <1>2, <2>1 DEF Trace
<1>4. g = [k \in 0 .. Bits |-> IF k = 0 THEN 1 ELSE 2 * g[k - 1]]
  BY <1>2, <1>3 DEF Trace
<1>5. Size = [k \in 0 .. Bits |-> IF k = 0 THEN 1 ELSE 2 * Size[k - 1]]
  BY <1>4 DEF Size
<1> QED
  BY <1>5, <1>b

\* Sizes are positive, and a larger one is a multiple of a smaller one.
LEMMA Sizes ==
  /\ \A k \in 0 .. Bits : Size[k] \in Nat \ {0}
  /\ \A j, k \in 0 .. Bits : j <= k => \E q \in Nat \ {0} : Size[k] = q * Size[j]
  /\ \A j, k \in 0 .. Bits : j < k => Size[j] < Size[k]
<1>b. Bits \in Nat
  BY LinknetAssumption
<1>1. ASSUME NEW k \in 0 .. Bits PROVE Size[k] \in Nat \ {0}
  <2> DEFINE T == {n \in Nat : n <= Bits => Size[n] \in Nat \ {0}}
  <2>1. 0 \in T
    BY SizeUnfolds
  <2>2. ASSUME NEW n \in Nat, n >= 0, n \in T PROVE n + 1 \in T
    <3> SUFFICES ASSUME n + 1 <= Bits PROVE Size[n + 1] \in Nat \ {0}
      OBVIOUS
    <3>1. Size[n] \in Nat \ {0}
      BY <2>2, <1>b
    <3>2. n + 1 \in 1 .. Bits /\ (n + 1) - 1 = n
      BY <2>2, <1>b
    <3>3. Size[n + 1] = 2 * Size[n]
      BY <3>2, SizeUnfolds
    <3> QED
      BY <3>1, <3>3
  <2>3. k \in T
    <3> HIDE DEF T
    <3> QED
      BY <1>b, <2>1, <2>2, Induction
  <2> QED
    BY <2>3, <1>b
<1>2. ASSUME NEW j \in 0 .. Bits, NEW k \in 0 .. Bits, j <= k
      PROVE  /\ \E q \in Nat \ {0} : Size[k] = q * Size[j]
             /\ j < k => Size[j] < Size[k]
  <2> DEFINE T == {n \in Nat : n <= Bits => /\ \E q \in Nat \ {0} : Size[n] = q * Size[j]
                                            /\ j < n => Size[j] < Size[n]}
  <2>0. j \in Nat /\ j <= Bits
    BY <1>b
  <2>1. j \in T
    <3>1. Size[j] = 1 * Size[j]
      BY <1>1
    <3> QED
      BY <3>1, <2>0
  <2>2. ASSUME NEW n \in Nat, n >= j, n \in T PROVE n + 1 \in T
    <3> SUFFICES ASSUME n + 1 <= Bits
                 PROVE  /\ \E q \in Nat \ {0} : Size[n + 1] = q * Size[j]
                        /\ j < n + 1 => Size[j] < Size[n + 1]
      OBVIOUS
    <3>1. n + 1 \in 1 .. Bits /\ (n + 1) - 1 = n /\ n \in 0 .. Bits
      BY <2>2, <1>b
    <3>2. Size[n + 1] = 2 * Size[n]
      BY <3>1, SizeUnfolds
    <3>3. PICK q \in Nat \ {0} : Size[n] = q * Size[j]
      BY <2>2, <3>1
    <3>4. Size[n] \in Nat \ {0} /\ Size[j] \in Nat \ {0}
      BY <1>1, <3>1
    <3>5. Size[n + 1] = (2 * q) * Size[j] /\ 2 * q \in Nat \ {0}
      BY <3>2, <3>3, <3>4
    <3>6. Size[j] <= Size[n]
      <4>1. CASE j = n
        BY <4>1, <3>4
      <4>2. CASE j < n
        BY <4>2, <2>2, <3>1, <3>4
      <4> QED
        BY <4>1, <4>2, <2>2, <2>0
    <3>7. Size[j] < Size[n + 1]
      BY <3>2, <3>4, <3>6
    <3> QED
      BY <3>5, <3>7
  <2>3. k \in T
    <3> HIDE DEF T
    <3> QED
      BY <1>b, <1>2, <2>0, <2>1, <2>2, Induction
  <2> QED
    BY <2>3, <1>b
<1> QED
  BY <1>1, <1>2, <1>b

(***************************************************************************)
(* Sorting by rank.                                                        *)
(***************************************************************************)
Rank(S, i) == Cardinality({j \in S : Before(j, i)})

LEMMA RankGrows ==
  ASSUME NEW S \in SUBSET (Nat \X Nat), IsFiniteSet(S), NEW i \in S, NEW k \in S
  PROVE  /\ Rank(S, i) \in 0 .. Cardinality(S) - 1
         /\ Before(i, k) => Rank(S, i) < Rank(S, k)
<1> DEFINE below(x) == {j \in S : Before(j, x)}
<1>1. ASSUME NEW x \in S PROVE IsFiniteSet(below(x)) /\ Cardinality(below(x)) \in Nat
  <2>1. below(x) \in SUBSET S
    OBVIOUS
  <2> QED
    BY <2>1, FS_Subset, FS_CardinalityType
<1>2. Rank(S, i) \in 0 .. Cardinality(S) - 1
  <2>1. ~Before(i, i)
    BY DEF Before
  <2>2. below(i) \in SUBSET (S \ {i})
    BY <2>1
  <2>3. IsFiniteSet(S \ {i}) /\ Cardinality(S \ {i}) = Cardinality(S) - 1
    BY FS_RemoveElement
  <2>4. Cardinality(below(i)) <= Cardinality(S) - 1
    BY <2>2, <2>3, FS_Subset
  <2>5. Cardinality(S) \in Nat
    BY FS_CardinalityType
  <2> QED
    BY <1>1, <2>4, <2>5 DEF Rank
<1>3. ASSUME Before(i, k) PROVE Rank(S, i) < Rank(S, k)
  <2>1. ~Before(i, i) /\ \A j \in S : Before(j, i) => Before(j, k)
    BY <1>3 DEF Before
  <2>2. below(i) \cup {i} \in SUBSET below(k) /\ i \notin below(i)
    BY <2>1, <1>3
  <2>3. Cardinality(below(i) \cup {i}) = Cardinality(below(i)) + 1
    BY <1>1, <2>2, FS_AddElement
  <2>4. Cardinality(below(i) \cup {i}) <= Cardinality(below(k))
    BY <1>1, <2>2, FS_Subset
  <2>5. Cardinality(below(i)) \in Nat /\ Cardinality(below(k)) \in Nat
    BY <1>1
  <2> QED
    BY <2>3, <2>4, <2>5 DEF Rank
<1> QED
  BY <1>2, <1>3

\* Sorted lists the members of a finite set of pairs, in the order of their
\* first components.
LEMMA SortedFacts ==
  ASSUME NEW S \in SUBSET (Nat \X Nat), IsFiniteSet(S)
  PROVE  /\ Cardinality(S) \in Nat
         /\ Sorted(S) \in [1 .. Cardinality(S) -> S]
         /\ \A i \in S : \E n \in 1 .. Cardinality(S) : Sorted(S)[n] = i
         /\ \A m, n \in 1 .. Cardinality(S) : m <= n => Sorted(S)[m][1] <= Sorted(S)[n][1]
<1> DEFINE N == Cardinality(S)
           f == [i \in S |-> Rank(S, i) + 1]
<1>0. N \in Nat
  BY FS_CardinalityType
<1>1. \A i \in S : Rank(S, i) \in 0 .. N - 1 /\ Rank(S, i) \in Nat
  BY RankGrows, <1>0
<1>2. ASSUME NEW i \in S, NEW k \in S, Rank(S, i) = Rank(S, k) PROVE i = k
  <2>1. ~Before(i, k) /\ ~Before(k, i)
    BY <1>1, <1>2, RankGrows
  <2>2. i[1] = k[1] /\ i[2] = k[2]
    BY <2>1 DEF Before
  <2> QED
    BY <2>2
<1>3. f \in Surjection(S, 1 .. N)
  <2>1. f \in [S -> 1 .. N]
    BY <1>0, <1>1
  <2>2. \A i, k \in S : f[i] = f[k] => i = k
    BY <1>1, <1>2
  <2>3. f \in Injection(S, 1 .. N)
    BY <2>1, <2>2 DEF Injection, IsInjective
  <2>4. IsFiniteSet(1 .. N) /\ Cardinality(1 .. N) = N
    BY <1>0, FS_Interval
  <2> HIDE DEF f
  <2> QED
    BY <2>3, <2>4, FS_Injection
<1>4. ASSUME NEW n \in 1 .. N PROVE Sorted(S)[n] \in S /\ Rank(S, Sorted(S)[n]) = n - 1
  <2>1. PICK i \in S : f[i] = n
    BY <1>3 DEF Surjection
  <2>2. Rank(S, i) = n - 1
    BY <1>0, <1>1, <2>1
  <2>3. Sorted(S)[n] = CHOOSE x \in S : Rank(S, x) = n - 1
    BY DEF Sorted, Rank
  <2> QED
    BY <2>2, <2>3
<1>5. Sorted(S) \in [1 .. N -> S]
  BY <1>4 DEF Sorted
<1>6. ASSUME NEW i \in S PROVE \E n \in 1 .. N : Sorted(S)[n] = i
  <2>1. Rank(S, i) + 1 \in 1 .. N /\ (Rank(S, i) + 1) - 1 = Rank(S, i)
    BY <1>0, <1>1
  <2>2. Sorted(S)[Rank(S, i) + 1] = i
    BY <1>2, <1>4, <2>1
  <2> QED
    BY <2>1, <2>2
<1>7. ASSUME NEW m \in 1 .. N, NEW n \in 1 .. N, m <= n
      PROVE  Sorted(S)[m][1] <= Sorted(S)[n][1]
  <2>1. ~Before(Sorted(S)[n], Sorted(S)[m])
    BY <1>0, <1>4, <1>7, RankGrows
  <2>2. Sorted(S)[m] \in Nat \X Nat /\ Sorted(S)[n] \in Nat \X Nat
    BY <1>4
  <2> QED
    BY <2>1, <2>2 DEF Before
<1> QED
  BY <1>0, <1>5, <1>6, <1>7

(***************************************************************************)
(* The search.                                                             *)
(***************************************************************************)
\* Intervals in the order of their starts.
Ordered(iv) ==
  /\ iv \in Seq(Nat \X Nat)
  /\ \A n \in 1 .. Len(iv) : iv[n][1] <= iv[n][2]
  /\ \A m, n \in 1 .. Len(iv) : m <= n => iv[m][1] <= iv[n][1]

\* One of the first n intervals has k.
Covers(iv, n, k) == \E m \in 1 .. n : iv[m][1] <= k /\ k <= iv[m][2]

LEMMA PassType ==
  ASSUME NEW acc \in [at : Nat \cup {NoIndex}, found : BOOLEAN], NEW i \in Nat \X Nat, NEW to
  PROVE  Pass(acc, i, to) \in [at : Nat \cup {NoIndex}, found : BOOLEAN]
<1> DEFINE S == [at : Nat \cup {NoIndex}, found : BOOLEAN]
<1>1. i[2] + 1 \in Nat
  OBVIOUS
<1>2. /\ [acc EXCEPT !.found = TRUE] \in S
      /\ [at |-> NoIndex, found |-> TRUE] \in S
      /\ [acc EXCEPT !.at = i[2] + 1] \in S
  BY <1>1
<1> HIDE DEF S
<1>3. acc \in S
  BY DEF S
<1>4. Pass(acc, i, to) \in S
  BY <1>2, <1>3 DEF Pass
<1> QED
  BY <1>4 DEF S

LEMMA PassesUnfold ==
  ASSUME NEW iv, Ordered(iv), NEW from \in Nat, NEW to \in Nat
  PROVE  /\ Passes(iv, from, to)[0] = [at |-> from, found |-> FALSE]
         /\ \A n \in 1 .. Len(iv) :
              Passes(iv, from, to)[n] = Pass(Passes(iv, from, to)[n - 1], iv[n], to)
<1> DEFINE N == Len(iv)
           S == [at : Nat \cup {NoIndex}, found : BOOLEAN]
           a == [at |-> from, found |-> FALSE]
           step == [n \in 0 .. N |-> [s \in S |-> IF n = 0 THEN s ELSE Pass(s, iv[n], to)]]
<1>0. N \in Nat /\ N >= 0 /\ 0 \in Nat /\ \A n \in 1 .. N : iv[n] \in Nat \X Nat
  BY DEF Ordered
<1>1. ASSUME NEW s \in S, NEW n \in 0 .. N, n # 0 PROVE Pass(s, iv[n], to) \in S
  <2>1. iv[n] \in Nat \X Nat
    BY <1>0, <1>1
  <2> QED
    BY <2>1, PassType
<1>2. step \in [0 .. N -> [S -> S]] /\ a \in S
  BY <1>1
<1>3. PICK g : Trace(g, S, 0, N, a, step)
  <2> HIDE DEF step, S, a, N
  <2> QED
    BY <1>0, <1>2, Loop, Zenon
<1>4. ASSUME NEW n \in 0 .. N PROVE g[n] = IF n = 0 THEN a ELSE Pass(g[n - 1], iv[n], to)
  <2>1. CASE n # 0
    <3>1. n > 0 /\ n - 1 \in 0 .. N /\ g[n - 1] \in S
      BY <1>0, <1>3, <2>1 DEF Trace
    <3>2. g[n] = step[n][g[n - 1]]
      BY <1>3, <3>1 DEF Trace
    <3> QED
      BY <2>1, <3>1, <3>2
  <2> QED
    BY <1>3, <2>1 DEF Trace
<1>5. g = [n \in 0 .. N |-> IF n = 0 THEN a ELSE Pass(g[n - 1], iv[n], to)]
  BY <1>3, <1>4 DEF Trace
<1>6. Passes(iv, from, to) =
        [n \in 0 .. N |-> IF n = 0 THEN a ELSE Pass(Passes(iv, from, to)[n - 1], iv[n], to)]
  BY <1>5 DEF Passes
<1>7. Passes(iv, from, to)[0] = a
  BY <1>0, <1>6
<1>8. ASSUME NEW n \in 1 .. N
      PROVE  Passes(iv, from, to)[n] = Pass(Passes(iv, from, to)[n - 1], iv[n], to)
  <2>1. n \in 0 .. N /\ n # 0
    BY <1>0
  <2> QED
    BY <1>6, <2>1, Zenon
<1> QED
  BY <1>7, <1>8

\* After n intervals: the candidate is behind all of them and everything before
\* it is taken, or the search has ended with nothing, or with a candidate that no
\* interval has.
PassInv(iv, from, to, n, acc) ==
  /\ acc.found \in BOOLEAN
  /\ ~acc.found => /\ acc.at \in from .. to
                   /\ \A m \in 1 .. n : iv[m][2] < acc.at
                   /\ \A k \in from .. acc.at - 1 : Covers(iv, n, k)
  /\ acc.found /\ acc.at = NoIndex => \A k \in from .. to : Covers(iv, n, k)
  /\ acc.found /\ acc.at # NoIndex => /\ acc.at \in from .. to
                                      /\ ~Covers(iv, Len(iv), acc.at)
                                      /\ \A k \in from .. acc.at - 1 : Covers(iv, n, k)

LEMMA PassKeeps ==
  ASSUME NEW iv, Ordered(iv), NEW from \in Nat, NEW to \in Nat,
         NEW n \in 0 .. Len(iv) - 1, NEW acc \in [at : Nat \cup {NoIndex}, found : BOOLEAN],
         PassInv(iv, from, to, n, acc)
  PROVE  PassInv(iv, from, to, n + 1, Pass(acc, iv[n + 1], to))
<1> DEFINE i == iv[n + 1]
           new == Pass(acc, i, to)
<1>0. /\ Len(iv) \in Nat /\ n \in Nat /\ n + 1 \in 1 .. Len(iv)
      /\ i \in Nat \X Nat /\ i[1] \in Nat /\ i[2] \in Nat /\ i[1] <= i[2]
      /\ \A m \in 1 .. Len(iv) : iv[m] \in Nat \X Nat /\ iv[m][1] \in Nat /\ iv[m][2] \in Nat
  BY DEF Ordered
<1>1. \A k : Covers(iv, n, k) => Covers(iv, n + 1, k)
  BY <1>0 DEF Covers
<1>n. NoIndex \notin Nat
  BY LinknetAssumption
<1>2. CASE acc.found
  <2>1. new = acc
    BY <1>2 DEF Pass
  <2> QED
    BY <1>1, <1>2, <2>1 DEF PassInv
<1>3. CASE ~acc.found
  <2>1. acc.at \in Nat /\ acc.at >= from /\ acc.at <= to
    BY <1>3 DEF PassInv
  <2>2. CASE i[2] < acc.at
    <3>1. new = acc
      BY <2>2 DEF Pass
    <3>2. \A m \in 1 .. n + 1 : iv[m][2] < acc.at
      BY <1>0, <1>3, <2>2 DEF PassInv
    <3> QED
      BY <1>1, <1>3, <3>1, <3>2 DEF PassInv
  <2>3. CASE ~(i[2] < acc.at) /\ i[1] > acc.at
    <3>1. new = [acc EXCEPT !.found = TRUE]
      BY <1>3, <2>3 DEF Pass
    <3>2. new.found = TRUE /\ new.at = acc.at /\ new.at # NoIndex
      BY <3>1, <2>1, <1>n
    <3>3. ASSUME NEW m \in 1 .. Len(iv), iv[m][1] <= acc.at, acc.at <= iv[m][2] PROVE FALSE
      <4>1. CASE m <= n
        BY <4>1, <3>3, <1>0, <1>3, <2>1 DEF PassInv
      <4>2. CASE n + 1 <= m
        <5>1. i[1] <= iv[m][1]
          BY <4>2, <1>0 DEF Ordered
        <5> QED
          BY <5>1, <3>3, <2>3, <1>0, <2>1
      <4> QED
        BY <4>1, <4>2, <1>0
    <3>4. ~Covers(iv, Len(iv), acc.at)
      BY <3>3 DEF Covers
    <3> QED
      BY <1>1, <1>3, <3>2, <3>4 DEF PassInv
  <2>4. CASE ~(i[2] < acc.at) /\ ~(i[1] > acc.at)
    <3>1. ASSUME NEW k \in from .. i[2] PROVE Covers(iv, n + 1, k)
      <4>1. CASE k < acc.at
        <5>1. k \in from .. acc.at - 1
          BY <4>1, <2>1, <1>0
        <5> QED
          BY <5>1, <1>1, <1>3 DEF PassInv
      <4>2. CASE k >= acc.at
        <5>1. i[1] <= k /\ k <= i[2] /\ n + 1 \in 1 .. n + 1
          BY <4>2, <2>1, <2>4, <1>0
        <5> QED
          BY <5>1 DEF Covers
      <4> QED
        BY <4>1, <4>2, <2>1, <1>0
    <3>2. CASE i[2] + 1 > to
      <4>1. new = [at |-> NoIndex, found |-> TRUE]
        BY <1>3, <2>4, <3>2 DEF Pass
      <4>2. \A k \in from .. to : k \in from .. i[2]
        BY <3>2, <1>0
      <4>3. new.found = TRUE /\ new.at = NoIndex
        BY <4>1
      <4> QED
        BY <4>2, <4>3, <3>1 DEF PassInv
    <3>3. CASE ~(i[2] + 1 > to)
      <4>1. new = [acc EXCEPT !.at = i[2] + 1]
        BY <1>3, <2>4, <3>3 DEF Pass
      <4>2. new.found = FALSE /\ new.at = i[2] + 1
        BY <1>3, <4>1
      <4>3. i[2] + 1 \in from .. to
        BY <3>3, <2>4, <2>1, <1>0
      <4>4. ASSUME NEW m \in 1 .. n + 1 PROVE iv[m][2] < i[2] + 1
        <5>1. CASE m = n + 1
          BY <5>1, <1>0
        <5>2. CASE m \in 1 .. n
          <6>1. iv[m][2] < acc.at /\ iv[m][2] \in Nat
            BY <5>2, <1>3, <1>0 DEF PassInv
          <6> QED
            BY <6>1, <2>1, <2>4, <1>0
        <5> QED
          BY <5>1, <5>2, <1>0
      <4>5. \A k \in from .. (i[2] + 1) - 1 : Covers(iv, n + 1, k)
        BY <3>1, <1>0
      <4> QED
        BY <4>2, <4>3, <4>4, <4>5 DEF PassInv
    <3> QED
      BY <3>2, <3>3
  <2> QED
    BY <2>2, <2>3, <2>4
<1> QED
  BY <1>2, <1>3

\* What first_unoccupied_index returns: the least index of the range that no
\* interval has, or nothing when there is none.
LEMMA FirstUnoccupiedFacts ==
  ASSUME NEW iv, Ordered(iv), NEW from \in Nat, NEW to \in Nat
  PROVE  LET free == {k \in from .. to : ~Covers(iv, Len(iv), k)}
             first == FirstUnoccupied(iv, from, to)
         IN \/ free = {} /\ first = NoIndex
            \/ first \in free /\ \A k \in free : first <= k
<1> DEFINE free == {k \in from .. to : ~Covers(iv, Len(iv), k)}
           first == FirstUnoccupied(iv, from, to)
           N == Len(iv)
           pass == Passes(iv, from, to)
           S == [at : Nat \cup {NoIndex}, found : BOOLEAN]
<1>0. N \in Nat
  BY DEF Ordered
<1>1. CASE from > to
  <2>1. free = {} /\ first = NoIndex
    BY <1>1 DEF FirstUnoccupied
  <2> QED
    BY <2>1
<1>2. CASE ~(from > to)
  <2> DEFINE T == {n \in Nat : n <= N => pass[n] \in S /\ PassInv(iv, from, to, n, pass[n])}
  <2>1. 0 \in T
    <3>1. pass[0] = [at |-> from, found |-> FALSE]
      BY PassesUnfold
    <3>2. pass[0] \in S /\ pass[0].at = from /\ pass[0].found = FALSE
      BY <3>1
    <3>3. PassInv(iv, from, to, 0, pass[0])
      BY <3>2, <1>2 DEF PassInv
    <3> QED
      BY <3>2, <3>3
  <2>2. ASSUME NEW n \in Nat, n >= 0, n \in T PROVE n + 1 \in T
    <3> SUFFICES ASSUME n + 1 <= N
                 PROVE  pass[n + 1] \in S /\ PassInv(iv, from, to, n + 1, pass[n + 1])
      OBVIOUS
    <3>1. n \in 0 .. N - 1 /\ n <= N /\ n + 1 \in 1 .. N /\ (n + 1) - 1 = n
      BY <1>0
    <3>2. pass[n + 1] = Pass(pass[n], iv[n + 1], to) /\ iv[n + 1] \in Nat \X Nat
      <4>1. \A k \in 1 .. N : pass[k] = Pass(pass[k - 1], iv[k], to)
        BY PassesUnfold
      <4>2. \A k \in 1 .. N : iv[k] \in Nat \X Nat
        BY DEF Ordered
      <4> HIDE DEF pass
      <4>3. pass[n + 1] = Pass(pass[(n + 1) - 1], iv[n + 1], to)
        BY <3>1, <4>1, Zenon
      <4> QED
        BY <3>1, <4>2, <4>3
    <3>3. pass[n] \in S /\ PassInv(iv, from, to, n, pass[n])
      BY <2>2, <3>1
    <3>4. PassInv(iv, from, to, n + 1, pass[n + 1])
      BY <3>1, <3>2, <3>3, PassKeeps
    <3>5. pass[n + 1] \in S
      BY <3>1, <3>2, <3>3, PassType
    <3> QED
      BY <3>4, <3>5
  <2>3. N \in T
    <3> HIDE DEF T
    <3> QED
      BY <1>0, <2>1, <2>2, Induction
  <2>4. pass[N] \in S /\ PassInv(iv, from, to, N, pass[N]) /\ first = pass[N].at
    BY <2>3, <1>0, <1>2 DEF FirstUnoccupied
  <2>n. NoIndex \notin Nat
    BY LinknetAssumption
  <2> HIDE DEF pass
  <2>5. CASE ~pass[N].found
    <3>1. first \in from .. to /\ ~Covers(iv, N, first)
      <4>1. first \in from .. to /\ \A m \in 1 .. N : iv[m][2] < first
        BY <2>4, <2>5 DEF PassInv
      <4>2. \A m \in 1 .. N : iv[m][2] \in Nat
        BY DEF Ordered
      <4> QED
        BY <4>1, <4>2 DEF Covers
    <3>2. \A k \in free : first <= k
      BY <2>4, <2>5, <3>1 DEF PassInv
    <3> QED
      BY <3>1, <3>2
  <2>6. CASE pass[N].found /\ first = NoIndex
    BY <2>4, <2>6 DEF PassInv
  <2>7. CASE pass[N].found /\ first # NoIndex
    <3>1. first \in from .. to /\ ~Covers(iv, N, first)
      BY <2>4, <2>7 DEF PassInv
    <3>2. \A k \in free : first <= k
      BY <2>4, <2>7, <3>1 DEF PassInv
    <3> QED
      BY <3>1, <3>2
  <2> QED
    BY <2>5, <2>6, <2>7
<1> QED
  BY <1>1, <1>2

(***************************************************************************)
(* The count.                                                              *)
(***************************************************************************)
LEMMA RunsUnfold ==
  ASSUME NEW iv, Ordered(iv), Len(iv) > 0
  PROVE  /\ Runs(iv)[1] = [sum |-> 0, start |-> iv[1][1], end |-> iv[1][2]]
         /\ \A n \in 1 .. Len(iv) : n > 1 => Runs(iv)[n] = Merge(Runs(iv)[n - 1], iv[n])
<1> DEFINE N == Len(iv)
           S == [sum : Int, start : Int, end : Int]
           a == [sum |-> 0, start |-> iv[1][1], end |-> iv[1][2]]
           step == [n \in 1 .. N |-> [s \in S |-> Merge(s, iv[n])]]
<1>0. N \in Nat /\ N >= 1 /\ 1 \in Nat /\ 1 \in 1 .. N /\ \A n \in 1 .. N : iv[n] \in Nat \X Nat
  BY DEF Ordered
<1>1. ASSUME NEW s \in S, NEW n \in 1 .. N PROVE Merge(s, iv[n]) \in S
  <2>1. iv[n] \in Nat \X Nat
    BY <1>0
  <2> QED
    BY <2>1 DEF Merge, Larger
<1>2. step \in [1 .. N -> [S -> S]] /\ a \in S
  <2>1. iv[1][1] \in Nat /\ iv[1][2] \in Nat
    BY <1>0
  <2>2. a \in S
    BY <2>1
  <2> HIDE DEF S
  <2> QED
    BY <1>1, <2>2
<1>3. PICK g : Trace(g, S, 1, N, a, step)
  <2> HIDE DEF step, S, a, N
  <2> QED
    BY <1>0, <1>2, Loop, Zenon
<1>4. ASSUME NEW n \in 1 .. N PROVE g[n] = IF n = 1 THEN a ELSE Merge(g[n - 1], iv[n])
  <2>1. CASE n # 1
    <3>0. n > 1 /\ n - 1 \in 1 .. N
      BY <1>0, <2>1
    <3>1. n > 1 /\ n - 1 \in 1 .. N /\ g[n - 1] \in S
      BY <1>3, <3>0, Zenon DEF Trace
    <3>2. g[n] = step[n][g[n - 1]]
      BY <1>3, <3>1 DEF Trace
    <3> QED
      BY <2>1, <3>1, <3>2
  <2> QED
    BY <1>3, <2>1 DEF Trace
<1>5. g = [n \in 1 .. N |-> IF n = 1 THEN a ELSE Merge(g[n - 1], iv[n])]
  BY <1>3, <1>4 DEF Trace
<1>6. Runs(iv) = [n \in 1 .. N |-> IF n = 1 THEN a ELSE Merge(Runs(iv)[n - 1], iv[n])]
  BY <1>5 DEF Runs
<1>7. Runs(iv)[1] = a
  BY <1>0, <1>6
<1>8. ASSUME NEW n \in 1 .. N, n > 1 PROVE Runs(iv)[n] = Merge(Runs(iv)[n - 1], iv[n])
  <2>1. n # 1
    BY <1>8
  <2> QED
    BY <1>6, <2>1, Zenon
<1> QED
  BY <1>7, <1>8

\* The indexes before x that one of the first n intervals has.
Taken(iv, n, x) == {k \in 0 .. x - 1 : Covers(iv, n, k)}

\* After n intervals: the current run is covered, begins with one of them and ends
\* with the furthest, and sum is what they cover before it.
RunInv(iv, n, acc) ==
  /\ acc \in [sum : Nat, start : Nat, end : Nat]
  /\ acc.start <= acc.end
  /\ \E m \in 1 .. n : acc.start = iv[m][1]
  /\ \A m \in 1 .. n : iv[m][2] <= acc.end
  /\ \A k \in acc.start .. acc.end : Covers(iv, n, k)
  /\ acc.sum = Cardinality(Taken(iv, n, acc.start))

\* With its current run, the first n intervals cover as many as the loop counts.
LEMMA RunCounts ==
  ASSUME NEW iv, Ordered(iv), NEW n \in 1 .. Len(iv), NEW acc, RunInv(iv, n, acc),
         NEW x \in Nat, x > acc.end
  PROVE  Cardinality(Taken(iv, n, x)) = acc.sum + acc.end - acc.start + 1
<1> DEFINE A == Taken(iv, n, acc.start)
           B == acc.start .. acc.end
<1>0. acc.sum \in Nat /\ acc.start \in Nat /\ acc.end \in Nat /\ acc.start <= acc.end
  BY DEF RunInv
<1>1. Taken(iv, n, x) = A \cup B
  <2>1. ASSUME NEW k \in Taken(iv, n, x) PROVE k \in A \cup B
    <3>1. PICK m \in 1 .. n : iv[m][1] <= k /\ k <= iv[m][2]
      BY DEF Taken, Covers
    <3>2. iv[m][2] <= acc.end /\ iv[m][2] \in Nat /\ k \in Nat /\ Covers(iv, n, k)
      BY DEF RunInv, Ordered, Taken
    <3>3. k <= acc.end
      BY <3>1, <3>2, <1>0
    <3> QED
      BY <3>2, <3>3, <1>0 DEF Taken
  <2>2. ASSUME NEW k \in A \cup B PROVE k \in Taken(iv, n, x)
    BY <1>0 DEF Taken, RunInv
  <2> QED
    BY <2>1, <2>2
<1>2. IsFiniteSet(A) /\ Cardinality(A) = acc.sum
  <2>1. A \in SUBSET (0 .. acc.start - 1)
    BY DEF Taken
  <2>2. 0 \in Int /\ acc.start - 1 \in Int
    BY <1>0
  <2>3. IsFiniteSet(0 .. acc.start - 1)
    BY <2>2, FS_Interval, Zenon
  <2> QED
    BY <2>1, <2>3, FS_Subset DEF RunInv
<1>3. IsFiniteSet(B) /\ Cardinality(B) = acc.end - acc.start + 1
  <2>1. acc.start \in Int /\ acc.end \in Int /\ ~(acc.start > acc.end)
    BY <1>0
  <2> QED
    BY <2>1, FS_Interval, Zenon
<1>4. A \cap B = {}
  BY <1>0 DEF Taken
<1>5. Cardinality(A \cup B) = Cardinality(A) + Cardinality(B) - Cardinality(A \cap B)
  <2> HIDE DEF A, B
  <2> QED
    BY <1>2, <1>3, FS_Union
<1>6. Cardinality(A \cap B) = 0
  BY <1>4, FS_EmptySet
<1> QED
  BY <1>0, <1>1, <1>2, <1>3, <1>5, <1>6

LEMMA MergeKeeps ==
  ASSUME NEW iv, Ordered(iv), NEW n \in 1 .. Len(iv), n + 1 \in 1 .. Len(iv),
         NEW acc, RunInv(iv, n, acc)
  PROVE  RunInv(iv, n + 1, Merge(acc, iv[n + 1]))
<1> DEFINE i == iv[n + 1]
           new == Merge(acc, i)
<1>0. /\ n \in Nat /\ Len(iv) \in Nat
      /\ i[1] \in Nat /\ i[2] \in Nat /\ i[1] <= i[2]
      /\ \A m \in 1 .. n + 1 : iv[m][1] \in Nat /\ iv[m][2] \in Nat /\ iv[m][1] <= i[1]
  <2>1. Len(iv) \in Nat /\ \A m \in 1 .. Len(iv) : iv[m] \in Nat \X Nat
    BY DEF Ordered
  <2>2. n \in Nat /\ \A m \in 1 .. n + 1 : m \in 1 .. Len(iv) /\ m <= n + 1
    BY <2>1
  <2>3. \A m \in 1 .. n + 1 : iv[m][1] \in Nat /\ iv[m][2] \in Nat
    BY <2>1, <2>2
  <2>4. \A m \in 1 .. n + 1 : iv[m][1] <= i[1]
    BY <2>2 DEF Ordered
  <2>5. i[1] \in Nat /\ i[2] \in Nat /\ i[1] <= i[2]
    BY <2>1 DEF Ordered
  <2> QED
    BY <2>1, <2>2, <2>3, <2>4, <2>5
<1>1. acc.sum \in Nat /\ acc.start \in Nat /\ acc.end \in Nat /\ acc.start <= acc.end
  BY DEF RunInv
<1>2. acc.start <= i[1]
  BY <1>0 DEF RunInv
<1>3. \A k : Covers(iv, n, k) => Covers(iv, n + 1, k)
  BY <1>0 DEF Covers
<1>4. \A k \in i[1] .. i[2] : Covers(iv, n + 1, k)
  <2>1. n + 1 \in 1 .. n + 1
    BY <1>0
  <2> QED
    BY <1>0, <2>1 DEF Covers
<1>5. \A k \in Nat : k < i[1] /\ Covers(iv, n + 1, k) => Covers(iv, n, k)
  <2> SUFFICES ASSUME NEW k \in Nat, k < i[1], Covers(iv, n + 1, k) PROVE Covers(iv, n, k)
    OBVIOUS
  <2>1. PICK m \in 1 .. n + 1 : iv[m][1] <= k /\ k <= iv[m][2]
    BY DEF Covers
  <2>2. m # n + 1
    BY <1>0, <2>1
  <2>3. m \in 1 .. n
    BY <1>0, <2>2
  <2> QED
    BY <2>1, <2>3 DEF Covers
<1>6. ASSUME NEW x \in Nat, x <= i[1] PROVE Taken(iv, n + 1, x) = Taken(iv, n, x)
  BY <1>0, <1>3, <1>5, <1>6 DEF Taken
<1>7. CASE i[1] <= acc.end + 1
  <2>1. new = [acc EXCEPT !.end = Larger(acc.end, i[2])]
    BY <1>7 DEF Merge
  <2>2. /\ new \in [sum : Nat, start : Nat, end : Nat]
        /\ new.sum = acc.sum /\ new.start = acc.start /\ new.end = Larger(acc.end, i[2])
    BY <2>1, <1>0, <1>1 DEF RunInv, Larger
  <2>3. new.end >= acc.end /\ new.end >= i[2] /\ new.end \in {acc.end, i[2]}
    BY <2>2, <1>0, <1>1 DEF Larger
  <2>4. \A m \in 1 .. n + 1 : iv[m][2] <= new.end
    <3> SUFFICES ASSUME NEW m \in 1 .. n + 1 PROVE iv[m][2] <= new.end
      OBVIOUS
    <3>1. CASE m = n + 1
      BY <3>1, <2>3
    <3>2. CASE m \in 1 .. n
      <4>1. iv[m][2] <= acc.end /\ iv[m][2] \in Nat
        BY <3>2, <1>0 DEF RunInv
      <4> QED
        BY <4>1, <2>2, <2>3, <1>1
    <3> QED
      BY <3>1, <3>2, <1>0
  <2>5. ASSUME NEW k \in new.start .. new.end PROVE Covers(iv, n + 1, k)
    <3>1. k \in acc.start .. acc.end \/ k \in i[1] .. i[2]
      BY <2>2, <2>3, <1>0, <1>1, <1>7
    <3> QED
      BY <3>1, <1>3, <1>4 DEF RunInv
  <2>6. new.sum = Cardinality(Taken(iv, n + 1, new.start))
    BY <2>2, <1>1, <1>2, <1>6 DEF RunInv
  <2>7. \E m \in 1 .. n + 1 : new.start = iv[m][1]
    BY <2>2, <1>0 DEF RunInv
  <2>8. new.start <= new.end
    BY <2>2, <2>3, <1>0, <1>1
  <2> QED
    BY <2>2, <2>4, <2>5, <2>6, <2>7, <2>8 DEF RunInv
<1>8. CASE ~(i[1] <= acc.end + 1)
  <2>1. new = [sum |-> acc.sum + acc.end - acc.start + 1, start |-> i[1], end |-> i[2]]
    BY <1>8 DEF Merge
  <2>2. acc.sum + acc.end - acc.start + 1 \in Nat
    BY <1>1
  <2>3. /\ new \in [sum : Nat, start : Nat, end : Nat]
        /\ new.sum = acc.sum + acc.end - acc.start + 1 /\ new.start = i[1] /\ new.end = i[2]
    BY <2>1, <2>2, <1>0
  <2>4. i[1] > acc.end
    BY <1>0, <1>1, <1>8
  <2>5. new.sum = Cardinality(Taken(iv, n + 1, new.start))
    <3>1. Cardinality(Taken(iv, n, i[1])) = acc.sum + acc.end - acc.start + 1
      BY <2>4, <1>0, RunCounts
    <3>2. Taken(iv, n + 1, i[1]) = Taken(iv, n, i[1])
      BY <1>0, <1>6
    <3> QED
      BY <2>3, <3>1, <3>2
  <2>6. \A m \in 1 .. n + 1 : iv[m][2] <= new.end
    <3> SUFFICES ASSUME NEW m \in 1 .. n + 1 PROVE iv[m][2] <= new.end
      OBVIOUS
    <3>1. CASE m = n + 1
      BY <3>1, <2>3, <1>0
    <3>2. CASE m \in 1 .. n
      <4>1. iv[m][2] <= acc.end /\ iv[m][2] \in Nat
        BY <3>2, <1>0 DEF RunInv
      <4> QED
        BY <4>1, <2>3, <2>4, <1>0, <1>1
    <3> QED
      BY <3>1, <3>2, <1>0
  <2>7. \E m \in 1 .. n + 1 : new.start = iv[m][1]
    <3>1. n + 1 \in 1 .. n + 1
      BY <1>0
    <3> QED
      BY <3>1, <2>3
  <2> QED
    BY <2>3, <2>5, <2>6, <2>7, <1>0, <1>4 DEF RunInv
<1> QED
  BY <1>7, <1>8

\* What occupied_prefix_count returns: how many indexes the intervals have.
LEMMA RunsFacts ==
  ASSUME NEW iv, Ordered(iv), Len(iv) > 0, NEW x \in Nat,
         \A n \in 1 .. Len(iv) : iv[n][2] < x
  PROVE  LET last == Runs(iv)[Len(iv)]
         IN last.sum + last.end - last.start + 1 = Cardinality(Taken(iv, Len(iv), x))
<1> DEFINE N == Len(iv)
           run == Runs(iv)
           T == {n \in Nat : n <= N => RunInv(iv, n, run[n])}
<1>0. N \in Nat /\ N >= 1 /\ 1 \in 1 .. N
  BY DEF Ordered
<1>1. 1 \in T
  <2>1. run[1] = [sum |-> 0, start |-> iv[1][1], end |-> iv[1][2]]
    BY RunsUnfold
  <2>2. iv[1][1] \in Nat /\ iv[1][2] \in Nat /\ iv[1][1] <= iv[1][2]
    BY <1>0 DEF Ordered
  <2>3. /\ run[1] \in [sum : Nat, start : Nat, end : Nat]
        /\ run[1].sum = 0 /\ run[1].start = iv[1][1] /\ run[1].end = iv[1][2]
    BY <2>1, <2>2
  <2>4. \A m \in 1 .. 1 : m = 1
    OBVIOUS
  <2>5. \A k : Covers(iv, 1, k) <=> iv[1][1] <= k /\ k <= iv[1][2]
    BY <2>4 DEF Covers
  <2>6. Taken(iv, 1, iv[1][1]) = {}
    BY <2>2, <2>5 DEF Taken
  <2>7. Cardinality(Taken(iv, 1, iv[1][1])) = 0
    BY <2>6, FS_EmptySet
  <2>8. RunInv(iv, 1, run[1])
    BY <2>2, <2>3, <2>4, <2>5, <2>7 DEF RunInv
  <2> QED
    BY <2>8
<1>2. ASSUME NEW n \in Nat, n >= 1, n \in T PROVE n + 1 \in T
  <2> SUFFICES ASSUME n + 1 <= N PROVE RunInv(iv, n + 1, run[n + 1])
    OBVIOUS
  <2>1. n \in 1 .. N /\ n <= N /\ n + 1 \in 1 .. N /\ n + 1 > 1 /\ (n + 1) - 1 = n
    BY <1>0, <1>2
  <2>2. \A k \in 1 .. N : k > 1 => run[k] = Merge(run[k - 1], iv[k])
    BY RunsUnfold
  <2>3. RunInv(iv, n, run[n])
    BY <1>2, <2>1
  <2> HIDE DEF run
  <2>4. run[n + 1] = Merge(run[n], iv[n + 1])
    BY <2>1, <2>2
  <2> QED
    BY <2>1, <2>3, <2>4, MergeKeeps
<1>3. N \in T
  <2> HIDE DEF T
  <2> QED
    BY <1>0, <1>1, <1>2, Induction
<1>4. RunInv(iv, N, run[N])
  BY <1>0, <1>3
<1>5. x > run[N].end
  <2>1. run[N].start \in Nat /\ run[N].end \in Nat /\ run[N].start <= run[N].end
    BY <1>4 DEF RunInv
  <2>2. Covers(iv, N, run[N].end)
    BY <1>4, <2>1 DEF RunInv
  <2>3. PICK m \in 1 .. N : run[N].end <= iv[m][2]
    BY <2>2 DEF Covers
  <2>4. iv[m][2] \in Nat /\ iv[m][2] < x
    BY DEF Ordered
  <2> QED
    BY <2>1, <2>3, <2>4
<1> QED
  BY <1>0, <1>4, <1>5, RunCounts

(***************************************************************************)
(* Addresses and indexes.                                                  *)
(***************************************************************************)
LEMMA Multiples ==
  ASSUME NEW a \in Nat, NEW b \in Nat, NEW L \in Nat \ {0}
  PROVE  /\ a * L \in Nat
         /\ a <= b => a * L <= b * L
         /\ a < b => a * L + L <= b * L
<1>1. a * L \in Nat /\ b * L \in Nat
  OBVIOUS
<1>2. ASSUME a <= b PROVE a * L <= b * L
  <2>1. PICK d \in Nat : b = a + d
    <3>1. b - a \in Nat /\ b = a + (b - a)
      BY <1>2
    <3> QED
      BY <3>1
  <2>2. b * L = a * L + d * L /\ d * L \in Nat
    BY <2>1
  <2> QED
    BY <1>1, <2>2
<1>3. ASSUME a < b PROVE a * L + L <= b * L
  <2>1. PICK d \in Nat : b = a + 1 + d
    <3>1. b - a - 1 \in Nat /\ b = a + 1 + (b - a - 1)
      BY <1>3
    <3> QED
      BY <3>1
  <2>2. b * L = a * L + L + d * L /\ d * L \in Nat
    BY <2>1
  <2> QED
    BY <1>1, <2>2
<1> QED
  BY <1>1, <1>2, <1>3

LEMMA Division ==
  ASSUME NEW a \in Nat, NEW L \in Nat \ {0}
  PROVE  /\ a \div L \in Nat
         /\ (a \div L) * L <= a
         /\ a < (a \div L) * L + L
         /\ a % L = 0 => a = (a \div L) * L
<1>1. a \div L \in Int /\ a % L \in 0 .. L - 1 /\ a = L * (a \div L) + (a % L)
  BY Z3
<1> QED
  BY <1>1, Z3

\* The quotient of a is at most k, and at least k.
LEMMA Quotient ==
  ASSUME NEW a \in Nat, NEW L \in Nat \ {0}, NEW k \in Nat
  PROVE  /\ a \div L \in Nat
         /\ (a \div L <= k) <=> (a < k * L + L)
         /\ (k <= a \div L) <=> (k * L <= a)
<1> DEFINE d == a \div L
<1>1. d \in Nat /\ d * L <= a /\ a < d * L + L
  BY Division
<1> HIDE DEF d
<1>2. d * L \in Nat /\ k * L \in Nat
  BY <1>1, Multiples
<1>3. d <= k => d * L <= k * L
  BY <1>1, Multiples
<1>4. k <= d => k * L <= d * L
  BY <1>1, Multiples
<1>5. d < k => d * L + L <= k * L
  BY <1>1, Multiples
<1>6. k < d => k * L + L <= d * L
  BY <1>1, Multiples
<1>7. (d <= k) <=> (a < k * L + L)
  BY <1>1, <1>2, <1>3, <1>6
<1>8. (k <= d) <=> (k * L <= a)
  BY <1>1, <1>2, <1>4, <1>5
<1> QED
  BY <1>1, <1>7, <1>8 DEF d

LEMMA Aligned ==
  ASSUME NEW u \in Nat, NEW L \in Nat \ {0}
  PROVE  (u * L) % L = 0 /\ (u * L) \div L = u
<1> DEFINE a == u * L
<1>1. a \in Nat
  BY Multiples
<1>2. u <= a \div L /\ a \div L <= u /\ a \div L \in Nat
  BY <1>1, Quotient
<1>3. a \div L = u
  BY <1>2
<1>4. a = L * (a \div L) + (a % L) /\ a % L \in Nat
  <2> HIDE DEF a
  <2> QED
    BY <1>1, Z3
<1> QED
  BY <1>3, <1>4, Z3

LEMMA LinknetFacts == Linknet \in Nat \ {0} /\ Bits \in Nat /\ Size[Bits] \in Nat \ {0}
  BY LinknetAssumption, Sizes

\* A network is an aligned range of addresses that does not pass the last one.
LEMMA NetworkFacts ==
  ASSUME NEW n \in Network
  PROVE  /\ n.start \in Nat /\ n.size \in Nat \ {0}
         /\ Broadcast(n) \in Nat /\ n.start <= Broadcast(n) /\ Broadcast(n) < Size[Bits]
         /\ \E k \in 0 .. Bits : n.size = Size[k]
         /\ \E u \in Nat : n.start = u * n.size
<1>1. /\ n.start \in 0 .. Size[Bits] - 1 /\ n.start % n.size = 0
      /\ \E k \in 0 .. Bits : n.size = Size[k]
  BY DEF Network, Address
<1>2. PICK k \in 0 .. Bits : n.size = Size[k]
  BY <1>1
<1>3. n.size \in Nat \ {0} /\ Size[Bits] \in Nat \ {0} /\ Bits \in Nat
  BY <1>2, Sizes, LinknetFacts
<1>4. PICK w \in Nat \ {0} : Size[Bits] = w * n.size
  BY <1>2, <1>3, Sizes
<1>5. n.start \in Nat /\ n.start < Size[Bits]
  BY <1>1, <1>3
<1>6. n.start \div n.size \in Nat /\ n.start = (n.start \div n.size) * n.size
  BY <1>1, <1>3, <1>5, Division
<1>7. PICK u \in Nat : n.start = u * n.size
  BY <1>6
<1>8. u < w
  <2>1. w <= u => w * n.size <= u * n.size
    BY <1>3, Multiples
  <2> QED
    BY <2>1, <1>3, <1>4, <1>5, <1>7
<1>9. u * n.size + n.size <= w * n.size
  BY <1>8, <1>3, Multiples
<1>10. n.start + n.size <= Size[Bits]
  BY <1>4, <1>7, <1>9
<1>11. Broadcast(n) \in Nat /\ n.start <= Broadcast(n) /\ Broadcast(n) < Size[Bits]
  BY <1>3, <1>5, <1>10 DEF Broadcast
<1> QED
  BY <1>1, <1>3, <1>5, <1>7, <1>11

\* What PrefixAllocator::new accepts.
Parent == {n \in Network : n.size >= Linknet}

\* A parent consists of whole linknets.
LEMMA ParentFacts ==
  ASSUME NEW p \in Parent
  PROVE  /\ p \in Network /\ p.start \in Nat /\ p.size \in Nat \ {0}
         /\ Broadcast(p) = p.start + p.size - 1
         /\ Total(p) \in Nat \ {0} /\ p.size = Total(p) * Linknet
         /\ \E u \in Nat : p.start = u * Linknet
<1>1. p \in Network /\ p.size >= Linknet
  BY DEF Parent
<1>2. PICK k \in 0 .. Bits : p.size = Size[k]
  BY <1>1, NetworkFacts
<1>3. PICK j \in 0 .. Bits : Linknet = Size[j]
  BY LinknetAssumption
<1>4. /\ p.start \in Nat /\ p.size \in Nat \ {0} /\ Linknet \in Nat \ {0} /\ Bits \in Nat
      /\ \E u \in Nat : p.start = u * p.size
  BY <1>1, NetworkFacts, LinknetFacts
<1>5. j <= k
  <2>1. k < j => Size[k] < Size[j]
    BY Sizes
  <2> QED
    BY <2>1, <1>1, <1>2, <1>3, <1>4
<1>6. PICK q \in Nat \ {0} : p.size = q * Linknet
  BY <1>2, <1>3, <1>5, Sizes
<1>7. Total(p) = q
  BY <1>4, <1>6, Aligned DEF Total
<1>8. PICK u \in Nat : p.start = u * p.size
  BY <1>4
<1>9. p.start = (u * q) * Linknet /\ u * q \in Nat
  BY <1>4, <1>6, <1>8
<1> QED
  BY <1>1, <1>4, <1>6, <1>7, <1>9 DEF Broadcast

LEMMA ChildFacts ==
  ASSUME NEW p \in Parent, NEW k \in 0 .. Total(p) - 1
  PROVE  /\ k * Linknet \in Nat
         /\ Child(p, k).start = p.start + k * Linknet
         /\ Broadcast(Child(p, k)) = p.start + k * Linknet + Linknet - 1
         /\ p.start <= Child(p, k).start
         /\ Broadcast(Child(p, k)) <= Broadcast(p)
         /\ Child(p, k) \in Network
<1> DEFINE c == Child(p, k)
<1>1. /\ p.start \in Nat /\ p.size \in Nat \ {0} /\ Total(p) \in Nat \ {0} /\ p.size = Total(p) * Linknet
      /\ p \in Network /\ Broadcast(p) = p.start + p.size - 1
      /\ \E u \in Nat : p.start = u * Linknet
  BY ParentFacts
<1>2. Linknet \in Nat \ {0} /\ k \in Nat /\ k < Total(p)
  BY LinknetFacts, <1>1
<1>3. k * Linknet \in Nat /\ k * Linknet + Linknet <= Total(p) * Linknet
  BY <1>1, <1>2, Multiples
<1>4. c.start = p.start + k * Linknet /\ c.size = Linknet
  BY DEF Child
<1>5. Broadcast(c) = p.start + k * Linknet + Linknet - 1
  BY <1>4 DEF Broadcast
<1>6. p.start <= c.start /\ Broadcast(c) <= Broadcast(p)
  BY <1>1, <1>2, <1>3, <1>4, <1>5
<1>7. Broadcast(p) < Size[Bits] /\ Size[Bits] \in Nat
  BY <1>1, NetworkFacts, LinknetFacts
<1>8. c.start \in Address
  BY <1>1, <1>2, <1>3, <1>4, <1>5, <1>6, <1>7 DEF Address
<1>9. c.start % Linknet = 0
  <2>1. PICK u \in Nat : p.start = u * Linknet
    BY <1>1
  <2>2. c.start = (u + k) * Linknet /\ u + k \in Nat
    BY <2>1, <1>2, <1>4
  <2> QED
    BY <2>2, <1>2, Aligned
<1>10. c \in Network
  <2>1. Linknet \in {Size[j] : j \in 0 .. Bits}
    BY LinknetAssumption
  <2>2. c = [start |-> p.start + k * Linknet, size |-> Linknet]
    BY DEF Child
  <2>3. c \in [start : Address, size : {Size[j] : j \in 0 .. Bits}]
    BY <2>1, <2>2, <1>4, <1>8
  <2> QED
    BY <2>3, <1>4, <1>9 DEF Network
<1> QED
  BY <1>3, <1>4, <1>5, <1>6, <1>10

\* The interval of a network lies in the parent and has the linknets that the
\* network overlaps.
LEMMA IntervalFacts ==
  ASSUME NEW p \in Parent, NEW n \in Network, Overlap(n, p)
  PROVE  /\ Interval(p, n) \in Nat \X Nat
         /\ Interval(p, n)[1] <= Interval(p, n)[2]
         /\ Interval(p, n)[2] < Total(p)
         /\ \A k \in 0 .. Total(p) - 1 :
              Interval(p, n)[1] <= k /\ k <= Interval(p, n)[2] <=> Overlap(n, Child(p, k))
<1> DEFINE lo == Larger(n.start, p.start) - p.start
           hi == Smaller(Broadcast(n), Broadcast(p)) - p.start
           L == Linknet
<1>1. /\ p.start \in Nat /\ p.size \in Nat \ {0} /\ Total(p) \in Nat \ {0} /\ p.size = Total(p) * L
      /\ Broadcast(p) = p.start + p.size - 1
  BY ParentFacts
<1>2. L \in Nat \ {0} /\ n.start \in Nat /\ Broadcast(n) \in Nat /\ n.start <= Broadcast(n)
  BY LinknetFacts, NetworkFacts
<1>3. n.start <= Broadcast(p) /\ p.start <= Broadcast(n)
  BY DEF Overlap
<1>4. lo \in Nat /\ hi \in Nat /\ lo <= hi /\ hi <= p.size - 1
  BY <1>1, <1>2, <1>3 DEF Larger, Smaller
<1>5. \A x \in Nat : /\ lo <= x <=> n.start <= p.start + x
                     /\ x <= p.size - 1 => (x <= hi <=> p.start + x <= Broadcast(n))
  BY <1>1, <1>2, <1>3 DEF Larger, Smaller
<1>6. Interval(p, n) = <<lo \div L, hi \div L>>
  BY DEF Interval
<1> HIDE DEF lo, hi
<1>7. lo \div L \in Nat /\ hi \div L \in Nat
  BY <1>2, <1>4, Division
<1>8. lo \div L <= hi \div L
  <2>1. hi < (hi \div L) * L + L /\ (hi \div L) * L \in Nat
    BY <1>2, <1>4, <1>7, Division, Multiples
  <2>2. lo < (hi \div L) * L + L
    BY <2>1, <1>2, <1>4
  <2> QED
    BY <2>2, <1>2, <1>4, <1>7, Quotient
<1>9. hi \div L < Total(p)
  <2>1. ~(Total(p) * L <= hi)
    BY <1>1, <1>4
  <2>2. ~(Total(p) <= hi \div L)
    BY <2>1, <1>1, <1>2, <1>4, Quotient
  <2> QED
    BY <2>2, <1>1, <1>7
<1>10. ASSUME NEW k \in 0 .. Total(p) - 1
       PROVE  lo \div L <= k /\ k <= hi \div L <=> Overlap(n, Child(p, k))
  <2>1. /\ k \in Nat /\ k * L \in Nat /\ k * L + L <= Total(p) * L
    BY <1>1, <1>2, Multiples
  <2>2. /\ lo \div L <= k <=> lo < k * L + L
        /\ k <= hi \div L <=> k * L <= hi
    BY <2>1, <1>2, <1>4, Quotient
  <2>3. lo < k * L + L <=> n.start <= p.start + k * L + L - 1
    <3>1. k * L + L - 1 \in Nat
      BY <2>1, <1>2
    <3>2. lo <= k * L + L - 1 <=> n.start <= p.start + (k * L + L - 1)
      BY <3>1, <1>5
    <3> QED
      BY <3>1, <3>2, <2>1, <1>1, <1>2, <1>4
  <2>4. k * L <= hi <=> p.start + k * L <= Broadcast(n)
    <3>1. k * L <= p.size - 1
      BY <2>1, <1>1, <1>2
    <3> QED
      BY <3>1, <2>1, <1>5
  <2>5. /\ Child(p, k).start = p.start + k * L
        /\ Broadcast(Child(p, k)) = p.start + k * L + L - 1
    BY ChildFacts
  <2> QED
    BY <2>2, <2>3, <2>4, <2>5 DEF Overlap
<1> QED
  BY <1>6, <1>7, <1>8, <1>9, <1>10

\* occupied_prefix_intervals has exactly the linknets that a stored network overlaps.
LEMMA OccupiedFacts ==
  ASSUME NEW p \in Parent, NEW occupied \in SUBSET Network, IsFiniteSet(occupied)
  PROVE  LET iv == OccupiedIntervals(p, occupied)
         IN /\ Ordered(iv)
            /\ \A n \in 1 .. Len(iv) : iv[n][2] < Total(p)
            /\ \A k \in 0 .. Total(p) - 1 :
                 Covers(iv, Len(iv), k) <=> \E n \in occupied : Overlap(n, Child(p, k))
<1> DEFINE iv == OccupiedIntervals(p, occupied)
           touching == {m \in occupied : Overlap(m, p)}
           S == {Interval(p, n) : n \in touching}
           f == [n \in touching |-> Interval(p, n)]
           N == Cardinality(S)
<1>1. S \in SUBSET (Nat \X Nat)
  BY IntervalFacts
<1>2. IsFiniteSet(S)
  <2>1. touching \in SUBSET occupied
    OBVIOUS
  <2>2. IsFiniteSet(touching)
    BY <2>1, FS_Subset
  <2>3. f \in Surjection(touching, S)
    BY DEF Surjection
  <2> HIDE DEF f, S, touching
  <2> QED
    BY <2>2, <2>3, FS_Surjection
<1>3. iv = Sorted(S)
  BY DEF OccupiedIntervals
<1> HIDE DEF iv, S
<1>4. /\ N \in Nat /\ iv \in [1 .. N -> S]
      /\ \A i \in S : \E n \in 1 .. N : iv[n] = i
      /\ \A m, n \in 1 .. N : m <= n => iv[m][1] <= iv[n][1]
  BY <1>1, <1>2, <1>3, SortedFacts
<1>5. iv \in Seq(Nat \X Nat) /\ Len(iv) = N
  <2>1. iv \in [1 .. N -> Nat \X Nat]
    BY <1>1, <1>4
  <2> QED
    BY <2>1, <1>4
<1>6. ASSUME NEW n \in 1 .. N PROVE \E m \in occupied : Overlap(m, p) /\ iv[n] = Interval(p, m)
  BY <1>4 DEF S
<1>7. \A n \in 1 .. N : iv[n][1] <= iv[n][2] /\ iv[n][2] < Total(p)
  BY <1>6, IntervalFacts
<1>8. Ordered(iv)
  BY <1>4, <1>5, <1>7 DEF Ordered
<1>9. ASSUME NEW k \in 0 .. Total(p) - 1
      PROVE  Covers(iv, N, k) <=> \E n \in occupied : Overlap(n, Child(p, k))
  <2>1. ASSUME Covers(iv, N, k) PROVE \E n \in occupied : Overlap(n, Child(p, k))
    <3>1. PICK n \in 1 .. N : iv[n][1] <= k /\ k <= iv[n][2]
      BY <2>1 DEF Covers
    <3>2. PICK m \in occupied : Overlap(m, p) /\ iv[n] = Interval(p, m)
      BY <1>6
    <3>3. Overlap(m, Child(p, k))
      BY <3>1, <3>2, IntervalFacts
    <3> QED
      BY <3>3
  <2>2. ASSUME NEW m \in occupied, Overlap(m, Child(p, k)) PROVE Covers(iv, N, k)
    <3>1. /\ m \in Network /\ m.start \in Nat /\ Broadcast(m) \in Nat
          /\ p.start \in Nat /\ p.size \in Nat \ {0} /\ Linknet \in Nat \ {0}
      BY NetworkFacts, ParentFacts, LinknetFacts
    <3>2. Overlap(m, p)
      <4>1. /\ k * Linknet \in Nat
            /\ Child(p, k).start = p.start + k * Linknet
            /\ Broadcast(Child(p, k)) = p.start + k * Linknet + Linknet - 1
            /\ p.start <= Child(p, k).start
            /\ Broadcast(Child(p, k)) <= Broadcast(p)
        BY ChildFacts
      <4>2. Broadcast(p) = p.start + p.size - 1
        BY ParentFacts
      <4>3. m.start <= Broadcast(Child(p, k)) /\ Child(p, k).start <= Broadcast(m)
        BY <2>2 DEF Overlap
      <4> QED
        BY <3>1, <4>1, <4>2, <4>3 DEF Overlap
    <3>3. Interval(p, m)[1] <= k /\ k <= Interval(p, m)[2]
      BY <2>2, <3>1, <3>2, IntervalFacts
    <3>4. PICK n \in 1 .. N : iv[n] = Interval(p, m)
      BY <1>4, <3>2 DEF S
    <3> QED
      BY <3>3, <3>4 DEF Covers
  <2> QED
    BY <2>1, <2>2
<1> QED
  BY <1>5, <1>7, <1>8, <1>9 DEF iv

(***************************************************************************)
(* The prefix in use.                                                      *)
(***************************************************************************)
\* The cursor, when there is one, is a linknet of the parent.
CursorOK == cursor # NoNetwork =>
  cursor \in Network /\ Broadcast(cursor) \in parent.start .. Broadcast(parent)

LinknetInv ==
  /\ parent \in Parent
  /\ nets \in SUBSET Network /\ IsFiniteSet(nets)
  /\ CursorOK

\* The free linknets are those that no interval has.
LEMMA FreeFacts ==
  ASSUME LinknetInv
  PROVE  LET iv == OccupiedIntervals(parent, nets)
         IN FreeIndexes = {k \in 0 .. Total(parent) - 1 : ~Covers(iv, Len(iv), k)}
  BY OccupiedFacts DEF FreeIndexes, LinknetInv

LEMMA CapacityExact == LinknetInv => CapacityIsExact
<1> SUFFICES ASSUME LinknetInv PROVE CapacityIsExact
  OBVIOUS
<1> DEFINE iv == OccupiedIntervals(parent, nets)
           N == Len(iv)
           all == 0 .. Total(parent) - 1
           taken == Taken(iv, N, Total(parent))
<1>1. parent \in Parent /\ Total(parent) \in Nat \ {0}
  BY ParentFacts DEF LinknetInv
<1>2. Ordered(iv) /\ \A n \in 1 .. N : iv[n][2] < Total(parent)
  BY OccupiedFacts DEF LinknetInv
<1>3. FreeIndexes = all \ taken /\ taken \in SUBSET all
  BY FreeFacts DEF Taken
<1>4. IsFiniteSet(all) /\ Cardinality(all) = Total(parent)
  <2>1. 0 \in Int /\ Total(parent) - 1 \in Int /\ ~(0 > Total(parent) - 1)
    BY <1>1
  <2>2. IsFiniteSet(all) /\ Cardinality(all) = (Total(parent) - 1) - 0 + 1
    BY <2>1, FS_Interval, Zenon
  <2> QED
    BY <2>2, <1>1
<1>5. IsFiniteSet(taken) /\ Cardinality(taken) \in Nat
  <2> HIDE DEF taken, all
  <2> QED
    BY <1>3, <1>4, FS_Subset, FS_CardinalityType
<1>6. Cardinality(FreeIndexes) = Total(parent) - Cardinality(taken)
  <2>1. all \cap taken = taken
    BY <1>3
  <2> HIDE DEF taken, all
  <2>2. Cardinality(all \ taken) = Cardinality(all) - Cardinality(all \cap taken)
    BY <1>4, FS_Difference
  <2> QED
    BY <2>1, <2>2, <1>3, <1>4
<1>7. OccupiedCount(parent, nets) = Cardinality(taken)
  <2>1. CASE iv = << >>
    <3>1. taken = {}
      BY <2>1 DEF Taken, Covers
    <3> QED
      BY <2>1, <3>1, FS_EmptySet DEF OccupiedCount
  <2>2. CASE iv # << >>
    <3>1. Len(iv) > 0
      BY <1>2, <2>2 DEF Ordered
    <3>2. LET last == Runs(iv)[Len(iv)]
          IN last.sum + last.end - last.start + 1 = Cardinality(taken)
      BY <1>1, <1>2, <3>1, RunsFacts
    <3> QED
      BY <2>2, <3>2 DEF OccupiedCount
  <2> QED
    BY <2>1, <2>2
<1> QED
  BY <1>1, <1>5, <1>6, <1>7 DEF CapacityIsExact

\* The search starts behind the cursor's linknet, or at the beginning when that
\* one is the last.
LEMMA StartFacts ==
  ASSUME LinknetInv
  PROVE  LET T == Total(parent)
             passed == IF cursor = NoNetwork THEN {}
                       ELSE {k \in 0 .. T - 1 : Child(parent, k).start <= Broadcast(cursor)}
             start == StartIndex(parent, cursor)
         IN /\ start \in 0 .. T - 1
            /\ \/ passed = {} /\ start = 0
               \/ passed = 0 .. T - 1 /\ start = 0
               \/ passed = 0 .. start - 1 /\ start > 0
<1> DEFINE T == Total(parent)
           passed == IF cursor = NoNetwork THEN {}
                     ELSE {k \in 0 .. T - 1 : Child(parent, k).start <= Broadcast(cursor)}
           start == StartIndex(parent, cursor)
           x == Broadcast(cursor) - parent.start
           d == x \div Linknet
<1>1. /\ parent \in Parent /\ T \in Nat \ {0} /\ parent.start \in Nat /\ parent.size = T * Linknet
      /\ parent.size \in Nat \ {0}
      /\ Broadcast(parent) = parent.start + parent.size - 1 /\ Linknet \in Nat \ {0}
  BY ParentFacts, LinknetFacts DEF LinknetInv
<1>2. CASE cursor = NoNetwork
  BY <1>1, <1>2 DEF StartIndex
<1>3. CASE cursor # NoNetwork
  <2>1. Broadcast(cursor) \in Nat /\ Broadcast(cursor) \in parent.start .. Broadcast(parent)
    BY <1>3, NetworkFacts DEF LinknetInv, CursorOK
  <2>2. x \in Nat /\ x < T * Linknet
    BY <2>1, <1>1
  <2>3. d \in Nat /\ d < T
    <3>1. d \in Nat /\ ~(T <= d)
      BY <2>2, <1>1, Quotient
    <3> QED
      BY <3>1, <1>1
  <2>4. start = (d + 1) % T
    BY <1>3, <2>1 DEF StartIndex
  <2>5. ASSUME NEW k \in 0 .. T - 1 PROVE k \in passed <=> k <= d
    <3>1. k \in Nat /\ k * Linknet \in Nat /\ Child(parent, k).start = parent.start + k * Linknet
      BY <1>1, ChildFacts
    <3>2. k <= d <=> k * Linknet <= x
      BY <3>1, <2>2, <1>1, Quotient
    <3>3. k * Linknet <= x <=> parent.start + k * Linknet <= Broadcast(cursor)
      BY <3>1, <2>1, <1>1
    <3> QED
      BY <1>3, <3>1, <3>2, <3>3
  <2>6. passed \subseteq 0 .. T - 1
    BY <1>3
  <2> HIDE DEF passed, start, d, T
  <2>7. CASE d + 1 = T
    <3>1. start = 0
      <4>1. T % T = 0
        <5>1. (1 * T) % T = 0
          BY <1>1, Aligned
        <5> QED
          BY <5>1, <1>1
      <4> QED
        BY <4>1, <2>7, <2>4
    <3>2. passed = 0 .. T - 1
      <4>1. \A k \in 0 .. T - 1 : k <= d
        BY <2>3, <2>7, <1>1
      <4>2. \A k \in 0 .. T - 1 : k \in passed
        BY <4>1, <2>5
      <4> QED
        BY <4>2, <2>6
    <3> QED
      BY <3>1, <3>2, <1>1 DEF passed, start, T
  <2>8. CASE d + 1 < T
    <3>1. start = d + 1
      BY <2>3, <2>4, <2>8, <1>1, Z3
    <3>2. passed = 0 .. start - 1
      <4>1. \A k : k \in 0 .. start - 1 <=> k \in 0 .. T - 1 /\ k <= d
        BY <3>1, <2>3, <2>8, <1>1
      <4>2. \A k : k \in passed <=> k \in 0 .. T - 1 /\ k <= d
        BY <2>5, <2>6
      <4> QED
        BY <4>1, <4>2
    <3> QED
      BY <3>1, <3>2, <2>3, <2>8, <1>1 DEF passed, start, T
  <2> QED
    BY <2>3, <2>7, <2>8, <1>1
<1> QED
  BY <1>2, <1>3

\* NextFree, for any place to start: the first free index from there on, else the
\* first one before it.
LEMMA NextFreeFacts ==
  ASSUME LinknetInv
  PROVE  LET start == StartIndex(parent, cursor)
             next == NextFree(parent, nets, cursor)
         IN \/ FreeIndexes = {} /\ next = NoIndex
            \/ /\ next \in FreeIndexes
               /\ next >= start => \A k \in FreeIndexes : k >= start => next <= k
               /\ next < start => \A k \in FreeIndexes : k < start /\ next <= k
<1> DEFINE start == StartIndex(parent, cursor)
           next == NextFree(parent, nets, cursor)
           T == Total(parent)
           iv == OccupiedIntervals(parent, nets)
           free(a, b) == {k \in a .. b : ~Covers(iv, Len(iv), k)}
           ahead == FirstUnoccupied(iv, start, T - 1)
           behind == FirstUnoccupied(iv, 0, start - 1)
<1>1. T \in Nat \ {0} /\ start \in 0 .. T - 1 /\ T - 1 \in Nat /\ start \in Nat
  <2>1. T \in Nat \ {0} /\ start \in 0 .. T - 1
    BY ParentFacts, StartFacts DEF LinknetInv
  <2> QED
    BY <2>1
<1>2. Ordered(iv) /\ FreeIndexes = free(0, T - 1)
  BY OccupiedFacts, FreeFacts DEF LinknetInv
<1>3. \/ free(start, T - 1) = {} /\ ahead = NoIndex
      \/ ahead \in free(start, T - 1) /\ \A k \in free(start, T - 1) : ahead <= k
  BY <1>1, <1>2, FirstUnoccupiedFacts
<1>4. start > 0 => \/ free(0, start - 1) = {} /\ behind = NoIndex
                   \/ behind \in free(0, start - 1) /\ \A k \in free(0, start - 1) : behind <= k
  <2> SUFFICES ASSUME start > 0 PROVE \/ free(0, start - 1) = {} /\ behind = NoIndex
                                      \/ /\ behind \in free(0, start - 1)
                                         /\ \A k \in free(0, start - 1) : behind <= k
    OBVIOUS
  <2>1. start - 1 \in Nat /\ 0 \in Nat
    BY <1>1
  <2> QED
    BY <2>1, <1>2, FirstUnoccupiedFacts
<1>5. NoIndex \notin Nat
  BY LinknetAssumption
<1>6. next = IF ahead # NoIndex THEN ahead ELSE IF start = 0 THEN NoIndex ELSE behind
  BY DEF NextFree
<1> HIDE DEF start, next, T, iv, ahead, behind
<1>7. CASE free(start, T - 1) # {}
  <2>1. /\ ahead \in start .. T - 1 /\ ahead \in Nat /\ ahead \in FreeIndexes
        /\ \A k \in FreeIndexes : k >= start => ahead <= k
    BY <1>1, <1>2, <1>3, <1>7
  <2>2. next = ahead
    BY <2>1, <1>5, <1>6
  <2> QED
    BY <2>1, <2>2, <1>1 DEF start, next
<1>8. CASE free(start, T - 1) = {} /\ start = 0
  <2>1. FreeIndexes = {}
    BY <1>2, <1>8
  <2>2. ahead = NoIndex
    BY <1>3, <1>8
  <2> QED
    BY <2>1, <2>2, <1>6, <1>8 DEF next
<1>9. CASE free(start, T - 1) = {} /\ start > 0
  <2>1. FreeIndexes = free(0, start - 1)
    BY <1>1, <1>2, <1>9
  <2>2. ahead = NoIndex
    BY <1>3, <1>9
  <2>3. next = behind
    BY <2>2, <1>1, <1>6, <1>9
  <2>4. CASE free(0, start - 1) = {}
    BY <2>1, <2>3, <2>4, <1>4, <1>9 DEF next
  <2>5. CASE free(0, start - 1) # {}
    <3>1. behind \in free(0, start - 1) /\ \A k \in free(0, start - 1) : behind <= k
      BY <2>5, <1>4, <1>9
    <3>2. behind < start /\ behind \in Nat /\ \A k \in free(0, start - 1) : k < start
      BY <3>1, <1>1
    <3> QED
      BY <2>1, <2>3, <3>1, <3>2, <1>1 DEF next, start
  <2> QED
    BY <2>4, <2>5
<1> QED
  BY <1>1, <1>7, <1>8, <1>9

LEMMA NextFreeFirst == LinknetInv => NextFreeIsFirstAfterCursor
<1> SUFFICES ASSUME LinknetInv PROVE NextFreeIsFirstAfterCursor
  OBVIOUS
<1> DEFINE T == Total(parent)
           passed == IF cursor = NoNetwork THEN {}
                     ELSE {k \in 0 .. T - 1 : Child(parent, k).start <= Broadcast(cursor)}
           distance(k) == IF k \in passed THEN k + T ELSE k
           start == StartIndex(parent, cursor)
           next == NextFree(parent, nets, cursor)
<1>1. T \in Nat \ {0} /\ FreeIndexes \subseteq 0 .. T - 1
  BY ParentFacts DEF LinknetInv, FreeIndexes
<1>2. /\ start \in 0 .. T - 1
      /\ \/ passed = {} /\ start = 0
         \/ passed = 0 .. T - 1 /\ start = 0
         \/ passed = 0 .. start - 1 /\ start > 0
  BY StartFacts
<1>3. \/ FreeIndexes = {} /\ next = NoIndex
      \/ /\ next \in FreeIndexes
         /\ next >= start => \A k \in FreeIndexes : k >= start => next <= k
         /\ next < start => \A k \in FreeIndexes : k < start /\ next <= k
  BY NextFreeFacts
<1>4. SUFFICES next = IF FreeIndexes = {} THEN NoIndex
                      ELSE CHOOSE k \in FreeIndexes :
                             \A j \in FreeIndexes : distance(k) <= distance(j)
  BY DEF NextFreeIsFirstAfterCursor
<1> HIDE DEF T, passed, start, next
<1>5. CASE FreeIndexes = {}
  BY <1>3, <1>5
<1>6. CASE FreeIndexes # {}
  <2>1. next \in FreeIndexes /\ next \in 0 .. T - 1
    BY <1>1, <1>3, <1>6
  <2>2. ASSUME NEW j \in FreeIndexes PROVE distance(next) <= distance(j)
    <3>1. j \in 0 .. T - 1
      BY <1>1
    <3>2. CASE passed = {} /\ start = 0
      BY <2>1, <3>1, <3>2, <1>1, <1>3
    <3>3. CASE passed = 0 .. T - 1 /\ start = 0
      BY <2>1, <3>1, <3>3, <1>1, <1>3
    <3>4. CASE passed = 0 .. start - 1 /\ start > 0
      <4>1. start \in Nat /\ T \in Nat /\ start < T /\ next \in Nat /\ j \in Nat
        BY <1>1, <1>2, <2>1, <3>1
      <4>2. \A k \in Nat : k \in passed <=> k < start
        BY <3>4, <4>1
      <4> QED
        BY <2>1, <3>1, <4>1, <4>2, <1>3
    <3> QED
      BY <3>2, <3>3, <3>4, <1>2
  <2>3. ASSUME NEW k \in FreeIndexes, \A j \in FreeIndexes : distance(k) <= distance(j)
        PROVE  k = next
    <3>1. k \in 0 .. T - 1
      BY <1>1
    <3>2. distance(k) <= distance(next) /\ distance(next) <= distance(k)
      BY <2>1, <2>2, <2>3
    <3> QED
      BY <2>1, <3>1, <3>2, <1>1
  <2> HIDE DEF distance
  <2>4. (CHOOSE k \in FreeIndexes : \A j \in FreeIndexes : distance(k) <= distance(j)) = next
    BY <2>1, <2>2, <2>3
  <2> QED
    BY <2>4, <1>6
<1> QED
  BY <1>5, <1>6

LEMMA InitLinknet == Init => LinknetInv
  BY FS_EmptySet DEF Init, LinknetInv, CursorOK, Parent

\* A linknet that begins in the parent ends there: both are aligned.
LEMMA DesiredFits ==
  ASSUME NEW p \in Parent, NEW n \in Network, n.size = Linknet,
         n.start \in p.start .. Broadcast(p)
  PROVE  Broadcast(n) \in p.start .. Broadcast(p)
<1>1. /\ p.start \in Nat /\ p.size = Total(p) * Linknet /\ Total(p) \in Nat \ {0}
      /\ Broadcast(p) = p.start + p.size - 1 /\ Linknet \in Nat \ {0}
      /\ p.size \in Nat \ {0}
  BY ParentFacts, LinknetFacts
<1>2. PICK u \in Nat : p.start = u * Linknet
  BY ParentFacts
<1>3. PICK v \in Nat : n.start = v * Linknet
  BY NetworkFacts
<1> DEFINE w == u + Total(p)
<1>4. w \in Nat /\ w * Linknet = p.start + p.size
  BY <1>1, <1>2
<1>5. n.start \in Nat /\ p.start <= n.start /\ n.start < w * Linknet
  BY <1>1, <1>3, <1>4, NetworkFacts
<1> HIDE DEF w
<1>6. v < w
  <2>1. w <= v => w * Linknet <= v * Linknet
    BY <1>1, <1>4, Multiples
  <2> QED
    BY <2>1, <1>1, <1>3, <1>4, <1>5
<1>7. v * Linknet + Linknet <= w * Linknet
  BY <1>1, <1>4, <1>6, Multiples
<1>8. n.start + Linknet <= p.start + p.size
  BY <1>3, <1>4, <1>7
<1> QED
  BY <1>1, <1>5, <1>8 DEF Broadcast

LEMMA StoreKeeps ==
  ASSUME LinknetInv, NEW n \in Network, Store(n),
         Broadcast(n) \in parent.start .. Broadcast(parent)
  PROVE  LinknetInv'
<1>1. IsFiniteSet(nets')
  BY FS_AddElement DEF LinknetInv, Store
<1> QED
  BY <1>1 DEF LinknetInv, CursorOK, Store

\* A linknet that the search returns is one of the parent and overlaps nothing.
LEMMA NextIsFree ==
  ASSUME LinknetInv, NextFree(parent, nets, cursor) # NoIndex
  PROVE  LET n == Child(parent, NextFree(parent, nets, cursor))
         IN /\ n \in Network
            /\ Broadcast(n) \in parent.start .. Broadcast(parent)
            /\ \A m \in nets : ~Overlap(m, n)
<1> DEFINE k == NextFree(parent, nets, cursor)
           n == Child(parent, k)
<1>1. k \in FreeIndexes
  BY NextFreeFacts
<1> HIDE DEF k
<1>2. k \in 0 .. Total(parent) - 1 /\ \A m \in nets : ~Overlap(m, n)
  BY <1>1 DEF FreeIndexes
<1>3. /\ n \in Network /\ parent.start <= n.start /\ Broadcast(n) <= Broadcast(parent)
      /\ parent.start \in Nat /\ n.start \in Nat /\ n.start <= Broadcast(n)
      /\ Broadcast(n) \in Nat /\ Broadcast(parent) \in Nat
  BY <1>2, ChildFacts, NetworkFacts, ParentFacts DEF LinknetInv
<1> QED
  BY <1>2, <1>3 DEF k

LEMMA NextLinknet == LinknetInv /\ [Next]_vars => LinknetInv'
<1> SUFFICES ASSUME LinknetInv, [Next]_vars PROVE LinknetInv'
  OBVIOUS
<1>1. CASE Allocate
  BY <1>1, NextIsFree, StoreKeeps DEF Allocate
<1>2. ASSUME NEW n \in Network, AllocateDesired(n) PROVE LinknetInv'
  <2>1. Broadcast(n) \in parent.start .. Broadcast(parent)
    BY <1>2, DesiredFits DEF AllocateDesired, LinknetInv
  <2> QED
    BY <1>2, <2>1, StoreKeeps DEF AllocateDesired
<1>3. ASSUME NEW n \in Network, InsertDirect(n) PROVE LinknetInv'
  <2>1. IsFiniteSet(nets')
    BY <1>3, FS_AddElement DEF LinknetInv, InsertDirect
  <2> QED
    BY <1>3, <2>1 DEF LinknetInv, CursorOK, InsertDirect
<1>4. ASSUME NEW n \in Network, Free(n) PROVE LinknetInv'
  <2>1. IsFiniteSet(nets')
    BY <1>4, FS_RemoveElement DEF LinknetInv, Free
  <2> QED
    BY <1>4, <2>1 DEF LinknetInv, CursorOK, Free
<1>5. CASE UNCHANGED vars
  BY <1>5 DEF LinknetInv, CursorOK, vars
<1> QED
  BY <1>1, <1>2, <1>3, <1>4, <1>5 DEF Next

LEMMA LinknetInvariant == Spec => []LinknetInv
  BY InitLinknet, NextLinknet, PTL DEF Spec

\* next_free_prefix returns the first free linknet behind the cursor in cyclic
\* order, and none only if none is free, whatever networks are stored: broader than
\* the parent, narrower than a linknet, at its ends, or many in one linknet.
THEOREM NextFit == Spec => []NextFreeIsFirstAfterCursor
  BY LinknetInvariant, NextFreeFirst, PTL

\* The capacity that update_stats computes from occupied_prefix_count is the number
\* of linknets that next_free_prefix can still give out.
THEOREM Capacity == Spec => []CapacityIsExact
  BY LinknetInvariant, CapacityExact, PTL

\* No two stored networks have an address in common.
NetworksAreDisjoint == \A m, n \in nets : m # n => ~Overlap(m, n)

\* A linknet that next_free_prefix returns is stored without another look at the
\* networks, and overlaps none of them: the exclusion constraint on network_prefixes
\* (network_prefixes_prefix_excl) is left to stop other writers.
THEOREM DisjointNetworks == Spec => []NetworksAreDisjoint
<1>1. Init => NetworksAreDisjoint
  BY DEF Init, NetworksAreDisjoint
<1>2. LinknetInv /\ NetworksAreDisjoint /\ [Next]_vars => NetworksAreDisjoint'
  <2> SUFFICES ASSUME LinknetInv, NetworksAreDisjoint, [Next]_vars PROVE NetworksAreDisjoint'
    OBVIOUS
  <2>1. ASSUME NEW n, nets' = nets \cup {n}, \A m \in nets : ~Overlap(m, n)
        PROVE  NetworksAreDisjoint'
    BY <2>1 DEF NetworksAreDisjoint, Overlap
  <2>2. CASE Allocate
    BY <2>1, <2>2, NextIsFree DEF Allocate, Store
  <2>3. ASSUME NEW n \in Network, AllocateDesired(n) \/ InsertDirect(n)
        PROVE  NetworksAreDisjoint'
    BY <2>1, <2>3 DEF AllocateDesired, InsertDirect, Store
  <2>4. ASSUME NEW n \in Network, Free(n) PROVE NetworksAreDisjoint'
    BY <2>4 DEF Free, NetworksAreDisjoint
  <2>5. CASE UNCHANGED vars
    BY <2>5 DEF vars, NetworksAreDisjoint
  <2> QED
    BY <2>2, <2>3, <2>4, <2>5 DEF Next
<1> QED
  BY <1>1, <1>2, LinknetInvariant, PTL DEF Spec
=============================================================================
