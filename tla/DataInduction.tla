---------------------------- MODULE DataInduction ----------------------------
(***************************************************************************)
(* Facts about numbers and finite sets the other proofs rest on: a set of  *)
(* numbers has a least member, a bounded one a greatest.  The library's    *)
(* principle of induction takes a predicate as a parameter; the least      *)
(* counterexample that LeastNumber picks replaces it wherever a fact about *)
(* a sequence or a recursive function is proved by induction.  Two uses of *)
(* it are general: the sums behind a check digit, and the table of edit    *)
(* distances.                                                              *)
(***************************************************************************)
EXTENDS Integers, FiniteSetTheorems, TLAPS

(* Every non-empty set of natural numbers has a least member.              *)
LEMMA LeastNumber ==
  ASSUME NEW T \in SUBSET Nat, T # {}
  PROVE  \E n \in T : \A m \in T : n <= m
<1> DEFINE Below == {0 .. n - 1 : n \in T}
<1>1. Below \subseteq FiniteSubsetsOf(Nat) /\ Below # {}
  <2>1. \A n \in T : 0 .. n - 1 \in SUBSET Nat /\ IsFiniteSet(0 .. n - 1)
    BY FS_Interval
  <2>. QED BY <2>1 DEF FiniteSubsetsOf
<1>2. PICK B \in Below : \A C \in Below : <<C, B>> \notin StrictSubsetOrdering(Nat)
  <2> HIDE DEF Below
  <2>. QED BY <1>1, FS_StrictSubsetOrderingWellFounded, WFMin
<1>3. PICK n \in T : B = 0 .. n - 1
  OBVIOUS
<1>4. ASSUME NEW m \in T, m < n PROVE FALSE
  <2>1. 0 .. m - 1 \in Below /\ 0 .. m - 1 \in SUBSET Nat /\ 0 .. n - 1 \in SUBSET Nat
    OBVIOUS
  <2>2. 0 .. m - 1 \subseteq 0 .. n - 1 /\ m \in 0 .. n - 1 /\ m \notin 0 .. m - 1
    BY <1>4
  <2>3. <<0 .. m - 1, 0 .. n - 1>> \in StrictSubsetOrdering(Nat)
    BY <2>1, <2>2 DEF StrictSubsetOrdering
  <2>. QED BY <1>2, <1>3, <2>1, <2>3
<1>. QED BY <1>4

(* Every non-empty set of natural numbers under a bound has a greatest.    *)
LEMMA GreatestNumber ==
  ASSUME NEW b \in Nat, NEW T \in SUBSET (0 .. b), T # {}
  PROVE  \E n \in T : \A m \in T : m <= n
<1> DEFINE Depths == {b - n : n \in T}
<1>0. \A n \in T : n \in Nat /\ n <= b
  OBVIOUS
<1>1. Depths \in SUBSET Nat /\ Depths # {}
  <2>1. PICK n \in T : TRUE
    OBVIOUS
  <2>2. b - n \in Depths
    OBVIOUS
  <2>3. \A n1 \in T : b - n1 \in Nat
    BY <1>0
  <2>. QED BY <2>2, <2>3
<1>2. PICK d \in Depths : \A e \in Depths : d <= e
  <2> HIDE DEF Depths
  <2>. QED BY <1>1, LeastNumber
<1>3. PICK n \in T : d = b - n
  OBVIOUS
<1>4. ASSUME NEW m \in T PROVE m <= n
  <2>1. b - m \in Depths /\ m \in Nat /\ n \in Nat
    BY <1>0
  <2>2. b - n <= b - m
    BY <1>2, <1>3, <2>1
  <2>. QED BY <2>1, <2>2
<1>. QED BY <1>4

(* Induction, with the set of the numbers that have the property for the   *)
(* predicate.                                                              *)
LEMMA Induction ==
  ASSUME NEW n \in Nat, NEW P, 0 \in P, \A i \in 1 .. n : i - 1 \in P => i \in P
  PROVE  \A i \in 0 .. n : i \in P
<1> DEFINE Failing == {i \in 0 .. n : i \notin P}
<1>1. SUFFICES ASSUME Failing # {} PROVE FALSE
  OBVIOUS
<1>2. PICK f \in Failing : \A m \in Failing : f <= m
  <2>1. Failing \in SUBSET Nat
    OBVIOUS
  <2> HIDE DEF Failing
  <2>. QED BY <1>1, <2>1, LeastNumber
<1>3. f \in 1 .. n /\ f - 1 \in 0 .. n /\ ~(f <= f - 1)
  BY <1>2
<1>4. f - 1 \in P
  BY <1>2, <1>3
<1>. QED BY <1>2, <1>3, <1>4

\* The n steps of a computation on S, and its values from a first one.
StepsOn(n, S) == [1 .. n -> [S -> S]]
Computes(g, n, S, a, step) == /\ g \in [0 .. n -> S] /\ g[0] = a
                              /\ \A i \in 1 .. n : g[i] = step[i][g[i - 1]]

(* Recursion along a sequence: what is computed step by step from a first  *)
(* value exists, and stays in the set the steps stay in.                   *)
LEMMA Recursion ==
  ASSUME NEW n \in Nat, NEW S, NEW a \in S, NEW step \in StepsOn(n, S)
  PROVE  \E g : Computes(g, n, S, a, step)
<1>0. step \in [1 .. n -> [S -> S]]
  BY DEF StepsOn
<1> DEFINE Runs(g, m) == /\ g \in [0 .. m -> S] /\ g[0] = a
                         /\ \A i \in 1 .. m : g[i] = step[i][g[i - 1]]
           P == {m \in 0 .. n : \E g : Runs(g, m)}
<1>1. 0 \in P
  <2> DEFINE g == [i \in 0 .. 0 |-> a]
  <2>1. Runs(g, 0)
    OBVIOUS
  <2> HIDE DEF Runs
  <2>. QED BY <2>1
<1>2. ASSUME NEW m \in 1 .. n, m - 1 \in P PROVE m \in P
  <2>1. PICK g : Runs(g, m - 1)
    BY <1>2
  <2> DEFINE v == step[m][g[m - 1]]
             h == [i \in 0 .. m |-> IF i = m THEN v ELSE g[i]]
  <2>2. v \in S
    <3>1. g[m - 1] \in S /\ step[m] \in [S -> S]
      BY <1>0, <2>1
    <3>. QED BY <3>1
  <2>3. h \in [0 .. m -> S] /\ h[0] = a /\ h[m] = v /\ \A i \in 0 .. m - 1 : h[i] = g[i]
    <3> HIDE DEF v
    <3>1. \A i \in 0 .. m : i = m \/ i \in 0 .. m - 1
      OBVIOUS
    <3>. QED BY <2>1, <2>2, <3>1
  <2> HIDE DEF h
  <2>4. ASSUME NEW i \in 1 .. m PROVE h[i] = step[i][h[i - 1]]
    <3>1. CASE i = m
      <4>1. h[m - 1] = g[m - 1]
        BY <2>3
      <4>. QED BY <2>3, <3>1, <4>1
    <3>2. CASE i # m
      <4>1. i \in 1 .. m - 1 /\ i - 1 \in 0 .. m - 1 /\ i \in 0 .. m - 1
        BY <3>2
      <4>2. g[i] = step[i][g[i - 1]] /\ h[i] = g[i] /\ h[i - 1] = g[i - 1]
        BY <2>1, <2>3, <4>1
      <4>. QED BY <4>2
    <3>. QED BY <3>1, <3>2
  <2>5. Runs(h, m)
    BY <2>3, <2>4
  <2> HIDE DEF Runs
  <2>. QED BY <2>5
<1>3. n \in P
  <2>1. \A m \in 1 .. n : m - 1 \in P => m \in P
    BY <1>2
  <2> HIDE DEF P
  <2>2. \A m \in 0 .. n : m \in P
    BY <1>1, <2>1, Induction
  <2>. QED BY <2>2
<1>. QED BY <1>3 DEF Computes

-----------------------------------------------------------------------------
(* Sums.                                                                   *)

\* f runs through the sums of the n numbers of v, and a is the last of them.
RunningSum(f, v, n) == /\ f \in [0 .. n -> Nat] /\ f[0] = 0
                    /\ \A i \in 1 .. n : f[i] = f[i - 1] + v[i]
AddsUp(a, v, n)  == \E f : RunningSum(f, v, n) /\ f[n] = a

\* Two lists that agree but in one place.
SameBut(u, v, n, k) == \A i \in 1 .. n : i = k \/ u[i] = v[i]
Differ(b, u, a, v, k) == b + v[k] = a + u[k]

(* Two lists that differ in one place differ by that much in their sums.   *)
LEMMA OneTermChanged ==
  ASSUME NEW n \in Nat, NEW v \in [1 .. n -> Nat], NEW u \in [1 .. n -> Nat], NEW a, NEW b,
         AddsUp(a, v, n), AddsUp(b, u, n), NEW k \in 1 .. n, SameBut(u, v, n, k)
  PROVE  Differ(b, u, a, v, k)
<1>1. PICK f : RunningSum(f, v, n) /\ f[n] = a
  BY DEF AddsUp
<1>2. PICK g : RunningSum(g, u, n) /\ g[n] = b
  BY DEF AddsUp
<1> DEFINE P == {i \in 0 .. n : IF i < k THEN g[i] = f[i] ELSE g[i] + v[k] = f[i] + u[k]}
<1>3. 0 \in P
  BY <1>1, <1>2 DEF RunningSum
<1>4. ASSUME NEW i \in 1 .. n, i - 1 \in P PROVE i \in P
  <2>1. /\ f[i] = f[i - 1] + v[i] /\ g[i] = g[i - 1] + u[i]
        /\ f[i] \in Nat /\ g[i] \in Nat /\ f[i - 1] \in Nat /\ g[i - 1] \in Nat
        /\ v[i] \in Nat /\ u[i] \in Nat /\ v[k] \in Nat /\ u[k] \in Nat /\ i \in 0 .. n
    <3>1. i \in 0 .. n /\ i - 1 \in 0 .. n
      OBVIOUS
    <3>2. /\ f[i] = f[i - 1] + v[i] /\ f[i] \in Nat /\ f[i - 1] \in Nat
      BY <1>1, <3>1 DEF RunningSum
    <3>3. /\ g[i] = g[i - 1] + u[i] /\ g[i] \in Nat /\ g[i - 1] \in Nat
      BY <1>2, <3>1 DEF RunningSum
    <3>4. v[i] \in Nat /\ u[i] \in Nat /\ v[k] \in Nat /\ u[k] \in Nat
      OBVIOUS
    <3>. QED BY <3>1, <3>2, <3>3, <3>4
  <2>2. i = k \/ u[i] = v[i]
    <3>1. SameBut(u, v, n, k)
      OBVIOUS
    <3>. QED BY <3>1 DEF SameBut
  <2>3. CASE i < k
    BY <1>4, <2>1, <2>2, <2>3
  <2>4. CASE i = k
    BY <1>4, <2>1, <2>4
  <2>5. CASE i > k
    <3>1. i - 1 \in Int /\ k \in Int /\ ~(i - 1 < k) /\ ~(i < k) /\ i # k
      BY <2>5
    <3>2. g[i - 1] + v[k] = f[i - 1] + u[k]
      BY <1>4, <3>1
    <3> DEFINE before == g[i - 1]
               first  == f[i - 1]
    <3>3. g[i] = before + v[i] /\ f[i] = first + v[i] /\ before + v[k] = first + u[k]
      BY <2>1, <2>2, <3>1, <3>2
    <3> DEFINE vi == v[i]
               vk == v[k]
               uk == u[k]
    <3>4. before \in Nat /\ first \in Nat /\ vi \in Nat /\ vk \in Nat /\ uk \in Nat
      BY <2>1
    <3>5. before + vk = first + uk
      BY <3>3
    <3> HIDE DEF before, first, vi, vk, uk
    <3>6. (before + vi) + vk = (first + vi) + uk
      BY <3>4, <3>5
    <3>7. g[i] + v[k] = f[i] + u[k]
      BY <3>3, <3>6 DEF vi, vk, uk
    <3>8. i \in 0 .. n /\ ~(i < k)
      BY <2>1, <3>1
    <3>. QED BY <3>8, <3>7, Zenon
  <2>. QED BY <2>3, <2>4, <2>5
<1>5. n \in P
  <2>1. \A i \in 1 .. n : i - 1 \in P => i \in P
    BY <1>4
  <2> HIDE DEF P
  <2>2. \A i \in 0 .. n : i \in P
    BY <1>3, <2>1, Induction
  <2>. QED BY <2>2
<1>. QED BY <1>1, <1>2, <1>5 DEF Differ

(* A list has one sum.                                                     *)
LEMMA OneSum ==
  ASSUME NEW n \in Nat, NEW v \in [1 .. n -> Nat], NEW a, NEW b, AddsUp(a, v, n), AddsUp(b, v, n)
  PROVE  a = b /\ a \in Nat
<1>1. PICK f : RunningSum(f, v, n) /\ f[n] = a
  BY DEF AddsUp
<1>2. PICK g : RunningSum(g, v, n) /\ g[n] = b
  BY DEF AddsUp
<1> DEFINE P == {i \in 0 .. n : g[i] = f[i]}
<1>3. 0 \in P
  BY <1>1, <1>2 DEF RunningSum
<1>4. \A i \in 1 .. n : i - 1 \in P => i \in P
  BY <1>1, <1>2 DEF RunningSum
<1>5. n \in P
  <2> HIDE DEF P
  <2>2. \A i \in 0 .. n : i \in P
    BY <1>3, <1>4, Induction
  <2>. QED BY <2>2
<1>. QED BY <1>1, <1>2, <1>5 DEF RunningSum

(* Zeroes in front do not change a sum.                                    *)
LEMMA ZeroesInFront ==
  ASSUME NEW n \in Nat, NEW m \in Nat, NEW v \in [1 .. n -> Nat], NEW u \in [1 .. m + n -> Nat],
         NEW a, NEW b, AddsUp(a, v, n), AddsUp(b, u, m + n),
         \A i \in 1 .. m : u[i] = 0, \A i \in 1 .. n : u[m + i] = v[i]
  PROVE  a = b
<1>1. PICK f : RunningSum(f, v, n) /\ f[n] = a
  BY DEF AddsUp
<1>2. PICK g : RunningSum(g, u, m + n) /\ g[m + n] = b
  BY DEF AddsUp
<1> DEFINE P == {i \in 0 .. m : g[i] = 0}
           Q == {i \in 0 .. n : g[m + i] = f[i]}
<1>3. m \in P
  <2>1. 0 \in P
    BY <1>2 DEF RunningSum
  <2>2. \A i \in 1 .. m : i - 1 \in P => i \in P
    <3>1. \A i \in 1 .. m : i \in 1 .. m + n /\ i \in 0 .. m
      OBVIOUS
    <3>. QED BY <1>2, <3>1 DEF RunningSum
  <2> HIDE DEF P
  <2>3. \A i \in 0 .. m : i \in P
    BY <2>1, <2>2, Induction
  <2>. QED BY <2>3
<1>4. n \in Q
  <2>1. 0 \in Q
    BY <1>1, <1>3 DEF RunningSum
  <2>2. ASSUME NEW i \in 1 .. n, i - 1 \in Q PROVE i \in Q
    <3>1. m + i \in 1 .. m + n /\ (m + i) - 1 = m + (i - 1) /\ i \in 0 .. n
      OBVIOUS
    <3>2. g[m + i] = g[m + (i - 1)] + u[m + i] /\ u[m + i] = v[i] /\ f[i] = f[i - 1] + v[i]
      BY <1>1, <1>2, <3>1 DEF RunningSum
    <3>. QED BY <2>2, <3>1, <3>2
  <2>3. \A i \in 1 .. n : i - 1 \in Q => i \in Q
    BY <2>2
  <2> HIDE DEF Q
  <2>4. \A i \in 0 .. n : i \in Q
    BY <2>1, <2>3, Induction
  <2>. QED BY <2>4
<1>. QED BY <1>1, <1>2, <1>4

(* A list of numbers has a sum.                                            *)
LEMMA SumExists ==
  ASSUME NEW n \in Nat, NEW v \in [1 .. n -> Nat]
  PROVE  \E f : RunningSum(f, v, n)
<1> DEFINE step == [i \in 1 .. n |-> [x \in Nat |-> x + v[i]]]
<1>1. step \in StepsOn(n, Nat)
  BY DEF StepsOn
<1>2. \A i \in 1 .. n : \A x \in Nat : step[i][x] = x + v[i]
  OBVIOUS
<1> HIDE DEF step
<1>3. PICK f : Computes(f, n, Nat, 0, step)
  BY <1>1, Recursion
<1>4. \A i \in 1 .. n : f[i - 1] \in Nat
  BY <1>3 DEF Computes
<1>5. f \in [0 .. n -> Nat] /\ f[0] = 0 /\ \A i \in 1 .. n : f[i] = step[i][f[i - 1]]
  BY <1>3 DEF Computes
<1>6. ASSUME NEW i \in 1 .. n PROVE f[i] = f[i - 1] + v[i]
  BY <1>2, <1>4, <1>5
<1>7. RunningSum(f, v, n)
  BY <1>5, <1>6 DEF RunningSum
<1>. QED BY <1>7

(* Two numbers that differ by one to nine, or by three times that, leave   *)
(* different remainders on division by ten.                                *)
LEMMA RemaindersDiffer ==
  ASSUME NEW a \in Nat, NEW b \in Nat, NEW x \in 0 .. 9, NEW y \in 0 .. 9, x # y, NEW w \in {1, 3},
         b + x * w = a + y * w
  PROVE  a % 10 # b % 10
<1>1. CASE w = 1
  BY <1>1
<1>2. CASE w = 3
  <2>1. SUFFICES ASSUME a % 10 = b % 10 PROVE FALSE
    OBVIOUS
  <2> DEFINE p == a \div 10
             q == b \div 10
             d == q - p
  <2>2. a = (10 * p) + (a % 10) /\ b = (10 * q) + (b % 10) /\ p \in Int /\ q \in Int /\ a % 10 \in Int
    OBVIOUS
  <2> HIDE DEF p, q
  <2>3. d \in Int /\ 10 * d = 3 * (y - x)
    BY <1>2, <2>1, <2>2
  <2>4. y - x \in -9 .. 9 /\ y - x # 0
    OBVIOUS
  <2> HIDE DEF d
  <2>5. d \in -2 .. 2
    BY <2>3, <2>4
  <2>6. d \in {-2, -1, 0, 1, 2}
    BY <2>5
  <2>. QED BY <2>3, <2>4, <2>6
<1>. QED BY <1>1, <1>2

-----------------------------------------------------------------------------
(* Tables of distances.                                                    *)

Smaller(x, y) == IF x < y THEN x ELSE y
Lesser(x, y)  == IF x <= y THEN x ELSE y

\* The row after prev: its cell is one more than its neighbours to the left and above, or
\* the one between them where the pair is equal.
Stretch(E, i, j)        == IF <<i, j>> \in E THEN 0 ELSE 1
Cell(left, prev, E, i, j) == Smaller(Smaller(left, prev[i]) + 1, prev[i - 1] + Stretch(E, i, j))
RowAfter(r, prev, E, n, j) == /\ r \in [0 .. n -> Nat] /\ r[0] = j
                              /\ \A i \in 1 .. n : r[i] = Cell(r[i - 1], prev, E, i, j)
FirstRow(n)         == [i \in 0 .. n |-> i]
RowsFrom(g, E, n, m)    == /\ g \in [0 .. m -> [0 .. n -> Nat]] /\ g[0] = FirstRow(n)
                       /\ \A j \in 1 .. m : RowAfter(g[j], g[j - 1], E, n, j)

\* The distances, each from the three before it; a pair that is equal costs nothing.
Grid2(n, m)         == (0 .. n) \X (0 .. m)
Closest(d, E, i, j)    == IF i = 0 \/ j = 0 THEN i + j
                       ELSE IF <<i, j>> \in E THEN d[<<i - 1, j - 1>>]
                       ELSE 1 + Lesser(d[<<i - 1, j - 1>>], Lesser(d[<<i - 1, j>>], d[<<i, j - 1>>]))
Distances(d, E, n, m) == d = [p \in Grid2(n, m) |-> Closest(d, E, p[1], p[2])]

(* The next row exists.                                                    *)
LEMMA NextRow ==
  ASSUME NEW n \in Nat, NEW j \in Nat, NEW E, NEW prev \in [0 .. n -> Nat]
  PROVE  \E r : RowAfter(r, prev, E, n, j)
<1> DEFINE step == [i \in 1 .. n |-> [x \in Nat |-> Cell(x, prev, E, i, j)]]
<1>1. ASSUME NEW i \in 1 .. n, NEW x \in Nat PROVE Cell(x, prev, E, i, j) \in Nat
  <2>1. prev[i] \in Nat /\ prev[i - 1] \in Nat /\ Stretch(E, i, j) \in {0, 1}
    BY DEF Stretch
  <2>. QED BY <2>1 DEF Cell, Smaller
<1>2. step \in StepsOn(n, Nat)
  BY <1>1 DEF StepsOn
<1>3. \A i \in 1 .. n : \A x \in Nat : step[i][x] = Cell(x, prev, E, i, j)
  OBVIOUS
<1> HIDE DEF step
<1>4. PICK r : Computes(r, n, Nat, j, step)
  BY <1>2, Recursion
<1>5. r \in [0 .. n -> Nat] /\ r[0] = j /\ \A i \in 1 .. n : r[i] = step[i][r[i - 1]]
  BY <1>4 DEF Computes
<1>6. ASSUME NEW i \in 1 .. n PROVE r[i] = Cell(r[i - 1], prev, E, i, j)
  <2>1. i - 1 \in 0 .. n /\ r[i - 1] \in Nat
    BY <1>5
  <2>. QED BY <1>3, <1>5, <2>1
<1>7. RowAfter(r, prev, E, n, j)
  BY <1>5, <1>6 DEF RowAfter
<1>. QED BY <1>7

(* Only one row comes after another.                                       *)
LEMMA OneRow ==
  ASSUME NEW n \in Nat, NEW j \in Nat, NEW E, NEW prev, NEW r, NEW s,
         RowAfter(r, prev, E, n, j), RowAfter(s, prev, E, n, j)
  PROVE  r = s
<1> DEFINE P == {i \in 0 .. n : r[i] = s[i]}
<1>1. 0 \in P
  BY DEF RowAfter
<1>2. ASSUME NEW i \in 1 .. n, i - 1 \in P PROVE i \in P
  <2>1. r[i] = Cell(r[i - 1], prev, E, i, j) /\ s[i] = Cell(s[i - 1], prev, E, i, j) /\ i \in 0 .. n
    BY DEF RowAfter
  <2>. QED BY <1>2, <2>1
<1>3. \A i \in 0 .. n : i \in P
  <2>1. \A i \in 1 .. n : i - 1 \in P => i \in P
    BY <1>2
  <2> HIDE DEF P
  <2>. QED BY <1>1, <2>1, Induction
<1>. QED BY <1>3 DEF RowAfter

(* The rows exist.                                                         *)
LEMMA RowsExist ==
  ASSUME NEW n \in Nat, NEW m \in Nat, NEW E
  PROVE  \E g : RowsFrom(g, E, n, m)
<1> DEFINE S == [0 .. n -> Nat]
           After(prev, j) == CHOOSE r : RowAfter(r, prev, E, n, j)
           step == [j \in 1 .. m |-> [prev \in S |-> After(prev, j)]]
<1>1. ASSUME NEW j \in 1 .. m, NEW prev \in S PROVE RowAfter(After(prev, j), prev, E, n, j)
  BY NextRow
<1>2. FirstRow(n) \in S
  BY DEF FirstRow
<1>3. ASSUME NEW j \in 1 .. m, NEW prev \in S PROVE After(prev, j) \in S
  BY <1>1 DEF RowAfter
<1> HIDE DEF After, S
<1>4. step \in StepsOn(m, S)
  BY <1>3 DEF StepsOn
<1>5. \A j \in 1 .. m : \A prev \in S : step[j][prev] = After(prev, j)
  OBVIOUS
<1> HIDE DEF step
<1>6. PICK g : Computes(g, m, S, FirstRow(n), step)
  BY <1>2, <1>4, Recursion
<1>7. g \in [0 .. m -> S] /\ g[0] = FirstRow(n) /\ \A j \in 1 .. m : g[j] = step[j][g[j - 1]]
  BY <1>6 DEF Computes
<1>8. ASSUME NEW j \in 1 .. m PROVE RowAfter(g[j], g[j - 1], E, n, j)
  <2>1. j - 1 \in 0 .. m /\ g[j - 1] \in S
    BY <1>7
  <2>2. g[j] = After(g[j - 1], j)
    BY <1>5, <1>7, <2>1
  <2>. QED BY <1>1, <2>1, <2>2
<1>9. RowsFrom(g, E, n, m)
  BY <1>7, <1>8 DEF RowsFrom, S
<1>. QED BY <1>9

\* Neighbouring cells of a row differ by at most one.
Smooth(r, n) == \A i \in 1 .. n : r[i - 1] <= r[i] + 1 /\ r[i] <= r[i - 1] + 1
\* A row and the next differ by at most one in every cell.
Follows(r, prev, n) == \A i \in 0 .. n : prev[i] <= r[i] + 1 /\ r[i] <= prev[i] + 1

\* A cell is within one of its neighbours, and a distance if they are.
Central(x, left, up, diag, c) ==
  /\ x <= left + 1 /\ left <= x + 1 /\ x <= up + 1 /\ up <= x + 1
  /\ c = 0 => x = diag
  /\ c = 1 => x = 1 + Lesser(diag, Lesser(left, up))

(* A cell between its neighbours.                                          *)
LEMMA CellBetween ==
  ASSUME NEW left \in Nat, NEW up \in Nat, NEW diag \in Nat, NEW c \in {0, 1}, NEW x,
         diag <= left + 1, left <= diag + 1, diag <= up + 1, up <= diag + 1,
         x = Smaller(Smaller(left, up) + 1, diag + c)
  PROVE  Central(x, left, up, diag, c)
BY DEF Smaller, Lesser, Central

LEMMA RowsSmooth ==
  ASSUME NEW n \in Nat, NEW j \in Nat, NEW E, NEW prev \in [0 .. n -> Nat], NEW r,
         RowAfter(r, prev, E, n, j + 1), prev[0] = j, Smooth(prev, n)
  PROVE  Smooth(r, n) /\ Follows(r, prev, n)
<1>0. r \in [0 .. n -> Nat] /\ r[0] = j + 1 /\ \A i \in 1 .. n : r[i] = Cell(r[i - 1], prev, E, i, j + 1)
  BY DEF RowAfter
<1> DEFINE P == {i \in 0 .. n : /\ prev[i] <= r[i] + 1 /\ r[i] <= prev[i] + 1
                                /\ i > 0 => r[i - 1] <= r[i] + 1 /\ r[i] <= r[i - 1] + 1}
<1>1. 0 \in P
  BY <1>0
<1>2. ASSUME NEW i \in 1 .. n, i - 1 \in P PROVE i \in P
  <2> DEFINE left == r[i - 1]
             up == prev[i]
             diag == prev[i - 1]
             c == Stretch(E, i, j + 1)
             x == r[i]
  <2>1. left \in Nat /\ up \in Nat /\ diag \in Nat /\ c \in {0, 1}
    BY <1>0 DEF Stretch
  <2>2. diag <= left + 1 /\ left <= diag + 1
    BY <1>2
  <2>3. diag <= up + 1 /\ up <= diag + 1
    BY DEF Smooth
  <2>4. x = Smaller(Smaller(left, up) + 1, diag + c)
    BY <1>0 DEF Cell
  <2> HIDE DEF left, up, diag, c, x
  <2>5. x <= left + 1 /\ left <= x + 1 /\ x <= up + 1 /\ up <= x + 1
    <3>1. Central(x, left, up, diag, c)
      BY <2>1, <2>2, <2>3, <2>4, CellBetween
    <3>. QED BY <3>1 DEF Central
  <2>. QED BY <2>5 DEF left, up, x
<1>3. \A i \in 0 .. n : i \in P
  <2>1. \A i \in 1 .. n : i - 1 \in P => i \in P
    BY <1>2
  <2> HIDE DEF P
  <2>. QED BY <1>1, <2>1, Induction
<1>4. Follows(r, prev, n)
  BY <1>3 DEF Follows
<1>5. Smooth(r, n)
  BY <1>3 DEF Smooth
<1>. QED BY <1>4, <1>5

\* Every row is smooth, and follows the one before.
Stepwise(g, n, m) == /\ \A j \in 0 .. m : Smooth(g[j], n) /\ g[j][0] = j
                     /\ \A j \in 1 .. m : Follows(g[j], g[j - 1], n)

LEMMA AllSmooth ==
  ASSUME NEW n \in Nat, NEW m \in Nat, NEW E, NEW g, RowsFrom(g, E, n, m)
  PROVE  Stepwise(g, n, m)
<1>0. /\ g \in [0 .. m -> [0 .. n -> Nat]] /\ g[0] = FirstRow(n)
      /\ \A j \in 1 .. m : RowAfter(g[j], g[j - 1], E, n, j)
  BY DEF RowsFrom
<1> DEFINE P == {j \in 0 .. m : Smooth(g[j], n) /\ g[j][0] = j}
<1>1. 0 \in P
  <2>1. \A i \in 0 .. n : g[0][i] = i
    BY <1>0 DEF FirstRow
  <2>2. Smooth(g[0], n)
    BY <2>1 DEF Smooth
  <2>. QED BY <2>1, <2>2
<1>2. ASSUME NEW j \in 1 .. m, j - 1 \in P PROVE j \in P /\ Follows(g[j], g[j - 1], n)
  <2> DEFINE prev == g[j - 1]
             r == g[j]
             k == j - 1
  <2>1. k \in Nat /\ k + 1 = j /\ prev \in [0 .. n -> Nat] /\ RowAfter(r, prev, E, n, k + 1) /\ prev[0] = k
        /\ Smooth(prev, n)
    BY <1>0, <1>2
  <2> HIDE DEF prev, r, k
  <2>2. Smooth(r, n) /\ Follows(r, prev, n) /\ r[0] = j
    BY <2>1, RowsSmooth DEF RowAfter
  <2>. QED BY <2>2 DEF prev, r
<1>3. \A j \in 0 .. m : j \in P
  <2>1. \A j \in 1 .. m : j - 1 \in P => j \in P
    BY <1>2
  <2> HIDE DEF P
  <2>. QED BY <1>1, <2>1, Induction
<1>4. ASSUME NEW j \in 1 .. m PROVE Follows(g[j], g[j - 1], n)
  <2>1. j - 1 \in 0 .. m
    OBVIOUS
  <2>2. j - 1 \in P
    BY <1>3, <2>1
  <2>. QED BY <1>2, <2>2
<1>. QED BY <1>3, <1>4 DEF Stepwise

(* The rows hold the distances.                                            *)
LEMMA RowsAreDistances ==
  ASSUME NEW n \in Nat, NEW m \in Nat, NEW E, NEW g, RowsFrom(g, E, n, m)
  PROVE  Distances([p \in Grid2(n, m) |-> g[p[2]][p[1]]], E, n, m)
<1> DEFINE d == [p \in Grid2(n, m) |-> g[p[2]][p[1]]]
<1>0. /\ g \in [0 .. m -> [0 .. n -> Nat]] /\ g[0] = FirstRow(n)
      /\ \A j \in 1 .. m : RowAfter(g[j], g[j - 1], E, n, j)
  BY DEF RowsFrom
<1>a. Stepwise(g, n, m)
  BY AllSmooth
<1>1. ASSUME NEW i \in 0 .. n, NEW j \in 0 .. m PROVE d[<<i, j>>] = g[j][i]
  BY DEF Grid2
<1> HIDE DEF d
<1>2. ASSUME NEW i \in 0 .. n, NEW j \in 0 .. m PROVE g[j][i] = Closest(d, E, i, j)
  <2>1. CASE i = 0
    <3>1. g[j][0] = j
      BY <1>a DEF Stepwise
    <3>2. 0 + j = j
      OBVIOUS
    <3>. QED BY <2>1, <3>1, <3>2 DEF Closest
  <2>2. CASE j = 0
    <3>1. g[0][i] = i /\ i + 0 = i
      BY <1>0 DEF FirstRow
    <3>. QED BY <2>2, <3>1 DEF Closest
  <2>3. CASE i # 0 /\ j # 0
    <3> DEFINE left == g[j][i - 1]
               up == g[j - 1][i]
               diag == g[j - 1][i - 1]
               c == Stretch(E, i, j)
               x == g[j][i]
    <3>1. i \in 1 .. n /\ j \in 1 .. m /\ i - 1 \in 0 .. n /\ j - 1 \in 0 .. m
      BY <2>3
    <3>2. left \in Nat /\ up \in Nat /\ diag \in Nat /\ c \in {0, 1}
      BY <1>0, <3>1 DEF Stretch
    <3>3. diag <= left + 1 /\ left <= diag + 1
      BY <1>a, <3>1 DEF Stepwise, Follows
    <3>4. diag <= up + 1 /\ up <= diag + 1
      BY <1>a, <3>1 DEF Stepwise, Smooth
    <3>5. x = Smaller(Smaller(left, up) + 1, diag + c)
      BY <1>0, <3>1 DEF RowAfter, Cell
    <3>6. d[<<i - 1, j - 1>>] = diag /\ d[<<i - 1, j>>] = left /\ d[<<i, j - 1>>] = up
      BY <1>1, <3>1
    <3>7. c = 0 <=> <<i, j>> \in E
      BY DEF Stretch
    <3> HIDE DEF left, up, diag, c, x
    <3>8. (c = 0 => x = diag) /\ (c = 1 => x = 1 + Lesser(diag, Lesser(left, up)))
      <4>1. Central(x, left, up, diag, c)
        BY <3>2, <3>3, <3>4, <3>5, CellBetween
      <4>. QED BY <4>1 DEF Central
    <3>9. Closest(d, E, i, j) = x
      BY <2>3, <3>2, <3>6, <3>7, <3>8 DEF Closest
    <3>. QED BY <3>9 DEF x
  <2>. QED BY <2>1, <2>2, <2>3
<1>3. d = [p \in Grid2(n, m) |-> Closest(d, E, p[1], p[2])]
  <2>1. ASSUME NEW p \in Grid2(n, m) PROVE d[p] = Closest(d, E, p[1], p[2])
    <3>1. p[1] \in 0 .. n /\ p[2] \in 0 .. m /\ p = <<p[1], p[2]>>
      BY DEF Grid2
    <3>. QED BY <1>1, <1>2, <3>1
  <2>2. d = [p \in Grid2(n, m) |-> d[p]]
    BY DEF d
  <2>. QED BY <2>1, <2>2
<1>. QED BY <1>3 DEF Distances, d

(* There is one table of distances.                                        *)
LEMMA OneTable ==
  ASSUME NEW n \in Nat, NEW m \in Nat, NEW E, NEW d, NEW e, Distances(d, E, n, m), Distances(e, E, n, m)
  PROVE  \A i \in 0 .. n, j \in 0 .. m : d[<<i, j>>] = e[<<i, j>>]
<1>0. ASSUME NEW i \in 0 .. n, NEW j \in 0 .. m
      PROVE  d[<<i, j>>] = Closest(d, E, i, j) /\ e[<<i, j>>] = Closest(e, E, i, j)
  <2>1. <<i, j>> \in Grid2(n, m)
    BY DEF Grid2
  <2>. QED BY <2>1 DEF Distances
<1> DEFINE P == {j \in 0 .. m : \A i \in 0 .. n : d[<<i, j>>] = e[<<i, j>>]}
<1>1. 0 \in P
  <2>1. \A i : Closest(d, E, i, 0) = i + 0 /\ Closest(e, E, i, 0) = i + 0
    BY DEF Closest
  <2>2. 0 \in 0 .. m
    OBVIOUS
  <2>3. \A i \in 0 .. n : d[<<i, 0>>] = e[<<i, 0>>]
    BY <1>0, <2>1, <2>2
  <2>. QED BY <2>2, <2>3
<1>2. ASSUME NEW j \in 1 .. m, j - 1 \in P PROVE j \in P
  <2> DEFINE Q == {i \in 0 .. n : d[<<i, j>>] = e[<<i, j>>]}
  <2>1. 0 \in Q
    <3>1. Closest(d, E, 0, j) = 0 + j /\ Closest(e, E, 0, j) = 0 + j
      BY DEF Closest
    <3>2. 0 \in 0 .. n /\ j \in 0 .. m
      OBVIOUS
    <3>3. d[<<0, j>>] = e[<<0, j>>]
      BY <1>0, <3>1, <3>2
    <3>. QED BY <3>2, <3>3
  <2>2. ASSUME NEW i \in 1 .. n, i - 1 \in Q PROVE i \in Q
    <3>1. i \in 0 .. n /\ i - 1 \in 0 .. n /\ j \in 0 .. m
      OBVIOUS
    <3>2. /\ d[<<i - 1, j - 1>>] = e[<<i - 1, j - 1>>] /\ d[<<i, j - 1>>] = e[<<i, j - 1>>]
          /\ d[<<i - 1, j>>] = e[<<i - 1, j>>]
      BY <1>2, <2>2, <3>1
    <3>3. Closest(d, E, i, j) = Closest(e, E, i, j)
      BY <3>2 DEF Closest
    <3>. QED BY <1>0, <3>1, <3>3
  <2>3. \A i \in 0 .. n : i \in Q
    <3>1. \A i \in 1 .. n : i - 1 \in Q => i \in Q
      BY <2>2
    <3> HIDE DEF Q
    <3>. QED BY <2>1, <3>1, Induction
  <2>. QED BY <2>3
<1>3. \A j \in 0 .. m : j \in P
  <2>1. \A j \in 1 .. m : j - 1 \in P => j \in P
    BY <1>2
  <2> HIDE DEF P
  <2>. QED BY <1>1, <2>1, Induction
<1>. QED BY <1>3
=============================================================================
