--------------------------- MODULE PlanningProofs ---------------------------
(***************************************************************************)
(* Proofs about the planning of a course and the planner's calls.          *)
(*                                                                         *)
(* Courses: for any road network along the axes, any landmarks, draws and  *)
(* bounds on the search.  The invariant says what is known of an attempt   *)
(* under way, of the candidates made so far, of the plan, of the roads     *)
(* during a race and of the closures.  TLC cannot settle these for         *)
(* arbitrary networks, and they need what the recursive definitions of the *)
(* model compute: sums, paths, cheer zones and ticks are recursive         *)
(* functions, which the first part shows to exist and to be unique.        *)
(*                                                                         *)
(* Planner: for any responses of the model, any number of messages,        *)
(* simulations, retries and faults.  The invariant says what the calls of  *)
(* the current response owe to the state that outlives them: a running     *)
(* race holds its lock; an execution of the invocation is either still     *)
(* carried by a call or has been marked; and what lies in Redis for a call *)
(* that is about to run is the route of a call of the same response.       *)
(***************************************************************************)
EXTENDS Traffic, Planner, FiniteSetTheorems, SequenceTheorems, TLAPS

----------------------------------------------------------------------------
(* Induction, in a form whose parameter is a set.                          *)

\* Every non-empty set of natural numbers has a least element.
LEMMA LeastNumber ==
  ASSUME NEW T \in SUBSET Nat, T # {}
  PROVE  \E n \in T : \A m \in T : n <= m
<1> DEFINE less == {ss \in Nat \X Nat : ss[1] < ss[2]}
<1>1. IsWellFoundedOn(less, Nat)
  BY NatLessThanWellFounded DEF OpToRel
<1> HIDE DEF less
<1>2. PICK n \in T : \A m \in T : <<m, n>> \notin less
  BY <1>1, WFMin
<1>3. ASSUME NEW m \in T PROVE n <= m
  <2>1. m \in Nat /\ n \in Nat /\ <<m, n>> \notin less
    BY <1>2
  <2> QED
    BY <2>1 DEF less
<1> QED
  BY <1>3

\* A set with 0 and with every successor holds all natural numbers.
LEMMA Induction ==
  ASSUME NEW S \in SUBSET Nat, 0 \in S, \A n \in S : n + 1 \in S
  PROVE  S = Nat
<1>1. ASSUME Nat \ S # {} PROVE FALSE
  <2>1. PICK n \in Nat \ S : \A m \in Nat \ S : n <= m
    BY <1>1, LeastNumber
  <2>2. n - 1 \in Nat /\ n - 1 \in S
    BY <2>1
  <2>3. (n - 1) + 1 \in S /\ (n - 1) + 1 = n
    BY <2>1, <2>2
  <2> QED
    BY <2>1, <2>3
<1> QED
  BY <1>1

\* A recursion over the first n numbers has a solution.
Solves(f, T, base, step, n) ==
  /\ f \in [0 .. n -> T]
  /\ \A i \in 0 .. n : f[i] = IF i = 0 THEN base ELSE step[i][f[i - 1]]

\* A function on 0..n that is defined by recursion exists.
LEMMA Recursion ==
  ASSUME NEW T, NEW base \in T, NEW step \in [Nat -> [T -> T]], NEW n \in Nat
  PROVE  \E f : Solves(f, T, base, step, n)
<1> DEFINE Has(k) == \E f : Solves(f, T, base, step, k)
<1> DEFINE S == {k \in Nat : Has(k)}
<1>1. 0 \in S
  <2>1. PICK f : f = [i \in 0 .. 0 |-> base]
    OBVIOUS
  <2>2. Solves(f, T, base, step, 0)
    BY <2>1 DEF Solves
  <2> QED
    BY <2>2
<1>2. ASSUME NEW k \in S PROVE k + 1 \in S
  <2>1. k \in Nat
    OBVIOUS
  <2>2. PICK f : Solves(f, T, base, step, k)
    OBVIOUS
  <2>3. f[k] \in T /\ step[k + 1][f[k]] \in T
    BY <2>1, <2>2 DEF Solves
  <2>4. PICK g : g = [i \in 0 .. k + 1 |-> IF i <= k THEN f[i] ELSE step[k + 1][f[k]]]
    OBVIOUS
  <2>5. g \in [0 .. k + 1 -> T]
    BY <2>1, <2>2, <2>3, <2>4 DEF Solves
  <2>6. ASSUME NEW i \in 0 .. k + 1
        PROVE  g[i] = IF i = 0 THEN base ELSE step[i][g[i - 1]]
    <3>1. CASE i = 0
      BY <2>1, <2>2, <2>4, <3>1 DEF Solves
    <3>2. CASE i \in 1 .. k
      <4>1. f[i] = step[i][f[i - 1]]
        BY <2>1, <2>2, <3>2 DEF Solves
      <4>2. g[i] = f[i] /\ g[i - 1] = f[i - 1]
        BY <2>1, <2>4, <3>2
      <4> QED
        BY <2>1, <3>2, <4>1, <4>2
    <3>3. CASE i = k + 1
      BY <2>1, <2>4, <3>3
    <3> QED
      BY <2>1, <3>1, <3>2, <3>3
  <2>7. Solves(g, T, base, step, k + 1)
    BY <2>5, <2>6 DEF Solves
  <2> QED
    BY <2>1, <2>7
<1>3. S = Nat
  <2>1. S \in SUBSET Nat
    OBVIOUS
  <2> HIDE DEF S
  <2> QED
    BY <1>1, <1>2, <2>1, Induction
<1> QED
  BY <1>3


----------------------------------------------------------------------------
(* Least and greatest elements, sums and lengths.                          *)

\* Min of a set of integers that is bounded below.
LEMMA MinOf ==
  ASSUME NEW S \in SUBSET Int, S # {}, NEW lo \in Int, \A x \in S : lo <= x
  PROVE  Min(S) \in S /\ \A x \in S : Min(S) <= x
<1> DEFINE T == {n \in Nat : n + lo \in S}
<1>1. T # {}
  <2>1. PICK x \in S : TRUE
    OBVIOUS
  <2>2. x - lo \in Nat /\ (x - lo) + lo = x
    OBVIOUS
  <2> QED
    BY <2>2
<1>2. PICK n \in T : \A m \in T : n <= m
  BY <1>1, LeastNumber
<1>3. ASSUME NEW x \in S PROVE n + lo <= x
  <2>1. x - lo \in T
    OBVIOUS
  <2>2. n <= x - lo /\ n \in Nat /\ x \in Int
    BY <1>2, <2>1
  <2> HIDE DEF T
  <2> QED
    BY <2>2
<1>4. n + lo \in S
  OBVIOUS
<1>5. \E x \in S : \A y \in S : x <= y
  BY <1>3, <1>4
<1> QED
  BY <1>5 DEF Min

\* Max of a set of integers that is bounded above.
LEMMA MaxOf ==
  ASSUME NEW S \in SUBSET Int, S # {}, NEW hi \in Int, \A x \in S : x <= hi
  PROVE  Max(S) \in S /\ \A x \in S : x <= Max(S)
<1> DEFINE T == {n \in Nat : hi - n \in S}
<1>1. T # {}
  <2>1. PICK x \in S : TRUE
    OBVIOUS
  <2>2. hi - x \in Nat /\ hi - (hi - x) = x
    OBVIOUS
  <2> QED
    BY <2>2
<1>2. PICK n \in T : \A m \in T : n <= m
  BY <1>1, LeastNumber
<1>3. ASSUME NEW x \in S PROVE x <= hi - n
  <2>1. hi - x \in Nat /\ hi - (hi - x) = x
    OBVIOUS
  <2>2. hi - x \in T
    BY <2>1
  <2>3. n <= hi - x /\ n \in Nat /\ x \in Int
    BY <1>2, <2>2
  <2> HIDE DEF T
  <2> QED
    BY <2>3
<1>4. hi - n \in S
  OBVIOUS
<1>5. \E x \in S : \A y \in S : x >= y
  BY <1>3, <1>4
<1> QED
  BY <1>5 DEF Max

\* The smaller of two integers.
LEMMA MinOfTwo ==
  ASSUME NEW a \in Int, NEW b \in Int
  PROVE  Min({a, b}) = IF a <= b THEN a ELSE b
<1>1. \E lo \in Int : lo <= a /\ lo <= b
  <2>1. a <= b => a <= a /\ a <= b
    OBVIOUS
  <2>2. ~ (a <= b) => b <= a /\ b <= b
    OBVIOUS
  <2> QED
    BY <2>1, <2>2
<1>2. PICK lo \in Int : lo <= a /\ lo <= b
  BY <1>1
<1>3. Min({a, b}) \in {a, b} /\ \A x \in {a, b} : Min({a, b}) <= x
  <2>1. {a, b} \in SUBSET Int /\ {a, b} # {} /\ \A x \in {a, b} : lo <= x
    BY <1>2
  <2> QED
    BY <2>1, MinOf
<1> QED
  BY <1>3

\* The partial sums of a function of integers.
PartialSums(u, f, n) == u = [k \in 0..n |-> IF k = 0 THEN 0 ELSE u[k - 1] + f[k]]

\* Sum is what any function of partial sums says it is.
LEMMA SumIsPartialSum ==
  ASSUME NEW f, NEW n \in Nat, NEW u \in [0..n -> Int], PartialSums(u, f, n), NEW m \in 0..n
  PROVE  Sum(f, m) = u[m]
<1> DEFINE upTo[k \in 0..m] == IF k = 0 THEN 0 ELSE upTo[k - 1] + f[k]
<1>1. Sum(f, m) = upTo[m]
  BY DEF Sum
<1>2. upTo = [k \in 0..m |-> IF k = 0 THEN 0 ELSE upTo[k - 1] + f[k]]
  <2>1. PICK v : v = [k \in 0..m |-> u[k]]
    OBVIOUS
  <2>2. ASSUME NEW k \in 0..m PROVE v[k] = IF k = 0 THEN 0 ELSE v[k - 1] + f[k]
    <3>1. k \in 0..n /\ v[k] = u[k] /\ (k # 0 => v[k - 1] = u[k - 1])
      BY <2>1
    <3>2. u[k] = IF k = 0 THEN 0 ELSE u[k - 1] + f[k]
      BY <3>1 DEF PartialSums
    <3> QED
      BY <3>1, <3>2
  <2>3. v = [k \in 0..m |-> IF k = 0 THEN 0 ELSE v[k - 1] + f[k]]
    BY <2>1, <2>2
  <2>4. \E g : g = [k \in 0..m |-> IF k = 0 THEN 0 ELSE g[k - 1] + f[k]]
    BY <2>3
  <2> QED
    BY <2>4
<1> HIDE DEF upTo
<1> DEFINE S == {k \in Nat : k <= m => upTo[k] = u[k]}
<1>3. 0 \in S
  BY <1>2 DEF PartialSums
<1>4. ASSUME NEW k \in S PROVE k + 1 \in S
  <2>1. ASSUME k + 1 <= m PROVE upTo[k + 1] = u[k + 1]
    <3>1. k + 1 \in 0..m /\ k + 1 \in 0..n /\ k + 1 # 0 /\ (k + 1) - 1 = k
      BY <2>1
    <3>2. upTo[k + 1] = upTo[k] + f[k + 1]
      BY <1>2, <3>1
    <3>3. u[k + 1] = u[k] + f[k + 1]
      BY <3>1 DEF PartialSums
    <3> QED
      BY <2>1, <3>2, <3>3
  <2> QED
    BY <2>1
<1>5. S = Nat
  <2>1. S \in SUBSET Nat
    OBVIOUS
  <2> HIDE DEF S
  <2> QED
    BY <1>3, <1>4, <2>1, Induction
<1> QED
  BY <1>1, <1>5

LEMMA PartialSumsExist ==
  ASSUME NEW f, NEW n \in Nat, \A i \in 1..n : f[i] \in Int
  PROVE  \E u \in [0..n -> Int] : PartialSums(u, f, n)
<1> DEFINE add(i) == IF i \in 1..n THEN f[i] ELSE 0
<1> DEFINE step == [i \in Nat |-> [s \in Int |-> s + add(i)]]
<1>1. step \in [Nat -> [Int -> Int]] /\ 0 \in Int
  OBVIOUS
<1>2. \A i \in Nat, s \in Int : step[i][s] = s + add(i)
  OBVIOUS
<1> HIDE DEF step
<1>3. PICK u : Solves(u, Int, 0, step, n)
  BY <1>1, Recursion
<1>4. ASSUME NEW k \in 0..n PROVE u[k] = IF k = 0 THEN 0 ELSE u[k - 1] + f[k]
  <2>1. k # 0 => k - 1 \in 0..n /\ k \in 1..n
    OBVIOUS
  <2>2. u[k] = IF k = 0 THEN 0 ELSE step[k][u[k - 1]]
    BY <1>3 DEF Solves
  <2>3. k # 0 => u[k - 1] \in Int
    BY <1>3, <2>1 DEF Solves
  <2> QED
    BY <1>2, <2>1, <2>2, <2>3
<1>5. u \in [0..n -> Int]
  BY <1>3 DEF Solves
<1>6. u = [k \in 0..n |-> IF k = 0 THEN 0 ELSE u[k - 1] + f[k]]
  BY <1>4, <1>5
<1> QED
  BY <1>5, <1>6 DEF PartialSums

\* A sum of integers grows by its next term.
LEMMA SumOf ==
  ASSUME NEW f, NEW n \in Nat, \A i \in 1..n : f[i] \in Int
  PROVE  /\ Sum(f, 0) = 0
         /\ \A k \in 0..n : Sum(f, k) \in Int
         /\ \A k \in 1..n : Sum(f, k) = Sum(f, k - 1) + f[k]
<1>1. PICK u \in [0..n -> Int] : PartialSums(u, f, n)
  BY PartialSumsExist
<1>2. \A k \in 0..n : Sum(f, k) = u[k]
  BY <1>1, SumIsPartialSum
<1>3. \A k \in 0..n : u[k] \in Int /\ u[k] = IF k = 0 THEN 0 ELSE u[k - 1] + f[k]
  BY <1>1 DEF PartialSums
<1>4. 0 \in 0..n /\ \A k \in 1..n : k \in 0..n /\ k - 1 \in 0..n /\ k # 0
  OBVIOUS
<1> QED
  BY <1>2, <1>3, <1>4

\* Sums of the same terms are the same.
LEMMA SameSum ==
  ASSUME NEW f, NEW g, NEW n \in Nat, \A i \in 1..n : f[i] \in Int /\ g[i] = f[i]
  PROVE  Sum(g, n) = Sum(f, n)
<1> DEFINE S == {k \in Nat : k <= n => Sum(g, k) = Sum(f, k)}
<1>1. 0 \in S
  BY SumOf
<1>2. ASSUME NEW k \in S PROVE k + 1 \in S
  <2>1. ASSUME k + 1 <= n PROVE Sum(g, k + 1) = Sum(f, k + 1)
    <3>1. k + 1 \in 1..n /\ (k + 1) - 1 = k
      BY <2>1
    <3>2. Sum(f, k + 1) = Sum(f, k) + f[k + 1]
      BY <3>1, SumOf
    <3>3. Sum(g, k + 1) = Sum(g, k) + g[k + 1]
      BY <3>1, SumOf
    <3> QED
      BY <2>1, <3>1, <3>2, <3>3
  <2> QED
    BY <2>1
<1>3. S = Nat
  <2>1. S \in SUBSET Nat
    OBVIOUS
  <2> HIDE DEF S
  <2> QED
    BY <1>1, <1>2, <2>1, Induction
<1> QED
  BY <1>3

\* Where routes go.
Points == Int \X Int

LEMMA DistIsNatural ==
  ASSUME NEW p \in Points, NEW q \in Points
  PROVE  Dist(p, q) \in Nat /\ Dist(p, p) = 0
<1>1. p[1] \in Int /\ p[2] \in Int /\ q[1] \in Int /\ q[2] \in Int
  BY DEF Points
<1> QED
  BY <1>1 DEF Dist, Abs

\* The pieces of a route, of which its length is the sum.
Pieces(r) == [i \in 1..Len(r) |-> IF i > 1 THEN Dist(r[i - 1], r[i]) ELSE 0]

LEMMA PiecesAreNatural ==
  ASSUME NEW r \in Seq(Points), NEW i \in 1..Len(r)
  PROVE  /\ Pieces(r)[i] = IF i > 1 THEN Dist(r[i - 1], r[i]) ELSE 0
         /\ Pieces(r)[i] \in Nat
<1>1. Pieces(r)[i] = IF i > 1 THEN Dist(r[i - 1], r[i]) ELSE 0
  BY DEF Pieces
<1>2. CASE i > 1
  <2>1. r[i - 1] \in Points /\ r[i] \in Points
    BY <1>2, ElementOfSeq
  <2> QED
    BY <1>1, <1>2, <2>1, DistIsNatural
<1>3. CASE ~ (i > 1)
  BY <1>1, <1>3
<1> QED
  BY <1>1, <1>2, <1>3

\* The length of a route up to its k-th point.
LEMMA LengthOf ==
  ASSUME NEW r \in Seq(Points)
  PROVE  /\ Length(r) = Sum(Pieces(r), Len(r))
         /\ Length(r) \in Nat
<1>1. Length(r) = Sum(Pieces(r), Len(r))
  BY DEF Length, Pieces
<1>2. Len(r) \in Nat /\ \A i \in 1..Len(r) : Pieces(r)[i] \in Int /\ Pieces(r)[i] >= 0
  BY PiecesAreNatural
<1> DEFINE S == {k \in Nat : k <= Len(r) => Sum(Pieces(r), k) \in Nat}
<1>3. 0 \in S
  <2>1. Sum(Pieces(r), 0) = 0
    BY <1>2, SumOf
  <2> QED
    BY <2>1
<1>4. ASSUME NEW k \in S PROVE k + 1 \in S
  <2>1. ASSUME k + 1 <= Len(r) PROVE Sum(Pieces(r), k + 1) \in Nat
    <3>1. k + 1 \in 1..Len(r) /\ (k + 1) - 1 = k /\ k <= Len(r)
      BY <1>2, <2>1
    <3>2. Sum(Pieces(r), k + 1) = Sum(Pieces(r), k) + Pieces(r)[k + 1]
      BY <1>2, <3>1, SumOf
    <3>3. Sum(Pieces(r), k) \in Nat
      BY <3>1
    <3>4. Pieces(r)[k + 1] \in Nat
      BY <3>1, PiecesAreNatural
    <3> QED
      BY <3>2, <3>3, <3>4
  <2> QED
    BY <2>1
<1>5. S = Nat
  <2>1. S \in SUBSET Nat
    OBVIOUS
  <2> HIDE DEF S
  <2> QED
    BY <1>3, <1>4, <2>1, Induction
<1> QED
  BY <1>1, <1>2, <1>5

\* Routes whose first points are the same are as long up to there.
LEMMA SameBeginning ==
  ASSUME NEW r \in Seq(Points), NEW s \in Seq(Points), NEW n \in Nat,
         n <= Len(r), n <= Len(s), \A i \in 1..n : r[i] = s[i]
  PROVE  Sum(Pieces(r), n) = Sum(Pieces(s), n)
<1>1. ASSUME NEW i \in 1..n PROVE Pieces(r)[i] \in Int /\ Pieces(s)[i] = Pieces(r)[i]
  <2>1. i \in 1..Len(r) /\ i \in 1..Len(s) /\ (i > 1 => i - 1 \in 1..n)
    OBVIOUS
  <2>2. /\ Pieces(r)[i] = IF i > 1 THEN Dist(r[i - 1], r[i]) ELSE 0
        /\ Pieces(s)[i] = IF i > 1 THEN Dist(s[i - 1], s[i]) ELSE 0
        /\ Pieces(r)[i] \in Nat
    BY <2>1, PiecesAreNatural
  <2>3. r[i] = s[i] /\ (i > 1 => r[i - 1] = s[i - 1])
    BY <2>1
  <2> QED
    BY <2>2, <2>3
<1> QED
  BY <1>1, SameSum

\* A route grows by the piece to its new end.
LEMMA LengthOfAppend ==
  ASSUME NEW r \in Seq(Points), r # <<>>, NEW q \in Points
  PROVE  /\ Append(r, q) \in Seq(Points)
         /\ Length(Append(r, q)) = Length(r) + Dist(Last(r), q)
<1>1. PICK s : s = Append(r, q)
  OBVIOUS
<1>2. PICK n \in Nat : n = Len(r)
  OBVIOUS
<1>3. /\ s \in Seq(Points) /\ Len(s) = n + 1 /\ s[n + 1] = q /\ n > 0
      /\ \A i \in 1..n : s[i] = r[i]
  BY <1>1, <1>2, AppendProperties, EmptySeq
<1>4. Sum(Pieces(s), n) = Sum(Pieces(r), n)
  BY <1>2, <1>3, SameBeginning
<1>5. Pieces(s)[n + 1] = Dist(Last(r), q)
  <2>1. n + 1 \in 1..Len(s) /\ n + 1 > 1 /\ (n + 1) - 1 = n /\ n \in 1..n
    BY <1>3
  <2>2. Pieces(s)[n + 1] = Dist(s[n], s[n + 1])
    BY <1>3, <2>1, PiecesAreNatural
  <2> QED
    BY <1>2, <1>3, <2>1, <2>2 DEF Last
<1>6. Sum(Pieces(s), n + 1) = Sum(Pieces(s), n) + Pieces(s)[n + 1]
  <2>1. \A i \in 1..(n + 1) : Pieces(s)[i] \in Int
    BY <1>3, PiecesAreNatural
  <2>2. n + 1 \in Nat /\ n + 1 \in 1..(n + 1) /\ (n + 1) - 1 = n
    OBVIOUS
  <2>3. \A k \in 1..(n + 1) : Sum(Pieces(s), k) = Sum(Pieces(s), k - 1) + Pieces(s)[k]
    BY <2>1, <2>2, SumOf
  <2> QED
    BY <2>2, <2>3
<1> QED
  BY <1>1, <1>2, <1>3, <1>4, <1>5, <1>6, LengthOf

LEMMA LengthOfFew ==
  ASSUME NEW p \in Points
  PROVE  <<p>> \in Seq(Points) /\ Length(<<p>>) = 0 /\ Length(<<>>) = 0
<1>1. <<>> \in Seq(Points) /\ Len(<<>>) = 0
  BY EmptySeq
<1>2. Length(<<>>) = 0
  <2>1. \A i \in 1..0 : Pieces(<<>>)[i] \in Int
    OBVIOUS
  <2> QED
    BY <1>1, <2>1, LengthOf, SumOf
<1>3. PICK r : r = <<p>>
  OBVIOUS
<1>4. r \in Seq(Points) /\ Len(r) = 1
  BY <1>3
<1>5. Pieces(r)[1] = 0
  BY <1>4, PiecesAreNatural
<1>6. Sum(Pieces(r), 1) = 0
  <2>1. \A i \in 1..1 : Pieces(r)[i] \in Int
    BY <1>5
  <2>2. Sum(Pieces(r), 1) = Sum(Pieces(r), 0) + Pieces(r)[1] /\ Sum(Pieces(r), 0) = 0
    BY <2>1, SumOf
  <2> QED
    BY <1>5, <2>2
<1> QED
  BY <1>2, <1>3, <1>4, <1>6, LengthOf

\* A beginning of a route.
LEMMA Beginning ==
  ASSUME NEW T, NEW r \in Seq(T), NEW n \in 0..Len(r)
  PROVE  /\ SubSeq(r, 1, n) \in Seq(T) /\ Len(SubSeq(r, 1, n)) = n
         /\ \A i \in 1..n : SubSeq(r, 1, n)[i] = r[i]
<1>1. \A i \in 1..n : r[i] \in T
  BY ElementOfSeq
<1>2. n \in Int /\ 1 \in Int
  OBVIOUS
<1>3. /\ SubSeq(r, 1, n) \in Seq(T)
      /\ Len(SubSeq(r, 1, n)) = IF 1 <= n THEN n - 1 + 1 ELSE 0
      /\ \A i \in 1..(n - 1 + 1) : SubSeq(r, 1, n)[i] = r[1 + i - 1]
  BY <1>1, <1>2, SubSeqProperties
<1>4. n - 1 + 1 = n /\ \A i \in 1..n : 1 + i - 1 = i
  OBVIOUS
<1>5. Len(SubSeq(r, 1, n)) = n
  BY <1>3, <1>4
<1>6. ASSUME NEW i \in 1..n PROVE SubSeq(r, 1, n)[i] = r[i]
  BY <1>3, <1>4
<1> QED
  BY <1>3, <1>5, <1>6

\* The length of a route up to its next point.
LEMMA LengthOfBeginning ==
  ASSUME NEW r \in Seq(Points), NEW k \in 1..(Len(r) - 1)
  PROVE  Length(SubSeq(r, 1, k + 1)) = Length(SubSeq(r, 1, k)) + Dist(r[k], r[k + 1])
<1>1. k \in 0..Len(r) /\ k + 1 \in 1..Len(r) /\ k \in 1..Len(r) /\ k \in 1..k /\ k + 1 \in 0..Len(r)
  OBVIOUS
<1>2. PICK a \in Seq(Points) : a = SubSeq(r, 1, k)
  BY <1>1, Beginning
<1>3. Len(a) = k /\ \A i \in 1..k : a[i] = r[i]
  BY <1>1, <1>2, Beginning
<1>4. PICK b \in Seq(Points) : b = SubSeq(r, 1, k + 1)
  BY <1>1, Beginning
<1>5. Len(b) = k + 1 /\ \A i \in 1..(k + 1) : b[i] = r[i]
  BY <1>1, <1>4, Beginning
<1>6. r[k + 1] \in Points
  BY <1>1, ElementOfSeq
<1>7. PICK c : c = Append(a, r[k + 1])
  OBVIOUS
<1>8. /\ c \in Seq(Points) /\ Len(c) = k + 1 /\ c[k + 1] = r[k + 1]
      /\ \A i \in 1..k : c[i] = a[i]
  BY <1>3, <1>6, <1>7, AppendProperties
<1>9. c = b
  <2>1. ASSUME NEW i \in 1..Len(c) PROVE c[i] = b[i]
    <3>1. i \in 1..(k + 1) /\ (i # k + 1 => i \in 1..k)
      BY <1>8
    <3> QED
      BY <1>3, <1>5, <1>8, <3>1
  <2> QED
    BY <1>5, <1>8, <2>1, SeqEqual
<1>10. a # <<>> /\ Last(a) = r[k]
  BY <1>1, <1>3 DEF Last
<1>11. Length(c) = Length(a) + Dist(Last(a), r[k + 1])
  BY <1>6, <1>7, <1>10, LengthOfAppend
<1> QED
  BY <1>2, <1>4, <1>9, <1>10, <1>11

\* A way that starts where a route ends is put behind it.
LEMMA Joined ==
  ASSUME NEW T, NEW r \in Seq(T), r # <<>>, NEW p \in Seq(T), p # <<>>
  PROVE  /\ r \o Tail(p) \in Seq(T) /\ Len(r \o Tail(p)) = Len(r) + Len(p) - 1
         /\ Len(r) \in Nat /\ Len(p) \in Nat /\ Len(r) > 0 /\ Len(p) > 0
         /\ \A i \in 1..Len(r) : (r \o Tail(p))[i] = r[i]
         /\ \A i \in 2..Len(p) : (r \o Tail(p))[Len(r) + i - 1] = p[i]
<1>1. PICK t : t = Tail(p)
  OBVIOUS
<1>2. t \in Seq(T) /\ Len(t) = Len(p) - 1 /\ \A i \in 1..Len(t) : t[i] = p[i + 1]
  BY <1>1, HeadTailProperties
<1>3. Len(r) \in Nat /\ Len(p) \in Nat /\ Len(r) > 0 /\ Len(p) > 0
  BY EmptySeq
<1>4. /\ r \o t \in Seq(T) /\ Len(r \o t) = Len(r) + Len(t)
      /\ \A i \in 1..(Len(r) + Len(t)) : (r \o t)[i] = IF i <= Len(r) THEN r[i] ELSE t[i - Len(r)]
  BY <1>2, ConcatProperties
<1>5. ASSUME NEW i \in 1..Len(r) PROVE (r \o t)[i] = r[i]
  <2>1. i \in 1..(Len(r) + Len(t)) /\ i <= Len(r)
    BY <1>2, <1>3
  <2> QED
    BY <1>4, <2>1
<1>6. ASSUME NEW i \in 2..Len(p) PROVE (r \o t)[Len(r) + i - 1] = p[i]
  <2>1. /\ Len(r) + i - 1 \in 1..(Len(r) + Len(t)) /\ ~ (Len(r) + i - 1 <= Len(r))
        /\ (Len(r) + i - 1) - Len(r) = i - 1 /\ i - 1 \in 1..Len(t) /\ (i - 1) + 1 = i
    BY <1>2, <1>3
  <2>2. (r \o t)[Len(r) + i - 1] = t[i - 1]
    BY <1>4, <2>1
  <2>3. t[i - 1] = p[i]
    BY <1>2, <2>1
  <2> QED
    BY <2>2, <2>3
<1>7. Len(r \o t) = Len(r) + Len(p) - 1
  BY <1>2, <1>3, <1>4
<1> QED
  BY <1>1, <1>3, <1>4, <1>5, <1>6, <1>7

\* Two routes that meet have the length of both when they are joined.
LEMMA LengthOfJoined ==
  ASSUME NEW r \in Seq(Points), r # <<>>, NEW p \in Seq(Points), p # <<>>, Last(r) = p[1]
  PROVE  Length(r \o Tail(p)) = Length(r) + Length(p)
<1>1. PICK s : s = r \o Tail(p)
  OBVIOUS
<1>2. PICK n \in Nat, m \in Nat : n = Len(r) /\ m = Len(p) /\ n > 0 /\ m > 0
  BY Joined
<1>3. /\ s \in Seq(Points) /\ Len(s) = n + m - 1
      /\ \A i \in 1..n : s[i] = r[i]
      /\ \A i \in 2..m : s[n + i - 1] = p[i]
  BY <1>1, <1>2, Joined
<1>4. s[n] = p[1]
  <2>1. n \in 1..n
    BY <1>2
  <2> QED
    BY <1>2, <1>3, <2>1 DEF Last
<1> DEFINE Up(k) == Sum(Pieces(s), n + k - 1) = Sum(Pieces(r), n) + Sum(Pieces(p), k)
<1> DEFINE S == {k \in Nat : k < m => Up(k + 1)}
<1>5. 0 \in S
  <2>1. n + (0 + 1) - 1 = n /\ n <= Len(s) /\ n <= Len(r)
    BY <1>2, <1>3
  <2>2. Sum(Pieces(s), n) = Sum(Pieces(r), n)
    BY <1>3, <2>1, SameBeginning
  <2>3. Sum(Pieces(p), 1) = 0
    <3>1. \A i \in 1..1 : Pieces(p)[i] \in Int
      BY <1>2, PiecesAreNatural
    <3>2. 1 \in 1..1 /\ 1 \in 1..Len(p)
      BY <1>2
    <3>3. Sum(Pieces(p), 0) = 0 /\ Sum(Pieces(p), 1) = Sum(Pieces(p), 0) + Pieces(p)[1]
      BY <3>1, <3>2, SumOf
    <3>4. Pieces(p)[1] = 0
      BY <3>2, PiecesAreNatural
    <3> QED
      BY <3>3, <3>4
  <2>4. Sum(Pieces(r), n) \in Nat
    BY <1>2, LengthOf
  <2>5. Up(0 + 1)
    BY <2>1, <2>2, <2>3, <2>4
  <2> QED
    BY <2>5
<1>6. ASSUME NEW k \in S PROVE k + 1 \in S
  <2>1. ASSUME k + 1 < m PROVE Up(k + 2)
    <3>1. k < m /\ k \in Nat
      BY <1>2, <2>1
    <3>2. Sum(Pieces(s), n + k) = Sum(Pieces(r), n) + Sum(Pieces(p), k + 1)
      <4>1. Up(k + 1)
        BY <3>1
      <4>2. n + (k + 1) - 1 = n + k
        BY <1>2, <3>1
      <4> QED
        BY <4>1, <4>2
    <3>3. /\ n + k + 1 \in 1..Len(s) /\ n + k + 1 > 1 /\ (n + k + 1) - 1 = n + k
          /\ k + 2 \in 1..Len(p) /\ k + 2 > 1 /\ (k + 2) - 1 = k + 1 /\ k + 2 \in 2..m
          /\ n + (k + 2) - 1 = n + k + 1
      BY <1>2, <1>3, <2>1, <3>1
    <3>4. s[n + k + 1] = p[k + 2]
      BY <1>3, <3>3
    <3>5. s[n + k] = p[k + 1]
      <4>1. CASE k = 0
        BY <1>2, <1>4, <4>1
      <4>2. CASE k # 0
        <5>1. k + 1 \in 2..m /\ n + (k + 1) - 1 = n + k
          BY <1>2, <3>1, <4>2, <2>1
        <5> QED
          BY <1>3, <5>1
      <4> QED
        BY <4>1, <4>2
    <3>6. Pieces(s)[n + k + 1] = Dist(s[n + k], s[n + k + 1])
      BY <1>3, <3>3, PiecesAreNatural
    <3>7. Pieces(p)[k + 2] = Dist(p[k + 1], p[k + 2]) /\ Pieces(p)[k + 2] \in Nat
      BY <3>3, PiecesAreNatural
    <3>8. Sum(Pieces(s), n + k + 1) = Sum(Pieces(s), n + k) + Pieces(s)[n + k + 1]
      <4>1. Len(s) \in Nat /\ \A i \in 1..Len(s) : Pieces(s)[i] \in Int
        BY <1>3, PiecesAreNatural
      <4> QED
        BY <3>3, <4>1, SumOf
    <3>9. /\ Sum(Pieces(p), k + 2) = Sum(Pieces(p), k + 1) + Pieces(p)[k + 2]
          /\ Sum(Pieces(p), k + 1) \in Int
      <4>1. Len(p) \in Nat /\ \A i \in 1..Len(p) : Pieces(p)[i] \in Int
        BY <1>2, PiecesAreNatural
      <4>2. k + 1 \in 0..Len(p)
        BY <1>2, <2>1, <3>1
      <4> QED
        BY <3>3, <4>1, <4>2, SumOf
    <3>10. Sum(Pieces(r), n) \in Nat
      BY <1>2, LengthOf
    <3>11. Sum(Pieces(s), n + k + 1) = Sum(Pieces(r), n) + Sum(Pieces(p), k + 2)
      BY <3>2, <3>4, <3>5, <3>6, <3>7, <3>8, <3>9, <3>10
    <3> QED
      BY <3>3, <3>11
  <2>2. (k + 1) + 1 = k + 2 /\ k + 1 \in Nat
    OBVIOUS
  <2> QED
    BY <2>1, <2>2
<1>7. S = Nat
  <2>1. S \in SUBSET Nat
    OBVIOUS
  <2> HIDE DEF S
  <2> QED
    BY <1>5, <1>6, <2>1, Induction
<1>8. Up(m)
  <2>1. m - 1 \in Nat /\ m - 1 < m /\ (m - 1) + 1 = m
    BY <1>2
  <2>2. m - 1 \in S
    BY <1>7, <2>1
  <2>3. Up((m - 1) + 1)
    BY <2>1, <2>2
  <2> QED
    BY <2>1, <2>3
<1> QED
  BY <1>1, <1>2, <1>3, <1>8, LengthOf

\* A part of a route.
LEMMA Part ==
  ASSUME NEW T, NEW r \in Seq(T), NEW a \in 1..Len(r), NEW b \in a..Len(r)
  PROVE  /\ SubSeq(r, a, b) \in Seq(T) /\ Len(SubSeq(r, a, b)) = b - a + 1
         /\ \A i \in 1..(b - a + 1) : SubSeq(r, a, b)[i] = r[a + i - 1]
<1>1. \A i \in a..b : r[i] \in T
  BY ElementOfSeq
<1>2. a \in Int /\ b \in Int /\ a <= b
  OBVIOUS
<1> QED
  BY <1>1, <1>2, SubSeqProperties

\* A route is as long as its beginning and what follows.
LEMMA LengthOfPart ==
  ASSUME NEW r \in Seq(Points), NEW a \in 1..Len(r), NEW b \in a..Len(r)
  PROVE  Length(SubSeq(r, 1, b)) = Length(SubSeq(r, 1, a)) + Length(SubSeq(r, a, b))
<1>1. a \in 0..Len(r) /\ b \in 0..Len(r) /\ a \in 1..a /\ 1 \in 1..(b - a + 1) /\ a + 1 - 1 = a
  OBVIOUS
<1>2. PICK s \in Seq(Points) : s = SubSeq(r, 1, a)
  BY <1>1, Beginning
<1>3. Len(s) = a /\ \A i \in 1..a : s[i] = r[i]
  BY <1>1, <1>2, Beginning
<1>4. PICK p \in Seq(Points) : p = SubSeq(r, a, b)
  BY Part
<1>5. Len(p) = b - a + 1 /\ \A i \in 1..(b - a + 1) : p[i] = r[a + i - 1]
  BY <1>4, Part
<1>6. PICK w \in Seq(Points) : w = SubSeq(r, 1, b)
  BY <1>1, Beginning
<1>7. Len(w) = b /\ \A i \in 1..b : w[i] = r[i]
  BY <1>1, <1>6, Beginning
<1>8. s # <<>> /\ p # <<>> /\ Last(s) = p[1]
  <2>1. s[a] = r[a] /\ p[1] = r[a]
    BY <1>1, <1>3, <1>5
  <2> QED
    BY <1>3, <1>5, <2>1 DEF Last
<1>9. PICK v : v = s \o Tail(p)
  OBVIOUS
<1>10. /\ v \in Seq(Points) /\ Len(v) = Len(s) + Len(p) - 1
       /\ \A i \in 1..Len(s) : v[i] = s[i]
       /\ \A i \in 2..Len(p) : v[Len(s) + i - 1] = p[i]
  BY <1>8, <1>9, Joined
<1>11. v = w
  <2>1. Len(v) = Len(w)
    BY <1>3, <1>5, <1>7, <1>10
  <2>2. ASSUME NEW i \in 1..Len(v) PROVE v[i] = w[i]
    <3>1. i \in 1..b
      BY <1>7, <2>1
    <3>2. CASE i <= a
      BY <1>3, <1>7, <1>10, <3>1, <3>2
    <3>3. CASE i > a
      <4>1. PICK j \in 2..Len(p) : i = a + j - 1
        <5>1. i - a + 1 \in 2..Len(p) /\ i = a + (i - a + 1) - 1
          BY <1>5, <3>1, <3>3
        <5> QED
          BY <5>1
      <4>2. v[i] = p[j] /\ j \in 1..(b - a + 1)
        BY <1>3, <1>5, <1>10, <4>1
      <4>3. p[j] = r[a + j - 1]
        BY <1>5, <4>2
      <4> QED
        BY <1>7, <3>1, <4>1, <4>2, <4>3
    <3> QED
      BY <3>1, <3>2, <3>3
  <2> QED
    BY <1>10, <2>1, <2>2, SeqEqual
<1>12. Length(v) = Length(s) + Length(p)
  BY <1>8, <1>9, LengthOfJoined
<1> QED
  BY <1>2, <1>4, <1>6, <1>11, <1>12

----------------------------------------------------------------------------
(* The graph.                                                              *)

LEMMA BetweenReflexive ==
  ASSUME NEW p \in Points, NEW q \in Points
  PROVE  Between(p, p, q) /\ Between(p, q, q)
<1>1. p[1] \in Int /\ p[2] \in Int /\ q[1] \in Int /\ q[2] \in Int
  BY DEF Points
<1> QED
  BY <1>1 DEF Between

\* On a piece along an axis the point at distance k is at distance k, and between.
LEMMA TowardIsBetween ==
  ASSUME NEW p \in Points, NEW q \in Points, AlongAxis(p, q), NEW k \in 0..Dist(p, q)
  PROVE  /\ Toward(p, q, k) \in Points
         /\ Dist(p, Toward(p, q, k)) = k
         /\ Between(p, Toward(p, q, k), q)
         /\ AlongAxis(p, Toward(p, q, k))
<1>1. PICK a \in Int, b \in Int, c \in Int, d \in Int : p = <<a, b>> /\ q = <<c, d>>
  BY DEF Points
<1>2. k \in Nat /\ (a = c \/ b = d)
  BY <1>1, DistIsNatural DEF AlongAxis
<1>3. k <= Abs(a - c) + Abs(b - d)
  BY <1>1, DistIsNatural DEF Dist
<1> DEFINE x == IF c > a THEN k ELSE IF c < a THEN -k ELSE 0
<1> DEFINE y == IF d > b THEN k ELSE IF d < b THEN -k ELSE 0
<1>4. Toward(p, q, k) = <<a + x, b + y>>
  BY <1>1 DEF Toward
<1>5. x \in Int /\ y \in Int
  BY <1>2
<1>6. Abs(a - (a + x)) + Abs(b - (b + y)) = k
  BY <1>2, <1>3 DEF Abs
<1>7. (a <= a + x /\ a + x <= c) \/ (c <= a + x /\ a + x <= a)
  BY <1>2, <1>3 DEF Abs
<1>8. (b <= b + y /\ b + y <= d) \/ (d <= b + y /\ b + y <= b)
  BY <1>2, <1>3 DEF Abs
<1>9. a = a + x \/ b = b + y
  BY <1>2, <1>3 DEF Abs
<1> HIDE DEF x, y
<1>10. Toward(p, q, k) \in Points
  BY <1>4, <1>5 DEF Points
<1>11. Dist(p, Toward(p, q, k)) = k
  BY <1>1, <1>4, <1>6 DEF Dist
<1>12. Between(p, Toward(p, q, k), q)
  <2>1. ASSUME NEW i \in 1..2
        PROVE  \/ p[i] <= Toward(p, q, k)[i] /\ Toward(p, q, k)[i] <= q[i]
               \/ q[i] <= Toward(p, q, k)[i] /\ Toward(p, q, k)[i] <= p[i]
    <3>1. i = 1 \/ i = 2
      OBVIOUS
    <3> QED
      BY <1>1, <1>4, <1>7, <1>8, <3>1
  <2> QED
    BY <2>1 DEF Between
<1>13. AlongAxis(p, Toward(p, q, k))
  BY <1>1, <1>4, <1>9 DEF AlongAxis
<1> QED
  BY <1>10, <1>11, <1>12, <1>13

\* What lies between the ends of a piece along an axis is along the axis too.
LEMMA BetweenIsAlong ==
  ASSUME NEW p \in Points, NEW x \in Points, NEW q \in Points, AlongAxis(p, q), Between(p, x, q)
  PROVE  AlongAxis(p, x)
<1>1. /\ p[1] \in Int /\ p[2] \in Int /\ q[1] \in Int /\ q[2] \in Int
      /\ x[1] \in Int /\ x[2] \in Int /\ 1 \in 1..2 /\ 2 \in 1..2
  BY DEF Points
<1>2. /\ (p[1] <= x[1] /\ x[1] <= q[1]) \/ (q[1] <= x[1] /\ x[1] <= p[1])
      /\ (p[2] <= x[2] /\ x[2] <= q[2]) \/ (q[2] <= x[2] /\ x[2] <= p[2])
  BY <1>1 DEF Between
<1> QED
  BY <1>1, <1>2 DEF AlongAxis

\* Neighbouring points of a road.
LEMMA EdgeOfRoad ==
  ASSUME NEW i \in 1..Len(Roads), NEW e \in EdgesOf(Roads[i].coords)
  PROVE  /\ Roads[i].coords \in Seq(Points) /\ Len(Roads[i].coords) \in Nat
         /\ \E k \in 1..(Len(Roads[i].coords) - 1) :
              /\ e = {Roads[i].coords[k], Roads[i].coords[k + 1]}
              /\ Roads[i].coords[k] \in Points /\ Roads[i].coords[k + 1] \in Points
              /\ AlongAxis(Roads[i].coords[k], Roads[i].coords[k + 1])
<1>1. PICK c : c = Roads[i].coords
  OBVIOUS
<1>2. c \in Seq(Points) /\ \A k \in 1..(Len(c) - 1) : AlongAxis(c[k], c[k + 1])
  BY <1>1, CourseAssumption DEF Points
<1>3. PICK k \in 1..(Len(c) - 1) : e = {c[k], c[k + 1]}
  BY <1>1 DEF EdgesOf
<1>4. k \in 1..Len(c) /\ k + 1 \in 1..Len(c)
  BY <1>2
<1>5. c[k] \in Points /\ c[k + 1] \in Points
  BY <1>2, <1>4, ElementOfSeq
<1> QED
  BY <1>1, <1>2, <1>3, <1>5

\* The graph's edges run along the axes, between points with integer coordinates.
LEMMA EdgesJoinPoints ==
  ASSUME NEW e \in Edges
  PROVE  \E p, q \in Points : e = {p, q} /\ AlongAxis(p, q)
<1>1. PICK i \in Usable : e \in EdgesOf(Roads[i].coords)
  BY DEF Edges
<1>2. i \in 1..Len(Roads)
  BY DEF Usable
<1> QED
  BY <1>1, <1>2, EdgeOfRoad

LEMMA NodesArePoints ==
  Nodes \subseteq Points
BY EdgesJoinPoints DEF Nodes

LEMMA NeighborsAreJoined ==
  ASSUME NEW n \in Nodes, NEW m \in Neighbors[n]
  PROVE  m \in Nodes /\ {n, m} \in Edges /\ m # n /\ AlongAxis(n, m)
<1>1. m \in Nodes /\ {n, m} \in Edges /\ m # n
  BY DEF Neighbors
<1>2. PICK p \in Points, q \in Points : {n, m} = {p, q} /\ AlongAxis(p, q)
  BY <1>1, EdgesJoinPoints
<1>3. (n = p /\ m = q) \/ (n = q /\ m = p)
  BY <1>1, <1>2
<1> QED
  BY <1>1, <1>2, <1>3 DEF AlongAxis

\* The values of a function on a finite set.
LEMMA FiniteImage ==
  ASSUME NEW S, IsFiniteSet(S), NEW f
  PROVE  IsFiniteSet({f[x] : x \in S})
<1> DEFINE T == {f[x] : x \in S}
<1> DEFINE g == [x \in S |-> f[x]]
<1>1. g \in Surjection(S, T)
  BY DEF Surjection
<1> HIDE DEF T, g
<1>2. IsFiniteSet(T)
  BY <1>1, FS_Surjection
<1> QED
  BY <1>2 DEF T

\* The network is finite, so the search for paths comes to an end.
LEMMA NodesAreFinite ==
  IsFiniteSet(Nodes)
<1>1. ASSUME NEW i \in 1..Len(Roads) PROVE IsFiniteSet(EdgesOf(Roads[i].coords))
  <2>1. PICK c : c = Roads[i].coords
    OBVIOUS
  <2>2. c \in Seq(Points)
    BY <2>1, CourseAssumption DEF Points
  <2>3. IsFiniteSet(1..(Len(c) - 1))
    BY <2>2, FS_Interval
  <2> DEFINE f == [k \in 1..(Len(c) - 1) |-> {c[k], c[k + 1]}]
  <2>4. IsFiniteSet({f[k] : k \in 1..(Len(c) - 1)})
    <3> HIDE DEF f
    <3> QED
      BY <2>3, FiniteImage
  <2>5. {f[k] : k \in 1..(Len(c) - 1)} = EdgesOf(c)
    BY DEF EdgesOf
  <2> QED
    BY <2>1, <2>4, <2>5
<1>2. IsFiniteSet(Usable)
  <2>1. IsFiniteSet(1..Len(Roads))
    BY CourseAssumption, FS_Interval
  <2>2. Usable \in SUBSET (1..Len(Roads))
    BY DEF Usable
  <2> QED
    BY <2>1, <2>2, FS_Subset
<1>3. IsFiniteSet(Edges)
  <2> DEFINE f == [i \in Usable |-> EdgesOf(Roads[i].coords)]
  <2>1. IsFiniteSet({f[i] : i \in Usable})
    <3> HIDE DEF f
    <3> QED
      BY <1>2, FiniteImage
  <2>2. \A E \in {f[i] : i \in Usable} : IsFiniteSet(E)
    BY <1>1 DEF Usable
  <2>3. IsFiniteSet(UNION {f[i] : i \in Usable})
    <3> HIDE DEF f
    <3> QED
      BY <2>1, <2>2, FS_UNION
  <2>4. UNION {f[i] : i \in Usable} = Edges
    BY DEF Edges
  <2> QED
    BY <2>3, <2>4
<1>4. \A e \in Edges : IsFiniteSet(e)
  <2>1. ASSUME NEW p, NEW q PROVE IsFiniteSet({p, q})
    <3>1. IsFiniteSet({p})
      BY FS_Singleton
    <3>2. IsFiniteSet({p} \cup {q})
      BY <3>1, FS_AddElement
    <3>3. {p} \cup {q} = {p, q}
      OBVIOUS
    <3> QED
      BY <3>2, <3>3
  <2>2. ASSUME NEW e \in Edges PROVE IsFiniteSet(e)
    <3>1. PICK p \in Points, q \in Points : e = {p, q}
      BY EdgesJoinPoints
    <3> QED
      BY <2>1, <3>1
  <2> QED
    BY <2>2
<1> QED
  BY <1>3, <1>4, FS_UNION DEF Nodes

\* A walk goes from node to neighbour.
Walk(p) == p \in Seq(Nodes) /\ p # <<>> /\ \A i \in 1..(Len(p) - 1) : p[i + 1] \in Neighbors[p[i]]

\* From one node to another.
Way(p, a, b) == Walk(p) /\ Len(p) >= 2 /\ p[1] = a /\ Last(p) = b

\* A walk goes on to any neighbour of its last node.
LEMMA WalkGoesOn ==
  ASSUME NEW p, Walk(p), NEW m \in Neighbors[Last(p)]
  PROVE  /\ Walk(Append(p, m)) /\ Append(p, m)[1] = p[1] /\ Last(Append(p, m)) = m
         /\ Len(Append(p, m)) >= 2
<1>1. PICK n \in Nat : n = Len(p) /\ n > 0 /\ p \in Seq(Nodes)
  BY EmptySeq DEF Walk
<1>2. Last(p) \in Nodes /\ Last(p) = p[n]
  <2>1. n \in 1..Len(p)
    BY <1>1
  <2> QED
    BY <1>1, <2>1, ElementOfSeq DEF Last
<1>3. m \in Nodes
  BY <1>2, NeighborsAreJoined
<1>4. PICK q : q = Append(p, m)
  OBVIOUS
<1>5. /\ q \in Seq(Nodes) /\ q # <<>> /\ Len(q) = n + 1 /\ q[n + 1] = m
      /\ \A i \in 1..n : q[i] = p[i]
  BY <1>1, <1>3, <1>4, AppendProperties
<1>6. ASSUME NEW i \in 1..(Len(q) - 1) PROVE q[i + 1] \in Neighbors[q[i]]
  <2>1. i \in 1..n /\ q[i] = p[i]
    BY <1>5
  <2>2. CASE i = n
    BY <1>2, <1>5, <2>1, <2>2
  <2>3. CASE i # n
    <3>1. i \in 1..(Len(p) - 1) /\ i + 1 \in 1..n
      BY <1>1, <2>1, <2>3
    <3>2. p[i + 1] \in Neighbors[p[i]]
      BY <3>1 DEF Walk
    <3> QED
      BY <1>5, <2>1, <3>1, <3>2
  <2> QED
    BY <2>2, <2>3
<1>7. 1 \in 1..n /\ Last(q) = m /\ Len(q) >= 2
  BY <1>1, <1>5 DEF Last
<1> QED
  BY <1>4, <1>5, <1>6, <1>7 DEF Walk

\* Whatever is blocked, a path found is a way.
LEMMA PathsAreWays ==
  ASSUME NEW a \in Nodes, NEW b, NEW nodes, NEW edges, NEW p \in Paths(a, b, nodes, edges)
  PROVE  Way(p, a, b)
<1> DEFINE Onward(q) == {m \in Neighbors[Last(q)] \ nodes : m \notin ToSet(q) /\ {Last(q), m} \notin edges}
<1> DEFINE Went(P) == UNION {IF Last(q) = b THEN {q} ELSE {Append(q, m) : m \in Onward(q)} : q \in P}
<1> DEFINE n == Cardinality(Nodes)
<1> DEFINE hops[k \in 0..n] == IF k = 0 THEN {<<a>>} ELSE Went(hops[k - 1])
<1>1. a # b /\ p \in hops[n] /\ Last(p) = b
  BY DEF Paths
<1> DEFINE Begun == {q \in Seq(Nodes) : Walk(q) /\ q[1] = a}
<1> DEFINE T == SUBSET Begun
<1> DEFINE base == {<<a>>}
<1>2. base \in T
  <2>1. <<a>> \in Seq(Nodes) /\ Len(<<a>>) = 1 /\ <<a>>[1] = a /\ <<a>> # <<>>
    OBVIOUS
  <2>2. Walk(<<a>>)
    BY <2>1 DEF Walk
  <2> QED
    BY <2>1, <2>2
<1>3. ASSUME NEW s \in T PROVE Went(s) \in T
  <2>1. ASSUME NEW q \in s, NEW m \in Onward(q)
        PROVE  Append(q, m) \in Begun
    <3>1. Walk(q) /\ q[1] = a /\ m \in Neighbors[Last(q)]
      OBVIOUS
    <3>2. Walk(Append(q, m)) /\ Append(q, m)[1] = q[1]
      BY <3>1, WalkGoesOn
    <3> QED
      BY <3>1, <3>2 DEF Walk
  <2>2. ASSUME NEW q \in Went(s) PROVE q \in Begun
    <3>1. PICK r \in s : q \in IF Last(r) = b THEN {r} ELSE {Append(r, m) : m \in Onward(r)}
      OBVIOUS
    <3>2. CASE Last(r) = b
      <4>1. q = r
        BY <3>1, <3>2
      <4> QED
        BY <4>1
    <3>3. CASE Last(r) # b
      <4>1. PICK m \in Onward(r) : q = Append(r, m)
        BY <3>1, <3>3
      <4> QED
        BY <2>1, <4>1
    <3> QED
      BY <3>2, <3>3
  <2> HIDE DEF Went, Begun
  <2> QED
    BY <2>2
<1>4. n \in Nat
  BY NodesAreFinite, FS_CardinalityType
<1> DEFINE step == [i \in Nat |-> [s \in T |-> Went(s)]]
<1>5. step \in [Nat -> [T -> T]] /\ \A i \in Nat, s \in T : step[i][s] = Went(s)
  <2> HIDE DEF Went, T
  <2> QED
    BY <1>3
<1> HIDE DEF step, T, base, n, Went
<1>6. PICK f : Solves(f, T, base, step, n)
  BY <1>2, <1>4, <1>5, Recursion
<1>7. f \in [0..n -> T]
  BY <1>6 DEF Solves
<1>8. f = [k \in 0..n |-> IF k = 0 THEN base ELSE Went(f[k - 1])]
  <2>1. ASSUME NEW k \in 0..n PROVE f[k] = IF k = 0 THEN base ELSE Went(f[k - 1])
    <3>1. k # 0 => k \in Nat /\ k - 1 \in 0..n
      BY <1>4
    <3>2. f[k] = IF k = 0 THEN base ELSE step[k][f[k - 1]]
      BY <1>6 DEF Solves
    <3>3. k # 0 => f[k - 1] \in T
      BY <1>7, <3>1
    <3> QED
      BY <1>5, <3>1, <3>2, <3>3
  <2> QED
    BY <1>7, <2>1
<1>9. hops \in [0..n -> T]
  <2>1. \E g : g \in [0..n -> T] /\ g = [k \in 0..n |-> IF k = 0 THEN base ELSE Went(g[k - 1])]
    BY <1>7, <1>8
  <2>2. hops = [k \in 0..n |-> IF k = 0 THEN base ELSE Went(hops[k - 1])]
    <3>1. \E g : g = [k \in 0..n |-> IF k = 0 THEN base ELSE Went(g[k - 1])]
      BY <2>1
    <3> QED
      BY <3>1 DEF base
  <2> HIDE DEF hops
  <2> DEFINE S == {k \in Nat : k <= n => hops[k] \in T}
  <2>3. 0 \in S
    BY <1>2, <1>4, <2>2
  <2>4. ASSUME NEW k \in S PROVE k + 1 \in S
    <3>1. ASSUME k + 1 <= n PROVE hops[k + 1] \in T
      <4>1. k + 1 \in 0..n /\ k + 1 # 0 /\ (k + 1) - 1 = k /\ k <= n
        BY <1>4, <3>1
      <4>2. hops[k + 1] = Went(hops[k])
        BY <2>2, <4>1
      <4>3. hops[k] \in T
        BY <4>1
      <4> QED
        BY <1>5, <4>2, <4>3, <1>3
    <3> QED
      BY <3>1
  <2>5. S = Nat
    <3>1. S \in SUBSET Nat
      OBVIOUS
    <3> HIDE DEF S
    <3> QED
      BY <2>3, <2>4, <3>1, Induction
  <2>6. \A k \in 0..n : hops[k] \in T
    BY <1>4, <2>5
  <2> QED
    BY <2>2, <2>6
<1> HIDE DEF hops
<1>10. hops[n] \in T
  BY <1>4, <1>9
<1>11. p \in Seq(Nodes) /\ Walk(p) /\ p[1] = a
  <2> HIDE DEF n
  <2>1. p \in Begun
    BY <1>1, <1>10 DEF T
  <2> QED
    BY <2>1
<1>12. Len(p) # 1
  <2>1. Last(p) = p[Len(p)]
    BY DEF Last
  <2>2. p[1] = a /\ Last(p) = b /\ a # b
    BY <1>1, <1>11
  <2> QED
    BY <2>1, <2>2
<1>13. Len(p) \in Nat \ {0}
  BY <1>11, EmptySeq DEF Walk
<1>14. Len(p) >= 2
  <2>1. PICK k : k = Len(p)
    OBVIOUS
  <2>2. k \in Nat /\ k # 0 /\ k # 1
    BY <1>12, <1>13, <2>1
  <2>3. k >= 2
    BY <2>2
  <2> QED
    BY <2>1, <2>3
<1>15. Last(p) = b
  BY <1>1
<1> QED
  BY <1>11, <1>14, <1>15 DEF Way

LEMMA WalksAreRoutes ==
  ASSUME NEW p, Walk(p)
  PROVE  /\ p \in Seq(Points) /\ p # <<>> /\ Len(p) \in Nat \ {0}
         /\ Last(p) \in Nodes /\ \A i \in 1..Len(p) : p[i] \in Nodes
<1>1. p \in Seq(Nodes) /\ p # <<>>
  BY DEF Walk
<1>2. p \in Seq(Points) /\ Len(p) \in Nat \ {0}
  BY <1>1, NodesArePoints, SeqMonotonic, EmptySeq
<1>3. \A i \in 1..Len(p) : p[i] \in Nodes
  BY <1>1, ElementOfSeq
<1> QED
  BY <1>1, <1>2, <1>3 DEF Last

\* There is a shortest path if there is a path.
LEMMA ShortestOf ==
  ASSUME NEW P, \A p \in P : p \in Seq(Points)
  PROVE  Shortest(P) \subseteq P /\ (P # {} => Shortest(P) # {})
<1>1. Shortest(P) \subseteq P
  BY DEF Shortest
<1>2. ASSUME P # {} PROVE Shortest(P) # {}
  <2> DEFINE L == {Length(p) : p \in P}
  <2>1. L \in SUBSET Int /\ L # {} /\ 0 \in Int /\ \A x \in L : 0 <= x
    <3>1. \A p \in P : Length(p) \in Nat
      BY LengthOf
    <3> QED
      BY <1>2, <3>1
  <2> HIDE DEF L
  <2>2. Min(L) \in L
    BY <2>1, MinOf
  <2>3. PICK p \in P : Length(p) = Min(L)
    BY <2>2 DEF L
  <2>4. p \in Shortest(P)
    BY <2>3 DEF Shortest, L
  <2> QED
    BY <2>4
<1> QED
  BY <1>1, <1>2

LEMMA ClosestIsThere ==
  ASSUME NEW p \in Points, NEW S \in SUBSET Points, S # {}
  PROVE  Closest(p, S) \in S
<1> DEFINE D == {Dist(p, n) : n \in S}
<1>1. D \in SUBSET Nat /\ D # {}
  BY DistIsNatural
<1> HIDE DEF D
<1>2. PICK d \in D : \A x \in D : d <= x
  BY <1>1, LeastNumber
<1>3. PICK n \in S : d = Dist(p, n)
  BY DEF D
<1>4. \A m \in S : Dist(p, n) <= Dist(p, m)
  BY <1>2, <1>3 DEF D
<1>5. \E k \in S : \A m \in S : Dist(p, k) <= Dist(p, m)
  BY <1>4
<1> QED
  BY <1>5 DEF Closest

LEMMA StripIsInTheGraph ==
  StripNodes \subseteq Nodes
BY DEF StripNodes, Nodes, Edges

\* The corridor is a way along the roads that ends on the Strip.
LEMMA CorridorIsAWay ==
  /\ Walk(Corridor) /\ Len(Corridor) >= 2 /\ Last(Corridor) \in StripNodes
  /\ Length(Corridor) \in Nat /\ Length(Corridor) >= Mile \div 2
<1>1. Sign \in Points /\ Exit \in Points /\ StripNodes # {} /\ StripNodes \in SUBSET Points
  BY CourseAssumption, StripIsInTheGraph, NodesArePoints DEF Points
<1>2. StartNode \in StripNodes /\ ExitNode \in StripNodes
  BY <1>1, ClosestIsThere DEF StartNode, ExitNode
<1>3. StartNode \in Nodes
  BY <1>2, StripIsInTheGraph
<1> DEFINE P == Paths(StartNode, ExitNode, Nodes \ StripNodes, {})
<1> DEFINE Q == IF P # {} THEN P ELSE Paths(StartNode, ExitNode, {}, {})
<1>4. Q # {}
  BY CourseAssumption
<1>5. \A p \in Q : Way(p, StartNode, ExitNode)
  BY <1>3, PathsAreWays
<1>6. \A p \in Q : p \in Seq(Points)
  BY <1>5, WalksAreRoutes DEF Way
<1>7. Corridor = CHOOSE p \in Shortest(Q) : TRUE
  BY DEF Corridor
<1> HIDE DEF Q
<1>8. Corridor \in Q
  BY <1>4, <1>6, <1>7, ShortestOf
<1>9. Way(Corridor, StartNode, ExitNode)
  BY <1>5, <1>8
<1>10. Length(Corridor) \in Nat
  BY <1>9, WalksAreRoutes, LengthOf DEF Way
<1> QED
  BY <1>2, <1>9, <1>10, CourseAssumption DEF Way

----------------------------------------------------------------------------
(* Routes.                                                                 *)

\* The corridor comes first.
Starts(r) == Len(Corridor) <= Len(r) /\ \A i \in 1..Len(Corridor) : r[i] = Corridor[i]

\* A route of the nodes of the graph, beyond the corridor.
WholeRoute(r) == Walk(r) /\ Len(r) > Len(Corridor) /\ Starts(r)

\* A route whose last point may lie on the way to a node.
OnRoads(r) ==
  /\ r \in Seq(Points) /\ Len(r) > Len(Corridor) /\ Starts(r)
  /\ \A i \in 1..(Len(r) - 2) : r[i] \in Nodes /\ r[i + 1] \in Neighbors[r[i]]
  /\ r[Len(r) - 1] \in Nodes
  /\ \E n \in Neighbors[r[Len(r) - 1]] : Between(r[Len(r) - 1], Last(r), n)

\* A distance that belongs to a route, if there is one.
Sound(r, d) == r \in Seq(Points) /\ d = Length(r) /\ (r # <<>> => OnRoads(r))

\* Walks that meet make a walk, as long as both.
LEMMA WalksJoined ==
  ASSUME NEW r, Walk(r), NEW p, Walk(p), Last(r) = p[1]
  PROVE  /\ Walk(r \o Tail(p)) /\ (r \o Tail(p))[1] = r[1] /\ Last(r \o Tail(p)) = Last(p)
         /\ Len(r \o Tail(p)) = Len(r) + Len(p) - 1
         /\ \A i \in 1..Len(r) : (r \o Tail(p))[i] = r[i]
         /\ Length(r \o Tail(p)) = Length(r) + Length(p)
<1>1. PICK n \in Nat, m \in Nat : n = Len(r) /\ m = Len(p) /\ n > 0 /\ m > 0
  BY WalksAreRoutes
<1>2. PICK s : s = r \o Tail(p)
  OBVIOUS
<1>3. /\ s \in Seq(Nodes) /\ Len(s) = n + m - 1
      /\ \A i \in 1..n : s[i] = r[i]
      /\ \A i \in 2..m : s[n + i - 1] = p[i]
  BY <1>1, <1>2, Joined DEF Walk
<1>4. s[n] = p[1] /\ s[1] = r[1] /\ s # <<>>
  <2>1. n \in 1..n /\ 1 \in 1..n
    BY <1>1
  <2> QED
    BY <1>1, <1>3, <2>1 DEF Last
<1>5. \A i \in 1..m : s[n + i - 1] = p[i]
  <2>1. \A i \in 1..m : i = 1 \/ i \in 2..m
    OBVIOUS
  <2>2. n + 1 - 1 = n
    BY <1>1
  <2> QED
    BY <1>3, <1>4, <2>1, <2>2
<1>6. ASSUME NEW i \in 1..(Len(s) - 1) PROVE s[i + 1] \in Neighbors[s[i]]
  <2>1. CASE i < n
    <3>1. i \in 1..(Len(r) - 1) /\ i \in 1..n /\ i + 1 \in 1..n
      BY <1>1, <2>1
    <3>2. r[i + 1] \in Neighbors[r[i]]
      BY <3>1 DEF Walk
    <3> QED
      BY <1>3, <3>1, <3>2
  <2>2. CASE i >= n
    <3>1. PICK j \in Int : i = n + j - 1
      <4>1. i - n + 1 \in Int /\ i = n + (i - n + 1) - 1
        BY <1>1
      <4> QED
        BY <4>1
    <3>2. /\ j \in 1..(Len(p) - 1) /\ j \in 1..m /\ j + 1 \in 1..m
          /\ i + 1 = n + (j + 1) - 1
      BY <1>1, <1>3, <2>2, <3>1
    <3>3. p[j + 1] \in Neighbors[p[j]]
      BY <3>2 DEF Walk
    <3> QED
      BY <1>5, <3>1, <3>2, <3>3
  <2> QED
    BY <1>1, <2>1, <2>2
<1>7. Last(s) = Last(p)
  <2>1. m \in 1..m /\ n + m - 1 = Len(s)
    BY <1>1, <1>3
  <2> QED
    BY <1>1, <1>5, <2>1 DEF Last
<1>8. Length(s) = Length(r) + Length(p)
  BY <1>2, WalksAreRoutes, LengthOfJoined
<1> QED
  BY <1>1, <1>2, <1>3, <1>4, <1>6, <1>7, <1>8 DEF Walk

LEMMA WalkBegins ==
  ASSUME NEW r, Walk(r), NEW n \in 1..Len(r)
  PROVE  /\ Walk(SubSeq(r, 1, n)) /\ Len(SubSeq(r, 1, n)) = n
         /\ \A i \in 1..n : SubSeq(r, 1, n)[i] = r[i]
<1>1. PICK s : s = SubSeq(r, 1, n)
  OBVIOUS
<1>2. n \in 0..Len(r) /\ r \in Seq(Nodes) /\ Len(r) \in Nat
  BY WalksAreRoutes DEF Walk
<1>3. s \in Seq(Nodes) /\ Len(s) = n /\ \A i \in 1..n : s[i] = r[i]
  BY <1>1, <1>2, Beginning
<1>4. ASSUME NEW i \in 1..(Len(s) - 1) PROVE s[i + 1] \in Neighbors[s[i]]
  <2>1. i \in 1..n /\ i + 1 \in 1..n /\ i \in 1..(Len(r) - 1)
    BY <1>2, <1>3
  <2>2. r[i + 1] \in Neighbors[r[i]]
    BY <2>1 DEF Walk
  <2> QED
    BY <1>3, <2>1, <2>2
<1>5. s # <<>>
  BY <1>3, EmptySeq
<1> QED
  BY <1>1, <1>3, <1>4, <1>5 DEF Walk

LEMMA StartsIsPrefix ==
  ASSUME NEW r \in Seq(Points), Starts(r)
  PROVE  IsPrefix(Corridor, r)
<1>1. PICK c \in Seq(Points) : c = Corridor
  BY CorridorIsAWay, WalksAreRoutes
<1>2. Len(c) \in 0..Len(c) /\ Len(c) \in 0..Len(r) /\ \A i \in 1..Len(c) : r[i] = c[i]
  BY <1>1 DEF Starts
<1>3. PICK a \in Seq(Points) : a = SubSeq(c, 1, Len(c))
  BY <1>2, Beginning
<1>4. Len(a) = Len(c) /\ \A i \in 1..Len(c) : a[i] = c[i]
  BY <1>2, <1>3, Beginning
<1>5. PICK b \in Seq(Points) : b = SubSeq(r, 1, Len(c))
  BY <1>2, Beginning
<1>6. Len(b) = Len(c) /\ \A i \in 1..Len(c) : b[i] = r[i]
  BY <1>2, <1>5, Beginning
<1>7. a = b
  BY <1>2, <1>4, <1>6, SeqEqual
<1> QED
  BY <1>1, <1>2, <1>3, <1>5, <1>7 DEF IsPrefix

\* A walk that goes on towards a neighbour.
LEMMA WalkTowards ==
  ASSUME NEW q, Walk(q), Starts(q), NEW n \in Neighbors[Last(q)],
         NEW x \in Points, Between(Last(q), x, n)
  PROVE  OnRoads(Append(q, x)) /\ Length(Append(q, x)) = Length(q) + Dist(Last(q), x)
<1>1. PICK k \in Nat : k = Len(q) /\ k > 0 /\ q \in Seq(Points) /\ q # <<>>
  BY WalksAreRoutes
<1>2. PICK r : r = Append(q, x)
  OBVIOUS
<1>3. /\ r \in Seq(Points) /\ Len(r) = k + 1 /\ r[k + 1] = x
      /\ \A i \in 1..k : r[i] = q[i]
  BY <1>1, <1>2, AppendProperties
<1>4. Len(Corridor) \in Nat
  BY CorridorIsAWay, WalksAreRoutes
<1>5. Len(r) > Len(Corridor) /\ Starts(r)
  BY <1>1, <1>3, <1>4 DEF Starts
<1>6. r[Len(r) - 1] = Last(q) /\ Last(r) = x
  <2>1. Len(r) - 1 = k /\ k \in 1..k
    BY <1>1, <1>3
  <2> QED
    BY <1>1, <1>3, <2>1 DEF Last
<1>7. Last(q) \in Nodes
  BY WalksAreRoutes
<1>8. ASSUME NEW i \in 1..(Len(r) - 2) PROVE r[i] \in Nodes /\ r[i + 1] \in Neighbors[r[i]]
  <2>1. i \in 1..(Len(q) - 1) /\ i \in 1..k /\ i + 1 \in 1..k
    BY <1>1, <1>3
  <2>2. q[i + 1] \in Neighbors[q[i]] /\ q[i] \in Nodes
    BY <1>1, <2>1, WalksAreRoutes DEF Walk
  <2> QED
    BY <1>3, <2>1, <2>2
<1>9. OnRoads(r)
  BY <1>3, <1>5, <1>6, <1>7, <1>8 DEF OnRoads
<1>10. Length(r) = Length(q) + Dist(Last(q), x)
  BY <1>1, <1>2, LengthOfAppend
<1> QED
  BY <1>2, <1>9, <1>10

\* A route of whole edges is a special case of one that ends on the way to a node.
LEMMA WholeRoutesAreOnRoads ==
  ASSUME NEW r, WholeRoute(r)
  PROVE  OnRoads(r) /\ Last(r) \in Neighbors[r[Len(r) - 1]]
<1>1. PICK n \in Nat : n = Len(r) /\ n > Len(Corridor) /\ r \in Seq(Points)
  BY WalksAreRoutes DEF WholeRoute
<1>2. Len(Corridor) \in Nat /\ Len(Corridor) >= 2
  BY CorridorIsAWay, WalksAreRoutes
<1>3. Walk(r) /\ Starts(r)
  BY DEF WholeRoute
<1>4. n - 1 \in 1..(n - 1) /\ (n - 1) + 1 = n /\ n - 1 \in 1..n /\ n \in 1..n
  BY <1>1, <1>2
<1>5. r[n] \in Neighbors[r[n - 1]]
  <2>1. r[(n - 1) + 1] \in Neighbors[r[n - 1]]
    BY <1>1, <1>3, <1>4 DEF Walk
  <2> QED
    BY <1>4, <2>1
<1>6. r[n - 1] \in Nodes /\ r[n] \in Nodes
  BY <1>1, <1>3, <1>4, WalksAreRoutes
<1>7. Between(r[n - 1], r[n], r[n])
  BY <1>6, NodesArePoints, BetweenReflexive
<1>8. ASSUME NEW i \in 1..(n - 2) PROVE r[i] \in Nodes /\ r[i + 1] \in Neighbors[r[i]]
  <2>1. i \in 1..(n - 1) /\ i \in 1..n
    BY <1>1
  <2> QED
    BY <1>1, <1>3, <2>1, WalksAreRoutes DEF Walk
<1> QED
  BY <1>1, <1>3, <1>5, <1>6, <1>7, <1>8 DEF OnRoads, Last

\* The fields of the record of an attempt.
WorkFields == {"zone", "dist", "finish", "side", "todo", "nodes", "edges", "left"}

\* An attempt: the zone is a walk from the end of the corridor, as long as noted.
Attempt(w) ==
  /\ DOMAIN w = WorkFields
  /\ Walk(w.zone) /\ w.zone[1] = Last(Corridor) /\ w.dist = Length(w.zone)
  /\ w.finish \in Nodes \ StripNodes

\* The zone of an attempt grows by a path from where it ends.
LEMMA ExtendedIsAttempt ==
  ASSUME NEW w, Attempt(w), NEW p, Walk(p), Last(w.zone) = p[1]
  PROVE  /\ Attempt(Extended(w, p))
         /\ Extended(w, p).zone = w.zone \o Tail(p) /\ Extended(w, p).finish = w.finish
<1>1. DOMAIN w = WorkFields /\ Walk(w.zone)
  BY DEF Attempt
<1>2. PICK e : e = Extended(w, p)
  OBVIOUS
<1>3. /\ DOMAIN e = WorkFields /\ e.zone = w.zone \o Tail(p)
      /\ e.dist = w.dist + Length(p) /\ e.finish = w.finish
  BY <1>1, <1>2 DEF Extended, WorkFields
<1>4. PICK z : z = w.zone
  OBVIOUS
<1>5. Walk(z) /\ Last(z) = p[1]
  BY <1>1, <1>4
<1>6. Walk(z \o Tail(p)) /\ (z \o Tail(p))[1] = z[1] /\ Length(z \o Tail(p)) = Length(z) + Length(p)
  BY <1>5, WalksJoined
<1> QED
  BY <1>2, <1>3, <1>4, <1>6 DEF Attempt

\* Where the loop stops that pops the end of a sequence.
LEMMA Stop ==
  ASSUME NEW n \in Nat, NEW S \in SUBSET (0..n), NEW least \in S
  PROVE  Max(S) \in S /\ Max(S) \in least..n
<1>1. S \in SUBSET Int /\ S # {} /\ n \in Int /\ \A x \in S : x <= n
  OBVIOUS
<1>2. Max(S) \in S /\ \A x \in S : x <= Max(S)
  BY <1>1, MaxOf
<1>3. PICK m : m = Max(S)
  OBVIOUS
<1>4. m \in 0..n /\ least \in 0..n /\ least <= m
  BY <1>2, <1>3
<1> QED
  BY <1>2, <1>3, <1>4

\* A zone that is popped until it fits the budget is still a walk, and its length
\* that of what is left.
LEMMA TrimmedIsAttempt ==
  ASSUME NEW w, Attempt(w)
  PROVE  /\ Attempt(TrimZone(w)) /\ TrimZone(w).finish = w.finish
         /\ Len(w.zone) >= 2 => Len(TrimZone(w).zone) >= 2
<1>1. PICK z : z = w.zone
  OBVIOUS
<1>2. DOMAIN w = WorkFields /\ Walk(z) /\ z[1] = Last(Corridor) /\ w.dist = Length(z)
  BY <1>1 DEF Attempt
<1>3. PICK n \in Nat : n = Len(z) /\ n > 0
  BY <1>2, WalksAreRoutes
<1> DEFINE Pops(k) == /\ w.dist - Popped(w.zone, SubSeq(w.zone, 1, k)) > Budget + Mile /\ k > 2
<1> DEFINE S == {k \in 0..Len(w.zone) : k > 0 => ~Pops(k)}
<1>4. PICK least \in S : least = IF n >= 2 THEN 2 ELSE 1
  <2>1. 1 \in 0..Len(w.zone) /\ ~ (1 > 2) /\ ~ (2 > 2) /\ (n >= 2 => 2 \in 0..Len(w.zone))
    BY <1>1, <1>3
  <2> QED
    BY <2>1
<1>5. PICK m : m = Max(S)
  OBVIOUS
<1>6. m \in least..n
  <2>1. S \in SUBSET (0..n)
    BY <1>1, <1>3
  <2> HIDE DEF S
  <2> QED
    BY <1>5, <2>1, Stop
<1>7. m \in 1..Len(z) /\ (n >= 2 => m >= 2)
  BY <1>3, <1>4, <1>6
<1>8. PICK y : y = SubSeq(z, 1, m)
  OBVIOUS
<1>9. TrimZone(w) = [w EXCEPT !.zone = y, !.dist = @ - Popped(w.zone, y)]
  BY <1>1, <1>5, <1>8 DEF TrimZone, Prefix
<1>10. PICK t : t = TrimZone(w)
  OBVIOUS
<1>11. DOMAIN t = WorkFields /\ t.zone = y /\ t.dist = w.dist - Popped(z, y) /\ t.finish = w.finish
  BY <1>1, <1>2, <1>9, <1>10 DEF WorkFields
<1>12. Walk(y) /\ Len(y) = m /\ y[1] = z[1]
  <2>1. 1 \in 1..m
    BY <1>3, <1>7
  <2> QED
    BY <1>2, <1>7, <1>8, <2>1, WalkBegins
<1>13. Length(y) \in Nat /\ Length(z) \in Nat
  BY <1>2, <1>12, WalksAreRoutes, LengthOf
<1>14. t.dist = Length(y)
  BY <1>2, <1>11, <1>13 DEF Popped
<1>15. Attempt(t)
  BY <1>2, <1>11, <1>12, <1>14 DEF Attempt
<1> QED
  BY <1>1, <1>3, <1>7, <1>10, <1>11, <1>12, <1>15

\* Whatever it crosses, a connection is a way to the finish.
LEMMA ConnectionsAreWays ==
  ASSUME NEW w, Attempt(w), NEW p \in Connections(w)
  PROVE  Way(p, Last(w.zone), w.finish)
<1>1. PICK f \in Nodes : f = Last(w.zone)
  BY WalksAreRoutes DEF Attempt
<1>2. ASSUME NEW nodes, NEW edges, NEW q \in Paths(f, w.finish, nodes, edges)
      PROVE  Way(q, f, w.finish) /\ q \in Seq(Points)
  <2>1. Way(q, f, w.finish)
    BY PathsAreWays
  <2> QED
    BY <2>1, WalksAreRoutes DEF Way
<1>3. ASSUME NEW nodes, NEW edges, NEW q \in Shortest(Paths(f, w.finish, nodes, edges))
      PROVE  Way(q, f, w.finish)
  <2>1. \A x \in Paths(f, w.finish, nodes, edges) : x \in Seq(Points)
    BY <1>2
  <2>2. q \in Paths(f, w.finish, nodes, edges)
    BY <2>1, ShortestOf
  <2> QED
    BY <1>2, <2>2
<1> DEFINE blocked == (w.nodes \cup ToSet(Corridor)) \ {w.finish}
<1> DEFINE P1 == Paths(f, w.finish, blocked, w.edges)
<1> DEFINE P2 == Shortest(Paths(f, w.finish, blocked, {}))
<1> DEFINE P3 == Shortest(Paths(f, w.finish, ToSet(Corridor) \ {w.finish}, {}))
<1> DEFINE P4 == Shortest(Paths(f, w.finish, {}, {}))
<1>4. p \in P1 \cup P2 \cup P3 \cup P4
  <2> DEFINE P == IF P1 # {} THEN P1 ELSE IF P2 # {} THEN P2 ELSE P3
  <2> DEFINE Free(q) == ~Crosses(q, w.zone) /\ ~Crosses(q, Corridor)
  <2>1. Connections(w) = {q \in P : Free(q)}
           \cup (IF \A q \in P : Free(q) /\ P # {} THEN {} ELSE P4)
    BY <1>1 DEF Connections
  <2> HIDE DEF P1, P2, P3, P4, Free
  <2> QED
    BY <2>1
<1>5. Way(p, f, w.finish)
  <2>1. CASE p \in P1
    BY <1>2, <2>1
  <2>2. CASE p \in P2
    BY <1>3, <2>2
  <2>3. CASE p \in P3
    BY <1>3, <2>3
  <2>4. CASE p \in P4
    BY <1>3, <2>4
  <2> HIDE DEF P1, P2, P3, P4
  <2> QED
    BY <1>4, <2>1, <2>2, <2>3, <2>4
<1> QED
  BY <1>1, <1>5

\* The corridor and the zone make a route, as long as both.
LEMMA AssembledIsWhole ==
  ASSUME NEW w, Attempt(w), Len(w.zone) >= 2
  PROVE  WholeRoute(Assembled(w).route) /\ Assembled(w).dist = Length(Assembled(w).route)
<1>1. Walk(w.zone) /\ w.zone[1] = Last(Corridor) /\ w.dist = Length(w.zone)
  BY DEF Attempt
<1>2. Walk(Corridor)
  BY CorridorIsAWay
<1>3. PICK r : r = Corridor \o Tail(w.zone)
  OBVIOUS
<1>4. /\ Walk(r) /\ Len(r) = Len(Corridor) + Len(w.zone) - 1
      /\ \A i \in 1..Len(Corridor) : r[i] = Corridor[i]
      /\ Length(r) = Length(Corridor) + Length(w.zone)
  BY <1>1, <1>2, <1>3, WalksJoined
<1>5. Len(Corridor) \in Nat /\ Len(w.zone) \in Nat
  BY <1>1, <1>2, WalksAreRoutes
<1>6. WholeRoute(r)
  BY <1>4, <1>5 DEF WholeRoute, Starts
<1> QED
  BY <1>1, <1>3, <1>4, <1>6 DEF Assembled

\* However far a route is popped and cut, it stays one with the distance noted.
LEMMA ShortenedIsSound ==
  ASSUME NEW r, WholeRoute(r), Length(r) > TargetDist
  PROVE  /\ OnRoads(Shortened(r, Length(r)).route)
         /\ Shortened(r, Length(r)).dist = Length(Shortened(r, Length(r)).route)
<1>1. PICK d \in Nat : d = Length(r)
  BY WalksAreRoutes, LengthOf DEF WholeRoute
<1>2. PICK n \in Nat : n = Len(r) /\ n > Len(Corridor)
  BY WalksAreRoutes DEF WholeRoute
<1>3. PICK c \in Nat : c = Len(Corridor) /\ c >= 2
  BY CorridorIsAWay, WalksAreRoutes
<1> DEFINE Pops(k) == /\ d - Popped(r, SubSeq(r, 1, k)) > TargetDist + Mile \div 2
                      /\ k > Len(Corridor) + 2
                      /\ Dist(r[k - 1], poi) <= (3 * Mile) \div 4
<1> DEFINE S == {k \in 0..Len(r) : k > 0 => ~Pops(k)}
<1>4. c + 1 \in S
  BY <1>2, <1>3
<1>5. PICK m : m = Max(S)
  OBVIOUS
<1>6. m \in (c + 1)..n
  <2>1. S \in SUBSET (0..n)
    BY <1>2
  <2> HIDE DEF S
  <2> QED
    BY <1>4, <1>5, <2>1, Stop
<1>7. PICK p : p = SubSeq(r, 1, m)
  OBVIOUS
<1>8. /\ Walk(p) /\ Len(p) = m /\ \A i \in 1..m : p[i] = r[i]
      /\ m \in 1..Len(r) /\ m \in Nat
  <2>1. m \in 1..Len(r) /\ m \in Nat
    BY <1>2, <1>3, <1>6
  <2> QED
    BY <1>7, <2>1, WalkBegins DEF WholeRoute
<1>9. WholeRoute(p)
  <2>1. \A i \in 1..c : i \in 1..m
    BY <1>6
  <2> QED
    BY <1>3, <1>6, <1>8, <2>1 DEF WholeRoute, Starts
<1>10. p \in Seq(Points) /\ Length(p) \in Nat
  BY <1>8, WalksAreRoutes, LengthOf
<1>11. PICK e \in Nat : e = d - Popped(r, p) /\ e = Length(p)
  BY <1>1, <1>10 DEF Popped
<1> DEFINE cut == Min({e - TargetDist, Mile \div 2})
<1> DEFINE back == Dist(p[Len(p) - 1], p[Len(p)]) - cut
<1> DEFINE x == Toward(p[Len(p) - 1], p[Len(p)], back)
<1>12. Shortened(r, d) =
         IF e > TargetDist /\ Dist(p[Len(p) - 1], Last(p)) > cut
           THEN [route |-> [p EXCEPT ![Len(p)] = x], dist |-> e - cut]
           ELSE [route |-> p, dist |-> e]
  BY <1>5, <1>7, <1>11 DEF Shortened, Prefix
<1>13. CASE e > TargetDist /\ Dist(p[Len(p) - 1], Last(p)) > cut
  <2>1. cut \in Nat
    <3>1. e - TargetDist \in Nat /\ Mile \div 2 \in Nat
      BY <1>13 DEF TargetDist, Mile
    <3> QED
      BY <3>1, MinOfTwo
  <2> HIDE DEF cut
  <2>2. /\ m - 1 \in 1..Len(p) /\ m \in 1..m /\ m - 1 \in 1..m /\ c <= m - 1 /\ m - 1 >= 1
        /\ m - 1 \in Nat
    BY <1>3, <1>6, <1>8
  <2>3. p[m] \in Neighbors[p[m - 1]] /\ p[m - 1] \in Nodes
    BY <1>8, <1>9, <2>2, WholeRoutesAreOnRoads, WalksAreRoutes DEF Last
  <2>4. /\ p[m] \in Points /\ p[m - 1] \in Points /\ AlongAxis(p[m - 1], p[m])
    BY <2>3, NeighborsAreJoined, NodesArePoints
  <2>5. back \in 0..Dist(p[m - 1], p[m]) /\ Dist(p[m - 1], p[m]) \in Nat
    BY <1>8, <1>13, <2>1, <2>4, DistIsNatural DEF Last
  <2>6. PICK b \in Nat : b = back /\ b = Dist(p[m - 1], p[m]) - cut
    BY <1>8, <2>5
  <2>7. /\ x \in Points /\ Dist(p[m - 1], x) = b /\ Between(p[m - 1], x, p[m])
    BY <1>8, <2>4, <2>5, <2>6, TowardIsBetween
  <2>8. PICK y \in Points : y = x
    BY <2>7
  <2> HIDE DEF x, back
  <2>9. PICK q : q = SubSeq(p, 1, m - 1)
    OBVIOUS
  <2>10. Walk(q) /\ Len(q) = m - 1 /\ \A i \in 1..(m - 1) : q[i] = p[i]
    BY <1>8, <2>2, <2>9, WalkBegins
  <2>11. Last(q) = p[m - 1] /\ Starts(q)
    <3>1. m - 1 \in 1..(m - 1) /\ \A i \in 1..c : i \in 1..(m - 1) /\ i \in 1..m
      BY <1>3, <2>2
    <3> QED
      BY <1>3, <1>9, <2>2, <2>10, <3>1 DEF Last, WholeRoute, Starts
  <2>12. OnRoads(Append(q, y)) /\ Length(Append(q, y)) = Length(q) + b
    BY <2>3, <2>7, <2>8, <2>10, <2>11, WalkTowards
  <2>13. [p EXCEPT ![Len(p)] = y] = Append(q, y)
    <3>1. PICK u : u = [p EXCEPT ![Len(p)] = y]
      OBVIOUS
    <3>2. m \in 1..Len(p) /\ Len(p) = m
      BY <1>8, <2>2
    <3>3. /\ u \in Seq(Points) /\ Len(u) = m
          /\ \A j \in 1..m : u[j] = IF j = m THEN y ELSE p[j]
      BY <1>10, <3>1, <3>2, ExceptSeq
    <3>4. PICK v : v = Append(q, y)
      OBVIOUS
    <3>5. q \in Seq(Points)
      BY <2>10, WalksAreRoutes
    <3>6. v \in Seq(Points) /\ Len(v) = Len(q) + 1 /\ v[Len(q) + 1] = y /\ \A j \in 1..Len(q) : v[j] = q[j]
      BY <3>4, <3>5, AppendProperties
    <3>7. Len(v) = m /\ v[m] = y /\ \A j \in 1..(m - 1) : v[j] = p[j]
      <4>1. Len(q) + 1 = m
        BY <2>2, <2>10
      <4> QED
        BY <2>10, <3>6, <4>1
    <3>8. ASSUME NEW j \in 1..Len(u) PROVE u[j] = v[j]
      <4>1. j = m \/ j \in 1..(m - 1)
        BY <1>8, <3>3
      <4>2. j \in 1..m
        BY <3>3
      <4>3. CASE j = m
        BY <3>3, <3>7, <4>2, <4>3
      <4>4. CASE j \in 1..(m - 1)
        <5>1. j # m
          BY <2>2, <4>4
        <5> QED
          BY <3>3, <3>7, <4>2, <4>4, <5>1
      <4> QED
        BY <4>1, <4>3, <4>4
    <3>9. u = v
      BY <3>3, <3>6, <3>7, <3>8, SeqEqual
    <3> QED
      BY <3>1, <3>4, <3>9
  <2>14. Length(p) = Length(q) + Dist(p[m - 1], p[m]) /\ Length(q) \in Nat
    <3>1. p = SubSeq(p, 1, m)
      BY <1>8, <1>10, SubSeqFull
    <3>2. m - 1 \in 1..(Len(p) - 1) /\ (m - 1) + 1 = m
      BY <1>8, <2>2
    <3>3. Length(SubSeq(p, 1, (m - 1) + 1)) = Length(SubSeq(p, 1, m - 1)) + Dist(p[m - 1], p[(m - 1) + 1])
      BY <1>10, <3>2, LengthOfBeginning
    <3>4. Length(q) \in Nat
      BY <2>10, WalksAreRoutes, LengthOf
    <3> QED
      BY <2>9, <3>1, <3>2, <3>3, <3>4
  <2>15. e - cut = Length(q) + b
    BY <1>11, <2>1, <2>5, <2>6, <2>14
  <2>16. Shortened(r, d) = [route |-> Append(q, y), dist |-> e - cut]
    BY <1>12, <1>13, <2>8, <2>13
  <2> QED
    BY <1>1, <2>12, <2>15, <2>16
<1>14. CASE ~ (e > TargetDist /\ Dist(p[Len(p) - 1], Last(p)) > cut)
  <2>1. Shortened(r, d) = [route |-> p, dist |-> e]
    BY <1>12, <1>14
  <2>2. OnRoads(p)
    BY <1>9, WholeRoutesAreOnRoads
  <2> QED
    BY <1>1, <1>11, <2>1, <2>2
<1> QED
  BY <1>13, <1>14

\* The same for a route that is too short and goes on to a neighbour, or on the way
\* to it.
LEMMA LengthenedIsSound ==
  ASSUME NEW r, WholeRoute(r), Length(r) < TargetDist, NEW c \in Lengthened(r, Length(r))
  PROVE  OnRoads(c.route) /\ c.dist = Length(c.route)
<1>1. PICK d \in Nat : d = Length(r) /\ d < TargetDist
  BY WalksAreRoutes, LengthOf DEF WholeRoute
<1>2. PICK z \in Nodes : z = Last(r)
  BY WalksAreRoutes DEF WholeRoute
<1> DEFINE N == {n \in Neighbors[z] : {z, n} \notin work.edges}
<1> DEFINE more(n) == Min({TargetDist - d, Dist(z, n)})
<1>3. CASE c = [route |-> r, dist |-> d]
  BY <1>1, <1>3, WholeRoutesAreOnRoads
<1>4. CASE \E n \in N : c = [route |-> Append(r, Toward(z, n, more(n))), dist |-> d + more(n)]
  <2>1. PICK n \in N : c = [route |-> Append(r, Toward(z, n, more(n))), dist |-> d + more(n)]
    BY <1>4
  <2>2. n \in Neighbors[z] /\ n \in Points /\ z \in Points /\ AlongAxis(z, n)
    BY NeighborsAreJoined, NodesArePoints
  <2>3. Dist(z, n) \in Nat
    BY <2>2, DistIsNatural
  <2>4. more(n) \in 0..Dist(z, n)
    <3>1. TargetDist - d \in Nat
      BY <1>1 DEF TargetDist
    <3>2. more(n) = IF TargetDist - d <= Dist(z, n) THEN TargetDist - d ELSE Dist(z, n)
      BY <2>3, <3>1, MinOfTwo
    <3> QED
      BY <2>3, <3>1, <3>2
  <2>5. PICK k \in 0..Dist(z, n) : k = more(n)
    BY <2>4
  <2>6. PICK x \in Points : x = Toward(z, n, k) /\ Dist(z, x) = k /\ Between(z, x, n)
    BY <2>2, TowardIsBetween
  <2>7. OnRoads(Append(r, x)) /\ Length(Append(r, x)) = Length(r) + k
    BY <1>2, <2>2, <2>6, WalkTowards DEF WholeRoute
  <2>8. c = [route |-> Append(r, x), dist |-> d + k]
    BY <2>1, <2>5, <2>6
  <2> QED
    BY <1>1, <2>7, <2>8
<1>5. \/ c = [route |-> r, dist |-> d]
      \/ \E n \in N : c = [route |-> Append(r, Toward(z, n, more(n))), dist |-> d + more(n)]
  <2>1. Lengthened(r, d) =
          IF N = {} THEN {[route |-> r, dist |-> d]}
          ELSE {[route |-> Append(r, Toward(z, n, more(n))), dist |-> d + more(n)] :
                  n \in {m \in N : \A k \in N : Dist(m, poi) <= Dist(k, poi)}}
    BY <1>2 DEF Lengthened
  <2> HIDE DEF N, more
  <2>2. c \in Lengthened(r, d)
    BY <1>1
  <2> QED
    BY <2>1, <2>2
<1> QED
  BY <1>3, <1>4, <1>5

LEMMA AdjustedIsSound ==
  ASSUME NEW r, WholeRoute(r), NEW c \in Adjusted(r, Length(r))
  PROVE  OnRoads(c.route) /\ Sound(c.route, c.dist) /\ c.route # <<>>
<1>1. Length(r) \in Nat
  BY WalksAreRoutes, LengthOf DEF WholeRoute
<1>2. OnRoads(c.route) /\ c.dist = Length(c.route)
  <2>1. CASE Length(r) > TargetDist
    <3>1. c = Shortened(r, Length(r))
      BY <1>1, <2>1 DEF Adjusted, TargetDist
    <3> QED
      BY <2>1, <3>1, ShortenedIsSound
  <2>2. CASE Length(r) < TargetDist
    <3>1. c \in Lengthened(r, Length(r))
      BY <1>1, <2>2 DEF Adjusted, TargetDist
    <3> QED
      BY <2>2, <3>1, LengthenedIsSound
  <2>3. CASE ~ (Length(r) > TargetDist) /\ ~ (Length(r) < TargetDist)
    <3>1. c = [route |-> r, dist |-> Length(r)]
      BY <2>3 DEF Adjusted
    <3> QED
      BY <3>1, WholeRoutesAreOnRoads
  <2> QED
    BY <2>1, <2>2, <2>3
<1>3. c.route # <<>>
  <2>1. Len(c.route) > Len(Corridor) /\ Len(Corridor) \in Nat
    BY <1>2, CorridorIsAWay, WalksAreRoutes DEF OnRoads
  <2> QED
    BY <2>1, EmptySeq
<1>4. c.route \in Seq(Points)
  BY <1>2 DEF OnRoads
<1> QED
  BY <1>2, <1>3, <1>4 DEF Sound

----------------------------------------------------------------------------
(* The invariant of the generation.                                        *)

Attempting == {"sweep", "explore", "connect", "adjust"}

\* There is an attempt while one is made, and what it leads to is a whole route.
AttemptInv ==
  /\ at \in Attempting => Attempt(work)
  /\ at \notin Attempting => work = NoWork
  /\ at = "adjust" => WholeRoute(route)

RouteInv ==
  /\ AttemptInv
  /\ Sound(route, total) /\ Sound(fallback.route, fallback.dist)
  /\ Sound(best.route, best.dist) /\ Sound(bestClean.route, bestClean.dist)

LEMMA NothingIsSound ==
  Sound(<<>>, 0)
<1>1. <<>> \in Seq(Points) /\ Length(<<>>) = 0
  <2>1. PICK p \in Points : TRUE
    BY CourseAssumption DEF Points
  <2> QED
    BY <2>1, EmptySeq, LengthOfFew
<1> QED
  BY <1>1 DEF Sound

\* The invariant of the generation holds at first, and every step keeps it.
LEMMA RouteInit ==
  Init => RouteInv
<1> SUFFICES ASSUME Init PROVE RouteInv
  OBVIOUS
<1>1. AttemptInv
  BY DEF Init, AttemptInv, Attempting
<1> QED
  BY <1>1, NothingIsSound DEF Init, RouteInv, None, NoFallback

LEMMA FinishIsOffTheStrip ==
  ASSUME NEW p, NEW f \in FinishNodes(p)
  PROVE  f \in Nodes \ StripNodes
<1> DEFINE Near(radius, limit) ==
        {n \in Nodes \ StripNodes : Dist(n, p) <= radius
                                    /\ \E s \in StripNodes : Dist(n, s) <= limit}
<1> DEFINE Far == 100 * Mile
<1> DEFINE tiers == <<Near(Mile \div 2, Mile \div 2), Near(Mile, Mile \div 2),
                 Near(Far, Mile \div 2), Near(Mile, Far)>>
<1> DEFINE found == {i \in 1..4 : tiers[i] # {}}
<1> DEFINE S == IF found = {} THEN {} ELSE tiers[Min(found)]
<1>1. f \in S
  BY DEF FinishNodes
<1>2. found # {} => Min(found) \in 1..4
  <2>1. ASSUME found # {} PROVE Min(found) \in found
    <3>1. found \in SUBSET Int /\ 1 \in Int /\ \A x \in found : 1 <= x
      OBVIOUS
    <3> HIDE DEF found
    <3> QED
      BY <2>1, <3>1, MinOf
  <2>2. found \subseteq 1..4
    OBVIOUS
  <2> HIDE DEF found
  <2> QED
    BY <2>1, <2>2
<1>3. \A i \in 1..4 : tiers[i] \subseteq Nodes \ StripNodes
  <2>1. \A radius, limit : Near(radius, limit) \subseteq Nodes \ StripNodes
    OBVIOUS
  <2> HIDE DEF Near
  <2>2. \A i \in 1..4 : i = 1 \/ i = 2 \/ i = 3 \/ i = 4
    OBVIOUS
  <2> QED
    BY <2>1, <2>2
<1> HIDE DEF tiers, found
<1> QED
  BY <1>1, <1>2, <1>3

\* A hop to any place: the attempt stays, or is extended by the way there.
LEMMA ReachedIsAttempt ==
  ASSUME NEW w, Attempt(w), NEW v, Attempt(v), v.zone = w.zone, NEW to, NEW p \in Reach(w, to)
  PROVE  Attempt(Extended(v, p))
<1>1. Last(w.zone) \in Nodes
  BY WalksAreRoutes DEF Attempt
<1>2. Way(p, Last(w.zone), to)
  BY <1>1, PathsAreWays DEF Reach
<1> QED
  BY <1>2, ExtendedIsAttempt DEF Way

LEMMA AttemptKeepsZone ==
  ASSUME NEW w, Attempt(w), NEW x
  PROVE  /\ Attempt([w EXCEPT !.todo = x]) /\ [w EXCEPT !.todo = x].zone = w.zone
         /\ Attempt([w EXCEPT !.left = x]) /\ [w EXCEPT !.left = x].zone = w.zone
<1>1. DOMAIN w = WorkFields
  BY DEF Attempt
<1>2. PICK a : a = [w EXCEPT !.todo = x]
  OBVIOUS
<1>3. DOMAIN a = WorkFields /\ a.zone = w.zone /\ a.dist = w.dist /\ a.finish = w.finish
  BY <1>1, <1>2 DEF WorkFields
<1>4. PICK b : b = [w EXCEPT !.left = x]
  OBVIOUS
<1>5. DOMAIN b = WorkFields /\ b.zone = w.zone /\ b.dist = w.dist /\ b.finish = w.finish
  BY <1>1, <1>4 DEF WorkFields
<1>6. Attempt(a)
  BY <1>3 DEF Attempt
<1>7. Attempt(b)
  BY <1>5 DEF Attempt
<1> QED
  BY <1>2, <1>3, <1>4, <1>5, <1>6, <1>7

LEMMA StartAttemptKeeps ==
  ASSUME RouteInv, StartAttempt
  PROVE  RouteInv'
<1>1. PICK f \in FinishNodes(poi) : \E side, todo :
        work' = [zone |-> <<Last(Corridor)>>, dist |-> 0, finish |-> f, side |-> side,
                  todo |-> todo, nodes |-> ToSet(Corridor), edges |-> EdgesOf(Corridor),
                  left |-> Explorations]
  BY DEF StartAttempt
<1>2. PICK z : z = Last(Corridor)
  OBVIOUS
<1>3. z \in Nodes /\ z \in Points
  BY <1>2, CorridorIsAWay, WalksAreRoutes, NodesArePoints
<1>4. PICK s : s = <<z>>
  OBVIOUS
<1>5. Walk(s) /\ s[1] = z /\ Length(s) = 0
  <2>1. s \in Seq(Nodes) /\ Len(s) = 1 /\ s[1] = z /\ s # <<>>
    BY <1>3, <1>4
  <2>2. Length(s) = 0
    BY <1>3, <1>4, LengthOfFew
  <2> QED
    BY <2>1, <2>2 DEF Walk
<1>6. DOMAIN work' = WorkFields /\ work'.zone = s /\ work'.dist = 0 /\ work'.finish = f
  BY <1>1, <1>2, <1>4 DEF WorkFields
<1>7. Attempt(work')
  BY <1>2, <1>5, <1>6, FinishIsOffTheStrip DEF Attempt
<1>8. at' = "sweep" /\ UNCHANGED <<best, bestClean, route, total, fallback>>
  BY DEF StartAttempt, Searching
<1>9. AttemptInv'
  BY <1>7, <1>8 DEF AttemptInv, Attempting
<1> QED
  BY <1>8, <1>9 DEF RouteInv

LEMMA HopKeeps ==
  ASSUME RouteInv, Hop
  PROVE  RouteInv'
<1>1. Attempt(work) /\ at = "sweep"
  BY DEF Hop, RouteInv, AttemptInv, Attempting
<1>2. at' \in {"sweep", "explore"} /\ UNCHANGED <<best, bestClean, route, total, fallback>>
  BY <1>1 DEF Hop, Searching
<1>3. Attempt(work')
  <2>1. CASE UNCHANGED work
    BY <1>1, <2>1
  <2>2. CASE ~ UNCHANGED work
    <3>1. PICK w : w = [work EXCEPT !.todo = Tail(@)]
      OBVIOUS
    <3>2. Attempt(w) /\ w.zone = work.zone
      BY <1>1, <3>1, AttemptKeepsZone
    <3>3. \/ \E p \in Reach(work, Head(work.todo)) : work' = w \/ work' = Extended(w, p)
          \/ work' = w
      BY <2>2, <3>1 DEF Hop
    <3> QED
      BY <1>1, <3>2, <3>3, ReachedIsAttempt
  <2> QED
    BY <2>1, <2>2
<1>4. AttemptInv'
  BY <1>2, <1>3 DEF AttemptInv, Attempting
<1> QED
  BY <1>2, <1>4 DEF RouteInv

LEMMA ExploreKeeps ==
  ASSUME RouteInv, Explore
  PROVE  RouteInv'
<1>1. Attempt(work) /\ at = "explore"
  BY DEF Explore, RouteInv, AttemptInv, Attempting
<1>2. at' \in {"explore", "connect"} /\ UNCHANGED <<best, bestClean, route, total, fallback>>
  BY <1>1 DEF Explore, Searching
<1>3. Attempt(work')
  <2>1. CASE UNCHANGED work
    BY <1>1, <2>1
  <2>2. CASE ~ UNCHANGED work
    <3>1. PICK w : w = [work EXCEPT !.left = @ - 1]
      OBVIOUS
    <3>2. Attempt(w) /\ w.zone = work.zone
      BY <1>1, <3>1, AttemptKeepsZone
    <3>3. \E to : \/ \E p \in Reach(work, to) : work' = w \/ work' = Extended(w, p)
                  \/ work' = w
      BY <2>2, <3>1 DEF Explore
    <3> QED
      BY <1>1, <3>2, <3>3, ReachedIsAttempt
  <2> QED
    BY <2>1, <2>2
<1>4. AttemptInv'
  BY <1>2, <1>3 DEF AttemptInv, Attempting
<1> QED
  BY <1>2, <1>4 DEF RouteInv

LEMMA ConnectKeeps ==
  ASSUME RouteInv, Connect
  PROVE  RouteInv'
<1>1. Attempt(work) /\ at = "connect"
  BY DEF Connect, RouteInv, AttemptInv, Attempting
<1>2. UNCHANGED <<best, bestClean, fallback>>
  BY DEF Connect, Searching
<1>3. PICK w : w = TrimZone(work) /\ Attempt(w)
  BY <1>1, TrimmedIsAttempt
<1>4. PICK C : C = IF Last(w.zone) = w.finish THEN {<<w.finish>>} ELSE Connections(w)
  OBVIOUS
<1>5. \/ \E p \in C : /\ work' = Extended(w, p) /\ at' = "adjust"
                      /\ route' = Assembled(work').route /\ total' = Assembled(work').dist
      \/ Rejected /\ work' = NoWork /\ UNCHANGED <<route, total>>
  BY <1>3, <1>4 DEF Connect
<1>6. CASE Rejected /\ work' = NoWork /\ UNCHANGED <<route, total>>
  <2>1. at' \in {"attempt", "candidate"}
    BY <1>6 DEF Rejected
  <2>2. AttemptInv'
    BY <1>6, <2>1 DEF AttemptInv, Attempting
  <2> QED
    BY <1>2, <1>6, <2>2 DEF RouteInv
<1>7. CASE \E p \in C : /\ work' = Extended(w, p) /\ at' = "adjust"
                        /\ route' = Assembled(work').route /\ total' = Assembled(work').dist
  <2>1. PICK p \in C : /\ work' = Extended(w, p) /\ at' = "adjust"
                       /\ route' = Assembled(work').route /\ total' = Assembled(work').dist
    BY <1>7
  <2>2. PICK z : z = w.zone /\ Walk(z) /\ z[1] = Last(Corridor)
    BY <1>3 DEF Attempt
  <2>3. PICK n \in Nat : n = Len(z) /\ n > 0
    BY <2>2, WalksAreRoutes
  <2>4. Walk(p) /\ Last(z) = p[1] /\ n + Len(p) - 1 >= 2
    <3>1. CASE Last(z) = w.finish
      <4>1. p = <<w.finish>> /\ w.finish \in Nodes \ StripNodes
        BY <1>3, <1>4, <2>2, <3>1 DEF Attempt
      <4>2. p \in Seq(Nodes) /\ Len(p) = 1 /\ p[1] = w.finish /\ p # <<>>
        BY <4>1
      <4>3. Walk(p)
        BY <4>2 DEF Walk
      <4>4. n # 1
        BY <2>2, <2>3, <3>1, <4>1, CorridorIsAWay DEF Last
      <4> QED
        BY <2>3, <3>1, <4>2, <4>3, <4>4
    <3>2. CASE Last(z) # w.finish
      <4>1. p \in Connections(w)
        BY <1>4, <2>2, <3>2
      <4>2. Way(p, Last(z), w.finish)
        BY <1>3, <2>2, <4>1, ConnectionsAreWays
      <4>3. Walk(p) /\ Len(p) >= 2 /\ p[1] = Last(z) /\ Len(p) \in Nat
        BY <4>2, WalksAreRoutes DEF Way
      <4> QED
        BY <2>3, <4>3
    <3> QED
      BY <3>1, <3>2
  <2>5. Attempt(work') /\ work'.zone = z \o Tail(p)
    BY <1>3, <2>1, <2>2, <2>4, ExtendedIsAttempt
  <2>6. Len(work'.zone) >= 2
    <3>1. Len(z \o Tail(p)) = Len(z) + Len(p) - 1
      BY <2>2, <2>4, WalksJoined
    <3> QED
      BY <2>3, <2>4, <2>5, <3>1
  <2>7. WholeRoute(route') /\ total' = Length(route')
    BY <2>1, <2>5, <2>6, AssembledIsWhole
  <2>8. Sound(route', total')
    BY <2>7, WholeRoutesAreOnRoads, WalksAreRoutes DEF Sound, WholeRoute
  <2>9. AttemptInv'
    BY <2>1, <2>5, <2>7 DEF AttemptInv, Attempting
  <2> QED
    BY <1>2, <2>8, <2>9 DEF RouteInv
<1> QED
  BY <1>5, <1>6, <1>7

LEMMA JudgeKeeps ==
  ASSUME RouteInv, Judge
  PROVE  RouteInv'
<1>1. WholeRoute(route) /\ total = Length(route)
  BY DEF Judge, RouteInv, AttemptInv, Sound
<1>2. UNCHANGED <<best, bestClean>> /\ work' = NoWork
  BY DEF Judge, Searching
<1>3. PICK c \in Adjusted(route, total) :
        /\ route' = c.route /\ total' = c.dist
        /\ at' \in {"attempt", "candidate"}
        /\ \/ fallback' = NoFallback
           \/ fallback' = fallback
           \/ fallback' = [route |-> c.route, dist |-> c.dist, score |-> Score(c)]
  BY DEF Judge, Rejected
<1>4. Sound(c.route, c.dist)
  BY <1>1, <1>3, AdjustedIsSound
<1>5. Sound(route', total') /\ Sound(fallback'.route, fallback'.dist)
  BY <1>3, <1>4, NothingIsSound DEF RouteInv, NoFallback
<1>6. AttemptInv'
  BY <1>2, <1>3 DEF AttemptInv, Attempting
<1> QED
  BY <1>2, <1>5, <1>6 DEF RouteInv

\* What comes of the attempts for a candidate.
CandidateOf == IF fallback.route # <<>> THEN [route |-> fallback.route, dist |-> fallback.dist]
               ELSE [route |-> route, dist |-> total]

LEMMA CandidateKeeps ==
  ASSUME RouteInv, Candidate
  PROVE  RouteInv'
<1>1. Sound(CandidateOf.route, CandidateOf.dist)
  BY DEF RouteInv, CandidateOf
<1>2. PICK c : c = CandidateOf
  OBVIOUS
<1>3. /\ Keep(c) /\ at' \in {"select", "attempt"} /\ fallback' = NoFallback /\ UNCHANGED work
      /\ \/ route' = c.route /\ total' = c.dist
         \/ route' = <<>> /\ total' = 0
  BY <1>2 DEF Candidate, CandidateOf
<1>4. Sound(best'.route, best'.dist) /\ Sound(bestClean'.route, bestClean'.dist)
  BY <1>1, <1>2, <1>3 DEF Keep, RouteInv
<1>5. Sound(route', total') /\ Sound(fallback'.route, fallback'.dist)
  BY <1>1, <1>2, <1>3, NothingIsSound DEF NoFallback
<1>6. AttemptInv'
  BY <1>3 DEF AttemptInv, Attempting, RouteInv, Candidate
<1> QED
  BY <1>4, <1>5, <1>6 DEF RouteInv

LEMMA SelectKeeps ==
  ASSUME RouteInv, Select
  PROVE  RouteInv'
BY DEF RouteInv, AttemptInv, Attempting, Select

LEMMA RouteNext ==
  ASSUME RouteInv, [TrafficNext]_<<vars, trafficVars>>
  PROVE  RouteInv'
<1>1. CASE Next
  BY <1>1, StartAttemptKeeps, HopKeeps, ExploreKeeps, ConnectKeeps, JudgeKeeps, CandidateKeeps,
     SelectKeeps DEF Next
<1>2. CASE UNCHANGED vars
  BY <1>2 DEF vars, RouteInv, AttemptInv
<1>3. CASE Assess
  BY <1>2, <1>3 DEF Assess
<1>4. CASE Tick
  BY <1>2, <1>4 DEF Tick
<1>5. CASE SplitAny
  BY <1>5 DEF SplitAny, RouteInv, AttemptInv, Attempting
<1>6. CASE StartRace
  <2>1. /\ at' = "race" /\ work' = NoWork /\ route' = <<>> /\ total' = 0 /\ fallback' = NoFallback
        /\ best' = None /\ bestClean' = None
    BY <1>6 DEF StartRace
  <2>2. AttemptInv'
    BY <2>1 DEF AttemptInv, Attempting
  <2> QED
    BY <2>1, <2>2, NothingIsSound DEF RouteInv, None, NoFallback
<1>7. CASE UNCHANGED <<vars, trafficVars>>
  BY <1>2, <1>7
<1> QED
  BY <1>1, <1>3, <1>4, <1>5, <1>6, <1>7 DEF TrafficNext

LEMMA SoundRoutesFollowRoads ==
  ASSUME NEW r, OnRoads(r)
  PROVE  /\ IsPrefix(Corridor, r)
         /\ \A i \in 1..(Len(r) - 2) : {r[i], r[i + 1]} \in Edges
         /\ r[Len(r) - 1] \in Nodes
         /\ \E n \in Neighbors[r[Len(r) - 1]] : Between(r[Len(r) - 1], Last(r), n)
<1>1. IsPrefix(Corridor, r)
  BY StartsIsPrefix DEF OnRoads
<1>2. \A i \in 1..(Len(r) - 2) : {r[i], r[i + 1]} \in Edges
  BY NeighborsAreJoined DEF OnRoads
<1> QED
  BY <1>1, <1>2 DEF OnRoads

LEMMA RouteInvIsSound ==
  RouteInv => RouteIsSound
<1> SUFFICES ASSUME RouteInv PROVE RouteIsSound
  OBVIOUS
<1>1. ASSUME work # NoWork PROVE work.dist = Length(work.zone)
  BY <1>1 DEF RouteInv, AttemptInv, Attempt
<1>2. DistanceIsLength
  BY <1>1 DEF RouteInv, Sound, DistanceIsLength
<1>3. \A r \in Routes : OnRoads(r)
  BY DEF RouteInv, Sound, Routes
<1>4. RouteFollowsRoads
  BY <1>3, SoundRoutesFollowRoads DEF RouteFollowsRoads
<1> QED
  BY <1>2, <1>4 DEF RouteIsSound

\* Whatever network, draws and retries: the distance that is kept up to date through
\* hops, trims, interpolation and extension is the length of the route, which
\* starts with the corridor and follows roads.
THEOREM RouteAlwaysSound ==
  TrafficSpec => []RouteIsSound
<1>1. TrafficInit => RouteInv
  BY RouteInit DEF TrafficInit
<1>2. RouteInv /\ [TrafficNext]_<<vars, trafficVars>> => RouteInv'
  BY RouteNext
<1>3. RouteInv => RouteIsSound
  BY RouteInvIsSound
<1> QED
  BY <1>1, <1>2, <1>3, PTL DEF TrafficSpec

----------------------------------------------------------------------------
(* Cutting a route into roads and putting it together.                     *)

\* A sequence of the elements of a set in their order.
Enumerates(a, S) ==
  /\ a \in Seq(S) /\ \A x \in S : \E k \in 1..Len(a) : a[k] = x
  /\ \A j, k \in 1..Len(a) : j < k => a[j] < a[k]

LEMMA AscendingEnumerates ==
  ASSUME NEW S \in SUBSET Int, IsFiniteSet(S)
  PROVE  Enumerates(Ascending(S), S) /\ Len(Ascending(S)) = Cardinality(S)
<1> DEFINE Below(x) == {y \in S : y < x}
<1> DEFINE rank == [x \in S |-> Cardinality(Below(x))]
<1>1. PICK n \in Nat : n = Cardinality(S)
  BY FS_CardinalityType
<1>2. ASSUME NEW x \in S PROVE IsFiniteSet(Below(x)) /\ rank[x] \in 0..(n - 1) /\ rank[x] \in Nat
  <2>1. Below(x) \in SUBSET S /\ x \notin Below(x)
    OBVIOUS
  <2>2. IsFiniteSet(Below(x)) /\ Cardinality(Below(x)) <= n /\ Cardinality(Below(x)) # n
    BY <1>1, <2>1, FS_Subset
  <2>3. Cardinality(Below(x)) \in Nat
    BY <2>2, FS_CardinalityType
  <2>4. rank[x] = Cardinality(Below(x))
    OBVIOUS
  <2> QED
    BY <2>2, <2>3, <2>4
<1>3. ASSUME NEW x \in S, NEW z \in S, x < z PROVE rank[x] < rank[z]
  <2>1. Below(x) \in SUBSET Below(z) /\ x \in Below(z) /\ x \notin Below(x)
    <3>1. \A y \in S : y < x => y < z
      BY <1>3
    <3>2. Below(x) \subseteq Below(z)
      BY <3>1
    <3>3. x < z /\ ~ (x < x)
      BY <1>3
    <3> QED
      BY <3>2, <3>3
  <2>2. Cardinality(Below(x)) <= Cardinality(Below(z)) /\ Cardinality(Below(z)) # Cardinality(Below(x))
    BY <1>2, <2>1, FS_Subset
  <2> QED
    BY <1>2, <2>2
<1>4. rank \in Injection(S, 0..(n - 1))
  <2>1. rank \in [S -> 0..(n - 1)]
    BY <1>2
  <2>2. ASSUME NEW x \in S, NEW z \in S, rank[x] = rank[z] PROVE x = z
    <3>1. ~ (rank[x] < rank[z]) /\ ~ (rank[z] < rank[x])
      BY <1>2, <2>2
    <3>2. ~ (x < z) /\ ~ (z < x)
      BY <1>3, <3>1
    <3> QED
      BY <3>2
  <2> HIDE DEF rank
  <2> QED
    BY <2>1, <2>2 DEF Injection, IsInjective
<1>5. rank \in Surjection(S, 0..(n - 1))
  <2>1. IsFiniteSet(0..(n - 1)) /\ Cardinality(0..(n - 1)) = n
    <3>1. 0 \in Int /\ n - 1 \in Int
      OBVIOUS
    <3> QED
      BY <3>1, FS_Interval
  <2> HIDE DEF rank
  <2> QED
    BY <1>1, <1>4, <2>1, FS_Injection
<1>6. PICK a : a = Ascending(S)
  OBVIOUS
<1>7. ASSUME NEW k \in 1..n PROVE a[k] \in S /\ rank[a[k]] = k - 1
  <2>1. PICK x \in S : rank[x] = k - 1
    <3>1. k - 1 \in 0..(n - 1)
      OBVIOUS
    <3> HIDE DEF rank
    <3> QED
      BY <1>5, <3>1 DEF Surjection
  <2>2. a[k] = CHOOSE y \in S : Cardinality({z \in S : z < y}) = k - 1
    BY <1>1, <1>6 DEF Ascending
  <2>3. Cardinality({z \in S : z < x}) = k - 1
    BY <2>1
  <2>4. a[k] \in S /\ Cardinality({z \in S : z < a[k]}) = k - 1
    BY <2>2, <2>3
  <2> QED
    BY <2>4
<1>8. a \in Seq(S) /\ Len(a) = n
  <2> DEFINE Nth(k) == CHOOSE x \in S : Cardinality({y \in S : y < x}) = k - 1
  <2>1. a = [k \in 1..n |-> a[k]]
    <3>1. a = [k \in 1..n |-> Nth(k)]
      BY <1>1, <1>6 DEF Ascending
    <3> HIDE DEF Nth
    <3> QED
      BY <3>1
  <2>2. a \in [1..n -> S]
    BY <1>7, <2>1
  <2> QED
    BY <2>2
<1>9. ASSUME NEW x \in S PROVE \E k \in 1..Len(a) : a[k] = x
  <2>1. rank[x] + 1 \in 1..n /\ (rank[x] + 1) - 1 = rank[x]
    BY <1>2
  <2>2. PICK k \in 1..n : k = rank[x] + 1 /\ k - 1 = rank[x]
    BY <2>1
  <2>3. rank[a[k]] = rank[x] /\ a[k] \in S
    BY <1>7, <2>2
  <2>4. a[k] = x
    <3> HIDE DEF rank
    <3> QED
      BY <1>4, <2>3 DEF Injection, IsInjective
  <2> QED
    BY <1>8, <2>4
<1>10. ASSUME NEW j \in 1..Len(a), NEW k \in 1..Len(a), j < k PROVE a[j] < a[k]
  <2>1. rank[a[j]] = j - 1 /\ rank[a[k]] = k - 1 /\ a[j] \in S /\ a[k] \in S
    BY <1>7, <1>8
  <2>2. ~ (a[k] < a[j]) /\ a[k] # a[j]
    <3>1. ~ (k - 1 < j - 1) /\ k - 1 # j - 1
      BY <1>10
    <3> HIDE DEF rank
    <3> QED
      BY <1>3, <2>1, <3>1
  <2> QED
    BY <2>1, <2>2
<1>11. Enumerates(a, S)
  BY <1>8, <1>9, <1>10 DEF Enumerates
<1> QED
  BY <1>1, <1>6, <1>8, <1>11

\* Where a route is cut, and where the k-th road of it ends.
NameAt(r, i) == RoadName({r[i], r[i + 1]})
CutsOf(r) == Ascending({i \in 1..(Len(r) - 1) : i = 1 \/ NameAt(r, i) # NameAt(r, i - 1)})
EndOf(r, k) == IF k = Len(CutsOf(r)) THEN Len(r) ELSE CutsOf(r)[k + 1]

\* A route is cut at points in a row, from its first to its last.
LEMMA CutsAre ==
  ASSUME NEW r, Len(r) \in Nat, Len(r) >= 2
  PROVE  /\ CutsOf(r) \in Seq(1..(Len(r) - 1)) /\ Len(CutsOf(r)) \in Nat \ {0}
         /\ CutsOf(r)[1] = 1
         /\ \A k \in 1..Len(CutsOf(r)) :
              /\ CutsOf(r)[k] \in 1..(Len(r) - 1)
              /\ EndOf(r, k) \in (CutsOf(r)[k] + 1)..Len(r)
              /\ k < Len(CutsOf(r)) => EndOf(r, k) = CutsOf(r)[k + 1]
         /\ EndOf(r, Len(CutsOf(r))) = Len(r)
<1> DEFINE S == {i \in 1..(Len(r) - 1) : i = 1 \/ NameAt(r, i) # NameAt(r, i - 1)}
<1>1. 1 \in S /\ S \in SUBSET Int /\ S \in SUBSET (1..(Len(r) - 1))
  OBVIOUS
<1>2. IsFiniteSet(S)
  <2>1. IsFiniteSet(1..(Len(r) - 1))
    BY FS_Interval
  <2> HIDE DEF S
  <2> QED
    BY <1>1, <2>1, FS_Subset
<1>3. PICK a : a = CutsOf(r)
  OBVIOUS
<1>4. a = Ascending(S)
  BY <1>3 DEF CutsOf
<1> HIDE DEF S
<1>5. Enumerates(a, S)
  BY <1>1, <1>2, <1>4, AscendingEnumerates
<1>6. PICK n \in Nat : n = Len(a)
  BY <1>5 DEF Enumerates
<1>7. PICK k1 \in 1..n : a[k1] = 1
  BY <1>1, <1>5, <1>6 DEF Enumerates
<1>8. \A k \in 1..n : a[k] \in 1..(Len(r) - 1)
  BY <1>1, <1>5, <1>6, ElementOfSeq DEF Enumerates
<1>9. a \in Seq(1..(Len(r) - 1))
  BY <1>1, <1>5, SeqMonotonic DEF Enumerates
<1>10. a[1] = 1
  <2>1. CASE k1 = 1
    BY <1>7, <2>1
  <2>2. CASE k1 # 1
    <3>1. 1 \in 1..n /\ 1 < k1
      BY <1>7, <2>2
    <3>2. a[1] < a[k1]
      BY <1>5, <1>6, <3>1 DEF Enumerates
    <3>3. a[1] \in 1..(Len(r) - 1)
      BY <1>8, <3>1
    <3> QED
      BY <1>7, <3>2, <3>3
  <2> QED
    BY <2>1, <2>2
<1>11. ASSUME NEW k \in 1..n
       PROVE  /\ EndOf(r, k) \in (a[k] + 1)..Len(r)
              /\ k < n => EndOf(r, k) = a[k + 1]
  <2>1. CASE k = n
    <3>1. EndOf(r, k) = Len(r)
      BY <1>3, <1>6, <2>1 DEF EndOf
    <3>2. a[k] \in 1..(Len(r) - 1)
      BY <1>8
    <3> QED
      BY <2>1, <3>1, <3>2
  <2>2. CASE k # n
    <3>1. k + 1 \in 1..n /\ k < k + 1
      BY <2>2
    <3>2. EndOf(r, k) = a[k + 1]
      BY <1>3, <1>6, <2>2 DEF EndOf
    <3>3. a[k] < a[k + 1]
      BY <1>5, <1>6, <3>1 DEF Enumerates
    <3>4. a[k + 1] \in 1..(Len(r) - 1) /\ a[k] \in 1..(Len(r) - 1)
      BY <1>8, <3>1
    <3>5. a[k + 1] \in (a[k] + 1)..Len(r)
      BY <3>3, <3>4
    <3> QED
      BY <3>2, <3>5
  <2> QED
    BY <2>1, <2>2
<1>12. EndOf(r, n) = Len(r)
  BY <1>3, <1>6 DEF EndOf
<1> QED
  BY <1>3, <1>6, <1>7, <1>8, <1>9, <1>10, <1>11, <1>12

LEMMA SegmentsAre ==
  ASSUME NEW r, Len(r) \in Nat, Len(r) >= 2
  PROVE  /\ Len(Segments(r)) = Len(CutsOf(r))
         /\ DOMAIN Segments(r) = 1..Len(CutsOf(r))
         /\ \A k \in 1..Len(CutsOf(r)) :
              Segments(r)[k].coords = SubSeq(r, CutsOf(r)[k], EndOf(r, k))
<1>1. PICK a : a = CutsOf(r)
  OBVIOUS
<1>2. Len(a) \in Nat
  BY <1>1, CutsAre
<1>3. Segments(r) = [k \in 1..Len(a) |-> [name |-> NameAt(r, a[k]), coords |-> SubSeq(r, a[k], EndOf(r, k))]]
  BY <1>1 DEF Segments, CutsOf, EndOf, NameAt
<1>4. \A k \in 1..Len(a) : Segments(r)[k].coords = SubSeq(r, a[k], EndOf(r, k))
  BY <1>3
<1> QED
  BY <1>1, <1>2, <1>3, <1>4

\* A road is put behind what has been put together.
Put(acc, c) == acc \o (IF acc # <<>> /\ Last(acc) = c[1] THEN Tail(c) ELSE c)

\* A part of a route put behind the part before it.
LEMMA PutPart ==
  ASSUME NEW r \in Seq(Points), NEW a \in 1..Len(r), NEW b \in (a + 1)..Len(r)
  PROVE  Put(SubSeq(r, 1, a), SubSeq(r, a, b)) = SubSeq(r, 1, b)
<1>1. a \in 0..Len(r) /\ b \in a..Len(r) /\ b \in 0..Len(r) /\ a \in 1..a /\ 1 \in 1..(b - a + 1)
      /\ a + 1 - 1 = a
  OBVIOUS
<1>2. PICK s \in Seq(Points) : s = SubSeq(r, 1, a)
  BY <1>1, Beginning
<1>3. Len(s) = a /\ \A i \in 1..a : s[i] = r[i]
  BY <1>1, <1>2, Beginning
<1>4. PICK p \in Seq(Points) : p = SubSeq(r, a, b)
  BY <1>1, Part
<1>5. Len(p) = b - a + 1 /\ \A i \in 1..(b - a + 1) : p[i] = r[a + i - 1]
  BY <1>1, <1>4, Part
<1>6. s # <<>> /\ Last(s) = p[1]
  <2>1. s[a] = r[a] /\ p[1] = r[a]
    BY <1>1, <1>3, <1>5
  <2> QED
    BY <1>3, <2>1 DEF Last
<1>7. Put(s, p) = s \o Tail(p)
  BY <1>6 DEF Put
<1>8. Tail(p) = SubSeq(r, a + 1, b)
  BY <1>1, <1>4, HeadTailOfSubSeq
<1>9. s \o SubSeq(r, a + 1, b) = SubSeq(r, 1, b)
  <2>1. 1 \in 1..(Len(r) + 1) /\ a \in (1 - 1)..Len(r) /\ b \in a..Len(r)
    BY <1>1
  <2> QED
    BY <1>2, <2>1, ConcatAdjacentSubSeq
<1> QED
  BY <1>2, <1>4, <1>7, <1>8, <1>9

\* The first road of a route.
LEMMA PutFirst ==
  ASSUME NEW r \in Seq(Points), NEW b \in 1..Len(r)
  PROVE  Put(<<>>, SubSeq(r, 1, b)) = SubSeq(r, 1, b)
<1>1. b \in 0..Len(r)
  OBVIOUS
<1>2. SubSeq(r, 1, b) \in Seq(Points)
  BY <1>1, Beginning
<1> QED
  BY <1>2, ConcatEmptySeq DEF Put

\* The roads of a route: each of them ends where the next one starts.
CutUp(r, cuts, n) ==
  /\ n > 0 /\ n = Len(Segments(r)) /\ cuts[1] = 1 /\ EndOf(r, n) = Len(r)
  /\ \A k \in 1..n : /\ cuts[k] \in 1..(Len(r) - 1)
                     /\ EndOf(r, k) \in (cuts[k] + 1)..Len(r)
                     /\ k < n => EndOf(r, k) = cuts[k + 1]
                     /\ Segments(r)[k].coords = SubSeq(r, cuts[k], EndOf(r, k))

LEMMA RouteIsCutUp ==
  ASSUME NEW r, Len(r) \in Nat, Len(r) >= 2
  PROVE  \E cuts : \E n \in Nat : CutUp(r, cuts, n)
<1>1. PICK cuts : cuts = CutsOf(r)
  OBVIOUS
<1>2. PICK n \in Nat : n = Len(cuts) /\ n > 0
  BY <1>1, CutsAre
<1>3. /\ cuts[1] = 1 /\ EndOf(r, n) = Len(r)
      /\ \A k \in 1..n : /\ cuts[k] \in 1..(Len(r) - 1)
                         /\ EndOf(r, k) \in (cuts[k] + 1)..Len(r)
                         /\ k < n => EndOf(r, k) = cuts[k + 1]
  BY <1>1, <1>2, CutsAre
<1>4. n = Len(Segments(r)) /\ \A k \in 1..n : Segments(r)[k].coords = SubSeq(r, cuts[k], EndOf(r, k))
  BY <1>1, <1>2, SegmentsAre
<1>5. CutUp(r, cuts, n)
  BY <1>2, <1>3, <1>4 DEF CutUp
<1> QED
  BY <1>5

\* Put together again, the roads of a route are the route.
LEMMA ExtractedIsRoute ==
  ASSUME NEW r \in Seq(Points), Len(r) >= 2
  PROVE  Extract(Segments(r)) = r
<1>c. PICK cuts : \E n \in Nat : CutUp(r, cuts, n)
  <2>1. Len(r) \in Nat
    OBVIOUS
  <2> QED
    BY <2>1, RouteIsCutUp
<1>0. PICK n \in Nat : CutUp(r, cuts, n)
  BY <1>c
<1>1. /\ n > 0 /\ n = Len(Segments(r)) /\ cuts[1] = 1 /\ EndOf(r, n) = Len(r)
      /\ \A k \in 1..n : /\ cuts[k] \in 1..(Len(r) - 1)
                         /\ EndOf(r, k) \in (cuts[k] + 1)..Len(r)
                         /\ k < n => EndOf(r, k) = cuts[k + 1]
                         /\ Segments(r)[k].coords = SubSeq(r, cuts[k], EndOf(r, k))
  BY <1>0 DEF CutUp
<1>2. PICK coords : coords = [k \in 1..n |-> Segments(r)[k].coords]
  OBVIOUS
<1>3. PICK whole : whole = [k \in 0..n |-> IF k = 0 THEN <<>> ELSE SubSeq(r, 1, EndOf(r, k))]
  OBVIOUS
<1>4. ASSUME NEW k \in 1..n PROVE whole[k] = Put(whole[k - 1], coords[k])
  <2>0. k \in 0..n /\ k # 0
    OBVIOUS
  <2>1. /\ coords[k] = SubSeq(r, cuts[k], EndOf(r, k)) /\ whole[k] = SubSeq(r, 1, EndOf(r, k))
        /\ cuts[k] \in 1..(Len(r) - 1) /\ EndOf(r, k) \in (cuts[k] + 1)..Len(r)
    BY <1>1, <1>2, <1>3, <2>0
  <2>2. CASE k = 1
    <3>1. whole[k - 1] = <<>> /\ EndOf(r, k) \in 1..Len(r)
      BY <1>1, <1>3, <2>1, <2>2
    <3> QED
      BY <1>1, <2>1, <2>2, <3>1, PutFirst
  <2>3. CASE k # 1
    <3>1. k - 1 \in 1..n /\ k - 1 < n /\ (k - 1) + 1 = k /\ k - 1 \in 0..n /\ k - 1 # 0
      BY <2>3
    <3>2. EndOf(r, k - 1) = cuts[k]
      BY <1>1, <3>1
    <3>3. whole[k - 1] = SubSeq(r, 1, cuts[k])
      BY <1>3, <3>1, <3>2
    <3>4. cuts[k] \in 1..Len(r)
      BY <2>1
    <3> QED
      BY <2>1, <3>3, <3>4, PutPart
  <2> QED
    BY <2>2, <2>3
<1> DEFINE upTo[k \in 0..Len(Segments(r))] ==
             IF k = 0 THEN <<>>
             ELSE LET acc == upTo[k - 1]
                      c == Segments(r)[k].coords
                  IN acc \o (IF acc # <<>> /\ Last(acc) = c[1] THEN Tail(c) ELSE c)
<1>5. Extract(Segments(r)) = upTo[n]
  BY <1>1 DEF Extract
<1>6. upTo = [k \in 0..n |-> IF k = 0 THEN <<>> ELSE Put(upTo[k - 1], coords[k])]
  <2>1. upTo = CHOOSE u : u = [k \in 0..n |-> IF k = 0 THEN <<>> ELSE Put(u[k - 1], Segments(r)[k].coords)]
    BY <1>1 DEF Put
  <2> HIDE DEF upTo
  <2>2. \E u : u = [k \in 0..n |-> IF k = 0 THEN <<>> ELSE Put(u[k - 1], Segments(r)[k].coords)]
    <3>1. \A k \in 0..n : whole[k] = IF k = 0 THEN <<>> ELSE Put(whole[k - 1], Segments(r)[k].coords)
      <4>1. \A k \in 0..n : k = 0 \/ k \in 1..n
        OBVIOUS
      <4>2. whole[0] = <<>>
        BY <1>3
      <4>3. \A k \in 1..n : coords[k] = Segments(r)[k].coords /\ k # 0
        BY <1>2
      <4> QED
        BY <1>4, <4>1, <4>2, <4>3
    <3>2. whole = [k \in 0..n |-> whole[k]]
      BY <1>3
    <3>3. whole = [k \in 0..n |-> IF k = 0 THEN <<>> ELSE Put(whole[k - 1], Segments(r)[k].coords)]
      BY <3>1, <3>2
    <3> QED
      BY <3>3
  <2>3. upTo = [k \in 0..n |-> IF k = 0 THEN <<>> ELSE Put(upTo[k - 1], Segments(r)[k].coords)]
    BY <2>1, <2>2
  <2>4. \A k \in 0..n : k # 0 => coords[k] = Segments(r)[k].coords
    BY <1>2
  <2> QED
    BY <2>3, <2>4
<1> HIDE DEF upTo
<1> DEFINE S == {k \in Nat : k <= n => upTo[k] = whole[k]}
<1>7. 0 \in S
  BY <1>3, <1>6
<1>8. ASSUME NEW k \in S PROVE k + 1 \in S
  <2>1. ASSUME k + 1 <= n PROVE upTo[k + 1] = whole[k + 1]
    <3>1. k + 1 \in 0..n /\ k + 1 # 0 /\ (k + 1) - 1 = k /\ k <= n /\ k + 1 \in 1..n
      BY <2>1
    <3>2. upTo[k + 1] = Put(upTo[k], coords[k + 1])
      BY <1>6, <3>1
    <3>3. whole[k + 1] = Put(whole[k], coords[k + 1])
      BY <1>4, <3>1
    <3> QED
      BY <3>1, <3>2, <3>3
  <2> QED
    BY <2>1
<1>9. S = Nat
  <2>1. S \in SUBSET Nat
    OBVIOUS
  <2> HIDE DEF S
  <2> QED
    BY <1>7, <1>8, <2>1, Induction
<1>10. upTo[n] = whole[n]
  BY <1>9
<1>11. whole[n] = r
  <2>1. n \in 0..n /\ n # 0
    BY <1>1
  <2> QED
    BY <1>1, <1>3, <2>1, SubSeqFull
<1> QED
  BY <1>5, <1>10, <1>11

\* The distance index: roads follow each other from the start to the end.
LEMMA IndexCovers ==
  ASSUME NEW r \in Seq(Points), Len(r) >= 2
  PROVE  LET index_ == DistanceIndex(Segments(r))
         IN /\ Len(index_) \in Nat \ {0} /\ DOMAIN index_ = 1..Len(index_)
            /\ index_[Len(index_)].end = Length(r)
            /\ \A k \in 1..(Len(index_) - 1) : index_[k].end = index_[k + 1].start
<1>c. PICK cuts : \E n \in Nat : CutUp(r, cuts, n)
  <2>1. Len(r) \in Nat
    OBVIOUS
  <2> QED
    BY <2>1, RouteIsCutUp
<1>0. PICK n \in Nat : CutUp(r, cuts, n)
  BY <1>c
<1>1. /\ n > 0 /\ n = Len(Segments(r)) /\ cuts[1] = 1 /\ EndOf(r, n) = Len(r)
      /\ \A k \in 1..n : /\ cuts[k] \in 1..(Len(r) - 1)
                         /\ EndOf(r, k) \in (cuts[k] + 1)..Len(r)
                         /\ k < n => EndOf(r, k) = cuts[k + 1]
                         /\ Segments(r)[k].coords = SubSeq(r, cuts[k], EndOf(r, k))
  BY <1>0 DEF CutUp
<1>2. PICK f : f = [i \in 1..n |-> Length(Segments(r)[i].coords)]
  OBVIOUS
<1>3. ASSUME NEW i \in 1..n
      PROVE  /\ f[i] = Length(SubSeq(r, cuts[i], EndOf(r, i))) /\ f[i] \in Nat
             /\ Length(SubSeq(r, 1, EndOf(r, i))) = Length(SubSeq(r, 1, cuts[i])) + f[i]
  <2>1. cuts[i] \in 1..Len(r) /\ EndOf(r, i) \in cuts[i]..Len(r)
    BY <1>1
  <2>2. f[i] = Length(SubSeq(r, cuts[i], EndOf(r, i)))
    BY <1>1, <1>2
  <2>3. SubSeq(r, cuts[i], EndOf(r, i)) \in Seq(Points)
    BY <2>1, Part
  <2> QED
    BY <2>1, <2>2, <2>3, LengthOf, LengthOfPart
<1>4. PICK index_ : index_ = DistanceIndex(Segments(r))
  OBVIOUS
<1>5. index_ = [k \in 1..n |-> [start |-> Sum(f, k - 1), end |-> Sum(f, k), name |-> Segments(r)[k].name]]
  BY <1>1, <1>2, <1>4 DEF DistanceIndex
<1>6. Len(index_) = n /\ DOMAIN index_ = 1..n
  BY <1>5
<1>7. ASSUME NEW k \in 1..(n - 1) PROVE index_[k].end = index_[k + 1].start
  <2>1. k \in 1..n /\ k + 1 \in 1..n /\ (k + 1) - 1 = k
    OBVIOUS
  <2> QED
    BY <1>5, <2>1
<1> DEFINE S == {k \in Nat : k + 1 <= n => Sum(f, k + 1) = Length(SubSeq(r, 1, EndOf(r, k + 1)))}
<1>8. \A i \in 1..n : f[i] \in Int
  BY <1>3
<1>9. 0 \in S
  <2>1. 1 \in 1..n /\ 1 - 1 = 0
    BY <1>1
  <2>2. Sum(f, 1) = Sum(f, 1 - 1) + f[1] /\ Sum(f, 0) = 0 /\ f[1] \in Int
    BY <1>8, <2>1, SumOf
  <2>3. f[1] = Length(SubSeq(r, 1, EndOf(r, 1)))
    BY <1>1, <1>3, <2>1
  <2> QED
    BY <2>1, <2>2, <2>3
<1>10. ASSUME NEW k \in S PROVE k + 1 \in S
  <2>1. ASSUME k + 2 <= n PROVE Sum(f, k + 2) = Length(SubSeq(r, 1, EndOf(r, k + 2)))
    <3>1. /\ k + 2 \in 1..n /\ (k + 2) - 1 = k + 1 /\ k + 1 \in 1..n /\ k + 1 < n /\ (k + 1) + 1 = k + 2
      BY <2>1
    <3>2. Sum(f, k + 2) = Sum(f, k + 1) + f[k + 2]
      BY <1>8, <3>1, SumOf
    <3>3. Sum(f, k + 1) = Length(SubSeq(r, 1, EndOf(r, k + 1)))
      BY <3>1
    <3>4. EndOf(r, k + 1) = cuts[k + 2]
      BY <1>1, <3>1
    <3> QED
      BY <1>3, <3>1, <3>2, <3>3, <3>4
  <2>2. (k + 1) + 1 = k + 2
    OBVIOUS
  <2> QED
    BY <2>1, <2>2
<1>11. S = Nat
  <2>1. S \in SUBSET Nat
    OBVIOUS
  <2> HIDE DEF S
  <2> QED
    BY <1>9, <1>10, <2>1, Induction
<1>12. index_[n].end = Length(r)
  <2>1. n - 1 \in Nat /\ (n - 1) + 1 = n /\ n \in 1..n
    BY <1>1
  <2>5. n - 1 \in S
    BY <1>11, <2>1
  <2>2. Sum(f, (n - 1) + 1) = Length(SubSeq(r, 1, EndOf(r, (n - 1) + 1)))
    BY <2>1, <2>5
  <2>3. Sum(f, n) = Length(SubSeq(r, 1, Len(r)))
    BY <1>1, <2>1, <2>2
  <2>4. SubSeq(r, 1, Len(r)) = r
    BY SubSeqFull
  <2> QED
    BY <1>5, <2>1, <2>3, <2>4
<1> QED
  BY <1>1, <1>4, <1>6, <1>7, <1>12

----------------------------------------------------------------------------
(* Stations.                                                               *)

LEMMA RoadsRunAlongAxes ==
  ASSUME NEW r, OnRoads(r)
  PROVE  /\ r \in Seq(Points) /\ Len(r) \in Nat /\ Len(r) >= 3
         /\ \A i \in 1..(Len(r) - 1) : AlongAxis(r[i], r[i + 1])
<1>1. PICK n \in Nat : n = Len(r) /\ n >= 3 /\ r \in Seq(Points)
  BY CorridorIsAWay, WalksAreRoutes DEF OnRoads
<1>2. ASSUME NEW i \in 1..(n - 1) PROVE AlongAxis(r[i], r[i + 1])
  <2>1. CASE i = n - 1
    <3>1. PICK m \in Neighbors[r[n - 1]] : Between(r[n - 1], r[n], m)
      BY <1>1 DEF OnRoads, Last
    <3>2. r[n - 1] \in Nodes
      BY <1>1 DEF OnRoads
    <3>3. m \in Points /\ r[n - 1] \in Points /\ AlongAxis(r[n - 1], m)
      BY <3>2, NeighborsAreJoined, NodesArePoints
    <3>4. r[n] \in Points /\ i + 1 = n
      <4>1. n \in 1..n
        BY <1>1
      <4> QED
        BY <1>1, <2>1, <4>1, ElementOfSeq
    <3>5. AlongAxis(r[n - 1], r[n])
      BY <3>1, <3>3, <3>4, BetweenIsAlong
    <3> QED
      BY <2>1, <3>4, <3>5
  <2>2. CASE i # n - 1
    <3>1. i \in 1..(n - 2)
      BY <1>1, <2>2
    <3>2. r[i] \in Nodes /\ r[i + 1] \in Neighbors[r[i]]
      BY <1>1, <3>1 DEF OnRoads
    <3> QED
      BY <3>2, NeighborsAreJoined
  <2> QED
    BY <2>1, <2>2
<1> QED
  BY <1>1, <1>2

\* The point at a mile of the route lies on the route.
LEMMA PointIsOnRoute ==
  ASSUME NEW r, OnRoads(r), NEW mi \in 0..Length(r)
  PROVE  \E i \in 1..(Len(r) - 1) : Between(r[i], PointAtMile(r, mi), r[i + 1])
<1>1. PICK n \in Nat :
        /\ n = Len(r) /\ n >= 3 /\ r \in Seq(Points)
        /\ \A i \in 1..(n - 1) : AlongAxis(r[i], r[i + 1])
  BY RoadsRunAlongAxes
<1>2. Length(r) \in Nat /\ mi \in Nat /\ mi <= Length(r)
  BY <1>1, LengthOf
<1>3. \A i \in 1..n : r[i] \in Points
  BY <1>1, ElementOfSeq
<1> DEFINE before(i) == Length(SubSeq(r, 1, i))
<1>4. ASSUME NEW i \in 1..n PROVE before(i) \in Nat
  <2>1. i \in 0..Len(r)
    BY <1>1
  <2>2. SubSeq(r, 1, i) \in Seq(Points)
    BY <1>1, <2>1, Beginning
  <2> QED
    BY <2>2, LengthOf
<1>5. CASE mi <= 0
  <2>1. PointAtMile(r, mi) = r[1]
    BY <1>5 DEF PointAtMile
  <2>2. 1 \in 1..n /\ 2 \in 1..n /\ 1 \in 1..(n - 1) /\ 1 + 1 = 2
    BY <1>1
  <2>3. Between(r[1], r[1], r[2])
    BY <1>3, <2>2, BetweenReflexive
  <2> QED
    BY <1>1, <2>1, <2>2, <2>3
<1>6. CASE mi > 0 /\ mi >= Length(r)
  <2>1. PointAtMile(r, mi) = r[n]
    BY <1>1, <1>2, <1>6 DEF PointAtMile, Last
  <2>2. n - 1 \in 1..n /\ n \in 1..n /\ n - 1 \in 1..(n - 1) /\ (n - 1) + 1 = n
    BY <1>1
  <2>3. Between(r[n - 1], r[n], r[n])
    BY <1>3, <2>2, BetweenReflexive
  <2> QED
    BY <1>1, <2>1, <2>2, <2>3
<1>7. CASE mi > 0 /\ mi < Length(r)
  <2> DEFINE S == {j \in 1..(Len(r) - 1) : before(j) <= mi}
  <2>1. 1 \in S
    <3>1. SubSeq(r, 1, 1) = <<r[1]>>
      <4>1. 1 \in 0..Len(r) /\ 1 \in 1..n
        BY <1>1
      <4>2. SubSeq(r, 1, 1) \in Seq(Points) /\ Len(SubSeq(r, 1, 1)) = 1 /\ SubSeq(r, 1, 1)[1] = r[1]
        <5>1. \A i \in 1..1 : SubSeq(r, 1, 1)[i] = r[i]
          BY <1>1, <4>1, Beginning
        <5>2. 1 \in 1..1
          OBVIOUS
        <5> QED
          BY <1>1, <4>1, <5>1, <5>2, Beginning
      <4>3. PICK s : s = SubSeq(r, 1, 1)
        OBVIOUS
      <4>4. PICK u : u = <<r[1]>>
        OBVIOUS
      <4>5. u \in Seq(Points) /\ Len(u) = 1 /\ u[1] = r[1]
        <5>1. r[1] \in Points
          BY <1>1, <4>1
        <5> QED
          BY <4>4, <5>1
      <4>6. s \in Seq(Points) /\ Len(s) = 1 /\ s[1] = r[1]
        BY <4>2, <4>3
      <4>7. \A i \in 1..Len(s) : s[i] = u[i]
        BY <4>5, <4>6
      <4>8. s = u
        BY <4>5, <4>6, <4>7, SeqEqual
      <4> QED
        BY <4>3, <4>4, <4>8
    <3>2. 1 \in 1..n /\ 1 \in 1..(Len(r) - 1)
      BY <1>1
    <3>3. before(1) = 0
      BY <1>3, <3>1, <3>2, LengthOfFew
    <3> QED
      BY <1>7, <3>2, <3>3
  <2>2. PICK i : i = Max(S)
    OBVIOUS
  <2>3. i \in S /\ \A j \in S : j <= i
    <3>1. S \in SUBSET Int /\ S # {} /\ n \in Int /\ \A x \in S : x <= n
      BY <1>1, <2>1
    <3> HIDE DEF S
    <3> QED
      BY <2>2, <3>1, MaxOf
  <2>4. i \in 1..(n - 1) /\ before(i) <= mi /\ i \in 1..n /\ i + 1 \in 1..n
    BY <1>1, <2>3
  <2>5. before(i + 1) > mi
    <3>1. CASE i = n - 1
      <4>1. i + 1 = n /\ SubSeq(r, 1, n) = r
        BY <1>1, <3>1, SubSeqFull
      <4> QED
        BY <1>7, <1>2, <4>1
    <3>2. CASE i # n - 1
      <4>1. i + 1 \in 1..(Len(r) - 1) /\ ~ (i + 1 <= i)
        BY <1>1, <2>4, <3>2
      <4>2. ~ (before(i + 1) <= mi)
        BY <2>3, <4>1
      <4>3. before(i + 1) \in Nat
        BY <1>4, <2>4
      <4> HIDE DEF before
      <4> QED
        BY <1>2, <4>2, <4>3
    <3> QED
      BY <3>1, <3>2
  <2>6. before(i + 1) = before(i) + Dist(r[i], r[i + 1])
    BY <1>1, <2>4, LengthOfBeginning
  <2>7. PICK k : k = mi - before(i)
    OBVIOUS
  <2>8. k \in 0..Dist(r[i], r[i + 1])
    <3>1. Dist(r[i], r[i + 1]) \in Nat
      BY <1>3, <2>4, DistIsNatural
    <3>2. before(i) \in Nat /\ before(i + 1) \in Nat
      BY <1>4, <2>4
    <3> HIDE DEF before
    <3> QED
      BY <1>2, <2>4, <2>5, <2>6, <2>7, <3>1, <3>2
  <2>9. PointAtMile(r, mi) = Toward(r[i], r[i + 1], k)
    <3>1. ~ (mi <= 0) /\ ~ (mi >= Length(r))
      BY <1>2, <1>7
    <3> QED
      BY <2>2, <2>7, <3>1 DEF PointAtMile
  <2>10. Between(r[i], Toward(r[i], r[i + 1], k), r[i + 1])
    <3>1. r[i] \in Points /\ r[i + 1] \in Points /\ AlongAxis(r[i], r[i + 1])
      BY <1>1, <1>3, <2>4
    <3> QED
      BY <2>8, <3>1, TowardIsBetween
  <2> QED
    BY <1>1, <2>4, <2>9, <2>10
<1> QED
  BY <1>2, <1>5, <1>6, <1>7

\* The stations of each kind lie between the start and the finish.
LEMMA HydrationIsOnRoute ==
  ASSUME NEW length \in Nat, NEW mi \in Hydration(length)
  PROVE  /\ mi \in 0..length
         /\ \E k \in Nat : mi = 124 * k
<1>1. Min({length, TargetDist}) = IF length <= TargetDist THEN length ELSE TargetDist
  BY MinOfTwo DEF TargetDist
<1>2. PICK m \in Nat : m = Min({length, TargetDist}) /\ m <= length
  BY <1>1 DEF TargetDist
<1>3. PICK k \in 1..(m \div 124) : mi = 124 * k
  BY <1>2 DEF Hydration, HydrationInterval
<1>4. k \in Nat /\ 124 * k <= m
  BY <1>3
<1> QED
  BY <1>2, <1>3, <1>4

LEMMA MedicalIsOnRoute ==
  ASSUME NEW length \in Nat, NEW n, NEW mi \in Medical(length, n)
  PROVE  mi \in 0..length
<1>1. Min({length, TargetDist}) \in Nat
  BY MinOfTwo DEF TargetDist
<1> DEFINE major == {20, Min({length, TargetDist})} \cup (IF n < 1000 THEN {} ELSE {800})
<1> DEFINE course == IF n < 1000 THEN {524, 800}
                     ELSE IF n <= 10000 THEN {320, 524, 680} ELSE {200, 400, 524, 680, 920}
<1>2. major \subseteq Nat /\ course \subseteq Nat
  BY <1>1
<1>3. mi \in {Min({m, length}) : m \in major} \cup {m \in course : m < length}
  BY DEF Medical
<1> HIDE DEF major, course
<1>4. CASE \E m \in major : mi = Min({m, length})
  <2>1. PICK m \in Nat : mi = Min({m, length})
    BY <1>2, <1>4
  <2>2. mi = IF m <= length THEN m ELSE length
    BY <2>1, MinOfTwo
  <2> QED
    BY <2>2
<1>5. CASE mi \in course /\ mi < length
  BY <1>2, <1>5
<1> QED
  BY <1>3, <1>4, <1>5

LEMMA RoundIsNatural ==
  ASSUME NEW a \in Nat, NEW b \in {310, 434, 558, 682}
  PROVE  Round(a, b) \in Nat
<1>1. a \div b \in Nat
  OBVIOUS
<1> QED
  BY <1>1 DEF Round

\* Toilets lie half way between two multiples of a half interval, or half a mile
\* before the finish.
LEMMA ToiletsAreOnRoute ==
  ASSUME NEW length \in Nat, length >= 20, NEW n, NEW mi \in Toilets(length, n)
  PROVE  /\ mi \in 0..length
         /\ length >= TargetDist => \E k \in Int : mi = 2 * k + 1
<1>1. PICK finish \in Nat : finish = Min({length, TargetDist})
  BY MinOfTwo DEF TargetDist
<1>2. finish <= length /\ finish >= 20 /\ (length >= TargetDist => finish = 1049)
  <2>1. finish = IF length <= TargetDist THEN length ELSE TargetDist
    BY <1>1, MinOfTwo DEF TargetDist
  <2> QED
    BY <2>1 DEF TargetDist
<1> DEFINE count == IF n < 1000 THEN 4 ELSE IF n < 5000 THEN 6 ELSE IF n <= 30000 THEN 8 ELSE 10
<1> DEFINE nudged(i) == Round(finish * i, (count + 1) * 62) * 62 + 31
<1>3. PICK i \in 1..count : mi = IF nudged(i) > finish THEN finish - 20 ELSE nudged(i)
  <2>1. HydrationInterval \div 2 = 62 /\ 62 \div 2 = 31 /\ Mile \div 2 = 20
    BY DEF HydrationInterval, Mile
  <2>2. Toilets(length, n) =
          {IF nudged(i) > finish THEN finish - 20 ELSE nudged(i) : i \in 1..count}
    BY <1>1, <2>1 DEF Toilets
  <2> HIDE DEF nudged, count
  <2> QED
    BY <2>2
<1>4. PICK x \in Nat : x = finish * i
  <2>1. count \in Nat
    OBVIOUS
  <2>2. i \in Nat
    BY <2>1
  <2> QED
    BY <2>2
<1>5. PICK b \in {310, 434, 558, 682} : b = (count + 1) * 62
  <2>1. count \in {4, 6, 8, 10}
    OBVIOUS
  <2> HIDE DEF count
  <2> QED
    BY <2>1
<1>6. PICK m \in Nat : m = Round(x, b)
  BY RoundIsNatural
<1>7. nudged(i) = m * 62 + 31
  BY <1>4, <1>5, <1>6
<1> HIDE DEF nudged, count
<1>8. mi = IF m * 62 + 31 > finish THEN finish - 20 ELSE m * 62 + 31
  BY <1>3, <1>7
<1>9. mi \in 0..length
  BY <1>2, <1>8
<1>10. ASSUME length >= TargetDist PROVE \E k \in Int : mi = 2 * k + 1
  <2>1. CASE mi = m * 62 + 31
    <3>1. 31 * m + 15 \in Int /\ mi = 2 * (31 * m + 15) + 1
      BY <2>1
    <3> QED
      BY <3>1
  <2>2. CASE mi # m * 62 + 31
    <3>1. mi = 2 * 514 + 1
      BY <1>2, <1>8, <1>10, <2>2
    <3> QED
      BY <3>1
  <2> QED
    BY <2>1, <2>2
<1> QED
  BY <1>9, <1>10

LEMMA CheerZonesAreOnRoute ==
  ASSUME NEW length \in Nat, NEW n, NEW mi \in CheerZones(length, n)
  PROVE  mi \in 0..length
<1>1. PICK finish \in Nat : finish = Min({length, TargetDist}) /\ finish <= length
  <2>1. Min({length, TargetDist}) = IF length <= TargetDist THEN length ELSE TargetDist
    BY MinOfTwo DEF TargetDist
  <2> QED
    BY <2>1 DEF TargetDist
<1> DEFINE count == IF n < 1000 THEN 4 ELSE IF n <= 10000 THEN 6 ELSE 8
<1> DEFINE anchors == {200, 524, 800, 1000}
<1> DEFINE Apart(x, S) == \A z \in S : Abs(x - z) >= 60
<1> DEFINE Added(S, x) == IF Apart(x, S) THEN S \cup {x} ELSE S
<1> DEFINE even[i \in 0..(count - 4)] ==
             IF i = 0 THEN anchors ELSE Added(even[i - 1], (finish * i) \div (count - 3))
<1> DEFINE Filled(S, x) == IF Cardinality(S) < count /\ x < finish THEN Added(S, x) ELSE S
<1> DEFINE filled[i \in 0..10] ==
             IF i = 0 THEN even[count - 4] ELSE Filled(filled[i - 1], 80 + 100 * (i - 1))
<1>2. mi \in (IF n < 1000 THEN anchors ELSE filled[10]) /\ mi <= finish
  BY <1>1 DEF CheerZones
<1> DEFINE T == SUBSET Nat
<1>3. count \in {4, 6, 8} /\ anchors \in T
  OBVIOUS
<1> HIDE DEF count
<1>4. ASSUME NEW S \in T, NEW x \in Nat PROVE Added(S, x) \in T /\ Filled(S, x) \in T
  OBVIOUS
<1> HIDE DEF Added, Filled, T
<1>5. even \in [0..(count - 4) -> T]
  <2> DEFINE at_(i) == (finish * i) \div (count - 3)
  <2>1. ASSUME NEW i \in Nat PROVE at_(i) \in Nat
    <3>1. PICK x \in Nat : x = finish * i
      OBVIOUS
    <3>2. x \div (count - 3) \in Nat
      BY <1>3
    <3> QED
      BY <3>1, <3>2
  <2> DEFINE step == [i \in Nat |-> [S \in T |-> Added(S, at_(i))]]
  <2> HIDE DEF at_
  <2>2. step \in [Nat -> [T -> T]] /\ \A i \in Nat, S \in T : step[i][S] = Added(S, at_(i))
    BY <1>4, <2>1
  <2>3. PICK m \in Nat : m = count - 4
    BY <1>3
  <2> HIDE DEF step, anchors
  <2>4. PICK g : Solves(g, T, anchors, step, m)
    BY <1>3, <2>2, <2>3, Recursion
  <2>5. g \in [0..m -> T] /\ \A k \in 0..m : g[k] = IF k = 0 THEN anchors ELSE step[k][g[k - 1]]
    BY <2>4 DEF Solves
  <2>6. g = [k \in 0..m |-> IF k = 0 THEN anchors ELSE Added(g[k - 1], at_(k))]
    <3>1. ASSUME NEW k \in 0..m PROVE g[k] = IF k = 0 THEN anchors ELSE Added(g[k - 1], at_(k))
      <4>1. k # 0 => k \in Nat /\ k - 1 \in 0..m
        BY <2>3
      <4>2. k # 0 => g[k - 1] \in T
        BY <2>5, <4>1
      <4> QED
        BY <2>2, <2>5, <4>1, <4>2
    <3> QED
      BY <2>5, <3>1
  <2>7. even = [k \in 0..m |-> IF k = 0 THEN anchors ELSE Added(even[k - 1], at_(k))]
    <3>1. \E h : h = [k \in 0..m |-> IF k = 0 THEN anchors ELSE Added(h[k - 1], at_(k))]
      BY <2>6
    <3> QED
      BY <2>3, <3>1 DEF at_
  <2> HIDE DEF even
  <2>8. PICK h : h = even
    OBVIOUS
  <2>9. h = [k \in 0..m |-> IF k = 0 THEN anchors ELSE Added(h[k - 1], at_(k))]
    BY <2>7, <2>8
  <2> DEFINE U == {k \in Nat : k <= m => h[k] \in T}
  <2>10. 0 \in U
    <3>1. 0 \in 0..m
      BY <2>3
    <3> QED
      BY <1>3, <2>9, <3>1
  <2>11. ASSUME NEW k \in U PROVE k + 1 \in U
    <3>1. ASSUME k + 1 <= m PROVE h[k + 1] \in T
      <4>1. k + 1 \in 0..m /\ k + 1 # 0 /\ (k + 1) - 1 = k /\ k <= m /\ k + 1 \in Nat
        BY <2>3, <3>1
      <4>2. h[k + 1] = Added(h[k], at_(k + 1))
        BY <2>9, <4>1
      <4> QED
        BY <1>4, <2>1, <4>1, <4>2
    <3> QED
      BY <3>1
  <2>12. U = Nat
    <3>1. U \in SUBSET Nat
      OBVIOUS
    <3> HIDE DEF U
    <3> QED
      BY <2>10, <2>11, <3>1, Induction
  <2>13. \A k \in 0..m : h[k] \in T
    BY <2>3, <2>12
  <2> QED
    BY <2>3, <2>8, <2>9, <2>13
<1> DEFINE base == even[count - 4]
<1>6. base \in T
  <2>1. count - 4 \in 0..(count - 4)
    BY <1>3
  <2> HIDE DEF even
  <2> QED
    BY <1>5, <2>1
<1> HIDE DEF even, base
<1>7. filled \in [0..10 -> T]
  <2> DEFINE mile_(k) == 80 + 100 * (k - 1)
  <2>1. ASSUME NEW k \in Nat, k # 0 PROVE mile_(k) \in Nat
    BY <2>1
  <2> HIDE DEF mile_
  <2> DEFINE step == [k \in Nat |-> [S \in T |-> IF k = 0 THEN S ELSE Filled(S, mile_(k))]]
  <2>2. step \in [Nat -> [T -> T]] /\ \A k \in Nat \ {0}, S \in T : step[k][S] = Filled(S, mile_(k))
    BY <1>4, <2>1
  <2> HIDE DEF step
  <2> DEFINE m == 10
  <2>3. m \in Nat
    OBVIOUS
  <2> HIDE DEF m
  <2>4. PICK g : Solves(g, T, base, step, m)
    BY <1>6, <2>2, <2>3, Recursion
  <2>5. g \in [0..m -> T] /\ \A k \in 0..m : g[k] = IF k = 0 THEN base ELSE step[k][g[k - 1]]
    BY <2>4 DEF Solves
  <2>6. g = [k \in 0..m |-> IF k = 0 THEN base ELSE Filled(g[k - 1], mile_(k))]
    <3>1. ASSUME NEW k \in 0..m PROVE g[k] = IF k = 0 THEN base ELSE Filled(g[k - 1], mile_(k))
      <4>1. k # 0 => k \in Nat \ {0} /\ k - 1 \in 0..m
        BY <2>3
      <4>2. k # 0 => g[k - 1] \in T
        BY <2>5, <4>1
      <4> QED
        BY <2>2, <2>5, <4>1, <4>2
    <3> QED
      BY <2>5, <3>1
  <2>7. filled = [k \in 0..m |-> IF k = 0 THEN base ELSE Filled(filled[k - 1], mile_(k))]
    <3>1. \E h : h = [k \in 0..m |-> IF k = 0 THEN base ELSE Filled(h[k - 1], mile_(k))]
      BY <2>6
    <3> QED
      BY <3>1 DEF mile_, base, m
  <2> HIDE DEF filled
  <2>8. PICK h : h = filled
    OBVIOUS
  <2>9. h = [k \in 0..m |-> IF k = 0 THEN base ELSE Filled(h[k - 1], mile_(k))]
    BY <2>7, <2>8
  <2> DEFINE U == {k \in Nat : k <= m => h[k] \in T}
  <2>10. 0 \in U
    <3>1. 0 \in 0..m
      BY <2>3
    <3> QED
      BY <1>6, <2>9, <3>1
  <2>11. ASSUME NEW k \in U PROVE k + 1 \in U
    <3>1. ASSUME k + 1 <= m PROVE h[k + 1] \in T
      <4>1. k + 1 \in 0..m /\ k + 1 # 0 /\ (k + 1) - 1 = k /\ k <= m /\ k + 1 \in Nat
        BY <2>3, <3>1
      <4>2. h[k + 1] = Filled(h[k], mile_(k + 1))
        BY <2>9, <4>1
      <4> QED
        BY <1>4, <2>1, <4>1, <4>2
    <3> QED
      BY <3>1
  <2>12. U = Nat
    <3>1. U \in SUBSET Nat
      OBVIOUS
    <3> HIDE DEF U
    <3> QED
      BY <2>10, <2>11, <3>1, Induction
  <2>13. \A k \in 0..m : h[k] \in T
    BY <2>3, <2>12
  <2>14. h \in [0..m -> T]
    BY <2>9, <2>13
  <2> QED
    BY <2>8, <2>14 DEF m
<1>8. filled[10] \in T
  <2> HIDE DEF filled
  <2> QED
    BY <1>7
<1>9. mi \in Nat /\ mi <= finish
  <2>1. anchors \in SUBSET Nat /\ filled[10] \in SUBSET Nat
    BY <1>3, <1>8 DEF T
  <2> HIDE DEF filled, anchors
  <2> QED
    BY <1>1, <1>2, <2>1
<1> QED
  BY <1>1, <1>9

\* A sound route is at least as long as the corridor.
LEMMA RoutesAreLong ==
  ASSUME NEW r, OnRoads(r)
  PROVE  Length(r) \in Nat /\ Length(r) >= 20
<1>1. r \in Seq(Points) /\ Len(r) > Len(Corridor) /\ Starts(r)
  BY DEF OnRoads
<1>2. Corridor \in Seq(Points) /\ Len(Corridor) >= 2 /\ Length(Corridor) >= 20
      /\ Length(Corridor) \in Nat
  BY CorridorIsAWay, WalksAreRoutes DEF Mile
<1>3. PICK n \in Nat : n = Len(r)
  BY <1>1
<1>4. PICK a \in Nat : a = Len(Corridor) /\ a >= 2 /\ a < n
  BY <1>1, <1>2, <1>3
<1>5. a \in 1..Len(r) /\ n \in a..Len(r) /\ a \in 0..Len(r) /\ n \in 0..Len(r)
  BY <1>3, <1>4
<1>6. Length(SubSeq(r, 1, n)) = Length(SubSeq(r, 1, a)) + Length(SubSeq(r, a, n))
  BY <1>1, <1>5, LengthOfPart
<1>7. Length(SubSeq(r, a, n)) \in Nat
  BY <1>1, <1>5, Part, LengthOf
<1>8. SubSeq(r, 1, a) = Corridor
  <2>1. PICK s : s = SubSeq(r, 1, a)
    OBVIOUS
  <2>2. s \in Seq(Points) /\ Len(s) = a /\ \A i \in 1..a : s[i] = r[i]
    BY <1>1, <1>5, <2>1, Beginning
  <2>3. \A i \in 1..Len(s) : s[i] = Corridor[i]
    BY <1>1, <1>4, <2>2 DEF Starts
  <2>4. s = Corridor
    BY <1>2, <1>4, <2>2, <2>3, SeqEqual
  <2> QED
    BY <2>1, <2>4
<1>9. SubSeq(r, 1, n) = r
  <2>1. PICK s : s = SubSeq(r, 1, n)
    OBVIOUS
  <2>2. s \in Seq(Points) /\ Len(s) = n /\ \A i \in 1..n : s[i] = r[i]
    BY <1>1, <1>5, <2>1, Beginning
  <2>3. s = r
    BY <1>1, <1>3, <2>2, SeqEqual
  <2> QED
    BY <2>1, <2>3
<1>10. Length(r) \in Nat
  BY <1>1, LengthOf
<1>11. Length(r) = Length(Corridor) + Length(SubSeq(r, a, n))
  BY <1>6, <1>8, <1>9
<1> QED
  BY <1>2, <1>7, <1>10, <1>11

\* Every station stands on the route, at a mile of it.
LEMMA StationsAreOnRoute ==
  ASSUME NEW r, OnRoads(r), NEW n, NEW s \in Stations(r, n)
  PROVE  /\ s.mi \in 0..Length(r)
         /\ \E i \in 1..(Len(r) - 1) : Between(r[i], s.point, r[i + 1])
<1>1. PICK length \in Nat : length = Length(r) /\ length >= 20
  BY RoutesAreLong
<1> DEFINE Of(type, S) == {[type |-> type, mi |-> mi, point |-> PointAtMile(r, mi)] : mi \in S}
<1>2. \E type : \E S : s \in Of(type, S) /\ S \subseteq 0..length
  <2>1. s \in Of("water_station", Hydration(length)) \cup Of("medical_tent", Medical(length, n))
           \cup Of("portable_toilet", Toilets(length, n)) \cup Of("cheer_zone", CheerZones(length, n))
    BY <1>1 DEF Stations
  <2>2. Hydration(length) \subseteq 0..length
    BY HydrationIsOnRoute
  <2>3. Medical(length, n) \subseteq 0..length
    BY MedicalIsOnRoute
  <2>4. Toilets(length, n) \subseteq 0..length
    BY <1>1, ToiletsAreOnRoute
  <2>5. CheerZones(length, n) \subseteq 0..length
    BY CheerZonesAreOnRoute
  <2> HIDE DEF Of
  <2> QED
    BY <2>1, <2>2, <2>3, <2>4, <2>5
<1>3. PICK mi \in 0..length : s.mi = mi /\ s.point = PointAtMile(r, mi)
  BY <1>2
<1> QED
  BY <1>1, <1>3, PointIsOnRoute

MilesOf(S, type) == {s.mi : s \in {t \in S : t.type = type}}

\* No toilet stands at a water station of a full course.
LEMMA ToiletsAreApart ==
  ASSUME NEW r, OnRoads(r), NEW n, Length(r) >= TargetDist
  PROVE  MilesOf(Stations(r, n), "water_station") \cap MilesOf(Stations(r, n), "portable_toilet") = {}
<1>1. PICK length \in Nat : length = Length(r) /\ length >= 20
  BY RoutesAreLong
<1> DEFINE Of(type, S) == {[type |-> type, mi |-> mi, point |-> PointAtMile(r, mi)] : mi \in S}
<1>2. ASSUME NEW s \in Stations(r, n)
      PROVE  /\ s.type = "water_station" => s.mi \in Hydration(length)
             /\ s.type = "portable_toilet" => s.mi \in Toilets(length, n)
  <2>1. s \in Of("water_station", Hydration(length)) \cup Of("medical_tent", Medical(length, n))
           \cup Of("portable_toilet", Toilets(length, n)) \cup Of("cheer_zone", CheerZones(length, n))
    BY <1>1 DEF Stations
  <2>2. ASSUME NEW type, NEW S, s \in Of(type, S) PROVE s.type = type /\ s.mi \in S
    BY <2>2
  <2> HIDE DEF Of
  <2> QED
    BY <2>1, <2>2
<1>3. SUFFICES ASSUME NEW mi, mi \in Hydration(length), mi \in Toilets(length, n)
               PROVE  FALSE
  <2>1. MilesOf(Stations(r, n), "water_station") \subseteq Hydration(length)
    BY <1>2 DEF MilesOf
  <2>2. MilesOf(Stations(r, n), "portable_toilet") \subseteq Toilets(length, n)
    BY <1>2 DEF MilesOf
  <2> QED
    BY <2>1, <2>2
<1>4. PICK k \in Nat : mi = 124 * k
  BY <1>3, HydrationIsOnRoute
<1>5. PICK j \in Int : mi = 2 * j + 1
  BY <1>1, <1>3, ToiletsAreOnRoute
<1> QED
  BY <1>4, <1>5

\* A plan made from a route for n runners.
PlanOf(p, r, n) ==
  /\ p = [segments |-> Segments(r), distance |-> Length(r), stations |-> Stations(r, n)]
  /\ OnRoads(r)

\* A plan that was made of a sound route is whole.
LEMMA PlansAreWhole ==
  ASSUME NEW r, NEW n, PlanOf(plan, r, n), r \in Routes
  PROVE  PlanIsWhole
<1>1. r \in Seq(Points) /\ Len(r) \in Nat /\ Len(r) >= 3
  BY RoadsRunAlongAxes DEF PlanOf
<1>2. /\ plan.segments = Segments(r) /\ plan.distance = Length(r)
      /\ plan.stations = Stations(r, n) /\ OnRoads(r)
  BY DEF PlanOf
<1>3. Extract(plan.segments) = r
  BY <1>1, <1>2, ExtractedIsRoute
<1>4. PICK x : x = DistanceIndex(plan.segments)
  OBVIOUS
<1>5. x[Len(x)].end = plan.distance /\ \A k \in 1..(Len(x) - 1) : x[k].end = x[k + 1].start
  BY <1>1, <1>2, <1>4, IndexCovers
<1>6. Length(r) \in Nat
  BY <1>2, RoutesAreLong
<1>7. ASSUME NEW s \in plan.stations
      PROVE  /\ s.mi >= 0 /\ s.mi <= plan.distance
             /\ \E i \in 1..(Len(r) - 1) : Between(r[i], s.point, r[i + 1])
  BY <1>2, <1>6, StationsAreOnRoute
<1>8. plan.distance >= TargetDist =>
        MilesOf(plan.stations, "water_station") \cap MilesOf(plan.stations, "portable_toilet") = {}
  BY <1>2, ToiletsAreApart
<1> QED
  BY <1>2, <1>3, <1>4, <1>5, <1>7, <1>8 DEF PlanIsWhole, MilesOf

----------------------------------------------------------------------------
(* The invariant of the plan.                                              *)

CandidateType == [route : Seq(Points), dist : Nat]

\* What is known of the candidates made so far, whatever the step.
CandidatesInv ==
  /\ made \in Seq(CandidateType)
  /\ \A c \in ToSet(made) : Sound(c.route, c.dist) /\ (Clean(c.route) => c.dist <= bestClean.dist)
  /\ bestClean.route # <<>> => Clean(bestClean.route)
  /\ at = "select" /\ route # <<>> => Clean(route) /\ total >= TargetDist

\* A plan is there only at the end, made of a route that is still known.
PlannedInv ==
  /\ plan # NoPlan => at = "planned" /\ \E r \in Routes : \E n \in RunnerCounts : PlanOf(plan, r, n)
  /\ PlanIsBest

PlanInv == RouteInv /\ CandidatesInv /\ PlannedInv

LEMMA SoundIsTyped ==
  ASSUME NEW r, NEW d, Sound(r, d)
  PROVE  /\ r \in Seq(Points) /\ d \in Nat
         /\ r # <<>> => d >= 20
         /\ r = <<>> => d = 0
<1>1. r \in Seq(Points) /\ d = Length(r) /\ d \in Nat
  BY LengthOf DEF Sound
<1>2. r # <<>> => d >= 20
  BY <1>1, RoutesAreLong DEF Sound
<1>3. r = <<>> => d = 0
  <2>1. <<0, 0>> \in Points
    BY DEF Points
  <2> QED
    BY <1>1, <2>1, LengthOfFew
<1> QED
  BY <1>1, <1>2, <1>3

\* The invariant of the plan holds at first, and every step keeps it.
LEMMA PlanInit ==
  TrafficInit => PlanInv
<1> SUFFICES ASSUME TrafficInit PROVE PlanInv
  OBVIOUS
<1>1. RouteInv
  BY RouteInit DEF TrafficInit
<1>2. /\ made = <<>> /\ at = "attempt" /\ bestClean = None /\ plan = NoPlan
  BY DEF TrafficInit, Init
<1>3. made \in Seq(CandidateType) /\ ToSet(made) = {}
  BY <1>2 DEF ToSet
<1>4. CandidatesInv
  BY <1>2, <1>3 DEF CandidatesInv, None
<1>5. PlannedInv
  BY <1>2 DEF PlannedInv, PlanIsBest
<1> QED
  BY <1>1, <1>4, <1>5 DEF PlanInv

\* Steps that leave the candidates alone and neither select nor finish.
LEMMA SearchingKeepsPlan ==
  ASSUME PlanInv, UNCHANGED <<best, bestClean, made, plan>>, at # "planned",
         at' \notin {"select", "planned"}
  PROVE  CandidatesInv' /\ PlannedInv'
<1>1. plan = NoPlan
  BY DEF PlanInv, PlannedInv
<1>2. PlannedInv'
  BY <1>1 DEF PlannedInv, PlanIsBest
<1>3. CandidatesInv'
  BY DEF PlanInv, CandidatesInv
<1> QED
  BY <1>2, <1>3

LEMMA CandidateKeepsPlan ==
  ASSUME PlanInv, Candidate
  PROVE  CandidatesInv' /\ PlannedInv'
<1>1. PICK c : c = CandidateOf
  OBVIOUS
<1>2. Sound(c.route, c.dist) /\ c = [route |-> c.route, dist |-> c.dist]
  BY <1>1 DEF PlanInv, RouteInv, CandidateOf
<1>3. c \in CandidateType
  BY <1>2, SoundIsTyped DEF CandidateType
<1>4. /\ Keep(c) /\ made' = Append(made, c) /\ at = "candidate" /\ plan' = plan
      /\ at' \in {"select", "attempt"}
      /\ \/ /\ Clean(c.route) /\ c.dist >= TargetDist
            /\ route' = c.route /\ total' = c.dist
         \/ route' = <<>>
  BY <1>1 DEF Candidate, CandidateOf
<1>5. made \in Seq(CandidateType)
  BY DEF PlanInv, CandidatesInv
<1>6. made' \in Seq(CandidateType) /\ ToSet(made') \subseteq ToSet(made) \cup {c}
  <2>1. PICK n \in Nat : n = Len(made)
    BY <1>5
  <2>2. PICK m : m = Append(made, c)
    OBVIOUS
  <2>3. /\ m \in Seq(CandidateType) /\ Len(m) = n + 1 /\ m[n + 1] = c
        /\ \A i \in 1..n : m[i] = made[i]
    BY <1>3, <1>5, <2>1, <2>2, AppendProperties
  <2>4. ASSUME NEW x \in ToSet(m) PROVE x \in ToSet(made) \cup {c}
    <3>1. PICK i \in 1..(n + 1) : x = m[i]
      BY <2>3 DEF ToSet
    <3>2. CASE i = n + 1
      BY <2>3, <3>1, <3>2
    <3>3. CASE i # n + 1
      <4>1. i \in 1..n
        BY <2>1, <3>3
      <4> QED
        BY <2>1, <2>3, <3>1, <4>1 DEF ToSet
    <3> QED
      BY <3>2, <3>3
  <2> QED
    BY <1>4, <2>2, <2>3, <2>4
<1>7. Sound(bestClean.route, bestClean.dist) /\ bestClean.dist \in Nat /\ c.dist \in Nat
  BY <1>2, SoundIsTyped DEF PlanInv, RouteInv
<1>8. bestClean'.dist >= bestClean.dist /\ (Clean(c.route) => bestClean'.dist >= c.dist)
  BY <1>4, <1>7 DEF Keep
<1>9. ASSUME NEW x \in ToSet(made')
      PROVE  Sound(x.route, x.dist) /\ (Clean(x.route) => x.dist <= bestClean'.dist)
  <2>1. CASE x = c
    BY <1>2, <1>8, <2>1
  <2>2. CASE x \in ToSet(made)
    <3>1. Sound(x.route, x.dist) /\ (Clean(x.route) => x.dist <= bestClean.dist)
      BY <2>2 DEF PlanInv, CandidatesInv
    <3>2. x.dist \in Nat /\ bestClean'.dist \in Nat
      BY <1>4, <1>7, <3>1, SoundIsTyped DEF Keep
    <3> QED
      BY <1>7, <1>8, <3>1, <3>2
  <2> QED
    BY <1>6, <2>1, <2>2
<1>10. bestClean'.route # <<>> => Clean(bestClean'.route)
  BY <1>4 DEF Keep, PlanInv, CandidatesInv
<1>11. ASSUME NEW r PROVE Clean(r)' = Clean(r)
  BY DEF Clean
<1>12. CandidatesInv'
  BY <1>4, <1>6, <1>9, <1>10 DEF CandidatesInv, Clean
<1>13. PlannedInv'
  BY <1>4 DEF PlanInv, PlannedInv, PlanIsBest
<1> QED
  BY <1>12, <1>13

LEMMA SelectKeepsPlan ==
  ASSUME PlanInv, Select
  PROVE  CandidatesInv' /\ PlannedInv'
<1>1. /\ at = "select" /\ at' = "planned" /\ plan = NoPlan
      /\ UNCHANGED <<route, total, fallback, best, bestClean, made>>
  BY DEF Select, PlanInv, PlannedInv
<1>2. CandidatesInv'
  BY <1>1 DEF PlanInv, CandidatesInv
<1> DEFINE c == CASE route # <<>> -> [route |-> route, dist |-> total]
                  [] route = <<>> /\ bestClean.route # <<>> -> bestClean
                  [] OTHER -> best
<1>3. c.route # <<>> => c.route \in Routes
  BY DEF Routes
<1>4. Sound(c.route, c.dist)
  BY DEF PlanInv, RouteInv
<1>5. \/ c.route = <<>> /\ plan' = plan
      \/ /\ c.route # <<>>
         /\ \E n \in RunnerCounts :
              plan' = [segments |-> Segments(c.route), distance |-> c.dist,
                       stations |-> Stations(Extract(Segments(c.route)), n)]
  BY DEF Select
<1>6. ASSUME NEW x \in ToSet(made), Clean(x.route)
      PROVE  c.route # <<>> /\ Clean(c.route) /\ c.dist >= Min({x.dist, TargetDist})
  <2>1. Sound(x.route, x.dist) /\ x.dist <= bestClean.dist /\ x.route # <<>>
    BY <1>6 DEF PlanInv, CandidatesInv, Clean
  <2>2. x.dist \in Nat /\ x.dist >= 20
    BY <2>1, SoundIsTyped
  <2>3. Sound(bestClean.route, bestClean.dist) /\ bestClean.dist \in Nat
    BY SoundIsTyped DEF PlanInv, RouteInv
  <2>4. bestClean.route # <<>>
    BY <2>1, <2>2, <2>3, SoundIsTyped
  <2>5. Min({x.dist, TargetDist}) = IF x.dist <= TargetDist THEN x.dist ELSE TargetDist
    BY <2>2, MinOfTwo DEF TargetDist
  <2>6. CASE route # <<>>
    <3>1. c.route = route /\ c.dist = total
      BY <2>6
    <3>2. Clean(route) /\ total >= TargetDist /\ total \in Nat
      BY <1>1, <2>6, SoundIsTyped DEF PlanInv, CandidatesInv, RouteInv
    <3> HIDE DEF c
    <3> QED
      BY <2>2, <2>5, <2>6, <3>1, <3>2 DEF TargetDist
  <2>7. CASE route = <<>>
    <3>1. c = bestClean
      BY <2>4, <2>7
    <3>2. Clean(bestClean.route)
      BY <2>4 DEF PlanInv, CandidatesInv
    <3> HIDE DEF c
    <3> QED
      BY <2>1, <2>2, <2>3, <2>4, <2>5, <3>1, <3>2 DEF TargetDist
  <2> QED
    BY <2>6, <2>7
<1> HIDE DEF c
<1>7. ASSUME c.route # <<>>
      PROVE  /\ \E n \in RunnerCounts : PlanOf(plan', c.route, n)
             /\ Extract(plan'.segments) = c.route /\ plan'.distance = c.dist
  <2>1. OnRoads(c.route) /\ c.dist = Length(c.route)
    BY <1>4, <1>7 DEF Sound
  <2>2. Extract(Segments(c.route)) = c.route
    BY <2>1, RoadsRunAlongAxes, ExtractedIsRoute
  <2>3. PICK n \in RunnerCounts :
          plan' = [segments |-> Segments(c.route), distance |-> Length(c.route),
                   stations |-> Stations(c.route, n)]
    BY <1>5, <1>7, <2>1, <2>2
  <2> QED
    BY <2>1, <2>2, <2>3 DEF PlanOf
<1>8. PlanIsBest'
  <2>1. ASSUME NEW x \in ToSet(made), Clean(x.route)
        PROVE  /\ Clean(Extract(plan'.segments))
               /\ plan'.distance >= Min({x.dist, TargetDist})
    BY <1>6, <1>7, <2>1
  <2> QED
    BY <1>1, <2>1 DEF PlanIsBest, Clean
<1>9. plan' # NoPlan => \E r \in Routes' : \E n \in RunnerCounts : PlanOf(plan', r, n)
  <2>1. Routes' = Routes
    BY <1>1 DEF Routes
  <2> QED
    BY <1>1, <1>3, <1>5, <1>7, <2>1
<1>10. PlannedInv'
  BY <1>1, <1>8, <1>9 DEF PlannedInv, PlanOf
<1> QED
  BY <1>2, <1>10

LEMMA PlanNext ==
  ASSUME PlanInv, [TrafficNext]_<<vars, trafficVars>>
  PROVE  PlanInv'
<1>1. RouteInv'
  BY RouteNext DEF PlanInv
<1> SUFFICES CandidatesInv' /\ PlannedInv'
  BY <1>1 DEF PlanInv
<1>2. CASE Next
  <2>1. CASE StartAttempt
    BY <2>1, SearchingKeepsPlan DEF StartAttempt, Searching
  <2>2. CASE Hop
    BY <2>2, SearchingKeepsPlan DEF Hop, Searching
  <2>3. CASE Explore
    BY <2>3, SearchingKeepsPlan DEF Explore, Searching
  <2>4. CASE Connect
    <3>1. UNCHANGED <<best, bestClean, made, plan>> /\ at = "connect"
      BY <2>4 DEF Connect, Searching
    <3>2. at' \in {"adjust", "attempt", "candidate"}
      BY <2>4 DEF Connect, Rejected
    <3> QED
      BY <3>1, <3>2, SearchingKeepsPlan
  <2>5. CASE Judge
    <3>1. UNCHANGED <<best, bestClean, made, plan>> /\ at = "adjust"
      BY <2>5 DEF Judge, Searching
    <3>2. at' \in {"attempt", "candidate"}
      BY <2>5 DEF Judge, Rejected
    <3> QED
      BY <3>1, <3>2, SearchingKeepsPlan
  <2>6. CASE Candidate
    BY <2>6, CandidateKeepsPlan
  <2>7. CASE Select
    BY <2>7, SelectKeepsPlan
  <2> QED
    BY <1>2, <2>1, <2>2, <2>3, <2>4, <2>5, <2>6, <2>7 DEF Next
<1>3. CASE UNCHANGED vars
  <2>1. CandidatesInv'
    BY <1>3 DEF vars, PlanInv, CandidatesInv, Clean
  <2>2. PlannedInv'
    BY <1>3 DEF vars, PlanInv, PlannedInv, PlanOf, Routes, PlanIsBest, Clean
  <2> QED
    BY <2>1, <2>2
<1>4. CASE Assess
  BY <1>3, <1>4 DEF Assess
<1>5. CASE Tick
  BY <1>3, <1>5 DEF Tick
<1>6. CASE SplitAny
  BY <1>6, SearchingKeepsPlan DEF SplitAny
<1>7. CASE StartRace
  <2>1. /\ at' = "race" /\ made' = <<>> /\ plan' = NoPlan /\ bestClean' = None
    BY <1>7 DEF StartRace
  <2>2. made' \in Seq(CandidateType) /\ ToSet(made') = {}
    BY <2>1 DEF ToSet
  <2>3. CandidatesInv'
    BY <2>1, <2>2 DEF CandidatesInv, None
  <2>4. PlannedInv'
    BY <2>1 DEF PlannedInv, PlanIsBest
  <2> QED
    BY <2>3, <2>4
<1>8. CASE UNCHANGED <<vars, trafficVars>>
  BY <1>3, <1>8
<1> QED
  BY <1>2, <1>4, <1>5, <1>6, <1>7, <1>8 DEF TrafficNext

LEMMA PlanInvIsSound ==
  PlanInv => PlanIsSound
<1> SUFFICES ASSUME PlanInv PROVE PlanIsSound
  OBVIOUS
<1>1. CASE plan = NoPlan
  BY <1>1 DEF PlanIsSound, PlanIsWhole, PlanInv, PlannedInv
<1>2. CASE plan # NoPlan
  <2>1. PICK r \in Routes : \E n \in RunnerCounts : PlanOf(plan, r, n)
    BY <1>2 DEF PlanInv, PlannedInv
  <2>2. PlanIsWhole
    BY <2>1, PlansAreWhole
  <2> QED
    BY <2>2 DEF PlanIsSound, PlanInv, PlannedInv
<1> QED
  BY <1>1, <1>2

\* The plan is as good as the best candidate, and put together again from its
\* roads it is the route that was chosen, covered by the distance index, with all
\* stations on it.
THEOREM PlanAlwaysSound ==
  TrafficSpec => []PlanIsSound
<1>1. TrafficInit => PlanInv
  BY PlanInit
<1>2. PlanInv /\ [TrafficNext]_<<vars, trafficVars>> => PlanInv'
  BY PlanNext
<1>3. PlanInv => PlanIsSound
  BY PlanInvIsSound
<1> QED
  BY <1>1, <1>2, <1>3, PTL DEF TrafficSpec

----------------------------------------------------------------------------
(* The ticks of a race.                                                    *)

\* A race is under way after the planning, never during it.
LEMMA NextIsNoRace ==
  ASSUME Next
  PROVE  at \notin {"race", "split", "planned"} /\ at' \notin {"race", "split"}
<1>1. CASE StartAttempt
  BY <1>1 DEF StartAttempt
<1>2. CASE Hop
  BY <1>2 DEF Hop
<1>3. CASE Explore
  BY <1>3 DEF Explore
<1>4. CASE Connect
  BY <1>4 DEF Connect, Rejected
<1>5. CASE Judge
  BY <1>5 DEF Judge, Rejected
<1>6. CASE Candidate
  BY <1>6 DEF Candidate
<1>7. CASE Select
  BY <1>7 DEF Select
<1> QED
  BY <1>1, <1>2, <1>3, <1>4, <1>5, <1>6, <1>7 DEF Next

\* What the roads and their sweeps are during a race.
RoadState == [closed : Nat, peak : Nat]
RoadNames == {index[k].name : k \in 1..Len(index)}
SweepSet == {(index[Len(index)].end * x) \div 10 : x \in Sweeps}

Racing ==
  /\ Len(index) \in Nat \ {0} /\ DOMAIN index = 1..Len(index)
  /\ state \in [RoadNames -> RoadState]
  /\ swept \in Seq(SweepSet)
  /\ ClosedTicksInARow

RaceInv ==
  /\ at # "race" => index = <<>> /\ swept = <<>>
  /\ at = "race" => Racing

\* A tick counts one more for a road that is ahead of the sweep, and starts again
\* for one behind.
LEMMA MovedIsTyped ==
  ASSUME NEW s \in RoadState, NEW seg, NEW sweep
  PROVE  /\ Moved(s, seg, sweep) \in RoadState
         /\ Behind(seg, sweep) => Moved(s, seg, sweep).closed = 0
         /\ ~Behind(seg, sweep) => Moved(s, seg, sweep).closed = s.closed + 1
<1>1. PICK c \in Nat : c = s.closed
  BY DEF RoadState
<1>2. PICK x \in Nat : x = (100 * c) \div MaxCongestionTicks
  BY DEF MaxCongestionTicks
<1>3. Min({100, x}) \in Nat
  BY MinOfTwo
<1> DEFINE peak == IF c > 0 THEN Min({100, x}) ELSE s.peak
<1>4. peak \in Nat
  BY <1>3 DEF RoadState
<1> DEFINE faded == (peak * 7) \div 10
<1>5. faded \in Nat
  BY <1>4
<1>6. Moved(s, seg, sweep) =
        IF Behind(seg, sweep) THEN [closed |-> 0, peak |-> IF faded <= 1 THEN 0 ELSE faded]
        ELSE [closed |-> c + 1, peak |-> 0]
  BY <1>1, <1>2 DEF Moved
<1> HIDE DEF faded, peak
<1>7. CASE Behind(seg, sweep)
  <2>1. (IF faded <= 1 THEN 0 ELSE faded) \in Nat
    BY <1>5
  <2>2. PICK y \in Nat : y = IF faded <= 1 THEN 0 ELSE faded
    BY <2>1
  <2>3. Moved(s, seg, sweep) = [closed |-> 0, peak |-> y]
    BY <1>6, <1>7, <2>2
  <2> QED
    BY <1>7, <2>3 DEF RoadState
<1>8. CASE ~Behind(seg, sweep)
  <2>1. Moved(s, seg, sweep) = [closed |-> c + 1, peak |-> 0]
    BY <1>6, <1>8
  <2> QED
    BY <1>1, <1>8, <2>1 DEF RoadState
<1> QED
  BY <1>7, <1>8

LEMMA LevelIsTyped ==
  ASSUME NEW s \in RoadState
  PROVE  /\ Min({100, (100 * s.closed) \div MaxCongestionTicks}) \in Nat
         /\ s.closed > 0 => Min({100, (100 * s.closed) \div MaxCongestionTicks}) > 0
<1>1. PICK c \in Nat : c = s.closed
  BY DEF RoadState
<1>2. PICK x \in Nat : x = (100 * c) \div MaxCongestionTicks /\ (c > 0 => x > 0)
  BY DEF MaxCongestionTicks
<1>3. Min({100, x}) = IF 100 <= x THEN 100 ELSE x
  BY <1>2, MinOfTwo
<1> QED
  BY <1>1, <1>2, <1>3

\* The congestion level of a segment, and what Tick does to a segment's road.
Level(s, seg, sweep) ==
  IF Behind(seg, sweep) THEN s.peak ELSE Min({100, (100 * s.closed) \div MaxCongestionTicks})

MoveOf(before, seg, sweep) ==
  LET s == Moved(before.state[seg.name], seg, sweep)
  IN [state |-> [before.state EXCEPT ![seg.name] = s],
      levels |-> Append(before.levels, Level(s, seg, sweep))]

Moves == [state : [RoadNames -> RoadState], levels : Seq(Nat)]

\* A move changes the state of one road and adds its level.
LEMMA MoveIsTyped ==
  ASSUME NEW b \in Moves, NEW k \in 1..Len(index), NEW sweep
  PROVE  /\ MoveOf(b, index[k], sweep) \in Moves
         /\ index[k].name \in RoadNames /\ b.state[index[k].name] \in RoadState
         /\ MoveOf(b, index[k], sweep).state[index[k].name] =
              Moved(b.state[index[k].name], index[k], sweep)
         /\ \A n \in RoadNames : n # index[k].name => MoveOf(b, index[k], sweep).state[n] = b.state[n]
         /\ Len(MoveOf(b, index[k], sweep).levels) = Len(b.levels) + 1
         /\ MoveOf(b, index[k], sweep).levels[Len(b.levels) + 1] =
              Level(Moved(b.state[index[k].name], index[k], sweep), index[k], sweep)
         /\ \A j \in 1..Len(b.levels) : MoveOf(b, index[k], sweep).levels[j] = b.levels[j]
<1>1. PICK name : name = index[k].name /\ name \in RoadNames
  BY DEF RoadNames
<1>2. PICK st : st = b.state /\ st \in [RoadNames -> RoadState]
  BY DEF Moves
<1>3. PICK ls : ls = b.levels /\ ls \in Seq(Nat)
  BY DEF Moves
<1>4. PICK s : s = Moved(st[name], index[k], sweep)
  OBVIOUS
<1>5. s \in RoadState
  BY <1>1, <1>2, <1>4, MovedIsTyped
<1>6. PICK l : l = Level(s, index[k], sweep)
  OBVIOUS
<1>7. l \in Nat
  BY <1>5, <1>6, LevelIsTyped DEF Level, RoadState
<1>8. MoveOf(b, index[k], sweep) = [state |-> [st EXCEPT ![name] = s], levels |-> Append(ls, l)]
  BY <1>1, <1>2, <1>3, <1>4, <1>6 DEF MoveOf
<1>9. PICK t : t = [st EXCEPT ![name] = s]
  OBVIOUS
<1>10. t \in [RoadNames -> RoadState] /\ t[name] = s /\ \A n \in RoadNames : n # name => t[n] = st[n]
  BY <1>1, <1>2, <1>5, <1>9
<1>11. PICK ms : ms = Append(ls, l)
  OBVIOUS
<1>12. /\ ms \in Seq(Nat) /\ Len(ms) = Len(ls) + 1 /\ ms[Len(ls) + 1] = l
       /\ \A j \in 1..Len(ls) : ms[j] = ls[j]
  BY <1>3, <1>7, <1>11, AppendProperties
<1>13. PICK m : m = [state |-> t, levels |-> ms]
  OBVIOUS
<1>14. m \in Moves /\ m.state = t /\ m.levels = ms /\ MoveOf(b, index[k], sweep) = m
  BY <1>8, <1>9, <1>10, <1>11, <1>12, <1>13 DEF Moves
<1> QED
  BY <1>1, <1>2, <1>3, <1>4, <1>6, <1>10, <1>12, <1>14

\* A road that the course follows once.
Unique(k) == \A j \in 1..Len(index) : index[j].name = index[k].name => j = k

\* The states and levels after the first k segments of a tick.
Ticked(after, sweep) ==
  after = [k \in 0..Len(index) |-> IF k = 0 THEN [state |-> state, levels |-> <<>>]
                                   ELSE MoveOf(after[k - 1], index[k], sweep)]

\* A tick comes to an end.
LEMMA TicksThrough ==
  ASSUME Racing, NEW sweep
  PROVE  \E after : Ticked(after, sweep)
<1>1. PICK n \in Nat : n = Len(index)
  BY DEF Racing
<1> DEFINE base == [state |-> state, levels |-> <<>>]
<1>2. base \in Moves
  BY DEF Racing, Moves
<1> DEFINE step == [k \in Nat |-> [b \in Moves |-> IF k \in 1..n THEN MoveOf(b, index[k], sweep) ELSE b]]
<1>3. ASSUME NEW k \in 1..n, NEW b \in Moves PROVE MoveOf(b, index[k], sweep) \in Moves
  BY <1>1, MoveIsTyped
<1>4. /\ step \in [Nat -> [Moves -> Moves]]
      /\ \A k \in 1..n, b \in Moves : step[k][b] = MoveOf(b, index[k], sweep)
  BY <1>1, <1>3
<1> HIDE DEF step, base
<1>5. PICK f : Solves(f, Moves, base, step, n)
  BY <1>1, <1>2, <1>4, Recursion
<1>6. f \in [0..n -> Moves] /\ \A k \in 0..n : f[k] = IF k = 0 THEN base ELSE step[k][f[k - 1]]
  BY <1>5 DEF Solves
<1>7. ASSUME NEW k \in 0..n
      PROVE  f[k] = IF k = 0 THEN base ELSE MoveOf(f[k - 1], index[k], sweep)
  <2>1. k # 0 => k \in 1..n /\ k - 1 \in 0..n
    BY <1>1
  <2>2. k # 0 => f[k - 1] \in Moves
    BY <1>6, <2>1
  <2> QED
    BY <1>4, <1>6, <2>1, <2>2
<1>8. f = [k \in 0..n |-> IF k = 0 THEN base ELSE MoveOf(f[k - 1], index[k], sweep)]
  BY <1>6, <1>7
<1> QED
  BY <1>1, <1>8 DEF Ticked, base

\* The roads are moved in order, one that the course follows once exactly once.
LEMMA TickMoves ==
  ASSUME Racing, NEW sweep, NEW after, Ticked(after, sweep)
  PROVE  /\ after[Len(index)] \in Moves
         /\ \A k \in 1..Len(index) : Unique(k) =>
              LET s == Moved(state[index[k].name], index[k], sweep)
              IN /\ after[Len(index)].state[index[k].name] = s
                 /\ after[Len(index)].levels[k] = Level(s, index[k], sweep)
<1>1. PICK n \in Nat : n = Len(index) /\ n > 0
  <2>1. Len(index) \in Nat /\ Len(index) # 0
    BY DEF Racing
  <2> QED
    BY <2>1
<1>2. /\ after[0] = [state |-> state, levels |-> <<>>]
      /\ \A k \in 1..n : after[k] = MoveOf(after[k - 1], index[k], sweep)
  <2>1. \A k \in 0..n : after[k] = IF k = 0 THEN [state |-> state, levels |-> <<>>]
                                   ELSE MoveOf(after[k - 1], index[k], sweep)
    BY <1>1 DEF Ticked
  <2>2. 0 \in 0..n /\ \A k \in 1..n : k \in 0..n /\ k # 0
    BY <1>1
  <2> QED
    BY <2>1, <2>2
<1> DEFINE Right(j, k) ==
      LET s == Moved(state[index[k].name], index[k], sweep)
      IN IF j < k THEN after[j].state[index[k].name] = state[index[k].name]
         ELSE /\ after[j].state[index[k].name] = s
              /\ after[j].levels[k] = Level(s, index[k], sweep)
<1> DEFINE Good(j) ==
      /\ after[j] \in Moves /\ Len(after[j].levels) = j
      /\ \A k \in 1..n : Unique(k) => Right(j, k)
<1> DEFINE S == {j \in Nat : j <= n => Good(j)}
<1>3. 0 \in S
  <2>1. after[0] \in Moves /\ Len(after[0].levels) = 0 /\ after[0].state = state
    BY <1>2 DEF Moves, Racing
  <2>2. \A k \in 1..n : Right(0, k)
    BY <2>1
  <2> HIDE DEF Right
  <2> QED
    BY <2>1, <2>2
<1>4. ASSUME NEW j \in S PROVE j + 1 \in S
  <2>1. ASSUME j + 1 <= n PROVE Good(j + 1)
    <3>1. j \in Nat /\ j + 1 \in 1..n /\ j <= n /\ (j + 1) - 1 = j
      BY <1>1, <2>1
    <3>2. after[j + 1] = MoveOf(after[j], index[j + 1], sweep)
      BY <1>2, <3>1
    <3>3. Good(j)
      BY <3>1
    <3>4. PICK b \in Moves : b = after[j] /\ Len(b.levels) = j
      BY <3>3
    <3>5. PICK m \in Moves :
            /\ m = after[j + 1] /\ Len(m.levels) = j + 1
            /\ m.state[index[j + 1].name] = Moved(b.state[index[j + 1].name], index[j + 1], sweep)
            /\ \A x \in RoadNames : x # index[j + 1].name => m.state[x] = b.state[x]
            /\ m.levels[j + 1] =
                 Level(Moved(b.state[index[j + 1].name], index[j + 1], sweep), index[j + 1], sweep)
            /\ \A i \in 1..j : m.levels[i] = b.levels[i]
      BY <1>1, <3>1, <3>2, <3>4, MoveIsTyped
    <3>6. ASSUME NEW k \in 1..n, Unique(k) PROVE Right(j + 1, k)
      <4>1. Right(j, k)
        BY <3>3, <3>6
      <4>2. index[k].name \in RoadNames
        BY <1>1 DEF RoadNames
      <4>3. CASE k = j + 1
        <5>1. j < k /\ ~ (j + 1 < k)
          BY <3>1, <4>3
        <5>2. b.state[index[k].name] = state[index[k].name]
          BY <3>4, <4>1, <5>1
        <5> QED
          BY <3>5, <4>3, <5>1, <5>2
      <4>4. CASE k # j + 1
        <5>1. index[k].name # index[j + 1].name
          BY <1>1, <3>1, <3>6, <4>4 DEF Unique
        <5>2. m.state[index[k].name] = b.state[index[k].name]
          BY <3>5, <4>2, <5>1
        <5>3. CASE j + 1 < k
          <6>1. j < k
            BY <3>1, <5>3
          <6> QED
            BY <3>4, <3>5, <4>1, <5>2, <5>3, <6>1
        <5>4. CASE ~ (j + 1 < k)
          <6>1. ~ (j < k) /\ k \in 1..j
            BY <1>1, <3>1, <4>4, <5>4
          <6>2. m.levels[k] = b.levels[k]
            BY <3>5, <6>1
          <6> QED
            BY <3>4, <3>5, <4>1, <5>2, <5>4, <6>1, <6>2
        <5> QED
          BY <5>3, <5>4
      <4> QED
        BY <4>3, <4>4
    <3> HIDE DEF Right
    <3> QED
      BY <3>1, <3>5, <3>6
  <2> HIDE DEF Good
  <2> QED
    BY <2>1
<1>5. S = Nat
  <2>1. S \in SUBSET Nat
    OBVIOUS
  <2> HIDE DEF S
  <2> QED
    BY <1>3, <1>4, <2>1, Induction
<1>6. Good(n)
  <2> HIDE DEF Good
  <2> QED
    BY <1>1, <1>5
<1>7. \A k \in 1..n : ~ (n < k)
  BY <1>1
<1> QED
  BY <1>1, <1>6, <1>7

\* The ticks in a row, up to the last one, before which a road was ahead.
Ahead(seg, s) == {t \in 1..Len(s) : ~Behind(seg, s[t])}
Row(seg, s) == {t \in 1..Len(s) : t..Len(s) \subseteq Ahead(seg, s)}

\* A tick adds one to the row of a road that is ahead, and empties that of one
\* behind.
LEMMA RowGrows ==
  ASSUME NEW seg, NEW T, NEW s \in Seq(T), NEW x \in T
  PROVE  /\ Behind(seg, x) => Row(seg, Append(s, x)) = {}
         /\ ~Behind(seg, x) => /\ Row(seg, Append(s, x)) # {}
                               /\ Cardinality(Row(seg, Append(s, x))) = Cardinality(Row(seg, s)) + 1
         /\ Cardinality(Row(seg, s)) \in Nat /\ Append(s, x) \in Seq(T)
<1>1. PICK m \in Nat : m = Len(s)
  OBVIOUS
<1>2. PICK r : r = Append(s, x)
  OBVIOUS
<1>3. r \in Seq(T) /\ Len(r) = m + 1 /\ r[m + 1] = x /\ \A i \in 1..m : r[i] = s[i]
  BY <1>1, <1>2, AppendProperties
<1>4. Ahead(seg, r) \cap 1..m = Ahead(seg, s) /\ Ahead(seg, s) \subseteq 1..m
  <2>1. ASSUME NEW t \in 1..m PROVE t \in Ahead(seg, r) <=> t \in Ahead(seg, s)
    BY <1>1, <1>3 DEF Ahead
  <2>2. Ahead(seg, s) \subseteq 1..m
    BY <1>1 DEF Ahead
  <2> QED
    BY <2>1, <2>2
<1>5. m + 1 \in Ahead(seg, r) <=> ~Behind(seg, x)
  BY <1>1, <1>3 DEF Ahead
<1>6. Row(seg, s) \subseteq 1..m /\ IsFiniteSet(Row(seg, s)) /\ Cardinality(Row(seg, s)) \in Nat
  <2>1. Row(seg, s) \subseteq 1..m
    BY <1>1 DEF Row
  <2>2. IsFiniteSet(1..m)
    BY <1>1, FS_Interval
  <2> QED
    BY <2>1, <2>2, FS_Subset, FS_CardinalityType
<1>7. ASSUME Behind(seg, x) PROVE Row(seg, r) = {}
  <2>1. ASSUME NEW t \in Row(seg, r) PROVE FALSE
    <3>1. t \in 1..(m + 1) /\ t..(m + 1) \subseteq Ahead(seg, r)
      BY <1>3 DEF Row
    <3>2. m + 1 \in t..(m + 1)
      BY <1>1, <3>1
    <3> QED
      BY <1>5, <1>7, <3>1, <3>2
  <2> QED
    BY <2>1
<1>8. ASSUME ~Behind(seg, x)
      PROVE  Row(seg, r) = Row(seg, s) \cup {m + 1}
  <2>1. ASSUME NEW t \in 1..m
        PROVE  t..(m + 1) \subseteq Ahead(seg, r) <=> t..m \subseteq Ahead(seg, s)
    <3>1. t..(m + 1) = (t..m) \cup {m + 1} /\ t..m \subseteq 1..m
      BY <1>1
    <3> QED
      BY <1>4, <1>5, <1>8, <3>1
  <2>2. (m + 1)..(m + 1) = {m + 1}
    BY <1>1
  <2>3. m + 1 \in Row(seg, r)
    BY <1>1, <1>3, <1>5, <1>8, <2>2 DEF Row
  <2>4. ASSUME NEW t \in 1..m PROVE t \in Row(seg, r) <=> t \in Row(seg, s)
    BY <1>1, <1>3, <2>1 DEF Row
  <2>5. Row(seg, r) \subseteq 1..(m + 1) /\ 1..(m + 1) = (1..m) \cup {m + 1}
    BY <1>1, <1>3 DEF Row
  <2> QED
    BY <1>6, <2>3, <2>4, <2>5
<1>9. ASSUME ~Behind(seg, x)
      PROVE  Cardinality(Row(seg, r)) = Cardinality(Row(seg, s)) + 1
  <2>1. m + 1 \notin Row(seg, s)
    BY <1>1, <1>6
  <2> QED
    BY <1>6, <1>8, <1>9, <2>1, FS_AddElement
<1> QED
  BY <1>2, <1>3, <1>6, <1>7, <1>8, <1>9

\* A tick keeps what is known of a race, and a race begins with it.
LEMMA TickKeepsRace ==
  ASSUME Racing, Tick
  PROVE  Racing'
<1>1. PICK sweep \in SweepSet : \E after : /\ Ticked(after, sweep)
                                           /\ state' = after[Len(index)].state
                                           /\ levels' = after[Len(index)].levels
                                           /\ swept' = Append(swept, sweep)
  <2>1. PICK x \in Sweeps :
          LET sweep == (index[Len(index)].end * x) \div 10
              after[k \in 0..Len(index)] ==
                IF k = 0 THEN [state |-> state, levels |-> <<>>]
                ELSE LET seg == index[k]
                         before == after[k - 1]
                         s == Moved(before.state[seg.name], seg, sweep)
                     IN [state |-> [before.state EXCEPT ![seg.name] = s],
                         levels |-> Append(before.levels,
                                      IF Behind(seg, sweep) THEN s.peak
                                      ELSE Min({100, (100 * s.closed) \div MaxCongestionTicks}))]
              moved == after[Len(index)]
          IN /\ state' = moved.state
             /\ levels' = moved.levels
             /\ swept' = Append(swept, sweep)
    BY DEF Tick
  <2> DEFINE sweep == (index[Len(index)].end * x) \div 10
  <2>2. sweep \in SweepSet
    BY DEF SweepSet
  <2> DEFINE after == CHOOSE a : a = [k \in 0..Len(index) |->
                IF k = 0 THEN [state |-> state, levels |-> <<>>]
                ELSE [state |-> [a[k - 1].state EXCEPT ![index[k].name] =
                                   Moved(a[k - 1].state[index[k].name], index[k], sweep)],
                      levels |-> Append(a[k - 1].levels,
                        IF Behind(index[k], sweep)
                          THEN Moved(a[k - 1].state[index[k].name], index[k], sweep).peak
                          ELSE Min({100, (100 * Moved(a[k - 1].state[index[k].name], index[k], sweep).closed)
                                           \div MaxCongestionTicks}))]]
  <2>3. /\ state' = after[Len(index)].state /\ levels' = after[Len(index)].levels
        /\ swept' = Append(swept, sweep)
    BY <2>1
  <2>4. Ticked(after, sweep)
    <3>1. \E a : Ticked(a, sweep)
      BY TicksThrough
    <3> QED
      BY <3>1 DEF Ticked, MoveOf, Level
  <2> HIDE DEF after, sweep
  <2> QED
    BY <2>2, <2>3, <2>4
<1>2. PICK after : /\ Ticked(after, sweep)
                   /\ state' = after[Len(index)].state
                   /\ levels' = after[Len(index)].levels
                   /\ swept' = Append(swept, sweep)
  BY <1>1
<1>3. UNCHANGED index
  BY DEF Tick
<1>4. Len(index) \in Nat \ {0} /\ DOMAIN index = 1..Len(index) /\ swept \in Seq(SweepSet)
      /\ state \in [RoadNames -> RoadState] /\ ClosedTicksInARow
  BY DEF Racing
<1>5. after[Len(index)] \in Moves
      /\ \A k \in 1..Len(index) : Unique(k) =>
           LET s == Moved(state[index[k].name], index[k], sweep)
           IN /\ after[Len(index)].state[index[k].name] = s
              /\ after[Len(index)].levels[k] = Level(s, index[k], sweep)
  BY <1>2, TickMoves
<1>6. state' \in [RoadNames -> RoadState]
  BY <1>2, <1>5 DEF Moves
<1>7. swept' \in Seq(SweepSet)
  BY <1>2, <1>4, AppendProperties
<1>8. ASSUME NEW k \in 1..Len(index), Unique(k)
      PROVE  /\ state'[index[k].name].closed = Cardinality(Row(index[k], swept'))
             /\ Row(index[k], swept') # {} => levels'[k] > 0
  <2>1. index[k].name \in RoadNames /\ state[index[k].name] \in RoadState
    BY <1>4 DEF RoadNames
  <2>2. PICK s \in RoadState : s = Moved(state[index[k].name], index[k], sweep)
    BY <2>1, MovedIsTyped
  <2>3. state'[index[k].name] = s /\ levels'[k] = Level(s, index[k], sweep)
    BY <1>2, <1>5, <1>8, <2>2
  <2>4. state[index[k].name].closed = Cardinality(Row(index[k], swept))
    BY <1>4, <1>8 DEF ClosedTicksInARow, Unique, Row, Ahead
  <2>5. CASE Behind(index[k], sweep)
    <3>1. s.closed = 0 /\ Row(index[k], swept') = {}
      BY <1>2, <1>4, <2>1, <2>2, <2>5, MovedIsTyped, RowGrows
    <3> QED
      BY <2>3, <3>1, FS_EmptySet
  <2>6. CASE ~Behind(index[k], sweep)
    <3>1. s.closed = state[index[k].name].closed + 1
      BY <2>1, <2>2, <2>6, MovedIsTyped
    <3>2. Cardinality(Row(index[k], swept')) = Cardinality(Row(index[k], swept)) + 1
      BY <1>2, <1>4, <2>6, RowGrows
    <3>3. state[index[k].name].closed \in Nat
      BY <2>1 DEF RoadState
    <3>4. s.closed > 0
      BY <3>1, <3>3
    <3>5. levels'[k] > 0
      BY <2>3, <2>6, <3>4, LevelIsTyped DEF Level
    <3> QED
      BY <2>3, <2>4, <3>1, <3>2, <3>5
  <2> QED
    BY <2>5, <2>6
<1>9. ClosedTicksInARow'
  <2>1. \A k \in 1..Len(index) :
          (\A j \in 1..Len(index) : index[j].name = index[k].name => j = k) =>
             /\ state'[index[k].name].closed = Cardinality(Row(index[k], swept'))
             /\ Row(index[k], swept') # {} => levels'[k] > 0
    BY <1>8 DEF Unique
  <2> QED
    BY <1>3, <2>1 DEF ClosedTicksInARow, Row, Ahead
<1>10. RoadNames' = RoadNames /\ SweepSet' = SweepSet
  BY <1>3 DEF RoadNames, SweepSet
<1> QED
  BY <1>3, <1>4, <1>6, <1>7, <1>9, <1>10 DEF Racing

LEMMA RaceStarts ==
  ASSUME PlanInv, RaceInv, StartRace
  PROVE  RaceInv'
<1>1. at = "planned" /\ plan # NoPlan /\ at' = "race"
      /\ index' = DistanceIndex(plan.segments)
      /\ state' = [n \in {s.name : s \in ToSet(index')} |-> [closed |-> 0, peak |-> 0]]
      /\ swept' = swept
  BY DEF StartRace
<1>2. swept' = <<>>
  BY <1>1 DEF RaceInv
<1>3. PICK r \in Routes : \E n \in RunnerCounts : PlanOf(plan, r, n)
  BY <1>1 DEF PlanInv, PlannedInv
<1>4. plan.segments = Segments(r) /\ OnRoads(r)
  BY <1>3 DEF PlanOf
<1>5. r \in Seq(Points) /\ Len(r) >= 2
  BY <1>4, RoadsRunAlongAxes
<1>6. PICK x : x = DistanceIndex(Segments(r))
  OBVIOUS
<1>7. Len(x) \in Nat \ {0} /\ DOMAIN x = 1..Len(x)
  BY <1>5, <1>6, IndexCovers
<1>8. index' = x
  BY <1>1, <1>4, <1>6
<1>9. RoadNames' = {s.name : s \in ToSet(x)}
  <2>1. ToSet(x) = {x[k] : k \in 1..Len(x)}
    BY <1>7 DEF ToSet
  <2> QED
    BY <1>8, <2>1 DEF RoadNames
<1>10. state' = [n \in RoadNames' |-> [closed |-> 0, peak |-> 0]]
  BY <1>1, <1>8, <1>9
<1>11. state' \in [RoadNames' -> RoadState]
  BY <1>10 DEF RoadState
<1>12. ASSUME NEW k \in 1..Len(x)
       PROVE  /\ state'[x[k].name].closed = Cardinality(Row(x[k], swept'))
              /\ Row(x[k], swept') = {}
  <2>1. Row(x[k], swept') = {}
    BY <1>2 DEF Row
  <2>2. x[k].name \in RoadNames'
    BY <1>8 DEF RoadNames
  <2> QED
    BY <1>10, <2>1, <2>2, FS_EmptySet
<1>13. ClosedTicksInARow'
  BY <1>8, <1>12 DEF ClosedTicksInARow, Row, Ahead
<1>14. swept' \in Seq(SweepSet')
  BY <1>2
<1> QED
  BY <1>1, <1>7, <1>8, <1>11, <1>13, <1>14 DEF RaceInv, Racing

LEMMA RaceNext ==
  ASSUME PlanInv, RaceInv, [TrafficNext]_<<vars, trafficVars>>
  PROVE  RaceInv'
<1>1. CASE Next /\ UNCHANGED trafficVars
  BY <1>1, NextIsNoRace DEF RaceInv, trafficVars
<1>2. CASE UNCHANGED <<at, index, state, levels, swept>>
  BY <1>2 DEF RaceInv, Racing, ClosedTicksInARow, RoadNames, SweepSet
<1>3. CASE Assess
  BY <1>2, <1>3 DEF Assess, vars
<1>4. CASE SplitAny
  BY <1>4 DEF SplitAny, RaceInv
<1>5. CASE StartRace
  BY <1>5, RaceStarts
<1>6. CASE Tick
  <2>1. Racing /\ at' = "race"
    BY <1>6 DEF Tick, RaceInv, vars
  <2> QED
    BY <1>6, <2>1, TickKeepsRace DEF RaceInv
<1>7. CASE UNCHANGED <<vars, trafficVars>>
  BY <1>2, <1>7 DEF vars, trafficVars
<1> QED
  BY <1>1, <1>3, <1>4, <1>5, <1>6, <1>7 DEF TrafficNext

\* However long the race and however the sweep moves, the closed ticks of a road
\* that the course follows once are the ticks in a row that its middle has been
\* ahead of the sweep, and it is congested during them.
THEOREM ClosedTicksAlwaysInARow ==
  TrafficSpec => []ClosedTicksInARow
<1>1. TrafficInit => PlanInv /\ RaceInv
  BY PlanInit DEF TrafficInit, Init, RaceInv
<1>2. PlanInv /\ RaceInv /\ [TrafficNext]_<<vars, trafficVars>> => PlanInv' /\ RaceInv'
  BY PlanNext, RaceNext
<1>3. RaceInv => ClosedTicksInARow
  <2>1. CASE at = "race"
    BY <2>1 DEF RaceInv, Racing
  <2>2. CASE at # "race"
    BY <2>2 DEF RaceInv, ClosedTicksInARow
  <2> QED
    BY <2>1, <2>2
<1> QED
  BY <1>1, <1>2, <1>3, PTL DEF TrafficSpec

----------------------------------------------------------------------------
(* Splitting a road, and the closures of a route.                          *)

\* An edge, from the k-th point to the next, of a set of stretches; and a set of
\* stretches between two points.
InAny(S, k) == \E ab \in S : ab[1] <= k /\ k + 1 <= ab[2]
Within(S, a, b) == \A ab \in S : ab \in Int \X Int /\ a <= ab[1] /\ ab[1] <= ab[2] /\ ab[2] <= b

LEMMA EdgeOfPair ==
  ASSUME NEW a \in Int, NEW b \in Int, NEW k \in Int
  PROVE  /\ InAny({<<a, b>>}, k) <=> a <= k /\ k + 1 <= b
         /\ ~InAny({}, k)
BY DEF InAny

LEMMA EdgeOfSome ==
  ASSUME NEW a \in Int, NEW b \in Int, NEW k \in Int, NEW S, S = IF a < b THEN {<<a, b>>} ELSE {}
  PROVE  InAny(S, k) <=> a <= k /\ k + 1 <= b
<1>1. CASE a < b
  BY <1>1, EdgeOfPair
<1>2. CASE ~ (a < b)
  <2>1. S = {}
    BY <1>2
  <2>2. ~InAny(S, k)
    BY <2>1 DEF InAny
  <2> QED
    BY <1>2, <2>2
<1> QED
  BY <1>1, <1>2

LEMMA EdgeOfUnion ==
  ASSUME NEW S, NEW T, NEW k
  PROVE  InAny(S \cup T, k) <=> InAny(S, k) \/ InAny(T, k)
BY DEF InAny

LEMMA LeastAndGreatest ==
  ASSUME NEW J \in SUBSET Int, NEW lo \in Int, NEW hi \in Int, \A j \in J : lo <= j /\ j <= hi, J # {}
  PROVE  /\ Min(J) \in J /\ \A j \in J : Min(J) <= j
         /\ Max(J) \in J /\ \A j \in J : j <= Max(J)
         /\ Min(J) \in Int /\ Max(J) \in Int
<1>1. Min(J) \in J /\ \A j \in J : Min(J) <= j
  BY MinOf
<1>2. Max(J) \in J /\ \A j \in J : j <= Max(J)
  BY MaxOf
<1> QED
  BY <1>1, <1>2

\* Between two closures an edge is affected unless a junction lies on both sides.
LEMMA GapSplits ==
  ASSUME NEW a \in Int, NEW b \in Int, a < b, NEW J \in SUBSET Int, NEW k \in Int
  PROVE  /\ InAny(Gap(a, b, J).affected, k) <=>
              /\ a <= k /\ k + 1 <= b
              /\ J \cap ((a + 1)..k) = {} \/ J \cap ((k + 1)..(b - 1)) = {}
         /\ InAny(Gap(a, b, J).open, k) <=>
              /\ a <= k /\ k + 1 <= b
              /\ ~ (J \cap ((a + 1)..k) = {} \/ J \cap ((k + 1)..(b - 1)) = {})
         /\ Within(Gap(a, b, J).affected, a, b) /\ Within(Gap(a, b, J).open, a, b)
<1>1. PICK K \in SUBSET Int : K = J \cap ((a + 1)..(b - 1))
  OBVIOUS
<1>2. CASE K = {}
  <2>1. Gap(a, b, J) = [affected |-> {<<a, b>>}, open |-> {}]
    BY <1>1, <1>2 DEF Gap, Inner
  <2>2. a <= k /\ k + 1 <= b => J \cap ((a + 1)..k) = {}
    BY <1>1, <1>2
  <2>3. InAny({<<a, b>>}, k) <=> a <= k /\ k + 1 <= b
    BY EdgeOfPair
  <2>4. ~InAny({}, k) /\ Within({}, a, b)
    BY DEF InAny, Within
  <2>5. Within({<<a, b>>}, a, b)
    BY DEF Within
  <2> QED
    BY <2>1, <2>2, <2>3, <2>4, <2>5
<1>3. CASE K # {}
  <2>1. \A j \in K : a <= j /\ j <= b
    BY <1>1
  <2>2. PICK lo \in Int, hi \in Int :
          /\ lo = Min(K) /\ hi = Max(K) /\ lo \in K /\ hi \in K
          /\ \A j \in K : lo <= j /\ j <= hi
    BY <1>3, <2>1, LeastAndGreatest
  <2>3. a < lo /\ lo <= hi /\ hi < b
    BY <1>1, <2>2
  <2>4. Gap(a, b, J) = [affected |-> {<<a, lo>>, <<hi, b>>}, open |-> IF lo < hi THEN {<<lo, hi>>} ELSE {}]
    BY <1>1, <1>3, <2>2 DEF Gap, Inner
  <2>5. PICK A : A = {<<a, lo>>, <<hi, b>>}
    OBVIOUS
  <2>6. PICK O : O = IF lo < hi THEN {<<lo, hi>>} ELSE {}
    OBVIOUS
  <2>7. Gap(a, b, J).affected = A /\ Gap(a, b, J).open = O
    BY <2>4, <2>5, <2>6
  <2>8. InAny(A, k) <=> (a <= k /\ k + 1 <= lo) \/ (hi <= k /\ k + 1 <= b)
    BY <2>5 DEF InAny
  <2>9. InAny(O, k) <=> lo <= k /\ k + 1 <= hi
    BY <2>2, <2>6, EdgeOfSome
  <2>10. Within(A, a, b) /\ Within(O, a, b)
    BY <2>3, <2>5, <2>6 DEF Within
  <2>11. ASSUME a <= k, k + 1 <= b
         PROVE  /\ J \cap ((a + 1)..k) = {} <=> k + 1 <= lo
                /\ J \cap ((k + 1)..(b - 1)) = {} <=> hi <= k
    <3>1. \A j \in Int : (j \in J /\ a < j /\ j < b) <=> j \in K
      BY <1>1
    <3>2. ASSUME lo <= k PROVE lo \in J \cap ((a + 1)..k)
      BY <2>2, <2>3, <3>1, <3>2
    <3>3. ASSUME k + 1 <= lo, NEW j \in J \cap ((a + 1)..k) PROVE FALSE
      <4>1. j \in K
        BY <2>11, <3>1
      <4> QED
        BY <2>2, <3>3, <4>1
    <3>4. ASSUME k + 1 <= hi PROVE hi \in J \cap ((k + 1)..(b - 1))
      BY <2>2, <2>3, <3>1, <3>4
    <3>5. ASSUME hi <= k, NEW j \in J \cap ((k + 1)..(b - 1)) PROVE FALSE
      <4>1. j \in K
        BY <2>11, <3>1
      <4> QED
        BY <2>2, <3>5, <4>1
    <3> QED
      BY <3>2, <3>3, <3>4, <3>5
  <2> QED
    BY <2>3, <2>7, <2>8, <2>9, <2>10, <2>11
<1> QED
  BY <1>2, <1>3

\* Beyond the last closure a road is affected up to the next junction.
LEMMA TailAfterSplits ==
  ASSUME NEW a \in Int, NEW n \in Int, a < n, NEW J \in SUBSET Int, NEW k \in Int
  PROVE  /\ InAny(TailAfter(a, n, J).affected, k) <=>
              a <= k /\ k + 1 <= n /\ J \cap ((a + 1)..k) = {}
         /\ InAny(TailAfter(a, n, J).open, k) <=>
              a <= k /\ k + 1 <= n /\ J \cap ((a + 1)..k) # {}
         /\ Within(TailAfter(a, n, J).affected, a, n) /\ Within(TailAfter(a, n, J).open, a, n)
<1>1. PICK K \in SUBSET Int : K = J \cap ((a + 1)..n)
  OBVIOUS
<1>2. CASE K = {}
  <2>1. TailAfter(a, n, J) = [affected |-> {<<a, n>>}, open |-> {}]
    BY <1>1, <1>2 DEF TailAfter
  <2>2. a <= k /\ k + 1 <= n => J \cap ((a + 1)..k) = {}
    BY <1>1, <1>2
  <2>3. InAny({<<a, n>>}, k) <=> a <= k /\ k + 1 <= n
    BY EdgeOfPair
  <2>4. ~InAny({}, k) /\ Within({}, a, n)
    BY DEF InAny, Within
  <2>5. Within({<<a, n>>}, a, n)
    BY DEF Within
  <2> QED
    BY <2>1, <2>2, <2>3, <2>4, <2>5
<1>3. CASE K # {}
  <2>1. \A j \in K : a <= j /\ j <= n
    BY <1>1
  <2>2. PICK lo \in Int : lo = Min(K) /\ lo \in K /\ \A j \in K : lo <= j
    BY <1>3, <2>1, LeastAndGreatest
  <2>3. a < lo /\ lo <= n
    BY <1>1, <2>2
  <2>4. PICK O : O = IF lo < n THEN {<<lo, n>>} ELSE {}
    OBVIOUS
  <2>5. TailAfter(a, n, J) = [affected |-> {<<a, lo>>}, open |-> O]
    BY <1>1, <1>3, <2>2, <2>4 DEF TailAfter
  <2>6. InAny(O, k) <=> lo <= k /\ k + 1 <= n
    BY <2>2, <2>4, EdgeOfSome
  <2>7. InAny({<<a, lo>>}, k) <=> a <= k /\ k + 1 <= lo
    BY EdgeOfPair
  <2>8. Within({<<a, lo>>}, a, n) /\ Within(O, a, n)
    BY <2>3, <2>4 DEF Within
  <2>9. ASSUME a <= k, k + 1 <= n
        PROVE  J \cap ((a + 1)..k) = {} <=> k + 1 <= lo
    <3>1. \A j \in Int : (j \in J /\ a < j /\ j <= n) <=> j \in K
      BY <1>1
    <3>2. ASSUME lo <= k PROVE lo \in J \cap ((a + 1)..k)
      BY <2>2, <2>3, <3>1, <3>2
    <3>3. ASSUME k + 1 <= lo, NEW j \in J \cap ((a + 1)..k) PROVE FALSE
      <4>1. j \in K
        BY <2>9, <3>1
      <4> QED
        BY <2>2, <3>3, <4>1
    <3> QED
      BY <3>2, <3>3
  <2> QED
    BY <2>3, <2>5, <2>6, <2>7, <2>8, <2>9
<1> QED
  BY <1>2, <1>3

\* Before the first closure it is affected from the last junction on.
LEMMA TailBeforeSplits ==
  ASSUME NEW b \in Int, 1 < b, NEW J \in SUBSET Int, NEW k \in Int
  PROVE  /\ InAny(TailBefore(b, J).affected, k) <=>
              1 <= k /\ k + 1 <= b /\ J \cap ((k + 1)..(b - 1)) = {}
         /\ InAny(TailBefore(b, J).open, k) <=>
              1 <= k /\ k + 1 <= b /\ J \cap ((k + 1)..(b - 1)) # {}
         /\ Within(TailBefore(b, J).affected, 1, b) /\ Within(TailBefore(b, J).open, 1, b)
<1>1. PICK K \in SUBSET Int : K = J \cap (1..(b - 1))
  OBVIOUS
<1>2. CASE K = {}
  <2>1. TailBefore(b, J) = [affected |-> {<<1, b>>}, open |-> {}]
    BY <1>1, <1>2 DEF TailBefore
  <2>2. 1 <= k /\ k + 1 <= b => J \cap ((k + 1)..(b - 1)) = {}
    BY <1>1, <1>2
  <2>3. InAny({<<1, b>>}, k) <=> 1 <= k /\ k + 1 <= b
    BY EdgeOfPair
  <2>4. ~InAny({}, k) /\ Within({}, 1, b)
    BY DEF InAny, Within
  <2>5. Within({<<1, b>>}, 1, b)
    BY DEF Within
  <2> QED
    BY <2>1, <2>2, <2>3, <2>4, <2>5
<1>3. CASE K # {}
  <2>1. \A j \in K : 1 <= j /\ j <= b
    BY <1>1
  <2>2. PICK hi \in Int : hi = Max(K) /\ hi \in K /\ \A j \in K : j <= hi
    <3>1. Max(K) \in K /\ \A j \in K : j <= Max(K)
      BY <1>3, <2>1, MaxOf
    <3> QED
      BY <3>1
  <2>3. 1 <= hi /\ hi < b
    BY <1>1, <2>2
  <2>4. PICK O : O = IF hi > 1 THEN {<<1, hi>>} ELSE {}
    OBVIOUS
  <2>5. TailBefore(b, J) = [affected |-> {<<hi, b>>}, open |-> O]
    BY <1>1, <1>3, <2>2, <2>4 DEF TailBefore
  <2>6. InAny(O, k) <=> 1 <= k /\ k + 1 <= hi
    <3>1. O = IF 1 < hi THEN {<<1, hi>>} ELSE {}
      BY <2>4
    <3> QED
      BY <2>2, <3>1, EdgeOfSome
  <2>7. InAny({<<hi, b>>}, k) <=> hi <= k /\ k + 1 <= b
    BY EdgeOfPair
  <2>8. Within({<<hi, b>>}, 1, b) /\ Within(O, 1, b)
    BY <2>3, <2>4 DEF Within
  <2>9. ASSUME 1 <= k, k + 1 <= b
        PROVE  J \cap ((k + 1)..(b - 1)) = {} <=> hi <= k
    <3>1. \A j \in Int : (j \in J /\ 1 <= j /\ j < b) <=> j \in K
      BY <1>1
    <3>2. ASSUME k + 1 <= hi PROVE hi \in J \cap ((k + 1)..(b - 1))
      BY <2>2, <2>3, <3>1, <3>2
    <3>3. ASSUME hi <= k, NEW j \in J \cap ((k + 1)..(b - 1)) PROVE FALSE
      <4>1. j \in K
        BY <2>9, <3>1
      <4> QED
        BY <2>2, <3>3, <4>1
    <3> QED
      BY <3>2, <3>3
  <2> QED
    BY <2>3, <2>5, <2>6, <2>7, <2>8, <2>9
<1> QED
  BY <1>2, <1>3

\* Points next to each other that are both on the route.
OnEdges(n, on) == {k \in 1..(n - 1) : {k, k + 1} \subseteq on}

\* A run is of points on the route, and no longer one is.
LEMMA RunIs ==
  ASSUME NEW n \in Nat, NEW on \in SUBSET (1..n), NEW s \in Runs(n, on)
  PROVE  /\ s[1] \in 1..n /\ s[2] \in 1..n /\ s[1] < s[2] /\ s = <<s[1], s[2]>>
         /\ \A j \in s[1]..s[2] : j \in on
         /\ s[1] - 1 \notin on /\ s[2] + 1 \notin on
<1>1. s \in (1..n) \X (1..n) /\ s[1] < s[2] /\ s[1]..s[2] \subseteq on
      /\ s[1] - 1 \notin on /\ s[2] + 1 \notin on
  BY DEF Runs
<1> QED
  BY <1>1

\* Every such edge lies in a run, and a run has no others.
LEMMA EdgesInRuns ==
  ASSUME NEW n \in Nat, NEW on \in SUBSET (1..n), NEW k \in Int
  PROVE  InAny(Runs(n, on), k) <=> k \in OnEdges(n, on)
<1>1. ASSUME InAny(Runs(n, on), k) PROVE k \in OnEdges(n, on)
  <2>1. PICK s \in Runs(n, on) : s[1] <= k /\ k + 1 <= s[2]
    BY <1>1 DEF InAny
  <2>2. PICK a \in 1..n, b \in 1..n : a = s[1] /\ b = s[2] /\ \A j \in a..b : j \in on
    BY RunIs
  <2>3. k \in a..b /\ k + 1 \in a..b /\ k \in 1..(n - 1)
    BY <2>1, <2>2
  <2> QED
    BY <2>2, <2>3 DEF OnEdges
<1>2. ASSUME k \in OnEdges(n, on) PROVE InAny(Runs(n, on), k)
  <2>1. k \in 1..(n - 1) /\ k \in on /\ k + 1 \in on
    BY <1>2 DEF OnEdges
  <2> DEFINE B == {j \in 0..k : j \notin on}
  <2>2. 0 \in B
    BY <2>1
  <2>3. PICK lo \in B : \A j \in B : j <= lo
    <3>1. B \in SUBSET Int /\ B # {} /\ \A j \in B : j <= k
      BY <2>2
    <3> HIDE DEF B
    <3> QED
      BY <3>1, MaxOf
  <2> DEFINE A == {j \in (k + 1)..(n + 1) : j \notin on}
  <2>4. n + 1 \in A
    BY <2>1
  <2>5. PICK hi \in A : \A j \in A : hi <= j
    <3>1. A \in SUBSET Int /\ A # {} /\ \A j \in A : k <= j
      BY <2>1, <2>4
    <3> HIDE DEF A
    <3> QED
      BY <3>1, MinOf
  <2>6. lo \in 0..k /\ lo \notin on /\ hi \in (k + 1)..(n + 1) /\ hi \notin on
    BY <2>3, <2>5
  <2>7. lo < k /\ k + 1 < hi
    BY <2>1, <2>6
  <2>8. ASSUME NEW j \in (lo + 1)..(hi - 1) PROVE j \in on
    <3>1. CASE j <= k
      <4>1. j \in 0..k /\ ~ (j <= lo)
        BY <2>6, <2>7, <3>1
      <4> QED
        BY <2>3, <4>1
    <3>2. CASE ~ (j <= k)
      <4>1. j \in (k + 1)..(n + 1) /\ ~ (hi <= j)
        BY <2>1, <2>6, <2>7, <3>2
      <4> QED
        BY <2>5, <4>1
    <3> QED
      BY <3>1, <3>2
  <2>9. PICK a \in 1..n, b \in 1..n : a = lo + 1 /\ b = hi - 1
    BY <2>1, <2>6, <2>7
  <2>10. a < b /\ a..b \subseteq on /\ a - 1 \notin on /\ b + 1 \notin on /\ a <= k /\ k + 1 <= b
    <3>1. a - 1 = lo /\ b + 1 = hi /\ a < b /\ a <= k /\ k + 1 <= b
      BY <2>1, <2>6, <2>7, <2>9
    <3> QED
      BY <2>6, <2>8, <2>9, <3>1
  <2>11. PICK s : s = <<a, b>>
    OBVIOUS
  <2>12. s \in (1..n) \X (1..n) /\ s[1] = a /\ s[2] = b
    BY <2>9, <2>11
  <2>13. s \in Runs(n, on)
    BY <2>10, <2>12 DEF Runs
  <2> QED
    BY <2>10, <2>12, <2>13 DEF InAny
<1> QED
  BY <1>1, <1>2

\* Two runs do not meet.
LEMMA RunsAreApart ==
  ASSUME NEW n \in Nat, NEW on \in SUBSET (1..n), NEW s \in Runs(n, on), NEW t \in Runs(n, on)
  PROVE  \/ s = t
         \/ s[2] + 1 < t[1]
         \/ t[2] + 1 < s[1]
<1>1. ASSUME NEW x \in Runs(n, on), NEW y \in Runs(n, on), x[1] < y[1]
      PROVE  x[2] + 1 < y[1]
  <2>1. PICK a \in 1..n, b \in 1..n :
          a = x[1] /\ b = x[2] /\ a < b /\ b + 1 \notin on /\ \A j \in a..b : j \in on
    BY RunIs
  <2>2. PICK c \in 1..n, d \in 1..n :
          c = y[1] /\ d = y[2] /\ c < d /\ c - 1 \notin on /\ \A j \in c..d : j \in on
    BY RunIs
  <2>3. a < c /\ c \in c..d
    BY <1>1, <2>1, <2>2
  <2>4. c - 1 \notin a..b
    BY <2>1, <2>2
  <2>5. c # b + 1
    BY <2>1, <2>2, <2>3
  <2> QED
    BY <2>1, <2>2, <2>3, <2>4, <2>5
<1>2. ASSUME s[1] = t[1] PROVE s = t
  <2>1. PICK a \in 1..n, b \in 1..n :
          /\ a = s[1] /\ b = s[2] /\ a < b /\ b + 1 \notin on /\ s = <<a, b>>
          /\ \A j \in a..b : j \in on
    BY RunIs
  <2>2. PICK d \in 1..n :
          /\ a = t[1] /\ d = t[2] /\ a < d /\ d + 1 \notin on /\ t = <<a, d>>
          /\ \A j \in a..d : j \in on
    BY <1>2, <2>1, RunIs
  <2>3. b + 1 \notin a..d /\ d + 1 \notin a..b
    BY <2>1, <2>2
  <2>4. b = d
    BY <2>1, <2>2, <2>3
  <2> QED
    BY <2>1, <2>2, <2>4
<1>3. s[1] \in Int /\ t[1] \in Int
  BY RunIs
<1> QED
  BY <1>1, <1>2, <1>3

FirstOf(R) == Min({r[1] : r \in R})
LastOf(R) == Max({r[2] : r \in R})
Follows(R, x, y) == x[2] < y[1] /\ \A t \in R : t[1] <= x[1] \/ t[1] >= y[1]

LEMMA FirstAndLast ==
  ASSUME NEW n \in Nat, NEW on \in SUBSET (1..n), NEW R, R = Runs(n, on), R # {}
  PROVE  /\ FirstOf(R) \in 1..n /\ LastOf(R) \in 1..n
         /\ \E s \in R : s[1] = FirstOf(R)
         /\ \E s \in R : s[2] = LastOf(R)
         /\ \A s \in R : FirstOf(R) <= s[1] /\ s[2] <= LastOf(R)
<1>1. \A s \in R : s[1] \in 1..n /\ s[2] \in 1..n
  BY RunIs
<1>2. PICK F : F = {r[1] : r \in R}
  OBVIOUS
<1>3. PICK L : L = {r[2] : r \in R}
  OBVIOUS
<1>4. Min(F) \in F /\ \A x \in F : Min(F) <= x
  <2>1. F \in SUBSET Int /\ F # {} /\ \A x \in F : 1 <= x
    BY <1>1, <1>2
  <2> QED
    BY <2>1, MinOf
<1>5. Max(L) \in L /\ \A x \in L : x <= Max(L)
  <2>1. L \in SUBSET Int /\ L # {} /\ \A x \in L : x <= n
    BY <1>1, <1>3
  <2> QED
    BY <2>1, MaxOf
<1>6. FirstOf(R) = Min(F) /\ LastOf(R) = Max(L)
  BY <1>2, <1>3 DEF FirstOf, LastOf
<1> QED
  BY <1>1, <1>2, <1>3, <1>4, <1>5, <1>6

\* What is left of a road besides the closures.
IsLeft(g, R, n, J) ==
  \/ \E x, y \in R : Follows(R, x, y) /\ g = Gap(x[2], y[1], J)
  \/ FirstOf(R) > 1 /\ g = TailBefore(FirstOf(R), J)
  \/ LastOf(R) < n /\ g = TailAfter(LastOf(R), n, J)

LEMMA SplitLeaves ==
  ASSUME NEW n, NEW on, NEW J, NEW R, R = Runs(n, on), R # {}
  PROVE  \E G : /\ \A g : g \in G <=> IsLeft(g, R, n, J)
                /\ SplitRoad(n, on, J) = [closed |-> R, affected |-> UNION {g.affected : g \in G},
                                          open |-> UNION {g.open : g \in G}]
<1> DEFINE gaps == {Gap(x[1][2], x[2][1], J) :
                      x \in {y \in R \X R : /\ y[1][2] < y[2][1]
                                            /\ \A t \in R : t[1] <= y[1][1] \/ t[1] >= y[2][1]}}
<1> DEFINE G == gaps \cup (IF FirstOf(R) > 1 THEN {TailBefore(FirstOf(R), J)} ELSE {})
                     \cup (IF LastOf(R) < n THEN {TailAfter(LastOf(R), n, J)} ELSE {})
<1>1. SplitRoad(n, on, J) = [closed |-> R, affected |-> UNION {g.affected : g \in G},
                             open |-> UNION {g.open : g \in G}]
  BY DEF SplitRoad, FirstOf, LastOf
<1>2. ASSUME NEW g PROVE g \in gaps <=> \E x, y \in R : Follows(R, x, y) /\ g = Gap(x[2], y[1], J)
  <2>1. ASSUME NEW x \in R, NEW y \in R, Follows(R, x, y), g = Gap(x[2], y[1], J)
        PROVE  g \in gaps
    <3>1. <<x, y>> \in R \X R /\ <<x, y>>[1] = x /\ <<x, y>>[2] = y
      OBVIOUS
    <3>2. <<x, y>> \in {z \in R \X R : /\ z[1][2] < z[2][1]
                                       /\ \A t \in R : t[1] <= z[1][1] \/ t[1] >= z[2][1]}
      BY <2>1, <3>1 DEF Follows
    <3> QED
      BY <2>1, <3>1, <3>2
  <2>2. ASSUME g \in gaps PROVE \E x, y \in R : Follows(R, x, y) /\ g = Gap(x[2], y[1], J)
    <3>1. PICK z \in R \X R : /\ z[1][2] < z[2][1]
                              /\ \A t \in R : t[1] <= z[1][1] \/ t[1] >= z[2][1]
                              /\ g = Gap(z[1][2], z[2][1], J)
      BY <2>2
    <3>2. z[1] \in R /\ z[2] \in R
      BY <3>1
    <3> QED
      BY <3>1, <3>2 DEF Follows
  <2> QED
    BY <2>1, <2>2
<1> HIDE DEF gaps
<1>3. \A g : g \in G <=> IsLeft(g, R, n, J)
  BY <1>2 DEF IsLeft
<1> HIDE DEF G
<1> QED
  BY <1>1, <1>3

\* Which edges of a road are affected and which are open, by the closures around
\* them.
LeftEdge(R, J, k) ==
  \/ \E x, y \in R : /\ Follows(R, x, y) /\ x[2] <= k /\ k + 1 <= y[1]
                     /\ J \cap ((x[2] + 1)..k) = {} \/ J \cap ((k + 1)..(y[1] - 1)) = {}
  \/ k + 1 <= FirstOf(R) /\ J \cap ((k + 1)..(FirstOf(R) - 1)) = {}
  \/ LastOf(R) <= k /\ J \cap ((LastOf(R) + 1)..k) = {}
OpenEdge(R, J, k) ==
  \/ \E x, y \in R : /\ Follows(R, x, y) /\ x[2] <= k /\ k + 1 <= y[1]
                     /\ ~ (J \cap ((x[2] + 1)..k) = {} \/ J \cap ((k + 1)..(y[1] - 1)) = {})
  \/ k + 1 <= FirstOf(R) /\ J \cap ((k + 1)..(FirstOf(R) - 1)) # {}
  \/ LastOf(R) <= k /\ J \cap ((LastOf(R) + 1)..k) # {}

\* The stretches of a split road, edge by edge.
LEMMA StretchesOf ==
  ASSUME NEW n \in Nat, NEW on \in SUBSET (1..n), NEW J \in SUBSET Int, NEW R, R = Runs(n, on), R # {}
  PROVE  /\ SplitRoad(n, on, J).closed = R
         /\ Within(SplitRoad(n, on, J).affected, 1, n) /\ Within(SplitRoad(n, on, J).open, 1, n)
         /\ \A k \in 1..(n - 1) :
              /\ InAny(SplitRoad(n, on, J).affected, k) <=> LeftEdge(R, J, k)
              /\ InAny(SplitRoad(n, on, J).open, k) <=> OpenEdge(R, J, k)
<1>1. PICK G : /\ \A g : g \in G <=> IsLeft(g, R, n, J)
               /\ SplitRoad(n, on, J) = [closed |-> R, affected |-> UNION {g.affected : g \in G},
                                         open |-> UNION {g.open : g \in G}]
  BY SplitLeaves
<1>2. PICK first \in 1..n, last \in 1..n : first = FirstOf(R) /\ last = LastOf(R)
  BY FirstAndLast
<1>3. ASSUME NEW x \in R, NEW y \in R, Follows(R, x, y)
      PROVE  x[2] \in 1..n /\ y[1] \in 1..n /\ x[2] < y[1]
  BY <1>3, RunIs DEF Follows
<1>4. ASSUME NEW g \in G
      PROVE  Within(g.affected, 1, n) /\ Within(g.open, 1, n)
  <2>1. ASSUME NEW S, NEW a \in 1..n, NEW b \in 1..n, Within(S, a, b) PROVE Within(S, 1, n)
    BY <2>1 DEF Within
  <2>2. ASSUME NEW x \in R, NEW y \in R, Follows(R, x, y), g = Gap(x[2], y[1], J)
        PROVE  Within(g.affected, 1, n) /\ Within(g.open, 1, n)
    <3>1. PICK a \in 1..n, b \in 1..n : a = x[2] /\ b = y[1] /\ a < b
      BY <1>3, <2>2
    <3>2. Within(Gap(a, b, J).affected, a, b) /\ Within(Gap(a, b, J).open, a, b)
      <4>1. a \in Int /\ b \in Int /\ 1 \in Int
        OBVIOUS
      <4> QED
        BY <3>1, <4>1, GapSplits
    <3> QED
      BY <2>1, <2>2, <3>1, <3>2
  <2>3. ASSUME first > 1, g = TailBefore(first, J)
        PROVE  Within(g.affected, 1, n) /\ Within(g.open, 1, n)
    <3>1. first \in Int /\ 1 \in Int /\ 1 \in 1..n /\ 1 < first
      BY <2>3
    <3>2. Within(TailBefore(first, J).affected, 1, first) /\ Within(TailBefore(first, J).open, 1, first)
      BY <3>1, TailBeforeSplits
    <3> QED
      BY <2>1, <2>3, <3>1, <3>2
  <2>4. ASSUME last < n, g = TailAfter(last, n, J)
        PROVE  Within(g.affected, 1, n) /\ Within(g.open, 1, n)
    <3>1. last \in Int /\ n \in Int /\ 1 \in Int /\ n \in 1..n
      BY <2>4
    <3>2. Within(TailAfter(last, n, J).affected, last, n) /\ Within(TailAfter(last, n, J).open, last, n)
      BY <2>4, <3>1, TailAfterSplits
    <3> QED
      BY <2>1, <2>4, <3>1, <3>2
  <2>5. IsLeft(g, R, n, J)
    BY <1>1
  <2> QED
    BY <1>2, <2>2, <2>3, <2>4, <2>5 DEF IsLeft
<1>5. ASSUME NEW k \in 1..(n - 1)
      PROVE  /\ (\E g \in G : InAny(g.affected, k)) <=> LeftEdge(R, J, k)
             /\ (\E g \in G : InAny(g.open, k)) <=> OpenEdge(R, J, k)
  <2>1. ASSUME NEW x \in R, NEW y \in R, Follows(R, x, y)
        PROVE  /\ InAny(Gap(x[2], y[1], J).affected, k) <=>
                    /\ x[2] <= k /\ k + 1 <= y[1]
                    /\ J \cap ((x[2] + 1)..k) = {} \/ J \cap ((k + 1)..(y[1] - 1)) = {}
               /\ InAny(Gap(x[2], y[1], J).open, k) <=>
                    /\ x[2] <= k /\ k + 1 <= y[1]
                    /\ ~ (J \cap ((x[2] + 1)..k) = {} \/ J \cap ((k + 1)..(y[1] - 1)) = {})
    <3>1. PICK a \in Int, b \in Int : a = x[2] /\ b = y[1] /\ a < b
      BY <1>3, <2>1
    <3>2. k \in Int
      OBVIOUS
    <3>3. /\ InAny(Gap(a, b, J).affected, k) <=>
               /\ a <= k /\ k + 1 <= b
               /\ J \cap ((a + 1)..k) = {} \/ J \cap ((k + 1)..(b - 1)) = {}
          /\ InAny(Gap(a, b, J).open, k) <=>
               /\ a <= k /\ k + 1 <= b
               /\ ~ (J \cap ((a + 1)..k) = {} \/ J \cap ((k + 1)..(b - 1)) = {})
      BY <3>1, <3>2, GapSplits
    <3> QED
      BY <3>1, <3>3
  <2>2. /\ first > 1 /\ InAny(TailBefore(first, J).affected, k) <=>
             k + 1 <= first /\ J \cap ((k + 1)..(first - 1)) = {}
        /\ first > 1 /\ InAny(TailBefore(first, J).open, k) <=>
             k + 1 <= first /\ J \cap ((k + 1)..(first - 1)) # {}
    <3>1. CASE first > 1
      <4>1. 1 < first /\ first \in Int /\ k \in Int /\ 1 <= k
        BY <3>1
      <4> QED
        BY <3>1, <4>1, TailBeforeSplits
    <3>2. CASE ~ (first > 1)
      <4>1. ~ (k + 1 <= first)
        BY <3>2
      <4> QED
        BY <3>2, <4>1
    <3> QED
      BY <3>1, <3>2
  <2>3. /\ last < n /\ InAny(TailAfter(last, n, J).affected, k) <=>
             last <= k /\ J \cap ((last + 1)..k) = {}
        /\ last < n /\ InAny(TailAfter(last, n, J).open, k) <=>
             last <= k /\ J \cap ((last + 1)..k) # {}
    <3>1. CASE last < n
      <4>1. last \in Int /\ n \in Int /\ k \in Int /\ k + 1 <= n
        OBVIOUS
      <4> QED
        BY <3>1, <4>1, TailAfterSplits
    <3>2. CASE ~ (last < n)
      <4>1. ~ (last <= k)
        BY <3>2
      <4> QED
        BY <3>2, <4>1
    <3> QED
      BY <3>1, <3>2
  <2>4. (\E g \in G : InAny(g.affected, k)) <=> LeftEdge(R, J, k)
    <3>1. (\E g \in G : InAny(g.affected, k)) <=>
            \/ \E x, y \in R : Follows(R, x, y) /\ InAny(Gap(x[2], y[1], J).affected, k)
            \/ first > 1 /\ InAny(TailBefore(first, J).affected, k)
            \/ last < n /\ InAny(TailAfter(last, n, J).affected, k)
      BY <1>1, <1>2 DEF IsLeft
    <3> QED
      BY <1>2, <2>1, <2>2, <2>3, <3>1 DEF LeftEdge
  <2>5. (\E g \in G : InAny(g.open, k)) <=> OpenEdge(R, J, k)
    <3>1. (\E g \in G : InAny(g.open, k)) <=>
            \/ \E x, y \in R : Follows(R, x, y) /\ InAny(Gap(x[2], y[1], J).open, k)
            \/ first > 1 /\ InAny(TailBefore(first, J).open, k)
            \/ last < n /\ InAny(TailAfter(last, n, J).open, k)
      BY <1>1, <1>2 DEF IsLeft
    <3> QED
      BY <1>2, <2>1, <2>2, <2>3, <3>1 DEF OpenEdge
  <2> QED
    BY <2>4, <2>5
<1>6. ASSUME NEW k
      PROVE  /\ InAny(UNION {g.affected : g \in G}, k) <=> \E g \in G : InAny(g.affected, k)
             /\ InAny(UNION {g.open : g \in G}, k) <=> \E g \in G : InAny(g.open, k)
  BY DEF InAny
<1>7. Within(UNION {g.affected : g \in G}, 1, n) /\ Within(UNION {g.open : g \in G}, 1, n)
  BY <1>4 DEF Within
<1>8. /\ SplitRoad(n, on, J).closed = R
      /\ SplitRoad(n, on, J).affected = UNION {g.affected : g \in G}
      /\ SplitRoad(n, on, J).open = UNION {g.open : g \in G}
  BY <1>1
<1> QED
  BY <1>5, <1>6, <1>7, <1>8

\* The closure next to an edge on either side, with no junction between.
CutBelow(E, J, k) ==
  \E c \in E : c < k /\ (\A j \in c..k : j \in E => j = c) /\ J \cap ((c + 2)..k) = {}
CutAbove(E, J, k) ==
  \E c \in E : c > k /\ (\A j \in k..c : j \in E => j = c) /\ J \cap ((k + 1)..(c - 1)) = {}

LEMMA RunsAroundEdge ==
  ASSUME NEW n \in Nat, NEW on \in SUBSET (1..n), NEW E, E = OnEdges(n, on), NEW R, R = Runs(n, on),
         NEW k \in 1..(n - 1), k \notin E, NEW s \in R
  PROVE  /\ s[1] \in Int /\ s[2] \in Int /\ s[1] < s[2]
         /\ s[2] <= k \/ k + 1 <= s[1]
<1>1. PICK a \in 1..n, b \in 1..n : a = s[1] /\ b = s[2] /\ a < b
  BY RunIs
<1>2. ~ (a <= k /\ k + 1 <= b)
  BY <1>1, EdgesInRuns DEF InAny
<1> QED
  BY <1>1, <1>2

\* An edge is cut from below if no junction lies between it and the run before it.
LEMMA CutBelowIs ==
  ASSUME NEW n \in Nat, NEW on \in SUBSET (1..n), NEW E, E = OnEdges(n, on), NEW R, R = Runs(n, on),
         NEW J \in SUBSET Int, NEW k \in 1..(n - 1), k \notin E
  PROVE  /\ (\A s \in R : k + 1 <= s[1]) => ~CutBelow(E, J, k)
         /\ \A p \in R : /\ p[2] <= k
                         /\ \A s \in R : s[2] <= p[2] \/ k + 1 <= s[1]
                         => (CutBelow(E, J, k) <=> J \cap ((p[2] + 1)..k) = {})
<1>1. ASSUME NEW c \in E
      PROVE  c \in Int /\ \E s \in R : s[1] <= c /\ c + 1 <= s[2]
  <2>1. c \in Int
    BY <1>1 DEF OnEdges
  <2> QED
    BY <1>1, <2>1, EdgesInRuns DEF InAny
<1>2. ASSUME \A s \in R : k + 1 <= s[1], NEW c \in E, c < k PROVE FALSE
  <2>1. PICK s \in R : s[1] <= c /\ c + 1 <= s[2]
    BY <1>1
  <2>2. s[1] \in Int /\ k + 1 <= s[1] /\ c \in Int
    BY <1>1, <1>2, RunIs
  <2> QED
    BY <1>2, <2>1, <2>2
<1>3. ASSUME NEW p \in R, p[2] <= k, \A s \in R : s[2] <= p[2] \/ k + 1 <= s[1]
      PROVE  CutBelow(E, J, k) <=> J \cap ((p[2] + 1)..k) = {}
  <2>1. PICK b \in Int : b = p[2] - 1 /\ p[1] <= b /\ b + 1 = p[2] /\ b + 2 = p[2] + 1 /\ b < k
    BY <1>3, RunIs
  <2>2. b \in E
    <3>1. b + 1 <= p[2]
      BY <2>1
    <3> QED
      BY <2>1, <3>1, EdgesInRuns DEF InAny
  <2>3. ASSUME NEW c \in E, c <= k PROVE c \in Int /\ c <= b
    <3>1. PICK s \in R : s[1] <= c /\ c + 1 <= s[2]
      BY <1>1
    <3>2. s[1] \in Int /\ s[2] \in Int /\ c \in Int
      BY <1>1, RunIs
    <3>3. s[2] <= p[2]
      BY <1>3, <2>3, <3>1, <3>2
    <3>4. p[2] \in Int
      BY RunIs
    <3> QED
      BY <2>1, <3>1, <3>2, <3>3, <3>4
  <2>4. \A j \in b..k : j \in E => j = b
    BY <2>1, <2>3
  <2>5. ASSUME NEW c \in E, c < k, \A j \in c..k : j \in E => j = c
        PROVE  c = b
    <3>1. c <= k /\ c \in Int
      BY <1>1, <2>5
    <3>2. b \in c..k
      BY <2>1, <2>3, <3>1
    <3> QED
      BY <2>2, <2>5, <3>2
  <2>6. CutBelow(E, J, k) <=> J \cap ((b + 2)..k) = {}
    BY <2>1, <2>2, <2>4, <2>5 DEF CutBelow
  <2> QED
    BY <2>1, <2>6
<1> QED
  BY <1>2, <1>3 DEF CutBelow

\* And from above, if none lies between it and the run after it.
LEMMA CutAboveIs ==
  ASSUME NEW n \in Nat, NEW on \in SUBSET (1..n), NEW E, E = OnEdges(n, on), NEW R, R = Runs(n, on),
         NEW J \in SUBSET Int, NEW k \in 1..(n - 1), k \notin E
  PROVE  /\ (\A s \in R : s[2] <= k) => ~CutAbove(E, J, k)
         /\ \A q \in R : /\ k + 1 <= q[1]
                         /\ \A s \in R : q[1] <= s[1] \/ s[2] <= k
                         => (CutAbove(E, J, k) <=> J \cap ((k + 1)..(q[1] - 1)) = {})
<1>1. ASSUME NEW c \in E
      PROVE  c \in Int /\ \E s \in R : s[1] <= c /\ c + 1 <= s[2]
  <2>1. c \in Int
    BY <1>1 DEF OnEdges
  <2> QED
    BY <1>1, <2>1, EdgesInRuns DEF InAny
<1>2. ASSUME \A s \in R : s[2] <= k, NEW c \in E, c > k PROVE FALSE
  <2>1. PICK s \in R : s[1] <= c /\ c + 1 <= s[2]
    BY <1>1
  <2>2. s[2] \in Int /\ s[2] <= k /\ c \in Int
    BY <1>1, <1>2, RunIs
  <2> QED
    BY <1>2, <2>1, <2>2
<1>3. ASSUME NEW q \in R, k + 1 <= q[1], \A s \in R : q[1] <= s[1] \/ s[2] <= k
      PROVE  CutAbove(E, J, k) <=> J \cap ((k + 1)..(q[1] - 1)) = {}
  <2>1. PICK a \in Int : a = q[1] /\ a + 1 <= q[2] /\ k < a
    BY <1>3, RunIs
  <2>2. a \in E
    BY <2>1, EdgesInRuns DEF InAny
  <2>3. ASSUME NEW c \in E, k <= c PROVE c \in Int /\ a <= c
    <3>1. PICK s \in R : s[1] <= c /\ c + 1 <= s[2]
      BY <1>1
    <3>2. s[1] \in Int /\ s[2] \in Int /\ c \in Int
      BY <1>1, RunIs
    <3>3. q[1] <= s[1]
      BY <1>3, <2>3, <3>1, <3>2
    <3> QED
      BY <2>1, <3>1, <3>2, <3>3
  <2>4. \A j \in k..a : j \in E => j = a
    BY <2>1, <2>3
  <2>5. ASSUME NEW c \in E, c > k, \A j \in k..c : j \in E => j = c
        PROVE  c = a
    <3>1. k <= c /\ c \in Int
      BY <1>1, <2>5
    <3>2. a \in k..c
      BY <2>1, <2>3, <3>1
    <3> QED
      BY <2>2, <2>5, <3>2
  <2>6. a > k
    BY <2>1
  <2>7. CutAbove(E, J, k) <=> J \cap ((k + 1)..(a - 1)) = {}
    BY <2>2, <2>4, <2>5, <2>6 DEF CutAbove
  <2> QED
    BY <2>1, <2>7
<1> QED
  BY <1>2, <1>3 DEF CutAbove

\* No edge of a closure is left over.
LEMMA ClosedIsNotLeft ==
  ASSUME NEW n \in Nat, NEW on \in SUBSET (1..n), NEW R, R = Runs(n, on), R # {},
         NEW J, NEW k \in OnEdges(n, on)
  PROVE  ~LeftEdge(R, J, k) /\ ~OpenEdge(R, J, k)
<1>1. k \in Int /\ InAny(R, k)
  BY EdgesInRuns DEF OnEdges
<1>2. PICK s \in R : s[1] <= k /\ k + 1 <= s[2]
  BY <1>1 DEF InAny
<1>3. s[1] \in Int /\ s[2] \in Int
  BY RunIs
<1>4. ASSUME NEW x \in R, NEW y \in R, Follows(R, x, y), x[2] <= k, k + 1 <= y[1] PROVE FALSE
  <2>1. x[1] \in Int /\ x[2] \in Int /\ y[1] \in Int /\ y[2] \in Int /\ x[1] < x[2] /\ y[1] < y[2]
    BY RunIs
  <2>2. x[2] + 1 < s[1]
    <3>1. s = x \/ s[2] + 1 < x[1] \/ x[2] + 1 < s[1]
      BY RunsAreApart
    <3> QED
      BY <1>1, <1>2, <1>3, <1>4, <2>1, <3>1
  <2>3. s[2] + 1 < y[1]
    <3>1. s = y \/ s[2] + 1 < y[1] \/ y[2] + 1 < s[1]
      BY RunsAreApart
    <3> QED
      BY <1>1, <1>2, <1>3, <1>4, <2>1, <3>1
  <2>4. s[1] <= x[1] \/ s[1] >= y[1]
    BY <1>4 DEF Follows
  <2> QED
    BY <1>1, <1>2, <1>3, <2>1, <2>2, <2>3, <2>4
<1>5. FirstOf(R) \in Int /\ LastOf(R) \in Int /\ FirstOf(R) <= s[1] /\ s[2] <= LastOf(R)
  BY FirstAndLast
<1>6. ~ (k + 1 <= FirstOf(R)) /\ ~ (LastOf(R) <= k)
  BY <1>1, <1>2, <1>3, <1>5
<1> QED
  BY <1>4, <1>6 DEF LeftEdge, OpenEdge

\* The closures next to an edge that lies between two of them.
LEMMA NextRuns ==
  ASSUME NEW n \in Nat, NEW on \in SUBSET (1..n), NEW R, R = Runs(n, on),
         NEW k \in 1..(n - 1), k \notin OnEdges(n, on),
         \E s \in R : s[2] <= k, \E s \in R : k + 1 <= s[1]
  PROVE  \E p, q \in R :
           /\ Follows(R, p, q) /\ p[2] <= k /\ k + 1 <= q[1]
           /\ \A s \in R : s[2] <= p[2] \/ k + 1 <= s[1]
           /\ \A s \in R : q[1] <= s[1] \/ s[2] <= k
           /\ \A x, y \in R : Follows(R, x, y) /\ x[2] <= k /\ k + 1 <= y[1] => x = p /\ y = q
<1>1. \A s \in R : /\ s[1] \in Int /\ s[2] \in Int /\ s[1] < s[2] /\ 1 <= s[1] /\ s[2] <= n
                   /\ s[2] <= k \/ k + 1 <= s[1]
  BY RunIs, RunsAroundEdge
<1>2. \A s, t \in R : s = t \/ s[2] + 1 < t[1] \/ t[2] + 1 < s[1]
  BY RunsAreApart
<1>3. PICK p \in R : p[2] <= k /\ \A s \in R : s[2] <= p[2] \/ k + 1 <= s[1]
  <2>1. PICK B : B = {s[2] : s \in {t \in R : t[2] <= k}}
    OBVIOUS
  <2>2. B \in SUBSET Int /\ B # {} /\ \A x \in B : x <= n
    BY <1>1, <2>1
  <2>3. Max(B) \in B /\ \A x \in B : x <= Max(B)
    BY <2>2, MaxOf
  <2>4. PICK p \in R : p[2] <= k /\ p[2] = Max(B)
    BY <2>1, <2>3
  <2>5. ASSUME NEW s \in R, s[2] <= k PROVE s[2] <= p[2]
    <3>1. s[2] \in B
      BY <2>1, <2>5
    <3> QED
      BY <2>3, <2>4, <3>1
  <2> QED
    BY <1>1, <2>4, <2>5
<1>4. PICK q \in R : k + 1 <= q[1] /\ \A s \in R : q[1] <= s[1] \/ s[2] <= k
  <2>1. PICK A : A = {s[1] : s \in {t \in R : k + 1 <= t[1]}}
    OBVIOUS
  <2>2. A \in SUBSET Int /\ A # {} /\ \A x \in A : 1 <= x
    BY <1>1, <2>1
  <2>3. Min(A) \in A /\ \A x \in A : Min(A) <= x
    BY <2>2, MinOf
  <2>4. PICK q \in R : k + 1 <= q[1] /\ q[1] = Min(A)
    BY <2>1, <2>3
  <2>5. ASSUME NEW s \in R, k + 1 <= s[1] PROVE q[1] <= s[1]
    <3>1. s[1] \in A
      BY <2>1, <2>5
    <3> QED
      BY <2>3, <2>4, <3>1
  <2> QED
    BY <1>1, <2>4, <2>5
<1>5. PICK b \in Int, c \in Int : b = p[2] /\ c = q[1] /\ b <= k /\ k + 1 <= c /\ b < c
  <2>1. p[2] \in Int /\ q[1] \in Int /\ p[2] < q[1]
    BY <1>1, <1>3, <1>4
  <2> QED
    BY <1>3, <1>4, <2>1
<1>6. ASSUME NEW t \in R PROVE t[1] <= p[1] \/ t[1] >= q[1]
  <2>1. p[1] \in Int /\ p[1] < p[2] /\ t[1] \in Int /\ t[2] \in Int /\ t[1] < t[2] /\ q[1] \in Int
    BY <1>1
  <2>2. CASE k + 1 <= t[1]
    <3>1. q[1] <= t[1]
      <4>1. ~ (t[2] <= k)
        BY <2>1, <2>2
      <4> QED
        BY <1>4, <4>1
    <3> QED
      BY <2>1, <3>1
  <2>3. CASE t[2] <= k
    <3>1. t[2] <= p[2]
      <4>1. ~ (k + 1 <= t[1])
        BY <2>1, <2>3
      <4> QED
        BY <1>3, <4>1
    <3>2. t = p \/ t[2] + 1 < p[1] \/ p[2] + 1 < t[1]
      BY <1>2
    <3>3. CASE t = p
      BY <2>1, <3>3
    <3>4. CASE t # p
      BY <1>5, <2>1, <3>1, <3>2, <3>4
    <3> QED
      BY <3>3, <3>4
  <2> QED
    BY <1>1, <2>2, <2>3
<1>7. Follows(R, p, q)
  BY <1>5, <1>6 DEF Follows
<1>8. ASSUME NEW x \in R, NEW y \in R, Follows(R, x, y), x[2] <= k, k + 1 <= y[1]
      PROVE  x = p /\ y = q
  <2>1. /\ x[1] \in Int /\ x[2] \in Int /\ x[1] < x[2] /\ y[1] \in Int /\ y[2] \in Int /\ y[1] < y[2]
        /\ p[1] \in Int /\ p[1] < p[2] /\ q[2] \in Int /\ q[1] < q[2] /\ k \in Int
    BY <1>1
  <2>2. x[2] <= p[2]
    <3>1. ~ (k + 1 <= x[1])
      BY <1>8, <2>1
    <3> QED
      BY <1>3, <3>1
  <2>3. q[1] <= y[1]
    <3>1. ~ (y[2] <= k)
      BY <1>8, <2>1
    <3> QED
      BY <1>4, <3>1
  <2>4. \A t \in R : t[1] <= x[1] \/ t[1] >= y[1]
    BY <1>8 DEF Follows
  <2>5. x = p
    <3>1. p[1] <= x[1] \/ p[1] >= y[1]
      BY <2>4
    <3>2. x = p \/ x[2] + 1 < p[1] \/ p[2] + 1 < x[1]
      BY <1>2
    <3> QED
      BY <1>5, <1>8, <2>1, <2>2, <3>1, <3>2
  <2>6. y = q
    <3>1. q[1] <= x[1] \/ q[1] >= y[1]
      BY <2>4
    <3>2. y = q \/ y[2] + 1 < q[1] \/ q[2] + 1 < y[1]
      BY <1>2
    <3> QED
      BY <1>5, <1>8, <2>1, <2>3, <3>1, <3>2
  <2> QED
    BY <2>5, <2>6
<1> QED
  BY <1>3, <1>4, <1>7, <1>8

\* What is left over is affected up to the next junction, and open beyond it.
LEMMA LeftIsCut ==
  ASSUME NEW n \in Nat, NEW on \in SUBSET (1..n), NEW R, R = Runs(n, on), R # {},
         NEW E, E = OnEdges(n, on), NEW J \in SUBSET Int, NEW k \in 1..(n - 1), k \notin E
  PROVE  /\ LeftEdge(R, J, k) <=> CutBelow(E, J, k) \/ CutAbove(E, J, k)
         /\ OpenEdge(R, J, k) <=> ~ (CutBelow(E, J, k) \/ CutAbove(E, J, k))
<1>1. \A s \in R : /\ s[1] \in Int /\ s[2] \in Int /\ s[1] < s[2]
                   /\ s[2] <= k \/ k + 1 <= s[1]
  BY RunsAroundEdge
<1>2. PICK first \in Int, last \in Int :
        /\ first = FirstOf(R) /\ last = LastOf(R)
        /\ \A s \in R : first <= s[1] /\ s[2] <= last
  BY FirstAndLast
<1>3. PICK f \in R : f[1] = first
  BY <1>2, FirstAndLast
<1>4. PICK l \in R : l[2] = last
  BY <1>2, FirstAndLast
<1>5. CASE \A s \in R : k + 1 <= s[1]
  <2>1. ~CutBelow(E, J, k)
    BY <1>5, CutBelowIs
  <2>2. k + 1 <= f[1] /\ \A s \in R : f[1] <= s[1] \/ s[2] <= k
    BY <1>2, <1>3, <1>5
  <2>3. CutAbove(E, J, k) <=> J \cap ((k + 1)..(first - 1)) = {}
    BY <1>3, <2>2, CutAboveIs
  <2>4. \A x \in R : ~ (x[2] <= k)
    BY <1>1, <1>5
  <2>5. ~ (last <= k) /\ k + 1 <= first
    BY <1>3, <1>4, <2>2, <2>4
  <2> QED
    BY <1>2, <2>1, <2>3, <2>4, <2>5 DEF LeftEdge, OpenEdge
<1>6. CASE \A s \in R : s[2] <= k
  <2>1. ~CutAbove(E, J, k)
    BY <1>6, CutAboveIs
  <2>2. l[2] <= k /\ \A s \in R : s[2] <= l[2] \/ k + 1 <= s[1]
    BY <1>2, <1>4, <1>6
  <2>3. CutBelow(E, J, k) <=> J \cap ((last + 1)..k) = {}
    BY <1>4, <2>2, CutBelowIs
  <2>4. \A y \in R : ~ (k + 1 <= y[1])
    BY <1>1, <1>6
  <2>5. ~ (k + 1 <= first) /\ last <= k
    BY <1>3, <1>4, <2>2, <2>4
  <2> QED
    BY <1>2, <2>1, <2>3, <2>4, <2>5 DEF LeftEdge, OpenEdge
<1>7. CASE (\E s \in R : s[2] <= k) /\ \E s \in R : k + 1 <= s[1]
  <2>1. PICK p, q \in R :
           /\ Follows(R, p, q) /\ p[2] <= k /\ k + 1 <= q[1]
           /\ \A s \in R : s[2] <= p[2] \/ k + 1 <= s[1]
           /\ \A s \in R : q[1] <= s[1] \/ s[2] <= k
           /\ \A x, y \in R : Follows(R, x, y) /\ x[2] <= k /\ k + 1 <= y[1] => x = p /\ y = q
    BY <1>7, NextRuns
  <2>2. CutBelow(E, J, k) <=> J \cap ((p[2] + 1)..k) = {}
    BY <2>1, CutBelowIs
  <2>3. CutAbove(E, J, k) <=> J \cap ((k + 1)..(q[1] - 1)) = {}
    BY <2>1, CutAboveIs
  <2>4. ~ (k + 1 <= first) /\ ~ (last <= k)
    <3>1. first <= p[1] /\ p[1] < p[2] /\ p[1] \in Int /\ p[2] \in Int
      BY <1>1, <1>2
    <3>2. q[2] <= last /\ q[1] < q[2] /\ q[1] \in Int /\ q[2] \in Int
      BY <1>1, <1>2
    <3> QED
      BY <2>1, <3>1, <3>2
  <2>5. LeftEdge(R, J, k) <=>
          J \cap ((p[2] + 1)..k) = {} \/ J \cap ((k + 1)..(q[1] - 1)) = {}
    BY <1>2, <2>1, <2>4 DEF LeftEdge
  <2>6. OpenEdge(R, J, k) <=>
          ~ (J \cap ((p[2] + 1)..k) = {} \/ J \cap ((k + 1)..(q[1] - 1)) = {})
    BY <1>2, <2>1, <2>4 DEF OpenEdge
  <2> QED
    BY <2>2, <2>3, <2>5, <2>6
<1> QED
  BY <1>1, <1>5, <1>6, <1>7

\* A road is split rightly, whatever lies on the route and wherever it has junctions.
LEMMA SplitsRightly ==
  ASSUME NEW n \in Nat, NEW on \in SUBSET (1..n), NEW J \in SUBSET Int, NEW k \in 1..(n - 1),
         OnEdges(n, on) # {}
  PROVE  LET E == OnEdges(n, on)
             s == SplitRoad(n, on, J)
             cut == CutBelow(E, J, k) \/ CutAbove(E, J, k)
         IN /\ InAny(s.closed, k) <=> k \in E
            /\ InAny(s.affected, k) <=> k \notin E /\ cut
            /\ InAny(s.open, k) <=> k \notin E /\ ~cut
<1>1. PICK R : R = Runs(n, on)
  OBVIOUS
<1>2. R # {}
  <2>1. PICK j \in OnEdges(n, on) : j \in Int
    BY DEF OnEdges
  <2> QED
    BY <1>1, <2>1, EdgesInRuns DEF InAny
<1>3. PICK E : E = OnEdges(n, on)
  OBVIOUS
<1>4. PICK s : s = SplitRoad(n, on, J)
  OBVIOUS
<1>5. /\ s.closed = R
      /\ InAny(s.affected, k) <=> LeftEdge(R, J, k)
      /\ InAny(s.open, k) <=> OpenEdge(R, J, k)
  BY <1>1, <1>2, <1>4, StretchesOf
<1>6. InAny(s.closed, k) <=> k \in E
  BY <1>1, <1>3, <1>5, EdgesInRuns
<1>7. CASE k \in E
  <2>1. ~LeftEdge(R, J, k) /\ ~OpenEdge(R, J, k)
    BY <1>1, <1>2, <1>3, <1>7, ClosedIsNotLeft
  <2> QED
    BY <1>3, <1>4, <1>5, <1>6, <1>7, <2>1
<1>8. CASE k \notin E
  <2>1. /\ LeftEdge(R, J, k) <=> CutBelow(E, J, k) \/ CutAbove(E, J, k)
        /\ OpenEdge(R, J, k) <=> ~ (CutBelow(E, J, k) \/ CutAbove(E, J, k))
    BY <1>1, <1>2, <1>3, <1>8, LeftIsCut
  <2> QED
    BY <1>3, <1>4, <1>5, <1>6, <1>8, <2>1
<1> QED
  BY <1>7, <1>8

\* A point that matches one of the route.
OnRoute(r, p) == \E x \in ToSet(r) : Match(p, x)

LEMMA EdgesOfStretch ==
  ASSUME NEW c \in Seq(Points), NEW a \in 1..Len(c), NEW b \in a..Len(c)
  PROVE  \A e : e \in EdgesOf(SubSeq(c, a, b)) <=> \E k \in a..(b - 1) : e = {c[k], c[k + 1]}
<1>1. PICK s : s = SubSeq(c, a, b)
  OBVIOUS
<1>2. a \in Nat /\ b \in Nat /\ a <= b /\ a >= 1
  OBVIOUS
<1>3. Len(s) = b - a + 1 /\ \A i \in 1..(b - a + 1) : s[i] = c[a + i - 1]
  BY <1>1, Part
<1>4. ASSUME NEW e, e \in EdgesOf(s) PROVE \E k \in a..(b - 1) : e = {c[k], c[k + 1]}
  <2>1. PICK i \in 1..(Len(s) - 1) : e = {s[i], s[i + 1]}
    BY <1>4 DEF EdgesOf
  <2>2. i \in 1..(b - a + 1) /\ i + 1 \in 1..(b - a + 1)
    BY <1>2, <1>3, <2>1
  <2>3. s[i] = c[a + i - 1] /\ s[i + 1] = c[a + (i + 1) - 1]
    BY <1>3, <2>2
  <2>4. PICK k \in a..(b - 1) : k = a + i - 1
    BY <1>2, <1>3, <2>1
  <2>5. a + (i + 1) - 1 = k + 1
    BY <1>2, <2>2, <2>4
  <2> QED
    BY <2>1, <2>3, <2>4, <2>5
<1>5. ASSUME NEW k \in a..(b - 1) PROVE {c[k], c[k + 1]} \in EdgesOf(s)
  <2>1. PICK i \in 1..(Len(s) - 1) : i = k - a + 1
    BY <1>2, <1>3
  <2>2. i \in 1..(b - a + 1) /\ i + 1 \in 1..(b - a + 1) /\ a + i - 1 = k /\ a + (i + 1) - 1 = k + 1
    BY <1>2, <1>3, <2>1
  <2>3. s[i] = c[k] /\ s[i + 1] = c[k + 1]
    BY <1>3, <2>2
  <2> QED
    BY <2>1, <2>3 DEF EdgesOf
<1> QED
  BY <1>1, <1>4, <1>5

LEMMA WholeIs ==
  ASSUME NEW T, NEW c \in Seq(T)
  PROVE  SubSeq(c, 1, Len(c)) = c
<1>1. PICK n \in Nat : n = Len(c)
  OBVIOUS
<1>2. n \in 0..Len(c)
  BY <1>1
<1>3. PICK s : s = SubSeq(c, 1, n)
  OBVIOUS
<1>4. s \in Seq(T) /\ Len(s) = n /\ \A i \in 1..n : s[i] = c[i]
  BY <1>2, <1>3, Beginning
<1>5. s = c
  BY <1>1, <1>4, SeqEqual
<1> QED
  BY <1>1, <1>3, <1>5

LEMMA SplitsNothing ==
  ASSUME NEW n \in Nat, NEW on \in SUBSET (1..n), NEW J
  PROVE  /\ SplitRoad(n, on, J).closed = Runs(n, on)
         /\ OnEdges(n, on) # {} => Runs(n, on) # {}
         /\ Runs(n, on) # {} => OnEdges(n, on) # {}
<1>1. SplitRoad(n, on, J).closed = Runs(n, on)
  BY DEF SplitRoad
<1>2. ASSUME NEW j \in OnEdges(n, on) PROVE Runs(n, on) # {}
  <2>1. j \in Int
    BY DEF OnEdges
  <2> QED
    BY <2>1, EdgesInRuns DEF InAny
<1>3. ASSUME NEW s \in Runs(n, on) PROVE OnEdges(n, on) # {}
  <2>1. s[1] \in Int /\ s[1] <= s[1] /\ s[1] + 1 <= s[2]
    BY RunIs
  <2>2. InAny(Runs(n, on), s[1])
    BY <2>1 DEF InAny
  <2> QED
    BY <2>1, <2>2, EdgesInRuns
<1> QED
  BY <1>1, <1>2, <1>3

\* The closed stretches of a road are its edges with both ends on the route.
ClosedRightly(C, c, r) ==
  /\ \A s \in C.closed : \A e \in EdgesOf(s.coords) : \A p \in e : OnRoute(r, p)
  /\ \A s \in C.affected \cup C.open : \A e \in EdgesOf(s.coords) : \E p \in e : ~OnRoute(r, p)
  /\ \A k \in 1..(Len(c) - 1) :
       OnRoute(r, c[k]) /\ OnRoute(r, c[k + 1]) =>
         \E s \in C.closed : {c[k], c[k + 1]} \in EdgesOf(s.coords)

\* Whatever road and route: what is classified as closed lies on the route, and the
\* rest does not.
LEMMA ClassifiedIsRight ==
  ASSUME NEW i \in 1..Len(Roads), NEW r
  PROVE  ClosedRightly(Classified(i, r), Roads[i].coords, r)
<1>1. PICK c \in Seq(Points) : c = Roads[i].coords
  BY CourseAssumption DEF CourseAssumption, Points
<1>2. PICK n \in Nat : n = Len(c)
  OBVIOUS
<1>3. PICK on \in SUBSET (1..n) : on = {k \in 1..Len(c) : \E p \in ToSet(r) : Match(c[k], p)}
  BY <1>2
<1>4. PICK J \in SUBSET (1..n) : J = {k \in 1..Len(c) : c[k] \in Junctions}
  BY <1>2
<1>5. \A k \in 1..n : k \in on <=> OnRoute(r, c[k])
  BY <1>2, <1>3 DEF OnRoute
<1>16. J \in SUBSET Int
  OBVIOUS
<1>6. PICK s : s = SplitRoad(n, on, J)
  OBVIOUS
<1>7. s.closed = Runs(n, on) /\ (OnEdges(n, on) # {} <=> s.closed # {})
  BY <1>6, SplitsNothing
<1> DEFINE Of(S) == {Stretch(i, ab) : ab \in S}
<1>8. Classified(i, r) =
        CASE Cardinality(on) = n /\ n >= 2 ->
               [closed |-> {Stretch(i, <<1, n>>)}, affected |-> {}, open |-> {}]
          [] Cardinality(on) < 2 \/ s.closed = {} ->
               [closed |-> {}, affected |-> {}, open |-> {Stretch(i, <<1, n>>)}]
          [] OTHER -> [closed |-> Of(s.closed), affected |-> Of(s.affected), open |-> Of(s.open)]
  BY <1>1, <1>2, <1>3, <1>4, <1>6 DEF Classified
<1>9. Stretch(i, <<1, n>>).coords = c
  BY <1>1, <1>2, WholeIs DEF Stretch
<1>10. IsFiniteSet(1..n) /\ Cardinality(1..n) = n
  <2>1. 1 \in Int /\ n \in Int
    OBVIOUS
  <2> QED
    BY <2>1, FS_Interval
<1>11. ASSUME NEW e \in EdgesOf(c)
       PROVE  \E k \in 1..(n - 1) : e = {c[k], c[k + 1]}
  BY <1>2 DEF EdgesOf
<1>12. ASSUME NEW k \in 1..(n - 1)
       PROVE  /\ k \in OnEdges(n, on) <=> OnRoute(r, c[k]) /\ OnRoute(r, c[k + 1])
              /\ {c[k], c[k + 1]} \in EdgesOf(c)
  <2>1. k \in 1..n /\ k + 1 \in 1..n
    OBVIOUS
  <2> QED
    BY <1>2, <1>5, <2>1 DEF OnEdges, EdgesOf
<1>13. CASE Cardinality(on) = n /\ n >= 2
  <2>1. on = 1..n
    BY <1>10, <1>13, FS_Subset
  <2>2. PICK C : C = Classified(i, r)
    OBVIOUS
  <2>3. C.closed = {Stretch(i, <<1, n>>)} /\ C.affected = {} /\ C.open = {}
    <3>1. C = [closed |-> {Stretch(i, <<1, n>>)}, affected |-> {}, open |-> {}]
      <4>1. 1 \in 1..(n - 1) /\ {1, 1 + 1} \subseteq on
        BY <1>13, <2>1
      <4>2. s.closed # {}
        BY <1>7, <4>1 DEF OnEdges
      <4>3. ~ (Cardinality(on) < 2 \/ s.closed = {})
        BY <1>13, <4>2
      <4> QED
        BY <1>8, <1>13, <2>2, <4>3
    <3> QED
      BY <3>1
  <2>4. \A k \in 1..(n - 1) : OnRoute(r, c[k]) /\ OnRoute(r, c[k + 1])
    BY <1>5, <2>1
  <2>5. ASSUME NEW t \in C.closed, NEW e \in EdgesOf(t.coords), NEW p \in e PROVE OnRoute(r, p)
    <3>1. e \in EdgesOf(c)
      BY <1>9, <2>3, <2>5
    <3>2. PICK k \in 1..(n - 1) : e = {c[k], c[k + 1]}
      BY <1>11, <3>1
    <3> QED
      BY <2>4, <2>5, <3>2
  <2>6. \A k \in 1..(n - 1) : \E t \in C.closed : {c[k], c[k + 1]} \in EdgesOf(t.coords)
    BY <1>9, <1>12, <2>3
  <2>7. C.affected \cup C.open = {}
    BY <2>3
  <2> QED
    BY <1>1, <1>2, <2>2, <2>5, <2>6, <2>7 DEF ClosedRightly
<1>14. CASE ~ (Cardinality(on) = n /\ n >= 2) /\ (Cardinality(on) < 2 \/ s.closed = {})
  <2>1. PICK C : C = Classified(i, r)
    OBVIOUS
  <2>2. C.closed = {} /\ C.affected = {} /\ C.open = {Stretch(i, <<1, n>>)}
    BY <1>8, <1>14, <2>1
  <2>3. ASSUME NEW k \in 1..(n - 1), k \in OnEdges(n, on) PROVE FALSE
    <3>1. s.closed # {}
      BY <1>7, <2>3
    <3>2. Cardinality({k, k + 1}) = 2
      <4>1. k # k + 1
        OBVIOUS
      <4>2. PICK S : S = {k}
        OBVIOUS
      <4>3. IsFiniteSet(S) /\ Cardinality(S) = 1
        BY <4>2, FS_Singleton
      <4>4. Cardinality(S \cup {k + 1}) = Cardinality(S) + 1
        BY <4>1, <4>2, <4>3, FS_AddElement
      <4>5. S \cup {k + 1} = {k, k + 1}
        BY <4>2
      <4>6. Cardinality({k, k + 1}) = Cardinality(S) + 1
        BY <4>4, <4>5
      <4> QED
        BY <4>3, <4>6
    <3>3. IsFiniteSet(on) /\ {k, k + 1} \subseteq on
      BY <1>10, <2>3, FS_Subset DEF OnEdges
    <3>4. Cardinality({k, k + 1}) <= Cardinality(on) /\ Cardinality(on) \in Nat
      BY <3>3, FS_Subset, FS_CardinalityType
    <3> QED
      BY <1>14, <3>1, <3>2, <3>4
  <2>4. ASSUME NEW t \in C.affected \cup C.open, NEW e \in EdgesOf(t.coords)
        PROVE  \E p \in e : ~OnRoute(r, p)
    <3>1. e \in EdgesOf(c)
      BY <1>9, <2>2, <2>4
    <3>2. PICK k \in 1..(n - 1) : e = {c[k], c[k + 1]}
      BY <1>11, <3>1
    <3> QED
      BY <1>12, <2>3, <3>2
  <2>5. \A k \in 1..(n - 1) : ~ (OnRoute(r, c[k]) /\ OnRoute(r, c[k + 1]))
    BY <1>12, <2>3
  <2> QED
    BY <1>1, <1>2, <2>1, <2>2, <2>4, <2>5 DEF ClosedRightly
<1>15. CASE ~ (Cardinality(on) = n /\ n >= 2) /\ ~ (Cardinality(on) < 2 \/ s.closed = {})
  <2>1. PICK C : C = Classified(i, r)
    OBVIOUS
  <2>2. C.closed = Of(s.closed) /\ C.affected = Of(s.affected) /\ C.open = Of(s.open)
    BY <1>8, <1>15, <2>1
  <2>3. Runs(n, on) # {} /\ OnEdges(n, on) # {}
    BY <1>7, <1>15
  <2>4. Within(s.affected, 1, n) /\ Within(s.open, 1, n) /\ s.closed = Runs(n, on)
    BY <1>6, <1>16, <2>3, StretchesOf
  <2>5. Within(s.closed, 1, n)
    BY <2>4, RunIs DEF Within
  <2>6. \A k \in 1..(n - 1) : /\ InAny(s.closed, k) <=> k \in OnEdges(n, on)
                              /\ InAny(s.affected, k) => k \notin OnEdges(n, on)
                              /\ InAny(s.open, k) => k \notin OnEdges(n, on)
    BY <1>6, <1>16, <2>3, SplitsRightly
  <2>7. ASSUME NEW S, Within(S, 1, n), NEW ab \in S
        PROVE  \A e : e \in EdgesOf(Stretch(i, ab).coords) <=>
                       \E k \in ab[1]..(ab[2] - 1) : e = {c[k], c[k + 1]}
    <3>1. ab[1] \in 1..Len(c) /\ ab[2] \in ab[1]..Len(c)
      BY <1>2, <2>7 DEF Within
    <3>2. Stretch(i, ab).coords = SubSeq(c, ab[1], ab[2])
      BY <1>1 DEF Stretch
    <3>3. PICK a : a = ab[1]
      OBVIOUS
    <3>4. PICK b : b = ab[2]
      OBVIOUS
    <3>5. \A e : e \in EdgesOf(SubSeq(c, a, b)) <=> \E k \in a..(b - 1) : e = {c[k], c[k + 1]}
      <4>1. a \in 1..Len(c) /\ b \in a..Len(c)
        BY <3>1, <3>3, <3>4
      <4>2. c \in Seq(Points)
        OBVIOUS
      <4> HIDE DEF Of
      <4> QED
        BY <4>1, <4>2, EdgesOfStretch
    <3> QED
      BY <3>2, <3>3, <3>4, <3>5
  <2>8. ASSUME NEW S, Within(S, 1, n), NEW t \in Of(S), NEW e \in EdgesOf(t.coords)
        PROVE  \E k \in 1..(n - 1) : InAny(S, k) /\ e = {c[k], c[k + 1]}
    <3>1. PICK ab \in S : t = Stretch(i, ab)
      OBVIOUS
    <3>2. PICK k \in ab[1]..(ab[2] - 1) : e = {c[k], c[k + 1]}
      BY <2>7, <2>8, <3>1
    <3>3. ab[1] \in Int /\ ab[2] \in Int /\ 1 <= ab[1] /\ ab[2] <= n
      BY <2>8 DEF Within
    <3>4. k \in 1..(n - 1) /\ ab[1] <= k /\ k + 1 <= ab[2]
      BY <3>2, <3>3
    <3> QED
      BY <3>2, <3>4 DEF InAny
  <2>9. ASSUME NEW k \in 1..(n - 1), InAny(s.closed, k)
        PROVE  \E t \in Of(s.closed) : {c[k], c[k + 1]} \in EdgesOf(t.coords)
    <3>1. PICK ab \in s.closed : ab[1] <= k /\ k + 1 <= ab[2]
      BY <2>9 DEF InAny
    <3>2. ab[1] \in Int /\ ab[2] \in Int
      BY <2>5 DEF Within
    <3>3. k \in ab[1]..(ab[2] - 1)
      BY <3>1, <3>2
    <3> QED
      BY <2>5, <2>7, <3>3
  <2>10. \A t \in C.closed : \A e \in EdgesOf(t.coords) : \A p \in e : OnRoute(r, p)
    <3>1. ASSUME NEW t \in Of(s.closed), NEW e \in EdgesOf(t.coords), NEW p \in e PROVE OnRoute(r, p)
      <4>1. PICK k \in 1..(n - 1) : InAny(s.closed, k) /\ e = {c[k], c[k + 1]}
        <5> HIDE DEF Of
        <5> QED
          BY <2>5, <2>8
      <4> QED
        BY <1>12, <2>6, <4>1
    <3> QED
      BY <2>2, <3>1
  <2>11. \A t \in C.affected \cup C.open : \A e \in EdgesOf(t.coords) : \E p \in e : ~OnRoute(r, p)
    <3>1. ASSUME NEW S, Within(S, 1, n), \A k \in 1..(n - 1) : InAny(S, k) => k \notin OnEdges(n, on),
                 NEW t \in Of(S), NEW e \in EdgesOf(t.coords)
          PROVE  \E p \in e : ~OnRoute(r, p)
      <4>1. PICK k \in 1..(n - 1) : InAny(S, k) /\ e = {c[k], c[k + 1]}
        BY <2>8, <3>1
      <4> QED
        BY <1>12, <3>1, <4>1
    <3> HIDE DEF Of
    <3> QED
      BY <2>2, <2>4, <2>6, <3>1
  <2>12. \A k \in 1..(n - 1) :
           OnRoute(r, c[k]) /\ OnRoute(r, c[k + 1]) =>
             \E t \in C.closed : {c[k], c[k + 1]} \in EdgesOf(t.coords)
    BY <1>12, <2>2, <2>6, <2>9
  <2> HIDE DEF Of
  <2> QED
    BY <1>1, <1>2, <2>1, <2>10, <2>11, <2>12 DEF ClosedRightly
<1> QED
  BY <1>13, <1>14, <1>15

\* What was split is a road that overlaps a route, and what was assessed is the
\* route of the plan that is still there.
SplitInv ==
  parts # NoParts =>
    \E o \in Overlaps :
      /\ parts.of = o
      /\ parts.closed = SplitRoad(o[1], o[2], o[3]).closed
      /\ parts.affected = SplitRoad(o[1], o[2], o[3]).affected
      /\ parts.open = SplitRoad(o[1], o[2], o[3]).open
AssessedInv ==
  assessment # NoAssessment =>
    /\ at = "planned" /\ Extract(plan.segments) \in Seq(Points)
    /\ assessment = Identify(Extract(plan.segments))

LEMMA SplitInvIsRight ==
  SplitInv => SplitIsRight
<1> SUFFICES ASSUME SplitInv, parts # NoParts PROVE SplitIsRight
  BY DEF SplitIsRight
<1>1. PICK o \in Overlaps :
        /\ parts.of = o
        /\ parts.closed = SplitRoad(o[1], o[2], o[3]).closed
        /\ parts.affected = SplitRoad(o[1], o[2], o[3]).affected
        /\ parts.open = SplitRoad(o[1], o[2], o[3]).open
  BY DEF SplitInv
<1> DEFINE n == o[1]
<1> DEFINE on == o[2]
<1> DEFINE J == o[3]
<1>2. n \in Nat /\ on \in SUBSET (1..n) /\ J \in SUBSET (1..n)
  BY TrafficAssumption DEF TrafficAssumption
<1>3. J \in SUBSET Int
  BY <1>2
<1> HIDE DEF n, on, J
<1>4. PICK E : E = OnEdges(n, on)
  OBVIOUS
<1>5. ASSUME E # {}, NEW k \in 1..(n - 1)
      PROVE  /\ InAny(parts.closed, k) <=> k \in E
             /\ InAny(parts.affected, k) <=> k \notin E /\ (CutBelow(E, J, k) \/ CutAbove(E, J, k))
             /\ InAny(parts.open, k) <=> k \notin E /\ ~ (CutBelow(E, J, k) \/ CutAbove(E, J, k))
  <2>1. PICK s : s = SplitRoad(n, on, J)
    OBVIOUS
  <2>2. parts.closed = s.closed /\ parts.affected = s.affected /\ parts.open = s.open
    BY <1>1, <2>1 DEF n, on, J
  <2> QED
    BY <1>2, <1>3, <1>4, <1>5, <2>1, <2>2, SplitsRightly
<1> DEFINE Cut(k) == \/ \E c \in E : /\ c < k /\ \A j \in c..k : j \in E => j = c
                                     /\ J \cap ((c + 2)..k) = {}
                     \/ \E c \in E : /\ c > k /\ \A j \in k..c : j \in E => j = c
                                     /\ J \cap ((k + 1)..(c - 1)) = {}
<1>6. \A k : Cut(k) <=> CutBelow(E, J, k) \/ CutAbove(E, J, k)
  BY DEF CutBelow, CutAbove
<1> HIDE DEF Cut
<1>7. \A k \in 1..(n - 1) : E # {} =>
        /\ InAny(parts.closed, k) <=> k \in E
        /\ InAny(parts.affected, k) <=> k \notin E /\ Cut(k)
        /\ InAny(parts.open, k) <=> k \notin E /\ ~Cut(k)
  BY <1>5, <1>6
<1>8. /\ n = parts.of[1] /\ on = parts.of[2] /\ J = parts.of[3]
      /\ E = {k \in 1..(parts.of[1] - 1) : {k, k + 1} \subseteq parts.of[2]}
  BY <1>1, <1>4 DEF OnEdges, n, on, J
<1> QED
  BY <1>7, <1>8 DEF SplitIsRight, InAny, Cut

LEMMA PointsMatch ==
  ASSUME NEW r \in Seq(Points), NEW p \in ToSet(r)
  PROVE  OnRoute(r, p)
<1>1. p \in Points
  BY ElementOfSeq DEF ToSet
<1>2. Match(p, p)
  BY <1>1, DistIsNatural DEF Match, Mile
<1> QED
  BY <1>2 DEF OnRoute

\* An assessment that identifies the closures of its route has closed the route.
LEMMA AssessedInvIsClosed ==
  AssessedInv => RouteIsClosed
<1> SUFFICES ASSUME AssessedInv, assessment # NoAssessment PROVE RouteIsClosed
  BY DEF RouteIsClosed
<1>1. PICK r \in Seq(Points) : r = Extract(plan.segments) /\ assessment = Identify(r)
  BY DEF AssessedInv
<1> DEFINE C == {Classified(i, r) : i \in 1..Len(Roads)}
<1> DEFINE all == UNION {c.closed : c \in C}
<1> DEFINE split == UNION {c.affected : c \in C}
<1> DEFINE free == UNION {c.open : c \in C}
<1> DEFINE Touch(s) == \E p \in {s.coords[1], Last(s.coords)}, q \in EndsOf(all) : Match(p, q)
<1> DEFINE along == {s \in all : RouteLine(s, r)}
<1>2. Identify(r) = [closed |-> all \ along, route |-> along,
                     affected |-> split \cup {s \in free : Touch(s)},
                     intersections |-> Intersections(all, all \cup split \cup free)]
  BY DEF Identify
<1>3. /\ assessment.closed \cup assessment.route = all
      /\ \A s \in assessment.affected : s \in split \/ s \in free
  <2>1. along \subseteq all
    OBVIOUS
  <2>2. {s \in free : Touch(s)} \subseteq free
    OBVIOUS
  <2> HIDE DEF all, split, free, Touch, along
  <2>3. /\ assessment.closed = all \ along /\ assessment.route = along
        /\ assessment.affected = split \cup {s \in free : Touch(s)}
    BY <1>1, <1>2
  <2> QED
    BY <2>1, <2>2, <2>3
<1>8. /\ \A s \in all : \E i \in 1..Len(Roads) : s \in Classified(i, r).closed
      /\ \A s \in split : \E i \in 1..Len(Roads) : s \in Classified(i, r).affected
      /\ \A s \in free : \E i \in 1..Len(Roads) : s \in Classified(i, r).open
      /\ \A i \in 1..Len(Roads) : Classified(i, r).closed \subseteq all
  OBVIOUS
<1> HIDE DEF Touch, along, all, split, free, C
<1>4. PICK closed : closed = UNION {EdgesOf(s.coords) : s \in assessment.closed \cup assessment.route}
  OBVIOUS
<1>5. ASSUME NEW e \in closed, NEW p \in e PROVE OnRoute(r, p)
  <2>1. PICK s \in assessment.closed \cup assessment.route : e \in EdgesOf(s.coords)
    BY <1>4
  <2>2. PICK i \in 1..Len(Roads) : s \in Classified(i, r).closed
    BY <1>3, <1>8, <2>1
  <2> QED
    BY <1>5, <2>1, <2>2, ClassifiedIsRight DEF ClosedRightly
<1>6. ASSUME NEW s \in assessment.affected, NEW e \in EdgesOf(s.coords) PROVE e \notin closed
  <2>1. PICK i \in 1..Len(Roads) : s \in Classified(i, r).affected \cup Classified(i, r).open
    BY <1>3, <1>8
  <2>2. \E p \in e : ~OnRoute(r, p)
    BY <2>1, ClassifiedIsRight DEF ClosedRightly
  <2> QED
    BY <1>5, <2>2
<1>7. ASSUME NEW e \in Edges, e \in EdgesOf(r) PROVE e \in closed
  <2>1. PICK i \in 1..Len(Roads) : e \in EdgesOf(Roads[i].coords)
    BY DEF Edges, Usable
  <2>2. PICK k \in 1..(Len(Roads[i].coords) - 1) :
          e = {Roads[i].coords[k], Roads[i].coords[k + 1]}
    BY <2>1 DEF EdgesOf
  <2>3. PICK j \in 1..(Len(r) - 1) : e = {r[j], r[j + 1]}
    BY <1>7 DEF EdgesOf
  <2>4. \A p \in e : p \in ToSet(r)
    <3>1. Len(r) \in Nat /\ DOMAIN r = 1..Len(r)
      OBVIOUS
    <3>2. j \in DOMAIN r /\ j + 1 \in DOMAIN r
      BY <3>1
    <3> QED
      BY <2>3, <3>2 DEF ToSet
  <2>5. OnRoute(r, Roads[i].coords[k]) /\ OnRoute(r, Roads[i].coords[k + 1])
    BY <2>2, <2>4, PointsMatch
  <2>6. PICK s \in Classified(i, r).closed : e \in EdgesOf(s.coords)
    BY <2>2, <2>5, ClassifiedIsRight DEF ClosedRightly
  <2>7. s \in assessment.closed \cup assessment.route
    BY <1>3, <1>8, <2>6
  <2> QED
    BY <1>4, <2>6, <2>7
<1> QED
  BY <1>1, <1>4, <1>6, <1>7 DEF RouteIsClosed

\* Every step keeps what is known of splits and of assessments.
LEMMA ClosuresNext ==
  ASSUME PlanInv, SplitInv, AssessedInv, [TrafficNext]_<<vars, trafficVars>>
  PROVE  SplitInv' /\ AssessedInv'
<1>1. CASE Next /\ assessment = NoAssessment /\ UNCHANGED trafficVars
  BY <1>1 DEF trafficVars, SplitInv, AssessedInv
<1>2. CASE Assess
  <2>1. /\ at = "planned" /\ plan # NoPlan /\ assessment' = Identify(Extract(plan.segments))
        /\ UNCHANGED <<at, plan, parts>>
    BY <1>2 DEF Assess, vars
  <2>2. PICK r \in Routes : \E n \in RunnerCounts : PlanOf(plan, r, n)
    BY <2>1 DEF PlanInv, PlannedInv
  <2>3. plan.segments = Segments(r) /\ OnRoads(r)
    BY <2>2 DEF PlanOf
  <2>4. Extract(plan.segments) \in Seq(Points)
    BY <2>3, RoadsRunAlongAxes, ExtractedIsRoute
  <2>5. AssessedInv'
    BY <2>1, <2>4 DEF AssessedInv
  <2> QED
    BY <2>1, <2>5 DEF SplitInv
<1>3. CASE SplitAny
  <2>1. UNCHANGED assessment /\ at = "attempt"
    BY <1>3 DEF SplitAny
  <2>2. assessment' = NoAssessment
    BY <2>1 DEF AssessedInv
  <2>3. SplitInv'
    BY <1>3 DEF SplitAny, SplitInv
  <2> QED
    BY <2>2, <2>3 DEF AssessedInv, NoAssessment
<1>4. CASE StartRace
  BY <1>4 DEF StartRace, SplitInv, AssessedInv
<1>5. CASE UNCHANGED <<at, plan, parts, assessment>>
  BY <1>5 DEF SplitInv, AssessedInv
<1>6. CASE Tick
  BY <1>5, <1>6 DEF Tick, vars
<1>7. CASE UNCHANGED <<vars, trafficVars>>
  BY <1>5, <1>7 DEF vars, trafficVars
<1> QED
  BY <1>1, <1>2, <1>3, <1>4, <1>6, <1>7 DEF TrafficNext

\* Roads are closed where the runners run, and only there: however a road overlaps
\* the route and wherever it has junctions, and for the route of every plan.
THEOREM ClosuresAlwaysRight ==
  TrafficSpec => []ClosuresAreRight
<1>1. TrafficInit => PlanInv /\ SplitInv /\ AssessedInv
  BY PlanInit DEF TrafficInit, SplitInv, AssessedInv
<1>2. PlanInv /\ SplitInv /\ AssessedInv /\ [TrafficNext]_<<vars, trafficVars>>
        => PlanInv' /\ SplitInv' /\ AssessedInv'
  BY PlanNext, ClosuresNext
<1>3. SplitInv /\ AssessedInv => ClosuresAreRight
  BY SplitInvIsRight, AssessedInvIsClosed DEF ClosuresAreRight
<1> QED
  BY <1>1, <1>2, <1>3, PTL DEF TrafficSpec


----------------------------------------------------------------------------
(* The planner's calls.                                                    *)

Sent == {"sending", "waiting", "replying", "failed"}
Entered == Sent \cup {"polling", "storing"}
Pcs == Entered \cup {"ready", "asking", "done"}

CallType ==
  [tool : STRING, action : STRING, pc : Pcs, route : Nat, sid : Nat, race : Nat,
   tries : Nat, carries : BOOLEAN]

RaceType ==
  [sid : Nat, action : STRING, invocation : Nat, response : Nat, over : BOOLEAN,
   unguarded : BOOLEAN, reliable : BOOLEAN, sent : SUBSET Nat, route : Nat]

\* Whatever evaluate_plan may have returned, for whatever plan.
AnyEvaluation == {NoValue} \cup UNION {Evaluations(p, Judgements) : p \in Plans}

SessionType ==
  [route : Nat, assessed : Nat, evaluation : AnyEvaluation, evaluated : Nat, token : Nat,
   sid : Nat, announced : Nat, executed : Nat, result : {NoValue} \cup [ok : BOOLEAN, race : Nat],
   active : Nat]

StoredType == [route : Nat, evaluation : AnyEvaluation, evaluated : Nat]

TypeOK ==
  /\ invocation \in Nat /\ answered \in Nat /\ ids \in Nat /\ routes \in Nat
  /\ session \in SessionType
  /\ calls \in [DOMAIN calls -> CallType]
  /\ races \in Seq(RaceType)
  /\ db \in Seq(StoredType)
  /\ simdata \in [DOMAIN simdata -> Nat \ {0}] /\ DOMAIN simdata \subseteq Nat

\* The route in Redis is one that a call of this response has submitted.
Submitted(sid) ==
  /\ sid \in DOMAIN simdata
  /\ \E d \in DOMAIN calls : calls[d].sid = sid /\ calls[d].route = simdata[sid]

CallsInv ==
  \A c \in DOMAIN calls :
    /\ calls[c].pc \in {"ready", "polling"} => calls[c].sid = 0
    /\ calls[c].pc = "polling" => calls[c].route # 0
    /\ calls[c].pc \in Sent \cup {"storing"} => calls[c].sid # 0 /\ calls[c].route # 0
    /\ calls[c].pc \in Sent /\ ~calls[c].carries => Submitted(calls[c].sid)

LocksInv ==
  /\ \A k \in DOMAIN races : ~races[k].over /\ ~races[k].unguarded => races[k].sid \in locked
  /\ OneRaceAtATime

Executes(c) == calls[c].tool = "submit" /\ calls[c].action = "execute"

\* An execution of this invocation is of this response and still has its call, or
\* it is marked in the session; a call that got past the guard has no predecessor.
MarksInv ==
  /\ \A k \in DOMAIN races :
       /\ races[k].invocation <= invocation
       /\ races[k].invocation = invocation => races[k].response <= answered
  /\ \A k \in Executions : races[k].invocation = invocation =>
       /\ races[k].response < answered => ExecutedHere
       /\ ExecutedHere \/ \E c \in DOMAIN calls : Executes(c) /\ calls[c].pc \in Sent
  /\ \A c \in DOMAIN calls : Executes(c) /\ calls[c].pc \in Entered =>
       \A k \in Executions : races[k].invocation = invocation => races[k].response = answered
  /\ RacesOfOneResponse

PlannerInv == TypeOK /\ CallsInv /\ LocksInv /\ MarksInv /\ RaceRunsSubmittedRoute

----------------------------------------------------------------------------
(* Evaluations.                                                            *)

\* A distance that counts is a number, and so is its deviation.
LEMMA CountedMiles ==
  ASSUME NEW p \in Plans, NEW i \in Counted(p)
  PROVE  i \in Int /\ Deviation(p.miles[i]) \in Int
<1>1. p.miles \in Seq(Nat) /\ i \in DOMAIN p.miles
  BY PlannerAssumption DEF Counted
<1>2. i \in Int /\ p.miles[i] \in Nat
  BY <1>1
<1> QED
  BY <1>2 DEF Deviation

\* What the fallback scores a plan that is unsafe or of a wrong distance.
LEMMA HeuristicScores ==
  ASSUME NEW p \in Plans
  PROVE  /\ Unsafe(p) => Heuristic(p)["safety"] < High
         /\ WrongDistance(p) => Heuristic(p)["distance"] < High
<1>1. "safety" \in Criteria /\ "distance" \in Criteria
  BY DEF Criteria, JudgedCriteria
<1>2. ASSUME Unsafe(p) PROVE Heuristic(p)["safety"] < High
  <2>1. Heuristic(p)["safety"] =
          AtMost(100, (IF p.noDetour THEN 20 ELSE IF p.blocksHospital THEN 30 ELSE 85)
                        + IF p.emergencyVehicle THEN 10 ELSE 0)
    BY <1>1 DEF Heuristic
  <2>2. CASE p.noDetour
    BY <2>1, <2>2 DEF AtMost, High
  <2>3. CASE ~p.noDetour
    BY <1>2, <2>1, <2>3 DEF AtMost, High, Unsafe
  <2> QED
    BY <2>2, <2>3
<1>3. ASSUME WrongDistance(p) PROVE Heuristic(p)["distance"] < High
  <2>1. Heuristic(p)["distance"] = DistanceScore(p) * 20
    BY <1>1 DEF Heuristic
  <2>2. CASE p.waives
    BY <2>1, <2>2 DEF DistanceScore, High
  <2>3. CASE ~p.waives
    <3>1. PICK i \in Counted(p) : (\A j \in Counted(p) : j <= i) /\ Deviation(p.miles[i]) > 50
      BY <1>3, <2>3 DEF WrongDistance
    <3> DEFINE off == {j \in Counted(p) : Deviation(p.miles[j]) > 10}
    <3>2. \A j \in Counted(p) : j \in Int
      BY CountedMiles
    <3>3. Deviation(p.miles[i]) \in Int
      BY CountedMiles
    <3>4. i \in off /\ \A j \in off : j <= i /\ j \in Int
      BY <3>1, <3>2, <3>3
    <3>5. Max(off) = i
      BY <3>4 DEF Max
    <3>6. off # {} /\ Deviation(p.miles[Max(off)]) > 50
      BY <3>1, <3>4, <3>5
    <3>7. DistanceScore(p) = 1
      BY <3>6 DEF DistanceScore
    <3> QED
      BY <2>1, <3>7 DEF High
  <2> QED
    BY <2>2, <2>3
<1> QED
  BY <1>2, <1>3

\* Whatever passes in the fallback is neither.
LEMMA PassedIsSafeLemma ==
  ASSUME NEW e \in AnyEvaluation, e # NoValue, e.method = "heuristic", e.passed
  PROVE  ~WrongDistance(e.plan) /\ ~Unsafe(e.plan)
<1>1. PICK p \in Plans : e \in Evaluations(p, Judgements)
  BY DEF AnyEvaluation
<1>2. ASSUME NEW s, NEW m
      PROVE  /\ Result(p, s, m).plan = p /\ Result(p, s, m).method = m
             /\ Result(p, s, m).passed => \A c \in Criteria : s[c] >= High
  BY DEF Result
<1>3. e = Result(p, Heuristic(p), "heuristic")
  <2>1. \A raw \in Judgements : Result(p, Judged(p, raw), "vertex_ai_eval").method # "heuristic"
    BY <1>2
  <2> QED
    BY <1>1, <2>1 DEF Evaluations
<1>4. e.plan = p /\ Heuristic(p)["safety"] >= High /\ Heuristic(p)["distance"] >= High
  <2>1. "safety" \in Criteria /\ "distance" \in Criteria
    BY DEF Criteria, JudgedCriteria
  <2> QED
    BY <1>2, <1>3, <2>1
<1>5. Heuristic(p)["safety"] \in Int /\ Heuristic(p)["distance"] \in Int
  <2>1. "safety" \in Criteria /\ "distance" \in Criteria
    BY DEF Criteria, JudgedCriteria
  <2>2. Heuristic(p)["distance"] = DistanceScore(p) * 20 /\ DistanceScore(p) \in {1, 3, 5}
    BY <2>1 DEF Heuristic, DistanceScore
  <2>3. Heuristic(p)["safety"] =
          AtMost(100, (IF p.noDetour THEN 20 ELSE IF p.blocksHospital THEN 30 ELSE 85)
                        + IF p.emergencyVehicle THEN 10 ELSE 0)
    BY <2>1 DEF Heuristic
  <2> QED
    BY <2>2, <2>3 DEF AtMost
<1> QED
  BY <1>4, <1>5, HeuristicScores DEF High

----------------------------------------------------------------------------
(* A step of one call that runs no race.                                   *)

\* What every step of a call keeps of it.
SameCall(call, c) == call.tool = calls[c].tool /\ call.action = calls[c].action

LEMMA InvKnown ==
  ASSUME PlannerInv, NEW c \in DOMAIN calls
  PROVE  /\ calls[c] \in CallType /\ session \in SessionType
         /\ calls[c].pc \in {"ready", "polling"} => calls[c].sid = 0
         /\ calls[c].pc = "polling" => calls[c].route # 0
         /\ calls[c].pc \in Sent \cup {"storing"} => calls[c].sid # 0 /\ calls[c].route # 0
         /\ calls[c].pc \in Sent /\ ~calls[c].carries => Submitted(calls[c].sid)
BY DEF PlannerInv, TypeOK, CallsInv

LEMMA RaceKnown ==
  ASSUME PlannerInv, NEW k \in DOMAIN races
  PROVE  races[k] \in RaceType
<1>1. races \in Seq(RaceType)
  BY DEF PlannerInv, TypeOK
<1> QED
  BY <1>1

LEMMA CallsAfter ==
  ASSUME PlannerInv, NEW c \in DOMAIN calls, NEW call \in CallType,
         calls' = [calls EXCEPT ![c] = call]
  PROVE  /\ DOMAIN calls' = DOMAIN calls /\ calls'[c] = call
         /\ \A d \in DOMAIN calls \ {c} : calls'[d] = calls[d]
         /\ calls' \in [DOMAIN calls' -> CallType]
BY DEF PlannerInv, TypeOK

\* Ids that have been taken, and the routes submitted for them, stay.
Steady(call, c) == calls[c].sid # 0 => call.sid = calls[c].sid /\ call.route = calls[c].route

LEMMA CallsKept ==
  ASSUME PlannerInv, NEW c \in DOMAIN calls, NEW call \in CallType,
         calls' = [calls EXCEPT ![c] = call], UNCHANGED simdata, Steady(call, c),
         call.pc \in {"ready", "polling"} => call.sid = 0,
         call.pc = "polling" => call.route # 0,
         call.pc \in Sent \cup {"storing"} => call.sid # 0 /\ call.route # 0,
         call.pc \in Sent /\ ~call.carries => calls[c].pc \in Sent /\ ~calls[c].carries
  PROVE  CallsInv'
<1>1. /\ DOMAIN calls' = DOMAIN calls /\ calls'[c] = call
      /\ \A d \in DOMAIN calls \ {c} : calls'[d] = calls[d]
  BY CallsAfter
<1>2. ASSUME NEW sid, sid # 0, Submitted(sid) PROVE Submitted(sid)'
  <2>1. PICK d \in DOMAIN calls : calls[d].sid = sid /\ calls[d].route = simdata[sid]
    BY <1>2 DEF Submitted
  <2>2. calls'[d].sid = sid /\ calls'[d].route = simdata[sid]
    BY <1>1, <1>2, <2>1 DEF Steady
  <2> QED
    BY <1>1, <1>2, <2>1, <2>2 DEF Submitted
<1>3. ASSUME NEW d \in DOMAIN calls', calls'[d].pc \in Sent, ~calls'[d].carries
      PROVE  Submitted(calls[d].sid)'
  <2>1. d \in DOMAIN calls /\ calls[d].pc \in Sent /\ ~calls[d].carries
        /\ calls'[d].sid = calls[d].sid
    <3>1. CASE d = c
      <4>1. calls[c].pc \in Sent /\ ~calls[c].carries
        BY <1>1, <1>3, <3>1
      <4> QED
        BY <1>1, <3>1, <4>1, InvKnown DEF Steady
    <3>2. CASE d # c
      BY <1>1, <1>3, <3>2
    <3> QED
      BY <3>1, <3>2
  <2>2. Submitted(calls[d].sid) /\ calls[d].sid # 0
    BY <2>1, InvKnown
  <2> QED
    BY <1>2, <2>1, <2>2
<1>4. ASSUME NEW d \in DOMAIN calls'
      PROVE  /\ calls'[d].pc \in {"ready", "polling"} => calls'[d].sid = 0
             /\ calls'[d].pc = "polling" => calls'[d].route # 0
             /\ calls'[d].pc \in Sent \cup {"storing"} => calls'[d].sid # 0 /\ calls'[d].route # 0
  <2>1. CASE d = c
    BY <1>1, <2>1
  <2>2. CASE d # c
    BY <1>1, <2>2, InvKnown
  <2> QED
    BY <2>1, <2>2
<1> QED
  BY <1>3, <1>4 DEF CallsInv

LEMMA LocksKept == ASSUME PlannerInv, UNCHANGED <<races, locked>> PROVE LocksInv'
BY DEF PlannerInv, LocksInv, OneRaceAtATime

LEMMA MarksKept ==
  ASSUME PlannerInv, NEW c \in DOMAIN calls, NEW call \in CallType,
         calls' = [calls EXCEPT ![c] = call], SameCall(call, c),
         UNCHANGED <<invocation, answered, races>>,
         calls[c].pc \in Sent /\ Executes(c) => call.pc \in Sent \/ session'.executed = invocation,
         session.executed = invocation => session'.executed = invocation,
         call.pc \in Entered => calls[c].pc \in Entered \/ ~Executes(c) \/ ~ExecutedHere
  PROVE  MarksInv'
<1>1. /\ DOMAIN calls' = DOMAIN calls /\ calls'[c] = call
      /\ \A d \in DOMAIN calls \ {c} : calls'[d] = calls[d]
      /\ Executions' = Executions
  BY CallsAfter DEF Executions
<1>2. ASSUME NEW k \in Executions, races[k].invocation = invocation
      PROVE  /\ races[k].response < answered => ExecutedHere'
             /\ ExecutedHere' \/ \E d \in DOMAIN calls' : Executes(d)' /\ calls'[d].pc \in Sent
  <2>1. races[k].response < answered => ExecutedHere
    BY <1>2 DEF PlannerInv, MarksInv
  <2>2. ExecutedHere => ExecutedHere'
    BY DEF ExecutedHere
  <2>3. CASE ~ExecutedHere'
    <3>1. PICK d \in DOMAIN calls : Executes(d) /\ calls[d].pc \in Sent
      BY <1>2, <2>2, <2>3 DEF PlannerInv, MarksInv
    <3>2. calls'[d].pc \in Sent /\ Executes(d)'
      BY <1>1, <2>3, <3>1 DEF Executes, SameCall, ExecutedHere
    <3> QED
      BY <1>1, <2>1, <2>2, <2>3, <3>1, <3>2
  <2> QED
    BY <2>1, <2>2, <2>3
<1>3. ASSUME NEW d \in DOMAIN calls', Executes(d)', calls'[d].pc \in Entered,
             NEW k \in Executions, races[k].invocation = invocation
      PROVE  races[k].response = answered
  <2>1. d \in DOMAIN calls /\ Executes(d)
    BY <1>1, <1>3 DEF Executes, SameCall
  <2>2. CASE calls[d].pc \in Entered
    BY <1>3, <2>1, <2>2 DEF PlannerInv, MarksInv
  <2>3. CASE calls[d].pc \notin Entered
    <3>1. ~ExecutedHere
      BY <1>1, <1>3, <2>1, <2>3
    <3>2. /\ k \in DOMAIN races /\ races[k].response <= answered
          /\ ~(races[k].response < answered)
      BY <1>3, <3>1 DEF PlannerInv, MarksInv, Executions
    <3>3. races[k].response \in Nat /\ answered \in Nat
      BY <3>2, RaceKnown DEF RaceType, PlannerInv, TypeOK
    <3> QED
      BY <3>2, <3>3
  <2> QED
    BY <2>2, <2>3
<1>4. RacesOfOneResponse'
  BY <1>1 DEF PlannerInv, MarksInv, RacesOfOneResponse
<1>5. \A k \in DOMAIN races : /\ races[k].invocation <= invocation
                              /\ races[k].invocation = invocation => races[k].response <= answered
  BY DEF PlannerInv, MarksInv
<1> QED
  BY <1>1, <1>2, <1>3, <1>4, <1>5 DEF MarksInv

\* A step of a call that leaves Redis, the races and the marks alone.
LEMMA CallStep ==
  ASSUME PlannerInv, NEW c \in DOMAIN calls, NEW call \in CallType,
         calls' = [calls EXCEPT ![c] = call], SameCall(call, c), Steady(call, c),
         UNCHANGED <<chat, remote>>, session' \in SessionType, session'.executed = session.executed,
         ids' \in Nat, routes' \in Nat, db' \in Seq(StoredType),
         call.pc \in {"ready", "polling"} => call.sid = 0,
         call.pc = "polling" => call.route # 0,
         call.pc \in Sent \cup {"storing"} => call.sid # 0 /\ call.route # 0,
         call.pc \in Sent /\ ~call.carries => calls[c].pc \in Sent /\ ~calls[c].carries,
         calls[c].pc \in Sent => call.pc \in Sent,
         call.pc \in Entered => calls[c].pc \in Entered \/ ~Executes(c) \/ ~ExecutedHere
  PROVE  PlannerInv'
<1>1. UNCHANGED <<invocation, answered, simdata, locked, races>>
  BY DEF chat, remote
<1>2. TypeOK'
  BY <1>1, CallsAfter DEF PlannerInv, TypeOK
<1>3. CallsInv'
  BY <1>1, CallsKept
<1>4. LocksInv'
  BY <1>1, LocksKept
<1>5. MarksInv'
  BY <1>1, MarksKept
<1>6. RaceRunsSubmittedRoute'
  BY <1>1 DEF PlannerInv, RaceRunsSubmittedRoute
<1> QED
  BY <1>2, <1>3, <1>4, <1>5, <1>6 DEF PlannerInv

\* How the actions write a call.
LEMMA CallWritten ==
  ASSUME PlannerInv, NEW c \in DOMAIN calls, NEW pc \in Pcs
  PROVE  /\ Goes(c, pc) => \E call \in CallType :
              /\ calls' = [calls EXCEPT ![c] = call] /\ SameCall(call, c) /\ call.pc = pc
              /\ call.sid = calls[c].sid /\ call.route = calls[c].route
              /\ call.carries = calls[c].carries
         /\ \A new \in Nat : Keeps(c, pc, new) => \E call \in CallType :
              /\ calls' = [calls EXCEPT ![c] = call] /\ SameCall(call, c) /\ call.pc = pc
              /\ call.sid = calls[c].sid /\ call.route = new
              /\ call.carries = calls[c].carries
         /\ \A id \in Nat : Take(c, id) => \E call \in CallType :
              /\ calls' = [calls EXCEPT ![c] = call] /\ SameCall(call, c) /\ call.pc = "storing"
              /\ call.sid = id /\ call.route = calls[c].route
         /\ \A carries \in BOOLEAN : Send(c, carries) => \E call \in CallType :
              /\ calls' = [calls EXCEPT ![c] = call] /\ SameCall(call, c) /\ call.pc = "sending"
              /\ call.sid = calls[c].sid /\ call.route = calls[c].route
              /\ call.carries = carries
<1>1. calls \in [DOMAIN calls -> CallType] /\ calls[c] \in CallType
  BY DEF PlannerInv, TypeOK
<1>2. ASSUME Goes(c, pc)
      PROVE  \E call \in CallType :
              /\ calls' = [calls EXCEPT ![c] = call] /\ SameCall(call, c) /\ call.pc = pc
              /\ call.sid = calls[c].sid /\ call.route = calls[c].route
              /\ call.carries = calls[c].carries
  <2>1. PICK call : call = [calls[c] EXCEPT !.pc = pc]
    OBVIOUS
  <2>2. call \in CallType
    BY <1>1, <2>1 DEF CallType
  <2>3. /\ call.tool = calls[c].tool /\ call.action = calls[c].action /\ call.pc = pc
        /\ call.sid = calls[c].sid /\ call.route = calls[c].route
        /\ call.carries = calls[c].carries
    BY <1>1, <2>1 DEF CallType
  <2>4. calls' = [calls EXCEPT ![c] = call]
    BY <1>1, <1>2, <2>1 DEF Goes
  <2> QED
    BY <2>2, <2>3, <2>4 DEF SameCall
<1>3. ASSUME NEW new \in Nat, Keeps(c, pc, new)
      PROVE  \E call \in CallType :
              /\ calls' = [calls EXCEPT ![c] = call] /\ SameCall(call, c) /\ call.pc = pc
              /\ call.sid = calls[c].sid /\ call.route = new
              /\ call.carries = calls[c].carries
  <2>1. PICK call : call = [calls[c] EXCEPT !.pc = pc, !.route = new]
    OBVIOUS
  <2>2. call \in CallType
    BY <1>1, <2>1 DEF CallType
  <2>3. /\ call.tool = calls[c].tool /\ call.action = calls[c].action /\ call.pc = pc
        /\ call.sid = calls[c].sid /\ call.route = new
        /\ call.carries = calls[c].carries
    BY <1>1, <2>1 DEF CallType
  <2>4. calls' = [calls EXCEPT ![c] = call]
    BY <1>1, <1>3, <2>1 DEF Keeps
  <2> QED
    BY <2>2, <2>3, <2>4 DEF SameCall
<1>4. ASSUME NEW id \in Nat, Take(c, id)
      PROVE  \E call \in CallType :
              /\ calls' = [calls EXCEPT ![c] = call] /\ SameCall(call, c) /\ call.pc = "storing"
              /\ call.sid = id /\ call.route = calls[c].route
  <2>1. PICK call : call = [calls[c] EXCEPT !.pc = "storing", !.sid = id]
    OBVIOUS
  <2>2. call \in CallType
    BY <1>1, <2>1 DEF CallType, Pcs, Entered
  <2>3. /\ call.tool = calls[c].tool /\ call.action = calls[c].action /\ call.pc = "storing"
        /\ call.sid = id /\ call.route = calls[c].route
    BY <1>1, <2>1 DEF CallType
  <2>4. calls' = [calls EXCEPT ![c] = call]
    BY <1>1, <1>4, <2>1 DEF Take
  <2> QED
    BY <2>2, <2>3, <2>4 DEF SameCall
<1>5. ASSUME NEW carries \in BOOLEAN, Send(c, carries)
      PROVE  \E call \in CallType :
              /\ calls' = [calls EXCEPT ![c] = call] /\ SameCall(call, c) /\ call.pc = "sending"
              /\ call.sid = calls[c].sid /\ call.route = calls[c].route
              /\ call.carries = carries
  <2>1. PICK call : call = [calls[c] EXCEPT !.pc = "sending", !.carries = carries]
    OBVIOUS
  <2>2. call \in CallType
    BY <1>1, <2>1 DEF CallType, Pcs, Entered, Sent
  <2>3. /\ call.tool = calls[c].tool /\ call.action = calls[c].action /\ call.pc = "sending"
        /\ call.sid = calls[c].sid /\ call.route = calls[c].route
        /\ call.carries = carries
    BY <1>1, <2>1 DEF CallType
  <2>4. calls' = [calls EXCEPT ![c] = call]
    BY <1>1, <1>5, <2>1 DEF Send
  <2> QED
    BY <2>2, <2>3, <2>4 DEF SameCall
<1> QED
  BY <1>2, <1>3, <1>4, <1>5

\* A call that is not under way at the simulator ends, or reads a new.
LEMMA RestStep ==
  ASSUME PlannerInv, NEW c \in DOMAIN calls, calls[c].pc \notin Sent,
         \/ Done(c)
         \/ calls[c].pc = "ready" /\ \E new \in Nat : Keeps(c, "asking", new),
         UNCHANGED <<chat, remote>>, session' \in SessionType, session'.executed = session.executed,
         ids' \in Nat, routes' \in Nat, db' \in Seq(StoredType)
  PROVE  PlannerInv'
<1>1. "done" \in Pcs /\ "asking" \in Pcs
  BY DEF Pcs
<1>2. CASE Done(c)
  <2>1. PICK call \in CallType :
          /\ calls' = [calls EXCEPT ![c] = call] /\ SameCall(call, c) /\ call.pc = "done"
          /\ call.sid = calls[c].sid /\ call.route = calls[c].route
    BY <1>1, <1>2, CallWritten DEF Done
  <2> QED
    BY <2>1, CallStep DEF Steady, Sent, Entered
<1>3. CASE calls[c].pc = "ready" /\ \E new \in Nat : Keeps(c, "asking", new)
  <2>1. PICK new \in Nat, call \in CallType :
          /\ calls' = [calls EXCEPT ![c] = call] /\ SameCall(call, c) /\ call.pc = "asking"
          /\ call.sid = calls[c].sid
    BY <1>1, <1>3, CallWritten
  <2>2. calls[c].sid = 0
    BY <1>3, InvKnown
  <2> QED
    BY <2>1, <2>2, CallStep DEF Steady, Sent, Entered
<1> QED
  BY <1>2, <1>3

\* What the state holds outside of the calls.
LEMMA StateKnown ==
  ASSUME PlannerInv
  PROVE  /\ session \in SessionType /\ ids \in Nat /\ routes \in Nat /\ invocation \in Nat
         /\ answered \in Nat /\ db \in Seq(StoredType) /\ races \in Seq(RaceType)
BY DEF PlannerInv, TypeOK

LEMMA PlanRouteLemma ==
  ASSUME PlannerInv, NEW c \in DOMAIN calls, PlanRoute(c) PROVE PlannerInv'
<1>1. calls[c].pc \notin Sent /\ Done(c) /\ UNCHANGED <<chat, remote, ids, db>>
  BY DEF PlanRoute, At, Sent, store
<1>2. routes' \in Nat /\ session' \in SessionType /\ session'.executed = session.executed
  <2>1. CASE UNCHANGED <<routes, session>>
    BY <2>1, StateKnown
  <2>2. CASE routes' = routes + 1 /\ session' = [session EXCEPT !.route = routes']
    <3>1. routes' \in Nat
      BY <2>2, StateKnown
    <3> QED
      BY <2>2, <3>1, StateKnown DEF SessionType
  <2> QED
    BY <2>1, <2>2 DEF PlanRoute
<1> QED
  BY <1>1, <1>2, StateKnown, RestStep

LEMMA ReadRouteLemma ==
  ASSUME PlannerInv, NEW c \in DOMAIN calls, ReadRoute(c) PROVE PlannerInv'
<1>1. /\ calls[c].pc = "ready" /\ UNCHANGED <<chat, remote, ids, routes, session, db>>
      /\ Done(c) \/ Keeps(c, "asking", session.route)
  BY DEF ReadRoute, At, store
<1>2. session.route \in Nat /\ calls[c].pc \notin Sent
  BY <1>1, StateKnown DEF SessionType, Sent
<1> QED
  BY <1>1, <1>2, StateKnown, RestStep

LEMMA AssessRouteLemma ==
  ASSUME PlannerInv, NEW c \in DOMAIN calls, AssessRoute(c) PROVE PlannerInv'
<1>1. calls[c].pc \notin Sent /\ Done(c) /\ UNCHANGED <<chat, remote, ids, routes, db>>
  BY DEF AssessRoute, At, Sent, store
<1>2. session' \in SessionType /\ session'.executed = session.executed
  <2>1. calls[c].route \in Nat
    BY InvKnown DEF CallType
  <2> QED
    BY <2>1, StateKnown DEF AssessRoute, SessionType
<1> QED
  BY <1>1, <1>2, StateKnown, RestStep

LEMMA EvaluateLemma ==
  ASSUME PlannerInv, NEW c \in DOMAIN calls, Evaluate(c) PROVE PlannerInv'
<1>1. calls[c].pc \notin Sent /\ Done(c) /\ UNCHANGED <<chat, remote, ids, routes, db>>
  BY DEF Evaluate, At, Sent, store
<1>2. session' \in SessionType /\ session'.executed = session.executed
  <2>1. PICK p \in Plans : \E e \in Evaluations(p, Judgements) :
          session' = [session EXCEPT !.evaluation = e, !.evaluated = calls[c].route]
    BY DEF Evaluate
  <2>2. PICK e \in Evaluations(p, Judgements) :
          session' = [session EXCEPT !.evaluation = e, !.evaluated = calls[c].route]
    BY <2>1
  <2>3. e \in AnyEvaluation /\ calls[c].route \in Nat
    BY InvKnown DEF AnyEvaluation, CallType
  <2> QED
    BY <2>2, <2>3, StateKnown DEF SessionType
<1> QED
  BY <1>1, <1>2, StateKnown, RestStep

LEMMA StoreRouteLemma ==
  ASSUME PlannerInv, NEW c \in DOMAIN calls, StoreRoute(c) PROVE PlannerInv'
<1>1. calls[c].pc \notin Sent /\ Done(c) /\ UNCHANGED <<chat, remote, ids, routes>>
  BY DEF StoreRoute, At, Sent
<1>2. db' \in Seq(StoredType) /\ session' \in SessionType /\ session'.executed = session.executed
  <2>1. CASE session.route = 0
    BY <2>1, StateKnown DEF StoreRoute
  <2>2. CASE session.route # 0
    <3>1. db' = Append(db, [route |-> session.route, evaluation |-> session.evaluation,
                            evaluated |-> session.evaluated])
      BY <2>2 DEF StoreRoute, Inserted
    <3>2. [route |-> session.route, evaluation |-> session.evaluation,
           evaluated |-> session.evaluated] \in StoredType
      BY StateKnown DEF SessionType, StoredType
    <3>3. db' \in Seq(StoredType) /\ Len(db') \in Nat
      BY <3>1, <3>2, StateKnown
    <3> QED
      BY <2>2, <3>3, StateKnown DEF StoreRoute, SessionType
  <2> QED
    BY <2>1, <2>2
<1> QED
  BY <1>1, <1>2, StateKnown, RestStep

LEMMA ActivateRouteLemma ==
  ASSUME PlannerInv, NEW c \in DOMAIN calls, ActivateRoute(c) PROVE PlannerInv'
<1>1. calls[c].pc \notin Sent /\ Done(c) /\ UNCHANGED <<chat, remote, ids, routes, db>>
  BY DEF ActivateRoute, At, Sent, store
<1>2. session' \in SessionType /\ session'.executed = session.executed
  <2>1. CASE UNCHANGED session
    BY <2>1, StateKnown
  <2>2. CASE \E id \in Existing :
          session' = [session EXCEPT
            !.route = db[id].route, !.active = id,
            !.evaluation = IF db[id].evaluation = NoValue THEN @ ELSE db[id].evaluation,
            !.evaluated = IF db[id].evaluation = NoValue THEN @ ELSE db[id].evaluated]
    <3>1. PICK id \in DOMAIN db :
          session' = [session EXCEPT
            !.route = db[id].route, !.active = id,
            !.evaluation = IF db[id].evaluation = NoValue THEN @ ELSE db[id].evaluation,
            !.evaluated = IF db[id].evaluation = NoValue THEN @ ELSE db[id].evaluated]
      BY <2>2 DEF Existing
    <3>2. id \in Nat /\ db[id] \in StoredType
      BY StateKnown
    <3> QED
      BY <3>1, <3>2, StateKnown DEF SessionType, StoredType
  <2> QED
    BY <2>1, <2>2 DEF ActivateRoute
<1> QED
  BY <1>1, <1>2, StateKnown, RestStep

LEMMA RecordSimulationLemma ==
  ASSUME PlannerInv, NEW c \in DOMAIN calls, RecordSimulation(c) PROVE PlannerInv'
<1>1. calls[c].pc \notin Sent /\ Done(c) /\ UNCHANGED <<chat, remote, ids, routes, db, session>>
  BY DEF RecordSimulation, At, Sent
<1> QED
  BY <1>1, StateKnown, RestStep

LEMMA StoreSummaryLemma ==
  ASSUME PlannerInv, NEW c \in DOMAIN calls, StoreSummary(c) PROVE PlannerInv'
<1>1. calls[c].pc \notin Sent /\ Done(c) /\ UNCHANGED <<chat, remote, ids, routes, db, session>>
  BY DEF StoreSummary, At, Sent
<1> QED
  BY <1>1, StateKnown, RestStep

\* A new id is positive, and the session stays well typed.
LEMMA FreshIsTyped ==
  ASSUME NEW s \in SessionType, NEW id \in Nat
  PROVE  Fresh(s, id) \in SessionType /\ Fresh(s, id).executed = s.executed
BY DEF Fresh, SessionType

LEMMA StartSimulationLemma ==
  ASSUME PlannerInv, NEW c \in DOMAIN calls, StartSimulation(c) PROVE PlannerInv'
<1>1. calls[c].pc \notin Sent /\ Done(c) /\ UNCHANGED <<chat, remote, routes, db>>
  BY DEF StartSimulation, At, Sent, store
<1>2. ids' \in Nat /\ session' \in SessionType /\ session'.executed = session.executed
  <2>1. CASE UNCHANGED <<session, ids>>
    BY <2>1, StateKnown
  <2>2. CASE ids' = ids + 1 /\ session' = Fresh(session, ids')
    <3>1. ids' \in Nat
      BY <2>2, StateKnown
    <3> QED
      BY <2>2, <3>1, StateKnown, FreshIsTyped
  <2> QED
    BY <2>1, <2>2 DEF StartSimulation
<1> QED
  BY <1>1, <1>2, StateKnown, RestStep

----------------------------------------------------------------------------
(* Submissions.                                                            *)

LEMMA EnterLemma ==
  ASSUME PlannerInv, NEW c \in DOMAIN calls, Enter(c) PROVE PlannerInv'
<1>1. /\ calls[c].pc = "ready" /\ calls[c].tool = "submit"
      /\ UNCHANGED <<chat, remote, ids, routes, session, db>>
  BY DEF Enter, At, store
<1>2. CASE Done(c)
  BY <1>1, <1>2, StateKnown, RestStep DEF Sent
<1>3. CASE ~Done(c)
  <2>1. /\ Keeps(c, "polling", session.route) /\ session.route # 0
        /\ ~Executes(c) \/ ~ExecutedHere
    BY <1>1, <1>3 DEF Enter, Executes
  <2>2. session.route \in Nat /\ "polling" \in Pcs /\ calls[c].sid = 0
    BY <1>1, StateKnown, InvKnown DEF SessionType, Pcs, Entered
  <2>3. PICK call \in CallType :
          /\ calls' = [calls EXCEPT ![c] = call] /\ SameCall(call, c) /\ call.pc = "polling"
          /\ call.sid = calls[c].sid /\ call.route = session.route
    BY <2>1, <2>2, CallWritten
  <2> QED
    BY <1>1, <2>1, <2>2, <2>3, StateKnown, CallStep DEF Steady, Sent, Entered
<1> QED
  BY <1>2, <1>3

\* A call of a submission gets its id.
LEMMA TakeLemma ==
  ASSUME PlannerInv, NEW c \in DOMAIN calls, NEW id \in Nat \ {0}, Take(c, id),
         calls[c].pc = "polling", UNCHANGED <<chat, remote, routes, db>>, ids' \in Nat,
         session' \in SessionType, session'.executed = session.executed
  PROVE  PlannerInv'
<1>1. calls[c].sid = 0 /\ calls[c].route # 0
  BY InvKnown
<1>2. PICK call \in CallType :
        /\ calls' = [calls EXCEPT ![c] = call] /\ SameCall(call, c) /\ call.pc = "storing"
        /\ call.sid = id /\ call.route = calls[c].route
  <2>1. "storing" \in Pcs
    BY DEF Pcs, Entered
  <2> QED
    BY <2>1, CallWritten
<1> QED
  BY <1>1, <1>2, StateKnown, CallStep DEF Steady, Sent, Entered

LEMMA AnnounceIsTyped ==
  ASSUME NEW s \in SessionType, NEW c, NEW id \in Nat
  PROVE  Announce(s, c, id) \in SessionType /\ Announce(s, c, id).executed = s.executed
BY DEF Announce, SessionType

LEMMA PollHitLemma ==
  ASSUME PlannerInv, NEW c \in DOMAIN calls, PollHit(c) PROVE PlannerInv'
<1>1. session.sid \in Nat \ {0}
  BY StateKnown DEF PollHit, Ready, SessionType
<1>2. /\ calls[c].pc = "polling" /\ Take(c, session.sid)
      /\ UNCHANGED <<chat, remote, ids, routes, db>>
      /\ session' = Announce(session, c, session.sid)
  BY DEF PollHit, At, store
<1>3. session' \in SessionType /\ session'.executed = session.executed
  BY <1>1, <1>2, StateKnown, AnnounceIsTyped
<1> QED
  BY <1>1, <1>2, <1>3, StateKnown, TakeLemma

LEMMA PollTimeoutLemma ==
  ASSUME PlannerInv, NEW c \in DOMAIN calls, PollTimeout(c) PROVE PlannerInv'
<1>1. calls[c].pc = "polling" /\ UNCHANGED <<chat, remote, routes, db>>
  BY DEF PollTimeout, At, store
<1>2. CASE session.sid # 0
  <2>1. /\ Take(c, session.sid) /\ session' = Announce(session, c, session.sid)
        /\ UNCHANGED ids /\ session.sid \in Nat \ {0}
    BY <1>2, StateKnown DEF PollTimeout, SessionType
  <2>2. session' \in SessionType /\ session'.executed = session.executed
    BY <2>1, StateKnown, AnnounceIsTyped
  <2> QED
    BY <1>1, <2>1, <2>2, StateKnown, TakeLemma
<1>3. CASE session.sid = 0 /\ calls[c].action = "execute"
  <2>1. CASE session.route = 0 \/ ExecutedHere
    <3>1. Done(c) /\ UNCHANGED <<session, ids>>
      BY <1>3, <2>1 DEF PollTimeout
    <3> QED
      BY <1>1, <3>1, StateKnown, RestStep DEF Sent
  <2>2. CASE ~(session.route = 0 \/ ExecutedHere)
    <3>1. ids' = ids + 1 /\ session' = Fresh(session, ids') /\ Take(c, ids')
      BY <1>3, <2>2 DEF PollTimeout
    <3>2. ids' \in Nat \ {0}
      BY <3>1, StateKnown
    <3>3. session' \in SessionType /\ session'.executed = session.executed
      BY <3>1, <3>2, StateKnown, FreshIsTyped
    <3> QED
      BY <1>1, <3>1, <3>2, <3>3, TakeLemma, StateKnown
  <2> QED
    BY <2>1, <2>2
<1>4. CASE session.sid = 0 /\ calls[c].action # "execute"
  <2>1. ids' = ids + 1 /\ session' = [session EXCEPT !.sid = ids'] /\ Take(c, ids')
    BY <1>4 DEF PollTimeout
  <2>2. ids' \in Nat \ {0}
    BY <2>1, StateKnown
  <2>3. session' \in SessionType /\ session'.executed = session.executed
    BY <2>1, <2>2, StateKnown DEF SessionType
  <2> QED
    BY <1>1, <2>1, <2>2, <2>3, TakeLemma, StateKnown
<1> QED
  BY <1>2, <1>3, <1>4

\* A submitted route in Redis is that of the call that wrote it; what other calls
\* have under the same id is replaced by the route of a call of this response.
LEMMA StoreDataLemma ==
  ASSUME PlannerInv, NEW c \in DOMAIN calls, StoreData(c) PROVE PlannerInv'
<1>1. /\ calls[c].pc = "storing" /\ UNCHANGED <<chat, session, ids, routes, db, locked, races>>
  BY DEF StoreData, At, store
<1>2. CASE UNCHANGED simdata /\ Send(c, TRUE)
  <2>1. PICK call \in CallType :
          /\ calls' = [calls EXCEPT ![c] = call] /\ SameCall(call, c) /\ call.pc = "sending"
          /\ call.sid = calls[c].sid /\ call.route = calls[c].route
          /\ call.carries = TRUE
    BY <1>2, CallWritten DEF Pcs
  <2>2. UNCHANGED remote
    BY <1>1, <1>2 DEF remote
  <2>3. calls[c].sid # 0 /\ calls[c].route # 0
    BY <1>1, InvKnown
  <2> QED
    BY <1>1, <2>1, <2>2, <2>3, StateKnown, CallStep DEF Steady, Sent, Entered
<1>3. CASE simdata' = WithData(calls[c].sid, calls[c].route) /\ Send(c, FALSE)
  <2>1. PICK call \in CallType :
          /\ calls' = [calls EXCEPT ![c] = call] /\ SameCall(call, c) /\ call.pc = "sending"
          /\ call.sid = calls[c].sid /\ call.route = calls[c].route
          /\ ~call.carries
    BY <1>3, CallWritten DEF Pcs
  <2>2. calls[c].sid \in Nat \ {0} /\ calls[c].route \in Nat \ {0}
    BY <1>1, InvKnown DEF CallType
  <2>3. /\ DOMAIN calls' = DOMAIN calls /\ calls'[c] = call
        /\ \A d \in DOMAIN calls \ {c} : calls'[d] = calls[d]
        /\ calls' \in [DOMAIN calls' -> CallType]
    BY <2>1, CallsAfter
  <2>4. UNCHANGED <<invocation, answered>>
    BY <1>1 DEF chat
  <2>5. /\ DOMAIN simdata' = DOMAIN simdata \cup {calls[c].sid}
        /\ simdata'[calls[c].sid] = calls[c].route
        /\ \A i \in DOMAIN simdata \ {calls[c].sid} : simdata'[i] = simdata[i]
        /\ simdata' \in [DOMAIN simdata' -> Nat \ {0}] /\ DOMAIN simdata' \subseteq Nat
    <3>1. simdata \in [DOMAIN simdata -> Nat \ {0}] /\ DOMAIN simdata \subseteq Nat
      BY DEF PlannerInv, TypeOK
    <3> QED
      BY <1>3, <2>2, <3>1 DEF WithData
  <2>6. TypeOK'
    BY <1>1, <2>3, <2>4, <2>5, StateKnown DEF TypeOK
  <2>7. Submitted(calls[c].sid)'
    BY <2>1, <2>3, <2>5 DEF Submitted
  <2>8. ASSUME NEW sid, Submitted(sid) PROVE Submitted(sid)'
    <3>1. CASE sid = calls[c].sid
      BY <2>1, <2>3, <2>5, <3>1 DEF Submitted
    <3>2. CASE sid # calls[c].sid
      <4>1. PICK d \in DOMAIN calls : calls[d].sid = sid /\ calls[d].route = simdata[sid]
        BY <2>8 DEF Submitted
      <4>2. d # c
        BY <3>2, <4>1
      <4> QED
        BY <2>3, <2>5, <2>8, <3>2, <4>1, <4>2 DEF Submitted
    <3> QED
      BY <3>1, <3>2
  <2>9. CallsInv'
    <3>1. ASSUME NEW d \in DOMAIN calls', calls'[d].pc \in Sent, ~calls'[d].carries
          PROVE  Submitted(calls[d].sid)' /\ calls'[d].sid = calls[d].sid
      <4>1. CASE d = c
        BY <2>1, <2>3, <2>7, <4>1
      <4>2. CASE d # c
        BY <2>3, <2>8, <3>1, <4>2, InvKnown
      <4> QED
        BY <4>1, <4>2
    <3>2. ASSUME NEW d \in DOMAIN calls'
          PROVE  /\ calls'[d].pc \in {"ready", "polling"} => calls'[d].sid = 0
                 /\ calls'[d].pc = "polling" => calls'[d].route # 0
                 /\ calls'[d].pc \in Sent \cup {"storing"} =>
                      calls'[d].sid # 0 /\ calls'[d].route # 0
      <4>1. CASE d = c
        BY <2>1, <2>2, <2>3, <4>1
      <4>2. CASE d # c
        BY <2>3, <4>2, InvKnown
      <4> QED
        BY <4>1, <4>2
    <3> QED
      BY <3>1, <3>2 DEF CallsInv
  <2>10. LocksInv'
    BY <1>1, LocksKept
  <2>11. MarksInv'
    BY <1>1, <2>1, <2>4, MarksKept DEF Sent, Entered
  <2>12. RaceRunsSubmittedRoute'
    BY <1>1 DEF PlannerInv, RaceRunsSubmittedRoute
  <2> QED
    BY <2>6, <2>9, <2>10, <2>11, <2>12 DEF PlannerInv
<1> QED
  BY <1>2, <1>3 DEF StoreData

\* A call that failed gives up or is sent again, and keeps its id and its route.
LEMMA LoseLemma ==
  ASSUME PlannerInv, NEW c \in DOMAIN calls, Lose(c) PROVE PlannerInv'
<1>1. /\ calls[c].pc \in Sent /\ UNCHANGED <<chat, session, ids, routes, db, remote>>
  BY DEF Lose, At, Sent, store
<1>2. PICK call \in Retried(calls[c]) : calls' = [calls EXCEPT ![c] = call]
  BY DEF Lose
<1>3. calls[c] \in CallType /\ calls[c].sid # 0 /\ calls[c].route # 0
  BY <1>1, InvKnown
<1>4. /\ call \in CallType /\ call.pc \in {"failed", "sending"} /\ SameCall(call, c)
      /\ call.sid = calls[c].sid /\ call.route = calls[c].route /\ call.carries = calls[c].carries
  <2>1. CASE call = [calls[c] EXCEPT !.pc = "failed", !.race = 0]
    BY <1>3, <2>1 DEF CallType, SameCall, Pcs, Entered, Sent
  <2>2. CASE call = [calls[c] EXCEPT !.pc = "sending", !.tries = @ + 1, !.race = 0]
    <3>1. calls[c].tries + 1 \in Nat /\ "sending" \in Pcs
      BY <1>3 DEF CallType, Pcs, Entered, Sent
    <3>2. call = [calls[c] EXCEPT !.pc = "sending", !.tries = calls[c].tries + 1, !.race = 0]
      BY <1>3, <2>2 DEF CallType
    <3> QED
      BY <1>3, <3>1, <3>2 DEF CallType, SameCall
  <2> QED
    BY <1>2, <2>1, <2>2 DEF Retried
<1>5. call.pc \in Sent /\ call.pc \notin {"ready", "polling", "storing"}
  BY <1>4 DEF Sent
<1>6. calls[c].pc \in Entered
  BY <1>1 DEF Entered
<1> QED
  BY <1>1, <1>2, <1>3, <1>4, <1>5, <1>6, StateKnown, CallStep DEF Steady

\* The mark is made in the step in which the call leaves.
LEMMA FinishLemma ==
  ASSUME PlannerInv, NEW c \in DOMAIN calls, Finish(c) PROVE PlannerInv'
<1>1. /\ calls[c].pc \in Sent /\ Done(c) /\ UNCHANGED <<chat, ids, routes, db, remote>>
  BY DEF Finish, At, Sent, store
<1>2. UNCHANGED <<invocation, answered, simdata, locked, races>>
  BY <1>1 DEF chat, remote
<1>3. PICK call \in CallType :
        /\ calls' = [calls EXCEPT ![c] = call] /\ SameCall(call, c) /\ call.pc = "done"
        /\ call.sid = calls[c].sid /\ call.route = calls[c].route
  BY <1>1, CallWritten DEF Done, Pcs
<1>4. /\ session' \in SessionType
      /\ calls[c].action = "execute" => session'.executed = invocation
      /\ session.executed = invocation => session'.executed = invocation
  <2>1. Answer(calls[c]) \in [ok : BOOLEAN, race : Nat]
    BY InvKnown DEF Answer, CallType
  <2>2. session' = [session EXCEPT !.result = Answer(calls[c]),
                      !.executed = IF calls[c].action = "execute" THEN invocation ELSE @]
    BY DEF Finish
  <2> QED
    BY <2>1, <2>2, StateKnown DEF SessionType
<1>5. TypeOK'
  BY <1>1, <1>2, <1>3, <1>4, CallsAfter DEF PlannerInv, TypeOK
<1>6. CallsInv'
  BY <1>2, <1>3, CallsKept DEF Steady, Sent
<1>7. LocksInv'
  BY <1>2, LocksKept
<1>8. MarksInv'
  BY <1>2, <1>3, <1>4, MarksKept DEF Executes, Entered, Sent
<1>9. RaceRunsSubmittedRoute'
  BY <1>2 DEF PlannerInv, RaceRunsSubmittedRoute
<1> QED
  BY <1>5, <1>6, <1>7, <1>8, <1>9 DEF PlannerInv

----------------------------------------------------------------------------
(* The executor.                                                           *)

\* What a race is when it begins.
LEMMA RaceBegins ==
  ASSUME PlannerInv, NEW c \in DOMAIN calls, calls[c].pc = "sending",
         NEW u \in BOOLEAN, NEW b \in BOOLEAN
  PROVE  /\ Race(c, u, b) \in RaceType
         /\ Race(c, u, b).sid = calls[c].sid /\ Race(c, u, b).action = calls[c].action
         /\ Race(c, u, b).invocation = invocation /\ Race(c, u, b).response = answered
         /\ ~Race(c, u, b).over /\ Race(c, u, b).unguarded = u
         /\ Race(c, u, b).reliable => Race(c, u, b).route \in Race(c, u, b).sent
<1>1. calls \in [DOMAIN calls -> CallType] /\ calls[c].sid # 0 /\ calls[c].route # 0
  BY InvKnown DEF PlannerInv, TypeOK, Sent
<1>2. simdata \in [DOMAIN simdata -> Nat \ {0}] /\ invocation \in Nat /\ answered \in Nat
  BY DEF PlannerInv, TypeOK
<1> DEFINE sent == {calls[d].route : d \in {e \in DOMAIN calls : calls[e].sid = calls[c].sid}}
<1> DEFINE new == IF Stored(calls[c].sid) # 0 /\ ~b THEN Stored(calls[c].sid)
                    ELSE IF calls[c].carries THEN calls[c].route ELSE 0
<1> DEFINE reliable == ~b /\ ~calls[c].carries
<1>3. sent \in SUBSET Nat
  BY <1>1 DEF CallType
<1>4. new \in Nat
  BY <1>1, <1>2 DEF CallType, Stored
<1>5. ASSUME reliable PROVE new \in sent
  <2>1. Submitted(calls[c].sid)
    BY <1>5, InvKnown DEF Sent
  <2>2. PICK d \in DOMAIN calls :
          calls[d].sid = calls[c].sid /\ calls[d].route = simdata[calls[c].sid]
    BY <2>1 DEF Submitted
  <2>3. Stored(calls[c].sid) = simdata[calls[c].sid] /\ Stored(calls[c].sid) # 0
    BY <1>2, <2>1 DEF Submitted, Stored
  <2> QED
    BY <1>5, <2>2, <2>3
<1>6. Race(c, u, b) =
        [sid |-> calls[c].sid, action |-> calls[c].action, invocation |-> invocation,
         response |-> answered, over |-> FALSE, unguarded |-> u, reliable |-> reliable,
         sent |-> sent, route |-> new]
  BY DEF Race
<1>7. calls[c].sid \in Nat /\ calls[c].action \in STRING /\ reliable \in BOOLEAN
  BY <1>1 DEF CallType
<1> HIDE DEF sent, new, reliable
<1> QED
  BY <1>2, <1>3, <1>4, <1>5, <1>6, <1>7 DEF RaceType

\* What Run does to the races and the calls.
LEMMA RunWritten ==
  ASSUME PlannerInv, NEW c \in DOMAIN calls, calls[c].pc = "sending",
         NEW u \in BOOLEAN, NEW b \in BOOLEAN, Run(c, u, b)
  PROVE  /\ races' \in Seq(RaceType) /\ DOMAIN races' = DOMAIN races \cup {Len(races) + 1}
         /\ Len(races) + 1 \notin DOMAIN races
         /\ \A k \in DOMAIN races : races'[k] = races[k]
         /\ races'[Len(races) + 1] = Race(c, u, b)
         /\ \E call \in CallType :
              /\ calls' = [calls EXCEPT ![c] = call] /\ SameCall(call, c) /\ call.pc = "waiting"
              /\ call.sid = calls[c].sid /\ call.route = calls[c].route
              /\ call.carries = calls[c].carries
<1>1. races \in Seq(RaceType) /\ Race(c, u, b) \in RaceType
  BY StateKnown, RaceBegins
<1>2. races' = Append(races, Race(c, u, b)) /\ Len(races') \in Nat
  BY <1>1 DEF Run
<1>3. PICK call : call = [calls[c] EXCEPT !.pc = "waiting", !.race = Len(races')]
  OBVIOUS
<1>4. calls' = [calls EXCEPT ![c] = call]
  BY <1>3, InvKnown DEF Run, CallType
<1>5. /\ call \in CallType /\ SameCall(call, c) /\ call.pc = "waiting"
      /\ call.sid = calls[c].sid /\ call.route = calls[c].route
      /\ call.carries = calls[c].carries
  BY <1>2, <1>3, InvKnown DEF CallType, SameCall, Pcs, Entered, Sent
<1>6. /\ races' \in Seq(RaceType) /\ DOMAIN races' = DOMAIN races \cup {Len(races) + 1}
      /\ Len(races) + 1 \notin DOMAIN races
      /\ \A k \in DOMAIN races : races'[k] = races[k]
      /\ races'[Len(races) + 1] = Race(c, u, b)
  BY <1>1, <1>2
<1> QED
  BY <1>4, <1>5, <1>6

\* A request runs: under the lock, which it takes, or past it.
LEMMA RunStep ==
  ASSUME PlannerInv, NEW c \in DOMAIN calls, At(c, "submit", "sending"),
         NEW u \in BOOLEAN, NEW b \in BOOLEAN, Run(c, u, b),
         UNCHANGED <<chat, session, ids, routes, db, simdata>>,
         \/ u /\ UNCHANGED locked
         \/ ~u /\ calls[c].sid \notin locked /\ locked' = locked \cup {calls[c].sid}
  PROVE  PlannerInv'
<1>1. calls[c].pc = "sending" /\ calls[c].tool = "submit" /\ calls[c].pc \in Sent
  BY DEF At, Sent
<1>2. UNCHANGED <<invocation, answered>>
  BY DEF chat
<1> DEFINE n == Len(races) + 1
<1>3. /\ races' \in Seq(RaceType) /\ DOMAIN races' = DOMAIN races \cup {n}
      /\ n \notin DOMAIN races
      /\ \A k \in DOMAIN races : races'[k] = races[k]
      /\ races'[n] = Race(c, u, b)
  BY <1>1, RunWritten
<1>4. PICK call \in CallType :
        /\ calls' = [calls EXCEPT ![c] = call] /\ SameCall(call, c) /\ call.pc = "waiting"
        /\ call.sid = calls[c].sid /\ call.route = calls[c].route
        /\ call.carries = calls[c].carries
  BY <1>1, RunWritten
<1>5. PICK r \in RaceType : r = Race(c, u, b)
  BY <1>1, RaceBegins
<1>6. /\ r.sid = calls[c].sid /\ r.action = calls[c].action
      /\ r.invocation = invocation /\ r.response = answered
      /\ ~r.over /\ r.unguarded = u
      /\ r.reliable => r.route \in r.sent
  BY <1>1, <1>5, RaceBegins
<1>7. PICK m : m = n
  OBVIOUS
<1>8. /\ DOMAIN races' = DOMAIN races \cup {m} /\ m \notin DOMAIN races /\ races'[m] = r
      /\ \A k \in DOMAIN races : races'[k] = races[k]
  BY <1>3, <1>5, <1>7
<1> HIDE DEF n
<1>9. /\ DOMAIN calls' = DOMAIN calls /\ calls'[c] = call
      /\ \A d \in DOMAIN calls \ {c} : calls'[d] = calls[d]
      /\ calls' \in [DOMAIN calls' -> CallType]
  BY <1>4, CallsAfter
<1>10. TypeOK'
  BY <1>2, <1>3, <1>9 DEF PlannerInv, TypeOK
<1>11. CallsInv'
  <2>1. calls[c].sid # 0 /\ calls[c].route # 0
    BY <1>1, InvKnown
  <2> QED
    BY <1>1, <1>4, <2>1, CallsKept DEF Steady, Sent
<1>12. LocksInv'
  <2>1. ASSUME NEW k \in DOMAIN races', ~races'[k].over, ~races'[k].unguarded
        PROVE  races'[k].sid \in locked'
    <3>1. CASE k = m
      <4>1. ~u
        BY <1>6, <1>8, <2>1, <3>1
      <4> QED
        BY <1>6, <1>8, <3>1, <4>1
    <3>2. CASE k # m
      <4>1. races[k].sid \in locked /\ races'[k] = races[k]
        BY <1>8, <2>1, <3>2 DEF PlannerInv, LocksInv
      <4> QED
        BY <4>1
    <3> QED
      BY <3>1, <3>2
  <2>2. ASSUME NEW j \in DOMAIN races, ~races[j].over, ~races[j].unguarded, ~u
        PROVE  races[j].sid # r.sid
    BY <1>6, <2>2 DEF PlannerInv, LocksInv
  <2>3. ASSUME NEW j \in DOMAIN races', NEW k \in DOMAIN races',
               races'[j].sid = races'[k].sid, ~races'[j].over, ~races'[k].over,
               ~races'[j].unguarded, ~races'[k].unguarded
        PROVE  j = k
    <3>1. CASE j = m \/ k = m
      <4>1. ~u
        BY <1>6, <1>8, <2>3, <3>1
      <4>2. CASE j # m
        BY <1>8, <2>2, <2>3, <3>1, <4>1, <4>2
      <4>3. CASE k # m
        BY <1>8, <2>2, <2>3, <3>1, <4>1, <4>3
      <4> QED
        BY <4>2, <4>3
    <3>2. CASE j # m /\ k # m
      BY <1>8, <2>3, <3>2 DEF PlannerInv, LocksInv, OneRaceAtATime
    <3> QED
      BY <3>1, <3>2
  <2> QED
    BY <2>1, <2>3 DEF LocksInv, OneRaceAtATime
<1>13. /\ Executions' \subseteq Executions \cup {m}
       /\ m \in Executions' => Executes(c)
       /\ Executions \subseteq DOMAIN races
  BY <1>1, <1>6, <1>8 DEF Executions, Executes
<1>14. invocation \in Nat /\ answered \in Nat
  BY StateKnown
<1>15. ASSUME NEW d \in DOMAIN calls
       PROVE  (Executes(d)' <=> Executes(d)) /\ (calls'[d].pc \in Sent <=> calls[d].pc \in Sent)
              /\ (calls'[d].pc \in Entered <=> calls[d].pc \in Entered)
  BY <1>1, <1>4, <1>9 DEF Executes, SameCall, Entered, Sent
<1>16. MarksInv'
  <2>1. ASSUME NEW k \in DOMAIN races'
        PROVE  /\ races'[k].invocation <= invocation
               /\ races'[k].invocation = invocation => races'[k].response <= answered
    <3>1. CASE k = m
      BY <1>6, <1>8, <1>14, <3>1
    <3>2. CASE k # m
      BY <1>8, <3>2 DEF PlannerInv, MarksInv
    <3> QED
      BY <3>1, <3>2
  <2>2. ASSUME NEW k \in Executions', races'[k].invocation = invocation
        PROVE  /\ races'[k].response < answered => ExecutedHere'
               /\ ExecutedHere' \/ \E d \in DOMAIN calls' : Executes(d)' /\ calls'[d].pc \in Sent
    <3>1. CASE k = m
      <4>1. Executes(c)' /\ calls'[c].pc \in Sent /\ c \in DOMAIN calls'
        BY <1>1, <1>9, <1>13, <1>15, <2>2, <3>1
      <4>2. ~(races'[k].response < answered)
        BY <1>6, <1>8, <1>14, <3>1
      <4> QED
        BY <4>1, <4>2
    <3>2. CASE k # m
      <4>1. k \in Executions /\ races[k].invocation = invocation /\ races'[k] = races[k]
        BY <1>8, <1>13, <2>2, <3>2
      <4>2. ExecutedHere' <=> ExecutedHere
        BY <1>2 DEF ExecutedHere
      <4>3. /\ races[k].response < answered => ExecutedHere
            /\ ExecutedHere \/ \E d \in DOMAIN calls : Executes(d) /\ calls[d].pc \in Sent
        BY <4>1 DEF PlannerInv, MarksInv
      <4> QED
        BY <1>9, <1>15, <4>1, <4>2, <4>3
    <3> QED
      BY <3>1, <3>2
  <2>3. ASSUME NEW k \in Executions, races[k].invocation = invocation, Executes(c)
        PROVE  races[k].response = answered
    <3>1. calls[c].pc \in Entered
      BY <1>1 DEF Entered
    <3> QED
      BY <2>3, <3>1 DEF PlannerInv, MarksInv
  <2>4. ASSUME NEW d \in DOMAIN calls', Executes(d)', calls'[d].pc \in Entered,
               NEW k \in Executions', races'[k].invocation = invocation
        PROVE  races'[k].response = answered
    <3>1. CASE k = m
      BY <1>6, <1>8, <3>1
    <3>2. CASE k # m
      <4>1. k \in Executions /\ races[k].invocation = invocation /\ races'[k] = races[k]
        BY <1>8, <1>13, <2>4, <3>2
      <4>2. d \in DOMAIN calls /\ Executes(d) /\ calls[d].pc \in Entered
        BY <1>9, <1>15, <2>4
      <4> QED
        BY <4>1, <4>2 DEF PlannerInv, MarksInv
    <3> QED
      BY <3>1, <3>2
  <2>5. ASSUME NEW j \in Executions', NEW k \in Executions',
               races'[j].invocation = races'[k].invocation
        PROVE  races'[j].response = races'[k].response
    <3>1. CASE j # m /\ k # m
      BY <1>8, <1>13, <2>5, <3>1 DEF PlannerInv, MarksInv, RacesOfOneResponse
    <3>2. CASE j = m /\ k # m
      BY <1>6, <1>8, <1>13, <2>3, <2>5, <3>2
    <3>3. CASE j # m /\ k = m
      BY <1>6, <1>8, <1>13, <2>3, <2>5, <3>3
    <3> QED
      BY <3>1, <3>2, <3>3
  <2> QED
    BY <1>2, <2>1, <2>2, <2>4, <2>5 DEF MarksInv, RacesOfOneResponse
<1>17. RaceRunsSubmittedRoute'
  <2>1. ASSUME NEW k \in DOMAIN races', races'[k].reliable
        PROVE  races'[k].route \in races'[k].sent
    <3>1. CASE k = m
      BY <1>6, <1>8, <2>1, <3>1
    <3>2. CASE k # m
      BY <1>8, <2>1, <3>2 DEF PlannerInv, RaceRunsSubmittedRoute
    <3> QED
      BY <3>1, <3>2
  <2> QED
    BY <2>1 DEF RaceRunsSubmittedRoute
<1> QED
  BY <1>10, <1>11, <1>12, <1>16, <1>17 DEF PlannerInv

LEMMA ArriveLemma ==
  ASSUME PlannerInv, NEW c \in DOMAIN calls, Arrive(c) PROVE PlannerInv'
<1>1. /\ At(c, "submit", "sending") /\ UNCHANGED <<chat, session, ids, routes, db, simdata>>
  BY DEF Arrive, store
<1>2. CASE Goes(c, "replying") /\ UNCHANGED <<locked, races>>
  <2>1. PICK call \in CallType :
          /\ calls' = [calls EXCEPT ![c] = call] /\ SameCall(call, c) /\ call.pc = "replying"
          /\ call.sid = calls[c].sid /\ call.route = calls[c].route
          /\ call.carries = calls[c].carries
    <3>1. "replying" \in Pcs
      BY DEF Pcs, Entered, Sent
    <3> QED
      BY <1>2, <3>1, CallWritten
  <2>2. calls[c].pc \in Sent /\ calls[c].sid # 0 /\ calls[c].route # 0 /\ UNCHANGED remote
    BY <1>1, <1>2, InvKnown DEF At, Sent, remote
  <2>3. call.pc \in Sent /\ calls[c].pc \in Entered /\ call.pc \notin {"ready", "polling"}
    BY <2>1, <2>2 DEF Sent, Entered
  <2> QED
    BY <1>1, <2>1, <2>2, <2>3, StateKnown, CallStep DEF Steady
<1>3. CASE calls[c].sid \notin locked /\ locked' = locked \cup {calls[c].sid}
           /\ (Run(c, FALSE, FALSE) \/ Run(c, FALSE, TRUE))
  BY <1>1, <1>3, RunStep
<1>4. CASE UNCHANGED locked /\ Run(c, TRUE, FALSE)
  BY <1>1, <1>4, RunStep
<1> QED
  BY <1>2, <1>3, <1>4 DEF Arrive

\* A race that ends sets those free that wait for it; they stay at the simulator.
LEMMA EndRaceLemma ==
  ASSUME PlannerInv, NEW k \in DOMAIN races, EndRace(k) PROVE PlannerInv'
<1>1. UNCHANGED <<invocation, answered, session, ids, routes, db, simdata, locked>>
  BY DEF EndRace, chat, store
<1>2. /\ DOMAIN calls' = DOMAIN calls
      /\ calls' \in [DOMAIN calls' -> CallType]
      /\ \A c \in DOMAIN calls :
           /\ calls'[c].tool = calls[c].tool /\ calls'[c].action = calls[c].action
           /\ calls'[c].sid = calls[c].sid /\ calls'[c].route = calls[c].route
           /\ calls'[c].carries = calls[c].carries
           /\ \/ calls'[c].pc = calls[c].pc
              \/ calls[c].pc = "waiting" /\ calls'[c].pc = "replying"
  <2>1. calls' = [c \in DOMAIN calls |->
                    IF calls[c].pc = "waiting" /\ calls[c].race = k
                      THEN [calls[c] EXCEPT !.pc = "replying"] ELSE calls[c]]
    BY DEF EndRace
  <2>2. "replying" \in Pcs
    BY DEF Pcs, Entered, Sent
  <2>3. ASSUME NEW c \in DOMAIN calls
        PROVE  /\ calls'[c] \in CallType
               /\ calls'[c].tool = calls[c].tool /\ calls'[c].action = calls[c].action
               /\ calls'[c].sid = calls[c].sid /\ calls'[c].route = calls[c].route
               /\ calls'[c].carries = calls[c].carries
               /\ \/ calls'[c].pc = calls[c].pc
                  \/ calls[c].pc = "waiting" /\ calls'[c].pc = "replying"
    <3>1. calls[c] \in CallType
      BY InvKnown
    <3>2. CASE calls[c].pc = "waiting" /\ calls[c].race = k
      <4>1. calls'[c] = [calls[c] EXCEPT !.pc = "replying"]
        BY <2>1, <3>2
      <4> QED
        BY <2>2, <3>1, <3>2, <4>1 DEF CallType
    <3>3. CASE ~(calls[c].pc = "waiting" /\ calls[c].race = k)
      BY <2>1, <3>1, <3>3
    <3> QED
      BY <3>2, <3>3
  <2>4. DOMAIN calls' = DOMAIN calls
    BY <2>1
  <2>5. calls' = [c \in DOMAIN calls' |-> calls'[c]]
    BY <2>1
  <2> QED
    BY <2>3, <2>4, <2>5
<1>3. PICK r : r = [races[k] EXCEPT !.over = TRUE]
  OBVIOUS
<1>4. /\ r \in RaceType /\ r.over
      /\ r.sid = races[k].sid /\ r.action = races[k].action /\ r.invocation = races[k].invocation
      /\ r.response = races[k].response /\ r.unguarded = races[k].unguarded
      /\ r.reliable = races[k].reliable /\ r.route = races[k].route /\ r.sent = races[k].sent
  BY <1>3, RaceKnown DEF RaceType
<1>5. /\ races' \in Seq(RaceType) /\ DOMAIN races' = DOMAIN races /\ races'[k] = r
      /\ \A j \in DOMAIN races \ {k} : races'[j] = races[j]
  <2>1. races' = [races EXCEPT ![k] = r]
    BY <1>3, StateKnown DEF EndRace
  <2> QED
    BY <1>4, <2>1, StateKnown
<1>6. ASSUME NEW j \in DOMAIN races'
      PROVE  /\ j \in DOMAIN races /\ (races[j].over => races'[j].over)
             /\ races'[j].sid = races[j].sid /\ races'[j].action = races[j].action
             /\ races'[j].invocation = races[j].invocation
             /\ races'[j].response = races[j].response
             /\ races'[j].unguarded = races[j].unguarded
             /\ races'[j].reliable = races[j].reliable
             /\ races'[j].route = races[j].route /\ races'[j].sent = races[j].sent
  <2>1. CASE j = k
    BY <1>4, <1>5, <2>1
  <2>2. CASE j # k
    BY <1>5, <2>2
  <2> QED
    BY <2>1, <2>2
<1>7. TypeOK'
  BY <1>1, <1>2, <1>5 DEF PlannerInv, TypeOK
<1>8. CallsInv'
  <2>1. ASSUME NEW sid, Submitted(sid) PROVE Submitted(sid)'
    BY <1>1, <1>2, <2>1 DEF Submitted
  <2>2. ASSUME NEW c \in DOMAIN calls', calls'[c].pc \in Sent, ~calls'[c].carries
        PROVE  Submitted(calls[c].sid)' /\ calls'[c].sid = calls[c].sid
    <3>1. calls[c].pc \in Sent /\ ~calls[c].carries /\ c \in DOMAIN calls
      BY <1>2, <2>2 DEF Sent
    <3> QED
      BY <1>2, <2>1, <3>1, InvKnown
  <2>3. ASSUME NEW c \in DOMAIN calls'
        PROVE  /\ calls'[c].pc \in {"ready", "polling"} => calls'[c].sid = 0
               /\ calls'[c].pc = "polling" => calls'[c].route # 0
               /\ calls'[c].pc \in Sent \cup {"storing"} =>
                    calls'[c].sid # 0 /\ calls'[c].route # 0
    BY <1>2, InvKnown DEF Sent
  <2> QED
    BY <2>2, <2>3 DEF CallsInv
<1>9. LocksInv'
  BY <1>1, <1>6 DEF PlannerInv, LocksInv, OneRaceAtATime
<1>10. MarksInv'
  <2>1. Executions' = Executions
    BY <1>5, <1>6 DEF Executions
  <2>2. ASSUME NEW c \in DOMAIN calls
        PROVE  /\ Executes(c)' <=> Executes(c)
               /\ calls'[c].pc \in Sent <=> calls[c].pc \in Sent
               /\ calls'[c].pc \in Entered <=> calls[c].pc \in Entered
    BY <1>2 DEF Executes, Entered, Sent
  <2>3. (ExecutedHere' <=> ExecutedHere) /\ Executions \subseteq DOMAIN races
    BY <1>1 DEF ExecutedHere, Executions
  <2>4. ASSUME NEW j \in DOMAIN races'
        PROVE  /\ races'[j].invocation <= invocation
               /\ races'[j].invocation = invocation => races'[j].response <= answered
    BY <1>6 DEF PlannerInv, MarksInv
  <2>5. ASSUME NEW j \in Executions, races'[j].invocation = invocation
        PROVE  /\ races'[j].response < answered => ExecutedHere'
               /\ ExecutedHere' \/ \E c \in DOMAIN calls' : Executes(c)' /\ calls'[c].pc \in Sent
    <3>1. /\ races[j].response < answered => ExecutedHere
          /\ ExecutedHere \/ \E c \in DOMAIN calls : Executes(c) /\ calls[c].pc \in Sent
      BY <1>5, <1>6, <2>3, <2>5 DEF PlannerInv, MarksInv
    <3> QED
      BY <1>2, <1>5, <1>6, <2>2, <2>3, <3>1
  <2>6. ASSUME NEW c \in DOMAIN calls', Executes(c)', calls'[c].pc \in Entered,
               NEW j \in Executions, races'[j].invocation = invocation
        PROVE  races'[j].response = answered
    <3>1. c \in DOMAIN calls /\ Executes(c) /\ calls[c].pc \in Entered
      BY <1>2, <2>2, <2>6
    <3> QED
      BY <1>5, <1>6, <2>3, <2>6, <3>1 DEF PlannerInv, MarksInv
  <2>7. RacesOfOneResponse'
    BY <1>5, <1>6, <2>1, <2>3 DEF PlannerInv, MarksInv, RacesOfOneResponse
  <2> QED
    BY <1>1, <2>1, <2>4, <2>5, <2>6, <2>7 DEF MarksInv
<1>11. RaceRunsSubmittedRoute'
  BY <1>5, <1>6 DEF PlannerInv, RaceRunsSubmittedRoute
<1> QED
  BY <1>7, <1>8, <1>9, <1>10, <1>11 DEF PlannerInv

LEMMA ExpireLemma ==
  ASSUME PlannerInv, NEW id \in locked, Expire(id) PROVE PlannerInv'
<1>1. UNCHANGED <<invocation, answered, session, calls, ids, routes, db, simdata, races>>
  BY DEF Expire, chat, store
<1>2. LocksInv'
  BY <1>1 DEF Expire, PlannerInv, LocksInv, OneRaceAtATime
<1>3. TypeOK' /\ CallsInv' /\ RaceRunsSubmittedRoute'
  BY <1>1 DEF PlannerInv, TypeOK, CallsInv, Submitted, RaceRunsSubmittedRoute
<1>4. MarksInv'
  BY <1>1 DEF PlannerInv, MarksInv, ExecutedHere, Executes, Executions, RacesOfOneResponse
<1> QED
  BY <1>2, <1>3, <1>4 DEF PlannerInv

----------------------------------------------------------------------------
(* Responses and messages.                                                 *)

\* Once nothing is under way, an execution of this invocation has been marked.
LEMMA IdleIsMarked ==
  ASSUME PlannerInv, Idle, NEW k \in Executions, races[k].invocation = invocation
  PROVE  ExecutedHere
<1>1. ExecutedHere \/ \E c \in DOMAIN calls : Executes(c) /\ calls[c].pc \in Sent
  BY DEF PlannerInv, MarksInv
<1> QED
  BY <1>1 DEF Idle, Sent

LEMMA RespondLemma ==
  ASSUME PlannerInv, Respond PROVE PlannerInv'
<1>1. /\ UNCHANGED <<invocation, session, ids, routes, db, simdata, locked, races>>
      /\ answered' = answered + 1
  BY DEF Respond, store, remote
<1>2. /\ calls' \in [DOMAIN calls' -> CallType]
      /\ \A c \in DOMAIN calls' : calls'[c].pc = "ready" /\ calls'[c].sid = 0
  <2>1. PICK r \in Responses :
          calls' = [c \in DOMAIN r |-> [tool |-> r[c].tool, action |-> r[c].action,
                                        pc |-> "ready", route |-> 0, sid |-> 0, race |-> 0,
                                        tries |-> 0, carries |-> FALSE]]
    BY DEF Respond
  <2>2. r \in Seq([tool : STRING, action : STRING])
    BY PlannerAssumption
  <2>3. ASSUME NEW c \in DOMAIN r PROVE r[c].tool \in STRING /\ r[c].action \in STRING
    <3> DEFINE T == [tool : STRING, action : STRING]
    <3>1. r \in Seq(T) /\ c \in DOMAIN r
      BY <2>2, <2>3
    <3>2. r[c] \in T
      <4> HIDE DEF T
      <4> QED
        BY <3>1
    <3> QED
      BY <3>2
  <2>4. "ready" \in Pcs
    BY DEF Pcs
  <2>5. ASSUME NEW c \in DOMAIN calls'
        PROVE calls'[c] \in CallType /\ calls'[c].pc = "ready" /\ calls'[c].sid = 0
    BY <2>1, <2>3, <2>4 DEF CallType
  <2>6. calls' = [c \in DOMAIN calls' |-> calls'[c]]
    BY <2>1
  <2> QED
    BY <2>5, <2>6
<1>3. TypeOK'
  BY <1>1, <1>2 DEF PlannerInv, TypeOK
<1>4. CallsInv'
  BY <1>2 DEF CallsInv, Sent
<1>5. LocksInv'
  BY <1>1, LocksKept
<1>6. RaceRunsSubmittedRoute'
  BY <1>1 DEF PlannerInv, RaceRunsSubmittedRoute
<1>7. MarksInv'
  <2>1. Executions' = Executions /\ (ExecutedHere' <=> ExecutedHere)
    BY <1>1 DEF Executions, ExecutedHere
  <2>2. \A c \in DOMAIN calls' : calls'[c].pc \notin Entered
    BY <1>2 DEF Entered, Sent
  <2>3. \A k \in Executions : races[k].invocation = invocation => ExecutedHere
    BY IdleIsMarked DEF Respond
  <2>4. ASSUME NEW k \in DOMAIN races
        PROVE  /\ races[k].invocation <= invocation
               /\ races[k].invocation = invocation => races[k].response <= answered + 1
    <3>1. races[k].response \in Nat /\ answered \in Nat
      BY RaceKnown, StateKnown DEF RaceType
    <3> QED
      BY <3>1 DEF PlannerInv, MarksInv
  <2>5. RacesOfOneResponse'
    BY <1>1, <2>1 DEF PlannerInv, MarksInv, RacesOfOneResponse
  <2> QED
    BY <1>1, <2>1, <2>2, <2>3, <2>4, <2>5 DEF MarksInv
<1> QED
  BY <1>3, <1>4, <1>5, <1>6, <1>7 DEF PlannerInv

LEMMA MessageLemma ==
  ASSUME PlannerInv, Message PROVE PlannerInv'
<1>1. /\ UNCHANGED <<session, ids, routes, db, simdata, locked, races>>
      /\ invocation' = invocation + 1 /\ answered' = 0 /\ calls' = <<>>
  BY DEF Message, store, remote
<1>2. DOMAIN calls' = {} /\ calls' \in [{} -> CallType]
  BY <1>1
<1>3. TypeOK'
  BY <1>1, <1>2 DEF PlannerInv, TypeOK
<1>4. CallsInv'
  BY <1>2 DEF CallsInv
<1>5. LocksInv'
  BY <1>1, LocksKept
<1>6. RaceRunsSubmittedRoute'
  BY <1>1 DEF PlannerInv, RaceRunsSubmittedRoute
<1>7. MarksInv'
  <2>1. Executions' = Executions /\ Executions \subseteq DOMAIN races
    BY <1>1 DEF Executions
  <2>2. ASSUME NEW k \in DOMAIN races
        PROVE  races[k].invocation <= invocation + 1 /\ races[k].invocation # invocation + 1
    <3>1. races[k].invocation \in Nat /\ invocation \in Nat /\ races[k].invocation <= invocation
      BY RaceKnown, StateKnown DEF RaceType, PlannerInv, MarksInv
    <3> QED
      BY <3>1
  <2>3. RacesOfOneResponse'
    BY <1>1, <2>1 DEF PlannerInv, MarksInv, RacesOfOneResponse
  <2> QED
    BY <1>1, <1>2, <2>1, <2>2, <2>3 DEF MarksInv
<1> QED
  BY <1>3, <1>4, <1>5, <1>6, <1>7 DEF PlannerInv

----------------------------------------------------------------------------

LEMMA InitLemma == PlannerInit => PlannerInv
<1> SUFFICES ASSUME PlannerInit PROVE PlannerInv
  OBVIOUS
<1>1. NoSession \in SessionType
  BY DEF NoSession, SessionType, AnyEvaluation
<1>2. TypeOK
  <2>1. calls \in [DOMAIN calls -> CallType] /\ simdata \in [DOMAIN simdata -> Nat \ {0}]
        /\ DOMAIN simdata = {} /\ db \in Seq(StoredType) /\ races \in Seq(RaceType)
    BY DEF PlannerInit
  <2> QED
    BY <1>1, <2>1 DEF PlannerInit, TypeOK
<1>3. DOMAIN calls = {} /\ DOMAIN races = {}
  BY DEF PlannerInit
<1> QED
  BY <1>2, <1>3 DEF PlannerInv, CallsInv, LocksInv, OneRaceAtATime, MarksInv, Executions,
                    RacesOfOneResponse, RaceRunsSubmittedRoute

LEMMA NextLemma == PlannerInv /\ [PlannerNext]_plannerVars => PlannerInv'
<1> SUFFICES ASSUME PlannerInv, [PlannerNext]_plannerVars PROVE PlannerInv'
  OBVIOUS
<1>1. CASE Respond
  BY <1>1, RespondLemma
<1>2. CASE Message
  BY <1>2, MessageLemma
<1>3. ASSUME NEW c \in DOMAIN calls, PlanRoute(c) PROVE PlannerInv'
  BY <1>3, PlanRouteLemma
<1>4. ASSUME NEW c \in DOMAIN calls, ReadRoute(c) PROVE PlannerInv'
  BY <1>4, ReadRouteLemma
<1>5. ASSUME NEW c \in DOMAIN calls, AssessRoute(c) PROVE PlannerInv'
  BY <1>5, AssessRouteLemma
<1>6. ASSUME NEW c \in DOMAIN calls, Evaluate(c) PROVE PlannerInv'
  BY <1>6, EvaluateLemma
<1>7. ASSUME NEW c \in DOMAIN calls, StoreRoute(c) PROVE PlannerInv'
  BY <1>7, StoreRouteLemma
<1>8. ASSUME NEW c \in DOMAIN calls, ActivateRoute(c) PROVE PlannerInv'
  BY <1>8, ActivateRouteLemma
<1>9. ASSUME NEW c \in DOMAIN calls, RecordSimulation(c) PROVE PlannerInv'
  BY <1>9, RecordSimulationLemma
<1>10. ASSUME NEW c \in DOMAIN calls, StoreSummary(c) PROVE PlannerInv'
  BY <1>10, StoreSummaryLemma
<1>11. ASSUME NEW c \in DOMAIN calls, StartSimulation(c) PROVE PlannerInv'
  BY <1>11, StartSimulationLemma
<1>12. ASSUME NEW c \in DOMAIN calls, Enter(c) PROVE PlannerInv'
  BY <1>12, EnterLemma
<1>13. ASSUME NEW c \in DOMAIN calls, PollHit(c) PROVE PlannerInv'
  BY <1>13, PollHitLemma
<1>14. ASSUME NEW c \in DOMAIN calls, PollTimeout(c) PROVE PlannerInv'
  BY <1>14, PollTimeoutLemma
<1>15. ASSUME NEW c \in DOMAIN calls, StoreData(c) PROVE PlannerInv'
  BY <1>15, StoreDataLemma
<1>16. ASSUME NEW c \in DOMAIN calls, Arrive(c) PROVE PlannerInv'
  BY <1>16, ArriveLemma
<1>17. ASSUME NEW c \in DOMAIN calls, Lose(c) PROVE PlannerInv'
  BY <1>17, LoseLemma
<1>18. ASSUME NEW c \in DOMAIN calls, Finish(c) PROVE PlannerInv'
  BY <1>18, FinishLemma
<1>19. ASSUME NEW k \in DOMAIN races, EndRace(k) PROVE PlannerInv'
  BY <1>19, EndRaceLemma
<1>20. ASSUME NEW id \in locked, Expire(id) PROVE PlannerInv'
  BY <1>20, ExpireLemma
<1>21. CASE UNCHANGED plannerVars
  BY <1>21 DEF plannerVars, store, remote, PlannerInv, TypeOK, CallsInv, Submitted, LocksInv,
     OneRaceAtATime, MarksInv, ExecutedHere, Executes, Executions, RacesOfOneResponse,
     RaceRunsSubmittedRoute
<1> QED
  BY <1>1, <1>2, <1>3, <1>4, <1>5, <1>6, <1>7, <1>8, <1>9, <1>10, <1>11, <1>12, <1>13, <1>14,
     <1>15, <1>16, <1>17, <1>18, <1>19, <1>20, <1>21 DEF PlannerNext

LEMMA AlwaysPlannerInv == PlannerSpec => []PlannerInv
<1>1. PlannerInit => PlannerInv
  BY InitLemma
<1>2. PlannerInv /\ [PlannerNext]_plannerVars => PlannerInv'
  BY NextLemma
<1> QED
  BY <1>1, <1>2, PTL DEF PlannerSpec

----------------------------------------------------------------------------
(* What the planner guarantees.                                            *)

\* The session, the calls, the stored routes and the races keep their types:
\* no id or route of a submission is ever missing where one is read.
THEOREM TypeCorrect == PlannerSpec => []TypeOK
<1>1. PlannerInv => TypeOK
  BY DEF PlannerInv
<1> QED
  BY <1>1, AlwaysPlannerInv, PTL

\* However many calls submit, retry, lose their replies or meet an expired lock,
\* no two races of one session that took their lock run at a time.
THEOREM RacesNeverOverlap == PlannerSpec => []OneRaceAtATime
<1>1. PlannerInv => OneRaceAtATime
  BY DEF PlannerInv, LocksInv
<1> QED
  BY <1>1, AlwaysPlannerInv, PTL

\* Within one message of the user all executions are of one response.
THEOREM ExecutionsOfOneResponse == PlannerSpec => []RacesOfOneResponse
<1>1. PlannerInv => RacesOfOneResponse
  BY DEF PlannerInv, MarksInv
<1> QED
  BY <1>1, AlwaysPlannerInv, PTL

\* The simulator runs the route that a call of the same response has submitted.
THEOREM RacesRunSubmittedRoutes == PlannerSpec => []RaceRunsSubmittedRoute
<1>1. PlannerInv => RaceRunsSubmittedRoute
  BY DEF PlannerInv
<1> QED
  BY <1>1, AlwaysPlannerInv, PTL

\* No plan that the fallback has passed, in the session or in the database, is
\* unsafe or of a wrong distance, whatever plans there are.
THEOREM PassedIsAlwaysSafe == PlannerSpec => []PassedIsSafe
<1>1. PlannerInv => PassedIsSafe
  <2> SUFFICES ASSUME PlannerInv,
                      NEW e \in {session.evaluation} \cup {db[i].evaluation : i \in DOMAIN db},
                      e # NoValue, e.method = "heuristic", e.passed
               PROVE  ~WrongDistance(e.plan) /\ ~Unsafe(e.plan)
    BY DEF PassedIsSafe
  <2>1. session.evaluation \in AnyEvaluation
    BY StateKnown DEF SessionType
  <2>2. \A i \in DOMAIN db : db[i].evaluation \in AnyEvaluation
    <3>1. \A i \in DOMAIN db : db[i] \in StoredType
      BY StateKnown
    <3> QED
      BY <3>1 DEF StoredType
  <2>3. e \in AnyEvaluation
    BY <2>1, <2>2
  <2> QED
    BY <2>3, PassedIsSafeLemma
<1> QED
  BY <1>1, AlwaysPlannerInv, PTL
=============================================================================
