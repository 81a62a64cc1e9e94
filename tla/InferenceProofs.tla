--------------------------- MODULE InferenceProofs ---------------------------
(***************************************************************************)
(* Proofs about Inference: for networks of any size, any parameters and    *)
(* features and any number of fractional bits, what the kernel computes is *)
(* as close to the network that was trained as the rounding allows, and so *)
(* is the label it prints.                                                 *)
(***************************************************************************)
EXTENDS Inference, WellFoundedInduction, TLAPS

(* Induction on numbers, with a set for the property. *)

LEMMA LeastNumber ==
  ASSUME NEW S, S \subseteq Nat, S # {}
  PROVE  \E m \in S : \A n \in S : m <= n
  <1> DEFINE R == OpToRel(<, Nat)
  <1>1. IsWellFoundedOn(R, Nat)
    BY NatLessThanWellFounded
  <1>2. \A n, m \in Nat : n < m => <<n, m>> \in R
    BY DEF OpToRel
  <1> HIDE DEF R
  <1>3. PICK m \in S : \A n \in S : <<n, m>> \notin R
    BY <1>1, WFMin
  <1>4. \A n \in S : ~(n < m)
    BY <1>2, <1>3
  <1> QED
    BY <1>4

LEMMA Induction ==
  ASSUME NEW S, 0 \in S, \A n \in Nat : n \in S => n + 1 \in S
  PROVE  Nat \subseteq S
  <1> SUFFICES ASSUME Nat \ S # {} PROVE FALSE
    OBVIOUS
  <1>1. PICK m \in Nat \ S : \A n \in Nat \ S : m <= n
    BY LeastNumber
  <1>2. m # 0 /\ m - 1 \in Nat /\ m - 1 \notin Nat \ S
    BY <1>1
  <1> QED
    BY <1>2

\* What a recursive function on 0 .. n computes exists: step is what it does at each place.
LEMMA Recursion ==
  ASSUME NEW n \in Nat, NEW base \in Int, NEW step \in [0 .. n - 1 -> [Int -> Int]]
  PROVE  \E f \in [0 .. n -> Int] :
           f[0] = base /\ \A j \in 1 .. n : f[j] = step[j - 1][f[j - 1]]
  <1> DEFINE Upto(f, k) == /\ f \in [0 .. k -> Int] /\ f[0] = base
                           /\ \A j \in 1 .. k : f[j] = step[j - 1][f[j - 1]]
             S == {k \in Nat : k <= n => \E f : Upto(f, k)}
  <1>1. \E f : Upto(f, 0)
    <2> DEFINE f == [j \in 0 .. 0 |-> base]
    <2>1. Upto(f, 0)
      OBVIOUS
    <2> QED
      BY <2>1
  <1>2. ASSUME NEW k \in Nat, NEW f, Upto(f, k), k + 1 <= n PROVE \E g : Upto(g, k + 1)
    <2> DEFINE g == [j \in 0 .. k + 1 |-> IF j = k + 1 THEN step[k][f[k]] ELSE f[j]]
    <2>1. k \in 0 .. n - 1 /\ k \in 0 .. k /\ f[k] \in Int
      BY <1>2
    <2>2. step[k][f[k]] \in Int
      BY <2>1
    <2>3. g \in [0 .. k + 1 -> Int]
      BY <1>2, <2>2
    <2>4. g[0] = base /\ g[k + 1] = step[k][g[k]]
      BY <1>2, <2>1
    <2>5. ASSUME NEW j \in 1 .. k PROVE g[j] = step[j - 1][g[j - 1]]
      <3>1. f[j] = step[j - 1][f[j - 1]]
        BY <1>2
      <3>2. g[j] = f[j] /\ g[j - 1] = f[j - 1]
        BY <2>5
      <3> QED
        BY <3>1, <3>2
    <2> HIDE DEF g
    <2>6. ASSUME NEW j \in 1 .. k + 1 PROVE g[j] = step[j - 1][g[j - 1]]
      <3>1. CASE j = k + 1
        <4>1. j - 1 = k
          BY <3>1
        <4> QED
          BY <2>4, <3>1, <4>1
      <3>2. CASE j # k + 1
        <4>1. j \in 1 .. k
          BY <3>2
        <4> QED
          BY <2>5, <4>1
      <3> QED
        BY <3>1, <3>2
    <2>7. Upto(g, k + 1)
      BY <2>3, <2>4, <2>6
    <2> HIDE DEF Upto
    <2> QED
      BY <2>7
  <1> HIDE DEF Upto
  <1>3. ASSUME NEW k \in Nat, k \in S PROVE k + 1 \in S
    BY <1>2, <1>3
  <1>4. 0 \in S /\ \A k \in Nat : k \in S => k + 1 \in S
    BY <1>1, <1>3
  <1>5. n \in S
    <2> HIDE DEF S
    <2> QED
      BY <1>4, Induction
  <1>6. \E f : Upto(f, n)
    BY <1>5
  <1> QED
    BY <1>6 DEF Upto

\* s is the sum of the elements of v on the way.
Partial(s, v, n) ==
  s \in [0 .. n -> Int] /\ s[0] = 0 /\ \A j \in 1 .. n : s[j] = s[j - 1] + v[j - 1]

\* Sum adds up the elements from the first on.
LEMMA SumIs ==
  ASSUME NEW n \in Nat, NEW v \in [0 .. n - 1 -> Int]
  PROVE  \E s : Partial(s, v, n) /\ Sum(v, n) = s[n]
  <1> DEFINE sum[j \in 0 .. n] == IF j = 0 THEN 0 ELSE sum[j - 1] + v[j - 1]
             Adds(f) == f = [j \in 0 .. n |-> IF j = 0 THEN 0 ELSE f[j - 1] + v[j - 1]]
             step == [j \in 0 .. n - 1 |-> [z \in Int |-> z + v[j]]]
  <1>1. step \in [0 .. n - 1 -> [Int -> Int]]
    OBVIOUS
  <1>2. PICK s \in [0 .. n -> Int] :
          s[0] = 0 /\ \A j \in 1 .. n : s[j] = step[j - 1][s[j - 1]]
    <2> HIDE DEF step
    <2>1. 0 \in Int
      OBVIOUS
    <2> QED
      BY <1>1, <2>1, Recursion
  <1>3. ASSUME NEW j \in 1 .. n PROVE s[j] = s[j - 1] + v[j - 1]
    <2>1. j - 1 \in 0 .. n - 1 /\ s[j - 1] \in Int
      OBVIOUS
    <2> QED
      BY <1>2, <2>1
  <1>4. Adds(s)
    BY <1>2, <1>3
  <1>5. Adds(sum)
    BY <1>4, Zenon
  <1> DEFINE t == sum
  <1>6. Sum(v, n) = t[n]
    BY DEF Sum
  <1>7. Adds(t)
    BY <1>5
  <1> HIDE DEF t
  <1>8. t = s
    <2> DEFINE S == {j \in Nat : j <= n => t[j] = s[j]}
    <2>1. 0 \in S
      BY <1>2, <1>7
    <2>2. ASSUME NEW j \in Nat, j \in S, j + 1 <= n PROVE t[j + 1] = s[j + 1]
      <3>1. j + 1 \in 1 .. n /\ (j + 1) - 1 = j
        BY <2>2
      <3>2. t[j + 1] = t[j] + v[j]
        BY <1>7, <3>1
      <3>3. s[j + 1] = s[j] + v[j]
        BY <1>3, <3>1
      <3> QED
        BY <2>2, <3>2, <3>3
    <2>3. \A j \in Nat : j \in S => j + 1 \in S
      BY <2>2
    <2>4. Nat \subseteq S
      <3> HIDE DEF S
      <3> QED
        BY <2>1, <2>3, Induction
    <2>5. \A j \in 0 .. n : t[j] = s[j]
      BY <2>4
    <2> QED
      BY <1>4, <1>7, <2>5
  <1>9. Partial(s, v, n)
    BY <1>2, <1>3 DEF Partial
  <1> QED
    BY <1>6, <1>8, <1>9

-----------------------------------------------------------------------------
(* C's integers, rounding and the sums of a layer. *)

LEMMA Ranges ==
  ASSUME NEW z \in Int
  PROVE  /\ int32(z) \in -Half32 .. Half32 - 1 /\ int64(z) \in -Half64 .. Half64 - 1
         /\ int32(z) \in Int /\ int64(z) \in Int /\ uint64(z) \in Nat
         /\ z \in -Half32 .. Half32 - 1 => int32(z) = z
         /\ z \in -Half64 .. Half64 - 1 => int64(z) = z
         /\ z \in 0 .. 2 * Half64 - 1 => uint64(z) = z
  BY FixedPointAssumption DEF int32, int64, uint64

\* The place of an element of a matrix in its array.
LEMMA MatrixIndex ==
  ASSUME NEW M \in Nat, NEW N \in Nat, NEW i \in 0 .. M - 1, NEW j \in 0 .. N - 1
  PROVE  /\ i * N + j \in 0 .. M * N - 1
         /\ (i * N + j) \div N = i /\ (i * N + j) % N = j
  <1>1. N \in Nat \ {0} /\ i \in Nat /\ i + 1 <= M
    OBVIOUS
  <1>2. (i + 1) * N <= M * N
    <2>1. \A a, b, c \in Nat : a <= b => a * c <= b * c
      OBVIOUS
    <2> QED
      BY <1>1, <2>1
  <1>3. i * N \in Nat /\ (i + 1) * N = i * N + N /\ M * N \in Nat
    BY <1>1
  <1>4. i * N + j \in 0 .. M * N - 1
    BY <1>2, <1>3
  <1>5. (i * N + j) \div N = i /\ (i * N + j) % N = j
    BY <1>1, <1>3
  <1> QED
    BY <1>4, <1>5

\* p is the products that a layer adds up for the row that begins at place k of W.
Products(p, W, y, k, N) ==
  p \in [0 .. N - 1 -> Int] /\ \A j \in 0 .. N - 1 : p[j] = W[k + j] * y[j]

\* s is the sum of the products on the way, in an int64_t.
Accumulates(s, p, N) ==
  s \in [0 .. N -> Int] /\ s[0] = 0 /\ \A j \in 1 .. N : s[j] = int64(s[j - 1] + p[j - 1])

\* What linear_layer computes for row i: an int64_t sum, that may wrap around.
LEMMA LinearIs ==
  ASSUME NEW M \in Nat, NEW N \in Nat, NEW i \in 0 .. M - 1, NEW W, NEW y, NEW p,
         NEW k \in Int, k = i * N, Products(p, W, y, k, N)
  PROVE  \E s : Accumulates(s, p, N) /\ linear_layer(W, y, M, N)[i] = int32(s[N] \div One)
  <1> DEFINE sum[j \in 0 .. N] ==
               IF j = 0 THEN 0 ELSE int64(sum[j - 1] + W[i * N + j - 1] * y[j - 1])
             Adds(f) == f = [j \in 0 .. N |->
               IF j = 0 THEN 0 ELSE int64(f[j - 1] + W[i * N + j - 1] * y[j - 1])]
             step == [j \in 0 .. N - 1 |-> [z \in Int |-> int64(z + p[j])]]
  <1>0. p \in [0 .. N - 1 -> Int] /\ \A j \in 0 .. N - 1 : p[j] = W[k + j] * y[j]
    BY DEF Products
  <1>1. step \in [0 .. N - 1 -> [Int -> Int]]
    <2>1. ASSUME NEW j \in 0 .. N - 1, NEW z \in Int PROVE int64(z + p[j]) \in Int
      <3>1. p[j] \in Int /\ z + p[j] \in Int
        BY <1>0
      <3> QED
        BY <3>1, Ranges
    <2> QED
      BY <2>1
  <1>2. PICK s \in [0 .. N -> Int] :
          s[0] = 0 /\ \A j \in 1 .. N : s[j] = step[j - 1][s[j - 1]]
    <2> HIDE DEF step
    <2>1. 0 \in Int
      OBVIOUS
    <2> QED
      BY <1>1, <2>1, Recursion
  <1>3. ASSUME NEW j \in 1 .. N
        PROVE  /\ s[j] = int64(s[j - 1] + p[j - 1])
               /\ W[i * N + j - 1] * y[j - 1] = p[j - 1]
    <2>1. j - 1 \in 0 .. N - 1 /\ s[j - 1] \in Int
      OBVIOUS
    <2>2. s[j] = int64(s[j - 1] + p[j - 1])
      BY <1>2, <2>1
    <2>3. i * N + j - 1 = k + (j - 1)
      OBVIOUS
    <2> QED
      BY <1>0, <2>1, <2>2, <2>3
  <1> HIDE DEF step
  <1>4. Adds(s)
    <2>1. ASSUME NEW j \in 0 .. N
          PROVE s[j] = IF j = 0 THEN 0 ELSE int64(s[j - 1] + W[i * N + j - 1] * y[j - 1])
      BY <1>2, <1>3
    <2> QED
      BY <2>1
  <1>5. Adds(sum)
    BY <1>4, Zenon
  <1> DEFINE t == sum
  <1>6. linear_layer(W, y, M, N)[i] = int32(t[N] \div One)
    BY DEF linear_layer
  <1>7. Adds(t)
    BY <1>5
  <1> HIDE DEF t
  <1>8. t = s
    <2>0. ASSUME NEW j \in 1 .. N PROVE t[j] = int64(t[j - 1] + p[j - 1])
      <3>1. t[j] = int64(t[j - 1] + W[i * N + j - 1] * y[j - 1])
        BY <1>7
      <3> QED
        BY <1>3, <3>1
    <2> DEFINE S == {j \in Nat : j <= N => t[j] = s[j]}
    <2>1. 0 \in S
      BY <1>2, <1>7
    <2>2. ASSUME NEW j \in Nat, j \in S, j + 1 <= N PROVE t[j + 1] = s[j + 1]
      <3>1. j + 1 \in 1 .. N /\ (j + 1) - 1 = j
        BY <2>2
      <3>2. t[j + 1] = int64(t[j] + p[j])
        BY <2>0, <3>1
      <3>3. s[j + 1] = int64(s[j] + p[j])
        BY <1>3, <3>1
      <3> QED
        BY <2>2, <3>2, <3>3
    <2>3. \A j \in Nat : j \in S => j + 1 \in S
      BY <2>2
    <2>4. Nat \subseteq S
      <3> HIDE DEF S
      <3> QED
        BY <2>1, <2>3, Induction
    <2>5. \A j \in 0 .. N : t[j] = s[j]
      BY <2>4
    <2> QED
      BY <1>4, <1>7, <2>5
  <1>9. Accumulates(s, p, N)
    BY <1>2, <1>3 DEF Accumulates
  <1> QED
    BY <1>6, <1>8, <1>9

LEMMA LinearTyped ==
  ASSUME NEW M \in Nat, NEW N \in Nat, NEW W \in [0 .. M * N - 1 -> Int], NEW y,
         \A j \in 0 .. N - 1 : y[j] \in Int
  PROVE  linear_layer(W, y, M, N) \in Vec(M, -Half32 .. Half32 - 1)
  <1>1. ASSUME NEW i \in 0 .. M - 1
        PROVE  linear_layer(W, y, M, N)[i] \in -Half32 .. Half32 - 1
    <2>k. PICK k \in Int : k = i * N
      OBVIOUS
    <2> DEFINE p == [j \in 0 .. N - 1 |-> W[k + j] * y[j]]
    <2>1. \A j \in 0 .. N - 1 : W[k + j] \in Int
      BY <2>k, MatrixIndex
    <2>2. p \in [0 .. N - 1 -> Int]
      <3>1. \A j \in 0 .. N - 1 : W[k + j] * y[j] \in Int
        BY <2>1
      <3> QED
        BY <3>1
    <2>3. Products(p, W, y, k, N)
      BY <2>2 DEF Products
    <2> HIDE DEF p
    <2>5. PICK s : Accumulates(s, p, N) /\ linear_layer(W, y, M, N)[i] = int32(s[N] \div One)
      BY <2>k, <2>3, LinearIs
    <2>6. s[N] \div One \in Int
      <3>1. s[N] \in Int
        BY <2>5 DEF Accumulates
      <3> QED
        BY <3>1, FixedPointAssumption
    <2> QED
      BY <2>5, <2>6, Ranges
  <1>2. linear_layer(W, y, M, N) = [i \in 0 .. M - 1 |-> linear_layer(W, y, M, N)[i]]
    BY DEF linear_layer
  <1> QED
    BY <1>1, <1>2 DEF Vec

-----------------------------------------------------------------------------
(* Arithmetic of errors. *)

\* z is at most c away from 0.
Within(z, c) == -c <= z /\ z <= c

LEMMA Monotone ==
  /\ \A u \in Nat, a, b \in Int : a <= b => u * a <= u * b
  /\ \A u \in Nat \ {0}, a, b \in Int : u * a <= u * b => a <= b
  /\ \A u \in Nat \ {0}, a, b \in Int : u * a < u * b => a < b
  OBVIOUS

LEMMA Distributes ==
  \A a, b, c \in Int : /\ a * (b + c) = a * b + a * c /\ a * (b - c) = a * b - a * c
                       /\ a * (b * c) = (a * b) * c /\ a * b = b * a
                       /\ a * (-b) = -(a * b)
  OBVIOUS

LEMMA AbsIs ==
  ASSUME NEW z \in Int
  PROVE  Abs(z) \in Nat /\ Within(z, Abs(z)) /\ (Abs(z) = z \/ Abs(z) = -z)
  BY DEF Abs, Within

LEMMA AbsWithin ==
  ASSUME NEW z \in Int, NEW c \in Int
  PROVE  Within(z, c) <=> Abs(z) <= c
  BY DEF Abs, Within

\* An error is multiplied.
LEMMA ProductWithin ==
  ASSUME NEW a \in Int, NEW z \in Int, NEW c \in Int, Within(z, c)
  PROVE  Within(a * z, Abs(a) * c)
  <1>1. -c <= z /\ z <= c
    BY DEF Within
  <1>2. CASE a >= 0
    <2>1. a * (-c) <= a * z /\ a * z <= a * c
      BY <1>1, <1>2, Monotone
    <2>2. a * (-c) = -(a * c) /\ Abs(a) = a
      BY <1>2 DEF Abs
    <2> QED
      BY <2>1, <2>2 DEF Within
  <1>3. CASE a < 0
    <2> DEFINE b == -a
    <2>1. b \in Nat /\ a = -b /\ Abs(a) = b
      BY <1>3 DEF Abs
    <2> HIDE DEF b
    <2>2. b * (-c) <= b * z /\ b * z <= b * c
      BY <1>1, <2>1, Monotone
    <2>3. b * (-c) = -(b * c) /\ a * z = -(b * z)
      BY <2>1
    <2>4. b * c \in Int /\ b * z \in Int
      BY <2>1
    <2> QED
      BY <2>1, <2>2, <2>3, <2>4 DEF Within
  <1> QED
    BY <1>2, <1>3

LEMMA SumWithin ==
  ASSUME NEW a \in Int, NEW b \in Int, NEW c \in Int, NEW d \in Int, Within(a, c), Within(b, d)
  PROVE  Within(a + b, c + d)
  BY DEF Within

\* The greatest number whose multiple of d is not greater than a.
LEMMA QuotientBounds ==
  ASSUME NEW a \in Int, NEW d \in Nat \ {0}
  PROVE  /\ a \div d \in Int /\ a % d \in 0 .. d - 1 /\ a = d * (a \div d) + (a % d)
         /\ \A z \in Int : z * d <= a => z <= a \div d
         /\ a >= 0 => a \div d \in Nat
  <1> DEFINE q == a \div d
             r == a % d
  <1>1. q \in Int /\ r \in 0 .. d - 1 /\ a = d * q + r
    OBVIOUS
  <1> HIDE DEF q, r
  <1>2. ASSUME NEW z \in Int, z * d <= a PROVE z <= q
    <2>1. d * z = z * d /\ d * (q + 1) = d * q + d /\ d * q \in Int
      BY <1>1
    <2>2. d * z < d * (q + 1)
      BY <1>1, <1>2, <2>1
    <2> QED
      BY <1>1, <2>2, Monotone
  <1>3. a >= 0 => q \in Nat
    <2>1. 0 * d = 0
      OBVIOUS
    <2> QED
      BY <1>1, <1>2, <2>1
  <1> QED
    BY <1>1, <1>2, <1>3 DEF q, r

\* A number that rounds is off by half a unit at most.
LEMMA RoundIs ==
  ASSUME NEW num \in Int, NEW den \in Nat \ {0}
  PROVE  Round(num, den) \in Int /\ Within(2 * (den * Round(num, den) - num), den)
  <1> DEFINE q == num \div den
             r == num % den
             z == Round(num, den)
  <1>1. q \in Int /\ r \in 0 .. den - 1 /\ num = den * q + r
    BY QuotientBounds
  <1>2. z = IF 2 * r < den \/ (2 * r = den /\ q % 2 = 0) THEN q ELSE q + 1
    BY DEF Round
  <1> HIDE DEF q, r, z
  <1>3. CASE 2 * r < den \/ (2 * r = den /\ q % 2 = 0)
    <2>1. z = q /\ 2 * r <= den
      BY <1>1, <1>2, <1>3
    <2>2. den * z - num = -r
      BY <1>1, <2>1
    <2> QED
      BY <1>1, <2>1, <2>2 DEF z, Within
  <1>4. CASE ~(2 * r < den \/ (2 * r = den /\ q % 2 = 0))
    <2>1. z = q + 1 /\ 2 * r >= den
      BY <1>1, <1>2, <1>4
    <2>2. den * (q + 1) = den * q + den /\ den * q \in Int
      BY <1>1
    <2>3. den * z - num = den - r
      BY <1>1, <2>1, <2>2
    <2> QED
      BY <1>1, <2>1, <2>3 DEF z, Within
  <1> QED
    BY <1>3, <1>4

\* Half of a whole number, rounded, is off by half if the number is odd.
LEMMA HalfIs ==
  ASSUME NEW h \in Int
  PROVE  /\ Round(h, 2) \in Int /\ Off(h) \in 0 .. 1 /\ Within(2 * Round(h, 2) - h, Off(h))
         /\ h \in Nat => Round(h, 2) \in Nat
  BY DEF Round, Off, Within

-----------------------------------------------------------------------------
(* Errors of sums. *)

\* One more summand.
LEMMA PartialNext ==
  ASSUME NEW n \in Nat, NEW v \in [0 .. n - 1 -> Int], NEW s, Partial(s, v, n),
         NEW j \in Nat, j + 1 <= n
  PROVE  /\ j \in 0 .. n - 1 /\ s[j] \in Int /\ v[j] \in Int /\ s[j + 1] \in Int
         /\ s[j + 1] = s[j] + v[j]
  <1>1. j + 1 \in 1 .. n /\ (j + 1) - 1 = j /\ j \in 0 .. n - 1 /\ j \in 0 .. n
    OBVIOUS
  <1> QED
    BY <1>1 DEF Partial

LEMMA SumTyped ==
  ASSUME NEW n \in Nat, NEW v \in [0 .. n - 1 -> Int]
  PROVE  Sum(v, n) \in Int
  BY SumIs DEF Partial

\* Twice d times a is near twice g times b, up to u times c.
CloseTerms(d, a, g, b, u, c) == Within(2 * (d * a - g * b), u * c)

LEMMA CloseTermsAdd ==
  ASSUME NEW d \in Int, NEW g \in Int, NEW u \in Int, NEW a \in Int, NEW b \in Int, NEW c \in Int,
         NEW a2 \in Int, NEW b2 \in Int, NEW c2 \in Int,
         CloseTerms(d, a, g, b, u, c), CloseTerms(d, a2, g, b2, u, c2)
  PROVE  CloseTerms(d, a + a2, g, b + b2, u, c + c2)
  <1>1. /\ d * (a + a2) = d * a + d * a2 /\ g * (b + b2) = g * b + g * b2
        /\ u * (c + c2) = u * c + u * c2
    BY Distributes
  <1>2. /\ d * a \in Int /\ d * a2 \in Int /\ g * b \in Int /\ g * b2 \in Int
        /\ u * c \in Int /\ u * c2 \in Int
    OBVIOUS
  <1> QED
    BY <1>1, <1>2 DEF CloseTerms, Within

\* What is close element by element is close in the sum.
LEMMA SumsClose ==
  ASSUME NEW n \in Nat, NEW d \in Int, NEW g \in Int, NEW u \in Int,
         NEW a \in [0 .. n - 1 -> Int], NEW b \in [0 .. n - 1 -> Int], NEW c \in [0 .. n - 1 -> Int],
         \A j \in 0 .. n - 1 : CloseTerms(d, a[j], g, b[j], u, c[j])
  PROVE  CloseTerms(d, Sum(a, n), g, Sum(b, n), u, Sum(c, n))
  <1>1. PICK r : Partial(r, a, n) /\ Sum(a, n) = r[n]
    BY SumIs
  <1>2. PICK s : Partial(s, b, n) /\ Sum(b, n) = s[n]
    BY SumIs
  <1>3. PICK t : Partial(t, c, n) /\ Sum(c, n) = t[n]
    BY SumIs
  <1> DEFINE S == {j \in Nat : j <= n => CloseTerms(d, r[j], g, s[j], u, t[j])}
  <1>4. 0 \in S
    <2>1. r[0] = 0 /\ s[0] = 0 /\ t[0] = 0
      BY <1>1, <1>2, <1>3 DEF Partial
    <2>2. CloseTerms(d, 0, g, 0, u, 0)
      BY DEF CloseTerms, Within
    <2> QED
      BY <2>1, <2>2
  <1>5. ASSUME NEW j \in Nat, j \in S PROVE j + 1 \in S
    <2> SUFFICES ASSUME j + 1 <= n PROVE CloseTerms(d, r[j + 1], g, s[j + 1], u, t[j + 1])
      OBVIOUS
    <2>1. /\ j \in 0 .. n - 1 /\ r[j] \in Int /\ a[j] \in Int /\ r[j + 1] = r[j] + a[j]
          /\ s[j] \in Int /\ b[j] \in Int /\ s[j + 1] = s[j] + b[j]
          /\ t[j] \in Int /\ c[j] \in Int /\ t[j + 1] = t[j] + c[j]
      BY <1>1, <1>2, <1>3, PartialNext
    <2>2. CloseTerms(d, r[j], g, s[j], u, t[j]) /\ CloseTerms(d, a[j], g, b[j], u, c[j])
      BY <1>5, <2>1
    <2>3. CloseTerms(d, r[j] + a[j], g, s[j] + b[j], u, t[j] + c[j])
      BY <2>1, <2>2, CloseTermsAdd
    <2> QED
      BY <2>1, <2>3
  <1>6. Nat \subseteq S
    <2> HIDE DEF S
    <2> QED
      BY <1>4, <1>5, Induction
  <1>7. CloseTerms(d, r[n], g, s[n], u, t[n])
    BY <1>6
  <1> QED
    BY <1>1, <1>2, <1>3, <1>7

\* An accumulation whose summands are within bounds that together fit never wraps around.
LEMMA NeverWraps ==
  ASSUME NEW n \in Nat, NEW p \in [0 .. n - 1 -> Int], NEW b \in [0 .. n - 1 -> Nat],
         \A j \in 0 .. n - 1 : Within(p[j], b[j]), Sum(b, n) < Half64,
         NEW s, Accumulates(s, p, n)
  PROVE  s[n] = Sum(p, n)
  <1>0. b \in [0 .. n - 1 -> Int]
    OBVIOUS
  <1>1. PICK r : Partial(r, p, n) /\ Sum(p, n) = r[n]
    BY SumIs
  <1>2. PICK t : Partial(t, b, n) /\ Sum(b, n) = t[n]
    BY <1>0, SumIs
  \* The bounds grow.
  <1>3. \A j \in 0 .. n : t[j] <= t[n]
    <2> DEFINE T == {k \in Nat : k <= n => t[n - k] <= t[n]}
    <2>1. 0 \in T
      BY <1>2 DEF Partial
    <2>2. ASSUME NEW k \in Nat, k \in T PROVE k + 1 \in T
      <3> SUFFICES ASSUME k + 1 <= n PROVE t[n - (k + 1)] <= t[n]
        OBVIOUS
      <3>1. PICK j \in Nat : j = n - (k + 1)
        OBVIOUS
      <3>2. j + 1 <= n /\ j + 1 = n - k
        BY <3>1
      <3>3. t[j + 1] = t[j] + b[j] /\ t[j] \in Int /\ b[j] \in Nat /\ t[n] \in Int
        BY <1>0, <1>2, <3>2, PartialNext DEF Partial
      <3>4. t[j + 1] <= t[n]
        BY <2>2, <3>2
      <3> QED
        BY <3>1, <3>3, <3>4
    <2>3. Nat \subseteq T
      <3> HIDE DEF T
      <3> QED
        BY <2>1, <2>2, Induction
    <2>4. ASSUME NEW j \in 0 .. n PROVE t[j] <= t[n]
      <3>1. PICK k \in Nat : k = n - j
        OBVIOUS
      <3>2. k \in T /\ k <= n /\ n - k = j
        <4>1. k \in T
          <5> HIDE DEF T
          <5> QED
            BY <2>3
        <4> QED
          BY <3>1, <4>1
      <3> QED
        BY <3>2
    <2> QED
      BY <2>4
  <1> DEFINE S == {j \in Nat : j <= n => s[j] = r[j] /\ Within(r[j], t[j])}
  <1>4. 0 \in S
    BY <1>1, <1>2 DEF Partial, Accumulates, Within
  <1>5. ASSUME NEW j \in Nat, j \in S PROVE j + 1 \in S
    <2> SUFFICES ASSUME j + 1 <= n
                 PROVE  s[j + 1] = r[j + 1] /\ Within(r[j + 1], t[j + 1])
      OBVIOUS
    <2>1. /\ j \in 0 .. n - 1 /\ r[j] \in Int /\ p[j] \in Int /\ r[j + 1] = r[j] + p[j]
          /\ t[j] \in Int /\ b[j] \in Int /\ t[j + 1] = t[j] + b[j]
      BY <1>0, <1>1, <1>2, PartialNext
    <2>2. s[j] = r[j] /\ Within(r[j], t[j]) /\ Within(p[j], b[j])
      BY <1>5, <2>1
    <2>3. Within(r[j + 1], t[j + 1]) /\ r[j + 1] \in Int /\ t[j + 1] \in Int
      <3>1. Within(r[j] + p[j], t[j] + b[j])
        BY <2>1, <2>2, SumWithin
      <3> QED
        BY <2>1, <3>1
    <2>4. t[j + 1] <= t[n] /\ t[n] < Half64 /\ t[n] \in Int
      BY <1>2, <1>3 DEF Partial
    <2>5. r[j + 1] \in -Half64 .. Half64 - 1
      BY <2>3, <2>4, FixedPointAssumption DEF Within
    <2>6. s[j + 1] = int64(s[j] + p[j])
      <3>1. j + 1 \in 1 .. n /\ (j + 1) - 1 = j
        OBVIOUS
      <3> QED
        BY <3>1 DEF Accumulates
    <2>7. int64(r[j + 1]) = r[j + 1]
      BY <2>3, <2>5, Ranges
    <2> QED
      BY <2>1, <2>2, <2>3, <2>6, <2>7
  <1>6. Nat \subseteq S
    <2> HIDE DEF S
    <2> QED
      BY <1>4, <1>5, Induction
  <1>7. s[n] = r[n]
    BY <1>6
  <1> QED
    BY <1>1, <1>7

-----------------------------------------------------------------------------
(* One row of a layer. *)

\* What an estimate says of a value z: of v / d with the error c, in units of 1 / o.
Near(z, d, v, o, c) == Within(2 * (z * d - v * o), c)

LEMMA NearIs ==
  ASSUME NEW z \in Int, NEW d \in Int, NEW v \in Int, NEW o \in Int, NEW c \in Int
  PROVE  Near(z, d, v, o, c) <=> 2 * Abs(z * d - v * o) <= c
  <1>1. PICK a \in Int : a = z * d - v * o
    OBVIOUS
  <1>2. Within(2 * a, c) <=> 2 * Abs(a) <= c
    BY DEF Within, Abs
  <1> QED
    BY <1>1, <1>2 DEF Near

\* How great such a value can be.
LEMMA NearBounds ==
  ASSUME NEW z \in Int, NEW d \in Nat \ {0}, NEW v \in Int, NEW o \in Nat, NEW c \in Nat,
         Near(z, d, v, o, c)
  PROVE  /\ (2 * Abs(v) * o + c) \div (2 * d) \in Nat
         /\ Abs(z) <= (2 * Abs(v) * o + c) \div (2 * d)
  <1>1. PICK a \in Nat : a = 2 * Abs(v) * o + c
    <2>1. Abs(v) \in Nat
      BY AbsIs
    <2>2. 2 * Abs(v) * o \in Nat
      BY <2>1
    <2> QED
      BY <2>2
  <1>2. Within(v * o, Abs(v) * o)
    <2>1. Within(o * v, Abs(o) * Abs(v))
      BY AbsIs, ProductWithin
    <2>2. Abs(o) = o /\ Abs(v) \in Int
      BY AbsIs DEF Abs
    <2> QED
      BY <2>1, <2>2
  <1>3. PICK vo \in Int, bo \in Int : vo = v * o /\ bo = Abs(v) * o
    BY AbsIs
  <1>4. a = 2 * bo + c
    <2>1. Abs(v) \in Int
      BY AbsIs
    <2>2. 2 * Abs(v) * o = 2 * (Abs(v) * o)
      BY <2>1
    <2> QED
      BY <1>1, <1>3, <2>2
  <1>5. PICK zd \in Int : zd = z * d
    OBVIOUS
  <1>6. 2 * zd <= a /\ -(2 * zd) <= a
    <2>1. Within(2 * (zd - vo), c) /\ Within(vo, bo)
      BY <1>2, <1>3, <1>5 DEF Near
    <2> QED
      BY <1>4, <2>1 DEF Within
  <1>7. z * (2 * d) = 2 * zd /\ (-z) * (2 * d) = -(2 * zd)
    BY <1>5
  <1>8. 2 * d \in Nat \ {0} /\ -z \in Int
    OBVIOUS
  <1>9. z <= a \div (2 * d) /\ -z <= a \div (2 * d) /\ a \div (2 * d) \in Nat
    <2>1. PICK e \in Nat \ {0} : e = 2 * d
      BY <1>8
    <2>2. a >= 0 /\ z * e <= a /\ (-z) * e <= a
      BY <1>6, <1>7, <2>1
    <2>3. (\A y \in Int : y * e <= a => y <= a \div e) /\ a \div e \in Nat
      <3>1. a \in Int /\ e \in Nat \ {0}
        OBVIOUS
      <3>2. /\ \A y \in Int : y * e <= a => y <= a \div e
            /\ a >= 0 => a \div e \in Nat
        BY <3>1, QuotientBounds
      <3> QED
        BY <2>2, <3>2
    <2>4. z <= a \div e /\ -z <= a \div e
      BY <1>8, <2>2, <2>3
    <2> QED
      BY <2>1, <2>3, <2>4
  <1>10. Abs(z) = z \/ Abs(z) = -z
    BY AbsIs
  <1> QED
    BY <1>1, <1>9, <1>10

\* A product of an exported weight W, a weight w that was trained, and a value y near v.
LEMMA TermClose ==
  ASSUME NEW W \in Int, NEW w \in Int, NEW y \in Int, NEW v \in Int,
         NEW d \in Nat, NEW o \in Nat, NEW F \in Nat, NEW c \in Nat,
         Near(y, d, v, o, c), Within(2 * (Unit * W - w * F), Unit)
  PROVE  CloseTerms(Unit * d, W * y, o * F, w * v, Unit, Abs(W) * c + Abs(v) * o)
  <1>u. Unit \in Nat
    BY FixedPointAssumption
  <1>1. PICK s \in Int : s = 2 * (y * d - v * o)
    OBVIOUS
  <1>2. PICK t \in Int : t = 2 * (Unit * W - w * F)
    BY <1>u
  <1>3. 2 * ((Unit * d) * (W * y) - (o * F) * (w * v)) = Unit * (W * s) + (v * o) * t
    BY <1>u, <1>1, <1>2
  <1>4. Within(W * s, Abs(W) * c)
    BY <1>1, ProductWithin DEF Near
  <1>5. Within(Unit * (W * s), Unit * (Abs(W) * c))
    <2>1. PICK a \in Int, b \in Int : a = W * s /\ b = Abs(W) * c
      BY AbsIs
    <2>2. Within(Unit * a, Abs(Unit) * b)
      BY <1>u, <1>4, <2>1, ProductWithin
    <2>3. Abs(Unit) = Unit
      BY <1>u DEF Abs
    <2> QED
      BY <2>1, <2>2, <2>3
  <1>6. Within((v * o) * t, Unit * (Abs(v) * o))
    <2>1. PICK b \in Nat : b = Abs(v) * o
      BY AbsIs
    <2>2. PICK a \in Int : a = v * o
      OBVIOUS
    <2>3. Abs(a) = b
      <3>1. Abs(v) = v \/ Abs(v) = -v
        BY AbsIs
      <3>2. b = a \/ b = -a
        BY <2>1, <2>2, <3>1
      <3> QED
        BY <3>2 DEF Abs
    <2>4. Within(a * t, Abs(a) * Unit)
      BY <1>u, <1>2, ProductWithin
    <2>5. b * Unit = Unit * b
      BY <1>u
    <2> QED
      BY <2>1, <2>2, <2>3, <2>4, <2>5
  <1>7. PICK a \in Int, b \in Int : a = Unit * (W * s) /\ b = (v * o) * t
    BY <1>u
  <1>8. PICK e \in Int, g \in Int : e = Abs(W) * c /\ g = Abs(v) * o
    BY AbsIs
  <1>9. Within(a + b, Unit * e + Unit * g)
    <2>1. Unit * e \in Int /\ Unit * g \in Int
      BY <1>u
    <2> QED
      BY <1>5, <1>6, <1>7, <1>8, <2>1, SumWithin
  <1>10. Unit * e + Unit * g = Unit * (e + g)
    BY <1>u
  <1> QED
    BY <1>3, <1>7, <1>8, <1>9, <1>10 DEF CloseTerms

\* The shift cuts off less than one; cut is what the numbers have in common.
LEMMA ShiftClose ==
  ASSUME NEW P \in Int, NEW B \in Int, NEW C \in Int, NEW d \in Nat \ {0}, NEW g \in Nat,
         CloseTerms(Unit * d, P, g, B, Unit, C),
         NEW cut \in Nat \ {0}, NEW r \in Nat, NEW u \in Nat, NEW o \in Nat,
         One = cut * r, Unit = cut * u, g = cut * o,
         NEW d2 \in Nat, d2 = d * Unit * r
  PROVE  Near(P \div One, d2, B, o, C * u + 2 * d2)
  <1>u. Unit \in Nat /\ One \in Nat \ {0}
    BY FixedPointAssumption
  <1>1. PICK q \in Int, m \in 0 .. One - 1 : q = P \div One /\ P = One * q + m
    <2>1. P \div One \in Int /\ P % One \in 0 .. One - 1 /\ P = One * (P \div One) + (P % One)
      BY <1>u, QuotientBounds
    <2> QED
      BY <2>1
  <1>2. PICK k \in Nat : k = Unit * d
    BY <1>u
  <1>3. PICK z \in Int : z = q * d2 - B * o
    OBVIOUS
  <1>4. cut * z = (k * P - g * B) - k * m
    <2>1. cut * (q * d2) = k * (One * q)
      BY <1>u, <1>2
    <2>2. cut * (B * o) = g * B
      OBVIOUS
    <2>3. cut * z = cut * (q * d2) - cut * (B * o)
      BY <1>3
    <2>4. k * P = k * (One * q) + k * m
      BY <1>u, <1>1
    <2>5. k * (One * q) \in Int /\ k * m \in Int /\ g * B \in Int
      BY <1>u
    <2> QED
      BY <2>1, <2>2, <2>3, <2>4, <2>5
  <1>5. PICK a \in Int : a = k * P - g * B
    OBVIOUS
  <1>6. Within(2 * a, Unit * C)
    BY <1>2, <1>5 DEF CloseTerms
  <1>7. PICK uC \in Int : uC = C * u /\ Unit * C = cut * uC
    OBVIOUS
  <1>8. 0 <= k * m /\ k * m <= cut * d2
    <2>1. k * 0 <= k * m /\ k * m <= k * One
      BY <1>u, Monotone
    <2>2. k * One = cut * d2 /\ k * 0 = 0
      BY <1>u, <1>2
    <2> QED
      BY <2>1, <2>2
  <1>9. PICK km \in Int, cd \in Int, cu \in Int : km = k * m /\ cd = cut * d2 /\ cu = cut * uC
    <2>1. k * m \in Int
      BY <1>u
    <2> QED
      BY <2>1
  <1>10. 2 * (cut * z) <= cu /\ -cu - 2 * cd <= 2 * (cut * z)
    <2>1. cut * z = a - km /\ 0 <= km /\ km <= cd /\ -cu <= 2 * a /\ 2 * a <= cu
      BY <1>4, <1>5, <1>6, <1>7, <1>8, <1>9 DEF Within
    <2> QED
      BY <2>1
  <1>11. 2 * z <= uC
    <2>1. cut * (2 * z) <= cut * uC
      BY <1>9, <1>10
    <2> QED
      BY <2>1, Monotone
  <1>12. -uC - 2 * d2 <= 2 * z
    <2>1. cut * (-uC - 2 * d2) = -cu - 2 * cd
      BY <1>9
    <2>2. cut * (-uC - 2 * d2) <= cut * (2 * z)
      BY <1>10, <2>1
    <2>3. -uC - 2 * d2 \in Int /\ 2 * z \in Int
      OBVIOUS
    <2> QED
      BY <2>2, <2>3, Monotone
  <1>13. PICK c \in Int : c = C * u + 2 * d2 /\ c = uC + 2 * d2
    BY <1>7
  <1>14. Within(2 * z, c)
    BY <1>11, <1>12, <1>13 DEF Within
  <1>15. Near(q, d2, B, o, c)
    BY <1>3, <1>14 DEF Near
  <1> QED
    BY <1>1, <1>13, <1>15

\* The common divisor that Layer takes out.
LEMMA CutIs ==
  ASSUME NEW g \in Nat \ {0}
  PROVE  LET cut == IF Unit % One = 0 /\ g % One = 0 THEN One ELSE 1
         IN  /\ cut \in Nat \ {0}
             /\ One \div cut \in Nat \ {0} /\ One = cut * (One \div cut)
             /\ Unit \div cut \in Nat \ {0} /\ Unit = cut * (Unit \div cut)
             /\ g \div cut \in Nat \ {0} /\ g = cut * (g \div cut)
  <1> DEFINE cut == IF Unit % One = 0 /\ g % One = 0 THEN One ELSE 1
  <1>1. Unit \in Nat \ {0} /\ One \in Nat \ {0}
    BY FixedPointAssumption
  <1>2. ASSUME NEW a \in Nat \ {0}, NEW d \in Nat \ {0}, a % d = 0
        PROVE  a \div d \in Nat \ {0} /\ a = d * (a \div d)
    <2>1. a = d * (a \div d) + (a % d) /\ a \div d \in Nat
      BY <1>2, QuotientBounds
    <2>2. a \div d = 0 => d * (a \div d) = 0
      OBVIOUS
    <2> QED
      BY <1>2, <2>1, <2>2
  <1>3. \A a \in Nat \ {0} : a \div 1 = a
    OBVIOUS
  <1>4. CASE Unit % One = 0 /\ g % One = 0
    <2>1. One % One = 0
      BY <1>1
    <2>2. cut = One
      BY <1>4
    <2> HIDE DEF cut
    <2> QED
      BY <1>1, <1>2, <1>4, <2>1, <2>2
  <1>5. CASE ~(Unit % One = 0 /\ g % One = 0)
    <2>1. cut = 1
      BY <1>5
    <2> HIDE DEF cut
    <2> QED
      BY <1>1, <1>3, <2>1
  <1> QED
    BY <1>4, <1>5

LEMMA SumNat ==
  ASSUME NEW n \in Nat, NEW v \in [0 .. n - 1 -> Nat]
  PROVE  Sum(v, n) \in Nat
  <1>0. v \in [0 .. n - 1 -> Int]
    OBVIOUS
  <1>1. PICK s : Partial(s, v, n) /\ Sum(v, n) = s[n]
    BY <1>0, SumIs
  <1> DEFINE S == {j \in Nat : j <= n => s[j] \in Nat}
  <1>2. 0 \in S
    BY <1>1 DEF Partial
  <1>3. ASSUME NEW j \in Nat, j \in S PROVE j + 1 \in S
    <2> SUFFICES ASSUME j + 1 <= n PROVE s[j + 1] \in Nat
      OBVIOUS
    <2>1. j \in 0 .. n - 1 /\ s[j + 1] = s[j] + v[j]
      BY <1>0, <1>1, PartialNext
    <2>2. s[j] \in Nat /\ v[j] \in Nat
      BY <1>3, <2>1
    <2> QED
      BY <2>1, <2>2
  <1>4. n \in S
    <2> HIDE DEF S
    <2> QED
      BY <1>2, <1>3, Induction
  <1> QED
    BY <1>1, <1>4

\* The exported weights are the trained ones, up to half a unit of 1 / factor.
LEMMA FixedIs ==
  ASSUME NEW M \in Nat, NEW N \in Nat, NEW w \in Vec(M, Vec(N, Int)), NEW F \in Nat,
         NEW i \in 0 .. M - 1, NEW j \in 0 .. N - 1
  PROVE  LET W == Fixed(w, M, N, F)
         IN  /\ W[i * N + j] \in Int /\ w[i][j] \in Int
             /\ Within(2 * (Unit * W[i * N + j] - w[i][j] * F), Unit)
  <1> DEFINE W == Fixed(w, M, N, F)
  <1>1. PICK k \in Int : k = i * N + j
    OBVIOUS
  <1>2. k \in 0 .. M * N - 1 /\ k \div N = i /\ k % N = j
    BY <1>1, MatrixIndex
  <1>3. W[k] = Round(w[i][j] * F, Unit)
    BY <1>2 DEF Fixed
  <1>4. w[i][j] \in Int
    BY DEF Vec
  <1>5. PICK num \in Int : num = w[i][j] * F
    BY <1>4
  <1>6. Round(num, Unit) \in Int /\ Within(2 * (Unit * Round(num, Unit) - num), Unit)
    BY RoundIs, FixedPointAssumption
  <1> QED
    BY <1>1, <1>3, <1>4, <1>5, <1>6

LEMMA FixedTyped ==
  ASSUME NEW M \in Nat, NEW N \in Nat, NEW w \in Vec(M, Vec(N, Int)), NEW F \in Nat
  PROVE  Fixed(w, M, N, F) \in [0 .. M * N - 1 -> Int]
  <1>1. ASSUME NEW k \in 0 .. M * N - 1
        PROVE  Round(w[k \div N][k % N] * F, Unit) \in Int
    <2>1. N # 0
      OBVIOUS
    <2>2. k \div N \in Int /\ k % N \in 0 .. N - 1 /\ k = N * (k \div N) + (k % N)
          /\ k \div N \in Nat
      <3>1. k \in Int /\ k >= 0 /\ N \in Nat \ {0}
        BY <2>1
      <3> QED
        BY <3>1, QuotientBounds
    <2>3. k \div N < M
      <3>1. N * (k \div N) <= k /\ k < N * M
        BY <2>1, <2>2
      <3>2. N * (k \div N) < N * M
        BY <2>2, <3>1
      <3> QED
        BY <2>1, <2>2, <3>2, Monotone
    <2>4. w[k \div N][k % N] \in Int
      <3>1. PICK i \in 0 .. M - 1, j \in 0 .. N - 1 : i = k \div N /\ j = k % N
        BY <2>2, <2>3
      <3>2. w[i][j] \in Int
        BY DEF Vec
      <3> QED
        BY <3>1, <3>2
    <2>5. PICK num \in Int : num = w[k \div N][k % N] * F
      BY <2>4
    <2> QED
      BY <2>5, RoundIs, FixedPointAssumption
  <1> QED
    BY <1>1 DEF Fixed

\* How great a product with such a value can be.
LEMMA ProductBound ==
  ASSUME NEW W \in Int, NEW y \in Int, NEW v \in Int,
         NEW d \in Nat \ {0}, NEW o \in Nat, NEW c \in Nat, Near(y, d, v, o, c)
  PROVE  Within(W * y, Abs(W) * (((2 * Abs(v) * o + c) \div (2 * d)) + 1))
  <1>1. PICK a \in Nat : a = (2 * Abs(v) * o + c) \div (2 * d) /\ Abs(y) <= a
    BY NearBounds
  <1>2. Within(y, a + 1)
    BY <1>1, AbsIs DEF Within
  <1>3. Within(W * y, Abs(W) * (a + 1))
    BY <1>2, ProductWithin
  <1> QED
    BY <1>1, <1>3

\* A row with the weights q, of which the trained ones are w, on values y near val: the
\* products, what they stand for, their errors and their bounds.
Row(N, d, o, F, val, err, y, q, w, p, b, c, t) ==
  \A j \in 0 .. N - 1 :
    /\ y[j] \in Int /\ Near(y[j], d, val[j], o, err[j])
    /\ Within(2 * (Unit * q[j] - w[j] * F), Unit)
    /\ p[j] = q[j] * y[j]
    /\ b[j] = w[j] * val[j]
    /\ c[j] = Abs(q[j]) * err[j] + Abs(val[j]) * o
    /\ t[j] = Abs(q[j]) * (((2 * Abs(val[j]) * o + err[j]) \div (2 * d)) + 1)

\* The denominator d and the unit o of a layer's input, the ones of its output, and cut,
\* which the shift and the fraction have in common.
Cuts(cut, r, u, d, o, F, d2, o2) ==
  One = cut * r /\ Unit = cut * u /\ o * F = cut * o2 /\ d2 = d * Unit * r

\* Within bounds that fit, the accumulation, once shifted, is near the trained sum.
LEMMA RowClose ==
  ASSUME NEW N \in Nat, NEW d \in Nat \ {0}, NEW o \in Nat \ {0}, NEW F \in Nat \ {0},
         NEW val \in [0 .. N - 1 -> Int], NEW err \in [0 .. N - 1 -> Nat],
         NEW y, NEW q \in [0 .. N - 1 -> Int], NEW w \in [0 .. N - 1 -> Int],
         NEW p \in [0 .. N - 1 -> Int], NEW b \in [0 .. N - 1 -> Int],
         NEW c \in [0 .. N - 1 -> Nat], NEW t \in [0 .. N - 1 -> Nat],
         Row(N, d, o, F, val, err, y, q, w, p, b, c, t),
         Sum(t, N) < Half64, NEW s, Accumulates(s, p, N),
         NEW cut \in Nat \ {0}, NEW r \in Nat, NEW u \in Nat, NEW o2 \in Nat,
         NEW d2 \in Nat, Cuts(cut, r, u, d, o, F, d2, o2)
  PROVE  s[N] \in Int /\ Near(s[N] \div One, d2, Sum(b, N), o2, Sum(c, N) * u + 2 * d2)
  <1>1. PICK g \in Nat, e \in Nat : g = o * F /\ e = Unit * d
    BY FixedPointAssumption
  <1>2. ASSUME NEW j \in 0 .. N - 1
        PROVE  CloseTerms(e, p[j], g, b[j], Unit, c[j]) /\ Within(p[j], t[j])
    <2>1. /\ q[j] \in Int /\ w[j] \in Int /\ y[j] \in Int /\ val[j] \in Int /\ err[j] \in Nat
          /\ d \in Nat /\ o \in Nat /\ F \in Nat
          /\ Near(y[j], d, val[j], o, err[j]) /\ Within(2 * (Unit * q[j] - w[j] * F), Unit)
      BY DEF Row
    <2>2. CloseTerms(Unit * d, q[j] * y[j], o * F, w[j] * val[j], Unit,
                     Abs(q[j]) * err[j] + Abs(val[j]) * o)
      BY <2>1, TermClose
    <2>3. CloseTerms(e, p[j], g, b[j], Unit, c[j])
      BY <1>1, <2>2 DEF Row
    <2>4. Within(q[j] * y[j],
                 Abs(q[j]) * (((2 * Abs(val[j]) * o + err[j]) \div (2 * d)) + 1))
      BY <2>1, ProductBound
    <2> QED
      BY <2>3, <2>4 DEF Row
  <1>3. s[N] = Sum(p, N)
    BY <1>2, NeverWraps
  <1>4. c \in [0 .. N - 1 -> Int]
    OBVIOUS
  <1>5. PICK P \in Int, B \in Int, C \in Int : P = Sum(p, N) /\ B = Sum(b, N) /\ C = Sum(c, N)
    BY <1>4, SumTyped
  <1>6. CloseTerms(e, P, g, B, Unit, C)
    <2>1. e \in Int /\ g \in Int /\ Unit \in Int
      BY FixedPointAssumption
    <2> QED
      BY <1>2, <1>4, <1>5, <2>1, SumsClose
  <1>7. CloseTerms(Unit * d, P, g, B, Unit, C) /\ g = cut * o2
    BY <1>1, <1>6 DEF Cuts
  <1>8. Near(P \div One, d2, B, o2, C * u + 2 * d2)
    BY <1>7, ShiftClose DEF Cuts
  <1> QED
    BY <1>3, <1>5, <1>8

-----------------------------------------------------------------------------
(* Layers. *)

\* An estimate of a vector of n elements.
Estimate(e, n) ==
  e \in [val : [0 .. n - 1 -> Int], err : [0 .. n - 1 -> Nat],
         den : Nat \ {0}, one : Nat \ {0}, fits : BOOLEAN]

\* What a layer sums up for row i.
Values(e, w, i, N)  == [j \in 0 .. N - 1 |-> w[i][j] * e.val[j]]
Errors(e, W, i, N)  ==
  [j \in 0 .. N - 1 |-> Abs(W[i * N + j]) * e.err[j] + Abs(e.val[j]) * e.one]
Bounds(e, W, i, N)  == [j \in 0 .. N - 1 |-> Abs(W[i * N + j]) * Bound(e, j)]

LEMMA TermsTyped ==
  ASSUME NEW M \in Nat, NEW N \in Nat, NEW e, Estimate(e, N), NEW w \in Vec(M, Vec(N, Int)),
         NEW i \in 0 .. M - 1, NEW W, \A j \in 0 .. N - 1 : W[i * N + j] \in Int
  PROVE  /\ Values(e, w, i, N) \in [0 .. N - 1 -> Int]
         /\ Errors(e, W, i, N) \in [0 .. N - 1 -> Nat]
         /\ Bounds(e, W, i, N) \in [0 .. N - 1 -> Nat]
  <1>1. ASSUME NEW j \in 0 .. N - 1
        PROVE  /\ w[i][j] * e.val[j] \in Int
               /\ Abs(W[i * N + j]) * e.err[j] + Abs(e.val[j]) * e.one \in Nat
               /\ Abs(W[i * N + j]) * Bound(e, j) \in Nat
    <2>1. PICK q \in Int, v \in Int, z \in Int, c \in Nat, d \in Nat \ {0}, o \in Nat \ {0} :
            /\ q = W[i * N + j] /\ v = e.val[j] /\ z = w[i][j] /\ c = e.err[j]
            /\ d = e.den /\ o = e.one
      <3>1. w[i][j] \in Int
        BY DEF Vec
      <3> QED
        BY <3>1 DEF Estimate
    <2>2. Abs(q) \in Nat /\ Abs(v) \in Nat
      BY AbsIs
    <2>3. PICK a \in Nat, b \in Nat, f \in Nat : a = 2 * Abs(v) * o + c /\ b = 2 * d /\ f = a \div b
      <3>1. PICK g \in Nat : g = Abs(v)
        BY <2>2
      <3>2. PICK a \in Nat : a = 2 * g * o + c
        OBVIOUS
      <3>3. PICK b \in Nat \ {0} : b = 2 * d
        OBVIOUS
      <3>4. a \div b \in Nat
        <4>1. a \in Int /\ b \in Nat \ {0} /\ a >= 0
          BY <3>2, <3>3
        <4>2. a >= 0 => a \div b \in Nat
          BY <4>1, QuotientBounds
        <4> QED
          BY <4>1, <4>2
      <3> QED
        BY <3>1, <3>2, <3>3, <3>4
    <2>4. Bound(e, j) = f + 1
      BY <2>1, <2>3 DEF Bound
    <2>5. PICK m \in Nat, n \in Nat : m = Abs(q) /\ n = Abs(v)
      BY <2>2
    <2>6. z * v \in Int /\ m * c + n * o \in Nat /\ m * (f + 1) \in Nat
      OBVIOUS
    <2> QED
      BY <2>1, <2>4, <2>5, <2>6
  <1> QED
    BY <1>1 DEF Values, Errors, Bounds

\* The weights W of a layer of M elements were trained as w; e is an estimate of its input.
IsLayer(e, w, W, M, N, F) ==
  Estimate(e, N) /\ w \in Vec(M, Vec(N, Int)) /\ W = Fixed(w, M, N, F)

\* y is an input that the estimate is close to.
Feeds(e, y, N) == (\A j \in 0 .. N - 1 : y[j] \in Int) /\ Close(e, y)

\* f is a value near v / d, cut to 32 bits.
Computes(f, d, v, o, c) == \E z \in Int : f = int32(z) /\ Near(z, d, v, o, c)

\* Row i of a layer on what an estimate is close to.
LEMMA LayerRowClose ==
  ASSUME NEW M \in Nat, NEW N \in Nat, NEW e, NEW w, NEW F \in Nat \ {0}, NEW W,
         IsLayer(e, w, W, M, N, F), NEW y, Feeds(e, y, N), NEW i \in 0 .. M - 1,
         Sum(Bounds(e, W, i, N), N) < Half64,
         NEW cut \in Nat \ {0}, NEW r \in Nat, NEW u \in Nat, NEW o2 \in Nat,
         NEW d2 \in Nat, Cuts(cut, r, u, e.den, e.one, F, d2, o2)
  PROVE  Computes(linear_layer(W, y, M, N)[i], d2, Sum(Values(e, w, i, N), N), o2,
                  Sum(Errors(e, W, i, N), N) * u + 2 * d2)
  <1>k. PICK k \in Int : k = i * N
    OBVIOUS
  <1>0. /\ Estimate(e, N) /\ w \in Vec(M, Vec(N, Int)) /\ W = Fixed(w, M, N, F)
        /\ \A j \in 0 .. N - 1 : y[j] \in Int
    BY DEF IsLayer, Feeds
  <1> DEFINE q == [j \in 0 .. N - 1 |-> W[k + j]]
             wr == [j \in 0 .. N - 1 |-> w[i][j]]
             p == [j \in 0 .. N - 1 |-> q[j] * y[j]]
  <1>1. ASSUME NEW j \in 0 .. N - 1
        PROVE  /\ W[k + j] \in Int /\ W[i * N + j] \in Int /\ w[i][j] \in Int
               /\ Within(2 * (Unit * W[k + j] - w[i][j] * F), Unit)
    BY <1>k, <1>0, FixedIs
  <1>2. /\ Values(e, w, i, N) \in [0 .. N - 1 -> Int]
        /\ Errors(e, W, i, N) \in [0 .. N - 1 -> Nat]
        /\ Bounds(e, W, i, N) \in [0 .. N - 1 -> Nat]
    BY <1>0, <1>1, TermsTyped
  <1>3. q \in [0 .. N - 1 -> Int] /\ wr \in [0 .. N - 1 -> Int]
    BY <1>1
  <1>4. \A j \in 0 .. N - 1 : q[j] = W[i * N + j] /\ q[j] = W[k + j] /\ wr[j] = w[i][j]
    BY <1>k
  <1>5. \A j \in 0 .. N - 1 : Within(2 * (Unit * q[j] - wr[j] * F), Unit)
    BY <1>1, <1>4
  <1> HIDE DEF q, wr
  <1>6. p \in [0 .. N - 1 -> Int] /\ \A j \in 0 .. N - 1 : p[j] = q[j] * y[j]
    BY <1>0, <1>3
  <1> HIDE DEF p
  <1>7. PICK s : Accumulates(s, p, N) /\ linear_layer(W, y, M, N)[i] = int32(s[N] \div One)
    <2>1. Products(p, W, y, k, N)
      BY <1>4, <1>6 DEF Products
    <2> QED
      BY <1>k, <2>1, LinearIs
  <1>8. PICK val \in [0 .. N - 1 -> Int], err \in [0 .. N - 1 -> Nat], d \in Nat \ {0},
             o \in Nat \ {0} :
          val = e.val /\ err = e.err /\ d = e.den /\ o = e.one
    BY <1>0 DEF Estimate
  <1>9. PICK b \in [0 .. N - 1 -> Int], c \in [0 .. N - 1 -> Nat], t \in [0 .. N - 1 -> Nat] :
          b = Values(e, w, i, N) /\ c = Errors(e, W, i, N) /\ t = Bounds(e, W, i, N)
    BY <1>2
  <1>10. \A j \in 0 .. N - 1 : b[j] = wr[j] * val[j]
    BY <1>4, <1>8, <1>9 DEF Values
  <1>11. \A j \in 0 .. N - 1 : c[j] = Abs(q[j]) * err[j] + Abs(val[j]) * o
    BY <1>4, <1>8, <1>9 DEF Errors
  <1>12. \A j \in 0 .. N - 1 :
           t[j] = Abs(q[j]) * (((2 * Abs(val[j]) * o + err[j]) \div (2 * d)) + 1)
    BY <1>4, <1>8, <1>9 DEF Bounds, Bound
  <1>13. \A j \in 0 .. N - 1 : y[j] \in Int /\ Near(y[j], d, val[j], o, err[j])
    <2>1. ASSUME NEW j \in 0 .. N - 1 PROVE Near(y[j], d, val[j], o, err[j])
      <3>1. 2 * Abs(y[j] * d - val[j] * o) <= err[j]
        BY <1>0, <1>8 DEF Close, Feeds, Estimate
      <3>2. y[j] \in Int /\ d \in Int /\ val[j] \in Int /\ o \in Int /\ err[j] \in Int
        BY <1>0
      <3> QED
        BY <3>1, <3>2, NearIs
    <2> QED
      BY <1>0, <2>1
  <1>14. Cuts(cut, r, u, d, o, F, d2, o2) /\ Sum(t, N) < Half64
    BY <1>8, <1>9
  <1>15. s[N] \in Int /\ Near(s[N] \div One, d2, Sum(b, N), o2, Sum(c, N) * u + 2 * d2)
    <2>1. Row(N, d, o, F, val, err, y, q, wr, p, b, c, t)
      BY <1>5, <1>6, <1>10, <1>11, <1>12, <1>13 DEF Row
    <2> QED
      BY <1>3, <1>6, <1>7, <1>14, <2>1, RowClose
  <1>16. s[N] \div One \in Int
    BY <1>15, FixedPointAssumption
  <1> QED
    BY <1>7, <1>9, <1>15, <1>16 DEF Computes

\* An estimate of a layer's input that is close gives one of its output.
LEMMA LayerClose ==
  ASSUME NEW M \in Nat, NEW N \in Nat, NEW e, Estimate(e, N), e.fits,
         NEW w \in Vec(M, Vec(N, Int)), NEW F \in Nat \ {0}, NEW W, W = Fixed(w, M, N, F)
  PROVE  /\ Estimate(Layer(e, w, W, M, N, F), M)
         /\ Layer(e, w, W, M, N, F).fits =>
              \A y : (\A j \in 0 .. N - 1 : y[j] \in Int) /\ Close(e, y)
                       => Close(Layer(e, w, W, M, N, F), linear_layer(W, y, M, N))
  <1>1. PICK d \in Nat \ {0}, o \in Nat \ {0}, g \in Nat \ {0} :
          d = e.den /\ o = e.one /\ g = e.one * F
    BY DEF Estimate
  <1>2. PICK cut \in Nat \ {0}, r \in Nat \ {0}, u \in Nat \ {0}, o2 \in Nat \ {0} :
          /\ cut = IF Unit % One = 0 /\ (e.one * F) % One = 0 THEN One ELSE 1
          /\ r = One \div cut /\ u = Unit \div cut /\ o2 = (e.one * F) \div cut
          /\ One = cut * r /\ Unit = cut * u /\ g = cut * o2
    <2> DEFINE c == IF Unit % One = 0 /\ g % One = 0 THEN One ELSE 1
    <2>1. /\ c \in Nat \ {0}
          /\ One \div c \in Nat \ {0} /\ One = c * (One \div c)
          /\ Unit \div c \in Nat \ {0} /\ Unit = c * (Unit \div c)
          /\ g \div c \in Nat \ {0} /\ g = c * (g \div c)
      BY CutIs
    <2>2. c = IF Unit % One = 0 /\ (e.one * F) % One = 0 THEN One ELSE 1
      BY <1>1
    <2> HIDE DEF c
    <2>3. g \div c = (e.one * F) \div c
      BY <1>1
    <2> QED
      BY <2>1, <2>2, <2>3, Zenon
  <1>3. PICK d2 \in Nat \ {0} : d2 = e.den * Unit * r
    BY <1>1, FixedPointAssumption
  <1>4. Cuts(cut, r, u, e.den, e.one, F, d2, o2)
    BY <1>1, <1>2, <1>3 DEF Cuts
  <1> DEFINE val == [i \in 0 .. M - 1 |-> Sum(Values(e, w, i, N), N)]
             err == [i \in 0 .. M - 1 |-> Sum(Errors(e, W, i, N), N) * u + 2 * d2]
  <1>5. PICK E : E = Layer(e, w, W, M, N, F)
    OBVIOUS
  <1>6. /\ E = [val |-> val, err |-> err, den |-> d2, one |-> o2, fits |-> E.fits]
        /\ E.fits \in BOOLEAN
        /\ E.fits => \A i \in 0 .. M - 1 :
                       Bound(E, i) < Half32 /\ Sum(Bounds(e, W, i, N), N) < Half64
    <2>1. /\ E = [val |-> [i \in 0 .. M - 1 |-> Sum(Values(e, w, i, N), N)],
                  err |-> [i \in 0 .. M - 1 |-> Sum(Errors(e, W, i, N), N) * (Unit \div cut)
                                                   + 2 * (e.den * Unit * (One \div cut))],
                  den |-> e.den * Unit * (One \div cut), one |-> (e.one * F) \div cut,
                  fits |-> E.fits]
          /\ E.fits \in BOOLEAN
          /\ E.fits => \A i \in 0 .. M - 1 :
                         Bound(E, i) < Half32 /\ Sum(Bounds(e, W, i, N), N) < Half64
      BY <1>2, <1>5 DEF Layer, Values, Errors, Bounds, Bound
    <2>2. r = One \div cut /\ u = Unit \div cut /\ o2 = (e.one * F) \div cut
      BY <1>2
    <2>3. d2 = e.den * Unit * (One \div cut)
      BY <1>3, <2>2
    <2> QED
      BY <2>1, <2>2, <2>3, Zenon
  <1>7. ASSUME NEW i \in 0 .. M - 1
        PROVE val[i] \in Int /\ err[i] \in Nat
    <2>1. \A j \in 0 .. N - 1 : W[i * N + j] \in Int
      BY FixedIs
    <2>2. PICK b \in [0 .. N - 1 -> Int], c \in [0 .. N - 1 -> Nat] :
            b = Values(e, w, i, N) /\ c = Errors(e, W, i, N)
      BY <2>1, TermsTyped
    <2>3. Sum(b, N) \in Int /\ Sum(c, N) \in Nat
      BY SumTyped, SumNat
    <2>4. PICK n \in Nat : n = Sum(c, N)
      BY <2>3
    <2>5. n * u + 2 * d2 \in Nat
      OBVIOUS
    <2> QED
      BY <2>2, <2>3, <2>4, <2>5
  <1>8. val \in [0 .. M - 1 -> Int] /\ err \in [0 .. M - 1 -> Nat]
    BY <1>7
  <1>9. Estimate(E, M)
    <2> HIDE DEF val, err
    <2> QED
      BY <1>6, <1>8 DEF Estimate
  <1>10. ASSUME E.fits, NEW y, \A j \in 0 .. N - 1 : y[j] \in Int, Close(e, y),
                NEW i \in 0 .. M - 1
         PROVE  2 * Abs(linear_layer(W, y, M, N)[i] * E.den - E.val[i] * E.one) <= E.err[i]
    <2>1. PICK z \in Int : /\ linear_layer(W, y, M, N)[i] = int32(z)
                           /\ Near(z, d2, Sum(Values(e, w, i, N), N), o2,
                                   Sum(Errors(e, W, i, N), N) * u + 2 * d2)
      <3>1. Sum(Bounds(e, W, i, N), N) < Half64
        BY <1>6, <1>10
      <3>2. IsLayer(e, w, W, M, N, F) /\ Feeds(e, y, N)
        BY <1>10 DEF IsLayer, Feeds
      <3>3. Computes(linear_layer(W, y, M, N)[i], d2, Sum(Values(e, w, i, N), N), o2,
                     Sum(Errors(e, W, i, N), N) * u + 2 * d2)
        BY <1>4, <3>1, <3>2, LayerRowClose
      <3> QED
        BY <3>3 DEF Computes
    <2>2. PICK v \in Int, c \in Nat : v = val[i] /\ c = err[i]
      BY <1>7
    <2>3. Near(z, d2, v, o2, c)
      BY <2>1, <2>2
    <2> HIDE DEF val, err
    <2>4. E.val[i] = v /\ E.err[i] = c /\ E.den = d2 /\ E.one = o2
      BY <1>6, <2>2
    <2>5. Abs(z) < Half32
      <3>1. Bound(E, i) < Half32
        BY <1>6, <1>10
      <3>2. PICK a \in Nat : a = (2 * Abs(v) * o2 + c) \div (2 * d2) /\ Abs(z) <= a
        BY <2>3, NearBounds
      <3>3. Bound(E, i) = a + 1
        BY <2>4, <3>2 DEF Bound
      <3>4. Abs(z) \in Nat
        BY AbsIs
      <3> QED
        BY <3>1, <3>2, <3>3, <3>4, FixedPointAssumption
    <2>6. int32(z) = z
      <3>1. z \in -Half32 .. Half32 - 1
        BY <2>5, FixedPointAssumption DEF Abs
      <3> QED
        BY <3>1, Ranges
    <2>7. 2 * Abs(z * d2 - v * o2) <= c
      BY <2>3, NearIs
    <2> QED
      BY <2>1, <2>4, <2>6, <2>7
  <1>11. ASSUME E.fits, NEW y, \A j \in 0 .. N - 1 : y[j] \in Int, Close(e, y)
         PROVE  Close(E, linear_layer(W, y, M, N))
    <2>1. DOMAIN E.val = 0 .. M - 1
      BY <1>9 DEF Estimate
    <2> QED
      BY <1>10, <1>11, <2>1 DEF Close
  <1> QED
    BY <1>5, <1>9, <1>11

\* What is negative on one side or on both gets closer when it becomes 0.
LEMMA PositiveClose ==
  ASSUME NEW z \in Int, NEW v \in Int, NEW d \in Nat, NEW o \in Nat, NEW c \in Int,
         2 * Abs(z * d - v * o) <= c
  PROVE  2 * Abs((IF z > 0 THEN z ELSE 0) * d - (IF v < 0 THEN 0 ELSE v) * o) <= c
  <1>1. PICK a \in Int, b \in Int : a = z * d /\ b = v * o
    OBVIOUS
  <1>2. (z > 0 => a >= 0) /\ (~(z > 0) => a <= 0) /\ (v < 0 => b <= 0) /\ (~(v < 0) => b >= 0)
    <2>1. \A f \in Nat, g \in Int : (g >= 0 => g * f >= 0) /\ (g <= 0 => g * f <= 0)
      <3>1. ASSUME NEW f \in Nat, NEW g \in Int PROVE f * g = g * f /\ f * 0 = 0
        OBVIOUS
      <3> QED
        BY <3>1, Monotone
    <2> QED
      BY <1>1, <2>1
  <1>3. \A f \in Nat : 0 * f = 0
    OBVIOUS
  <1>4. (IF z > 0 THEN z ELSE 0) * d = (IF z > 0 THEN a ELSE 0)
    BY <1>1, <1>3
  <1>5. (IF v < 0 THEN 0 ELSE v) * o = (IF v < 0 THEN 0 ELSE b)
    BY <1>1, <1>3
  <1>6. 2 * Abs(a - b) <= c
    BY <1>1
  <1>7. 2 * Abs((IF z > 0 THEN a ELSE 0) - (IF v < 0 THEN 0 ELSE b)) <= c
    BY <1>2, <1>6 DEF Abs
  <1> QED
    BY <1>4, <1>5, <1>7

LEMMA ReluClose ==
  ASSUME NEW N \in Nat, NEW e, Estimate(e, N)
  PROVE  /\ Estimate(ReLU(e), N) /\ ReLU(e).fits = e.fits
         /\ \A y \in Vec(N, Int) : Close(e, y) => Close(ReLU(e), relu(y))
  <1> DEFINE val == [i \in 0 .. N - 1 |-> IF e.val[i] < 0 THEN 0 ELSE e.val[i]]
  <1>1. /\ e.val \in [0 .. N - 1 -> Int] /\ e.err \in [0 .. N - 1 -> Nat]
        /\ e.den \in Nat \ {0} /\ e.one \in Nat \ {0} /\ e.fits \in BOOLEAN
        /\ e = [val |-> e.val, err |-> e.err, den |-> e.den, one |-> e.one, fits |-> e.fits]
    BY DEF Estimate
  <1>2. val \in [0 .. N - 1 -> Int] /\ DOMAIN e.val = 0 .. N - 1
    BY <1>1
  <1>3. PICK f : f = ReLU(e)
    OBVIOUS
  <1>4. f = [val |-> val, err |-> e.err, den |-> e.den, one |-> e.one, fits |-> e.fits]
    BY <1>1, <1>2, <1>3 DEF ReLU
  <1>5. ASSUME NEW y \in Vec(N, Int), Close(e, y), NEW i \in 0 .. N - 1
        PROVE 2 * Abs(relu(y)[i] * e.den - val[i] * e.one) <= e.err[i]
    <2>1. relu(y)[i] = IF y[i] > 0 THEN y[i] ELSE 0
      BY DEF relu, Vec
    <2>2. 2 * Abs(y[i] * e.den - e.val[i] * e.one) <= e.err[i]
      BY <1>2, <1>5 DEF Close
    <2>3. PICK z \in Int, v \in Int, d \in Nat, o \in Nat, c \in Int :
            z = y[i] /\ v = e.val[i] /\ d = e.den /\ o = e.one /\ c = e.err[i]
      BY <1>1 DEF Vec
    <2>4. 2 * Abs((IF z > 0 THEN z ELSE 0) * d - (IF v < 0 THEN 0 ELSE v) * o) <= c
      BY <2>2, <2>3, PositiveClose
    <2>5. val[i] = IF v < 0 THEN 0 ELSE v
      BY <2>3
    <2> QED
      BY <2>1, <2>3, <2>4, <2>5
  <1> HIDE DEF val
  <1>6. Estimate(f, N) /\ f.fits = e.fits
    BY <1>1, <1>2, <1>4 DEF Estimate
  <1>7. ASSUME NEW y \in Vec(N, Int), Close(e, y) PROVE Close(f, relu(y))
    <2>1. f.val = val /\ f.err = e.err /\ f.den = e.den /\ f.one = e.one
          /\ DOMAIN val = 0 .. N - 1
      BY <1>2, <1>4
    <2> QED
      BY <1>5, <1>7, <2>1 DEF Close
  <1> QED
    BY <1>3, <1>6, <1>7

-----------------------------------------------------------------------------
(* Standardised features. *)

\* The common multiple of the scales that are used is one.
LEMMA DenominatorIs ==
  ASSUME NEW n, NEW scale \in Vec(N0, Nat), scale = n.trained.scale,
         \A i \in 0 .. N0 - 1 : n.scale[i] # 0 => scale[i] # 0
  PROVE  /\ Denominator(n) \in Nat \ {0}
         /\ \A i \in 0 .. N0 - 1 : n.scale[i] # 0 => Denominator(n) % scale[i] = 0
  <1> DEFINE U == {i \in 0 .. N0 - 1 : n.scale[i] # 0}
             f == [i \in 0 .. N0 - 1 |-> IF i \in U THEN scale[i] ELSE 1]
             product[i \in 0 .. N0] ==
               IF i = 0 THEN 1
               ELSE product[i - 1] * (IF i - 1 \in U THEN n.trained.scale[i - 1] ELSE 1)
             Multiplies(g) == g = [i \in 0 .. N0 |->
               IF i = 0 THEN 1 ELSE g[i - 1] * (IF i - 1 \in U THEN n.trained.scale[i - 1] ELSE 1)]
             step == [j \in 0 .. N0 - 1 |-> [z \in Int |-> z * f[j]]]
  <1>1. scale \in [0 .. N0 - 1 -> Nat] /\ N0 \in Nat
    BY InferenceAssumption DEF Vec
  <1>2. /\ f \in [0 .. N0 - 1 -> Nat \ {0}]
        /\ \A i \in U : scale[i] \in Nat \ {0} /\ f[i] = scale[i]
    BY <1>1
  <1>3. step \in [0 .. N0 - 1 -> [Int -> Int]]
    <2>1. ASSUME NEW j \in 0 .. N0 - 1, NEW z \in Int PROVE z * f[j] \in Int
      <3>1. f[j] \in Int
        BY <1>2
      <3> QED
        BY <3>1
    <2> HIDE DEF f
    <2> QED
      BY <2>1
  <1>4. PICK m \in [0 .. N0 -> Int] :
          m[0] = 1 /\ \A j \in 1 .. N0 : m[j] = step[j - 1][m[j - 1]]
    <2> HIDE DEF step
    <2>1. 1 \in Int
      OBVIOUS
    <2> QED
      BY <1>1, <1>3, <2>1, Recursion
  <1>5. ASSUME NEW j \in Nat, j + 1 <= N0
        PROVE  m[j + 1] = m[j] * f[j] /\ j \in 0 .. N0 - 1 /\ m[j] \in Int
    <2>1. j + 1 \in 1 .. N0 /\ (j + 1) - 1 = j /\ j \in 0 .. N0 - 1 /\ m[j] \in Int
      BY <1>1, <1>5
    <2> HIDE DEF f
    <2> QED
      BY <1>4, <2>1
  <1> HIDE DEF step
  <1>6. Multiplies(m)
    <2>1. ASSUME NEW i \in 0 .. N0, i # 0
          PROVE m[i] = m[i - 1] * (IF i - 1 \in U THEN n.trained.scale[i - 1] ELSE 1)
      <3>1. PICK j \in Nat : j = i - 1 /\ j + 1 = i /\ j + 1 <= N0
        BY <1>1, <2>1
      <3>2. m[i] = m[j] * f[j] /\ j \in 0 .. N0 - 1
        BY <1>5, <3>1
      <3> QED
        BY <3>1, <3>2
    <2> HIDE DEF U
    <2> QED
      BY <1>4, <2>1
  <1>7. Multiplies(product)
    BY <1>6, Zenon
  <1> DEFINE t == product
  <1>8. Denominator(n) = CHOOSE d \in 1 .. t[N0] : \A i \in U : d % n.trained.scale[i] = 0
    BY DEF Denominator
  <1>9. Multiplies(t)
    BY <1>7
  <1> HIDE DEF t
  <1> DEFINE Divides(j) == \A i \in U : i < j => \E k \in Nat : t[j] = scale[i] * k
             S == {j \in Nat : j <= N0 => t[j] \in Nat \ {0} /\ Divides(j)}
  <1>10. 0 \in S
    BY <1>1, <1>9
  <1>11. ASSUME NEW j \in Nat, j \in S PROVE j + 1 \in S
    <2> SUFFICES ASSUME j + 1 <= N0 PROVE t[j + 1] \in Nat \ {0} /\ Divides(j + 1)
      OBVIOUS
    <2>1. j \in 0 .. N0 - 1 /\ t[j + 1] = t[j] * f[j]
      <3>1. j \in 0 .. N0 - 1 /\ j + 1 \in 0 .. N0 /\ j + 1 # 0 /\ (j + 1) - 1 = j
        BY <1>1
      <3>2. t[j + 1] = t[j] * (IF j \in U THEN n.trained.scale[j] ELSE 1)
        BY <1>9, <3>1
      <3>3. f[j] = IF j \in U THEN n.trained.scale[j] ELSE 1
        BY <3>1
      <3> QED
        BY <3>1, <3>2, <3>3
    <2>d. t[j] \in Nat \ {0} /\ Divides(j)
      BY <1>1, <1>11
    <2> HIDE DEF U, f
    <2>2. PICK a \in Nat \ {0}, b \in Nat \ {0} : a = t[j] /\ b = f[j]
      BY <1>2, <2>d, <2>1
    <2>3. t[j + 1] = a * b /\ a * b \in Nat \ {0}
      BY <2>1, <2>2
    <2>4. ASSUME NEW i \in U, i < j + 1 PROVE \E k \in Nat : t[j + 1] = scale[i] * k
      <3>1. CASE i = j
        <4>1. b = scale[i]
          BY <1>2, <2>2, <3>1
        <4>2. t[j + 1] = scale[i] * a
          BY <2>3, <4>1
        <4> QED
          BY <4>2
      <3>2. CASE i # j
        <4>1. PICK k \in Nat : t[j] = scale[i] * k
          <5>1. i \in 0 .. N0 - 1
            BY DEF U
          <5>2. i < j
            BY <1>1, <2>4, <3>2, <5>1
          <5> QED
            BY <2>d, <5>2
        <4>2. PICK c \in Nat : c = scale[i]
          BY <1>2
        <4>3. (c * k) * b = c * (k * b) /\ k * b \in Nat
          OBVIOUS
        <4> QED
          BY <2>2, <2>3, <4>1, <4>2, <4>3
      <3> QED
        BY <3>1, <3>2
    <2> QED
      BY <2>3, <2>4
  <1>12. N0 \in S
    <2> HIDE DEF S
    <2> QED
      BY <1>1, <1>10, <1>11, Induction
  <1>13. t[N0] \in Nat \ {0} /\ Divides(N0)
    BY <1>1, <1>12
  <1>14. \A i \in U : t[N0] % n.trained.scale[i] = 0
    <2> SUFFICES ASSUME NEW i \in U PROVE t[N0] % scale[i] = 0
      OBVIOUS
    <2>1. PICK c \in Nat \ {0} : c = scale[i]
      BY <1>2
    <2>2. i < N0
      BY <1>1
    <2>3. PICK k \in Nat : t[N0] = c * k
      BY <1>13, <2>1, <2>2
    <2>4. (c * k) % c = 0
      OBVIOUS
    <2> QED
      BY <2>1, <2>3, <2>4
  <1>15. \E d \in 1 .. t[N0] : \A i \in U : d % n.trained.scale[i] = 0
    BY <1>13, <1>14
  <1>16. /\ Denominator(n) \in 1 .. t[N0]
         /\ \A i \in U : Denominator(n) % n.trained.scale[i] = 0
    <2> HIDE DEF U
    <2> QED
      BY <1>8, <1>15, Zenon
  <1> QED
    BY <1>13, <1>16

\* 2 * s times the error of a quotient, with the parts it comes from: the rounding of the
\* mean (a) and of the scale (b), and what the division cuts off (c).
LEMMA QuotientError ==
  ASSUME NEW X \in Int, NEW h \in Int, NEW g \in Int, NEW k \in Int, NEW m \in Int, NEW s \in Int,
         NEW y \in Int, NEW O \in Int, NEW den \in Int, NEW val \in Int,
         NEW a \in Int, NEW b \in Int, NEW c \in Int,
         den = g * k, val = (2 * X - h) * k, a = 2 * m - h, b = 2 * s - g, c = y * s - (X - m) * O
  PROVE  s * (2 * (y * den - val * O)) = 2 * (den * c) - (den * a + val * b) * O
  <1>1. g = 2 * s - b /\ h = 2 * m - a
    OBVIOUS
  <1>2. g * val = den * (2 * X - h)
    OBVIOUS
  <1>3. y * s = c + (X - m) * O
    OBVIOUS
  <1>4. s * (2 * (y * den - val * O)) = 2 * (den * (y * s)) - (2 * s) * (val * O)
    OBVIOUS
  <1>5. 2 * s = g + b
    BY <1>1
  <1>6. (2 * s) * (val * O) = (g * val) * O + (val * b) * O
    BY <1>5
  <1>7. 2 * (den * (y * s)) = 2 * (den * c) + (den * (2 * (X - m))) * O
    BY <1>3
  <1>8. 2 * (X - m) = (2 * X - h) - a
    BY <1>1
  <1>9. (den * (2 * (X - m))) * O = (den * (2 * X - h)) * O - (den * a) * O
    BY <1>8
  <1> QED
    BY <1>2, <1>4, <1>6, <1>7, <1>9

\* The scaler's y divides X - m by s, cutting off less than one.
Divides(y, X, m, s) == Within(y * s - (X - m) * One, s)

\* The exported m and s are half of h and g, up to a and b halves.
Halves(m, h, a, s, g, b) == Within(2 * m - h, a) /\ Within(2 * s - g, b)

\* val / den is 2 * X - h divided by g.
Fraction(val, den, X, h, g, k) == den = g * k /\ val = (2 * X - h) * k

QuotientErr(val, b, den, a, s) == (((Abs(val) * b + den * a) * One) \div s) + 1 + 2 * den

LEMMA QuotientClose ==
  ASSUME NEW X \in Int, NEW h \in Int, NEW g \in Nat, NEW k \in Nat, NEW m \in Int,
         NEW s \in Nat \ {0}, NEW y \in Int, NEW den \in Nat, NEW val \in Int,
         NEW a \in Nat, NEW b \in Nat,
         Fraction(val, den, X, h, g, k), Halves(m, h, a, s, g, b), Divides(y, X, m, s)
  PROVE  Near(y, den, val, One, QuotientErr(val, b, den, a, s))
  <1>1. One \in Nat \ {0} /\ Abs(val) \in Nat
    BY FixedPointAssumption, AbsIs
  <1>2. PICK a1 \in Int, b1 \in Int, c1 \in Int :
          a1 = 2 * m - h /\ b1 = 2 * s - g /\ c1 = y * s - (X - m) * One
    <2>1. y * s - (X - m) * One \in Int
      BY <1>1
    <2>2. PICK c1 \in Int : c1 = y * s - (X - m) * One
      BY <2>1
    <2>3. 2 * m - h \in Int /\ 2 * s - g \in Int
      OBVIOUS
    <2> QED
      BY <2>2, <2>3, Zenon
  <1>3. PICK z \in Int : z = y * den - val * One
    BY <1>1
  <1>4. s * (2 * z) = 2 * (den * c1) - (den * a1 + val * b1) * One
    <2>1. den = g * k /\ val = (2 * X - h) * k
      BY DEF Fraction
    <2> QED
      BY <2>1, <1>1, <1>2, <1>3, QuotientError
  <1>5. Within(den * c1, den * s) /\ Within(den * a1, den * a) /\ Within(val * b1, Abs(val) * b)
    <2>1. Abs(den) = den
      BY DEF Abs
    <2>2. Within(c1, s) /\ Within(a1, a) /\ Within(b1, b)
      BY <1>2 DEF Divides, Halves
    <2>3. Within(den * c1, Abs(den) * s)
      BY <2>2, ProductWithin
    <2>4. Within(den * a1, Abs(den) * a)
      BY <2>2, ProductWithin
    <2>5. Within(val * b1, Abs(val) * b)
      BY <2>2, ProductWithin
    <2> QED
      BY <2>1, <2>3, <2>4, <2>5
  <1>6. PICK p \in Int, q \in Int, r \in Int, ds \in Nat, da \in Nat, vb \in Nat :
          /\ p = den * c1 /\ q = den * a1 /\ r = val * b1
          /\ ds = den * s /\ da = den * a /\ vb = Abs(val) * b
    <2>1. PICK v \in Nat : v = Abs(val)
      BY <1>1
    <2>2. v * b \in Nat /\ den * s \in Nat /\ den * a \in Nat
      OBVIOUS
    <2>3. den * c1 \in Int /\ den * a1 \in Int /\ val * b1 \in Int
      OBVIOUS
    <2> QED
      BY <2>1, <2>2, <2>3
  <1>7. Within((q + r) * One, (vb + da) * One)
    <2>1. Within(q + r, vb + da)
      BY <1>5, <1>6 DEF Within
    <2>2. PICK f \in Int, e \in Int : f = q + r /\ e = vb + da
      OBVIOUS
    <2>3. Within(One * f, Abs(One) * e) /\ Abs(One) = One
      <3>1. Abs(One) = One
        BY <1>1 DEF Abs
      <3>2. One \in Int /\ Within(f, e)
        BY <1>1, <2>1, <2>2
      <3> QED
        BY <3>1, <3>2, ProductWithin
    <2>4. One * f = f * One /\ One * e = e * One
      BY <1>1
    <2> QED
      BY <2>2, <2>3, <2>4
  <1>8. PICK f \in Int, A \in Nat : f = (q + r) * One /\ A = (vb + da) * One
    BY <1>1
  <1>9. PICK t \in Nat, rest \in Nat : t = A \div s /\ A = s * t + rest /\ rest < s
    <2>1. A \in Int /\ A >= 0
      OBVIOUS
    <2>2. A \div s \in Nat /\ A % s \in 0 .. s - 1 /\ A = s * (A \div s) + (A % s)
      BY <2>1, QuotientBounds
    <2> QED
      BY <2>2
  <1>10. Within(2 * z, t + 1 + 2 * den)
    <2>1. s * (2 * z) = 2 * p - f /\ Within(p, ds) /\ Within(f, A)
      BY <1>4, <1>5, <1>6, <1>7, <1>8
    <2>2. PICK st \in Int, sz \in Int : st = s * t /\ sz = s * (2 * z)
      OBVIOUS
    <2>3. -(st + s + 2 * ds) <= sz /\ sz <= st + s + 2 * ds
      BY <1>9, <2>1, <2>2 DEF Within
    <2>4. PICK e \in Int : e = t + 1 + 2 * den
      OBVIOUS
    <2>5. s * e = st + s + 2 * ds
      <3>1. s * e = s * t + s * 1 + s * (2 * den)
        BY <2>4
      <3>2. s * (2 * den) = 2 * ds /\ s * 1 = s
        BY <1>6
      <3> QED
        BY <2>2, <3>1, <3>2
    <2>6. s * (-e) = -(s * e) /\ -e \in Int /\ 2 * z \in Int
      OBVIOUS
    <2>7. s * (2 * z) <= s * e /\ s * (-e) <= s * (2 * z)
      BY <2>2, <2>3, <2>5, <2>6
    <2>8. 2 * z <= e /\ -e <= 2 * z
      BY <2>6, <2>7, Monotone
    <2> QED
      BY <2>4, <2>8 DEF Within
  <1>11. t = ((Abs(val) * b + den * a) * One) \div s
    BY <1>6, <1>8, <1>9
  <1> QED
    BY <1>3, <1>10, <1>11 DEF Near, QuotientErr

LEMMA QuotientErrTyped ==
  ASSUME NEW s \in Nat \ {0}, NEW den \in Nat, NEW val \in Int, NEW a \in Nat, NEW b \in Nat
  PROVE  QuotientErr(val, b, den, a, s) \in Nat
  <1>1. PICK v \in Nat, o \in Nat : v = Abs(val) /\ o = One
    BY AbsIs, FixedPointAssumption
  <1>2. PICK c \in Nat : c = (v * b + den * a) * o
    OBVIOUS
  <1>3. c \div s \in Nat
    <2>1. c \in Int /\ c >= 0
      OBVIOUS
    <2>2. c >= 0 => c \div s \in Nat
      BY <2>1, QuotientBounds
    <2> QED
      BY <2>1, <2>2
  <1> QED
    BY <1>1, <1>2, <1>3 DEF QuotientErr

LEMMA QuotientTyped ==
  ASSUME NEW d \in Int, NEW s \in Int
  PROVE  Quotient(d, s) \in -Half32 .. Half32 - 1
  <1>1. One \in Nat \ {0}
    BY FixedPointAssumption
  <1>2. PICK a \in Nat, b \in Nat : a = uint64(d) /\ b = uint64(s)
    BY Ranges
  <1>3. PICK c \in Nat : c = uint64(a * One)
    <2>1. a * One \in Int
      BY <1>1
    <2> QED
      BY <2>1, Ranges
  <1>4. udiv(c, b) \in Int
    <2>1. CASE b = 0
      BY <2>1 DEF udiv
    <2>2. CASE b # 0
      <3>1. c \div b \in Int
        BY <2>2, QuotientBounds
      <3> QED
        BY <2>2, <3>1 DEF udiv
    <2> QED
      BY <2>1, <2>2
  <1>5. Quotient(d, s) = int32(udiv(c, b))
    BY <1>2, <1>3 DEF Quotient
  <1> QED
    BY <1>4, <1>5, Ranges

\* Within the ranges that an estimate asks for, nothing is cut.
LEMMA QuotientIs ==
  ASSUME NEW d \in Nat, NEW s \in Nat, s < Half64, d * One < 2 * Half64, udiv(d * One, s) < Half32
  PROVE  /\ Quotient(d, s) = udiv(d * One, s)
         /\ udiv(d * One, s) \in 0 .. Half32 - 1
  <1>1. PICK c \in Nat : c = d * One /\ d <= c
    <2>1. One \in Nat /\ 1 <= One
      BY FixedPointAssumption
    <2>2. d * 1 <= d * One
      BY <2>1, Monotone
    <2> QED
      BY <2>1, <2>2
  <1>2. Half64 \in Nat \ {0} /\ Half32 \in Nat \ {0}
    BY FixedPointAssumption
  <1>3. uint64(d) = d /\ uint64(c) = c /\ uint64(s) = s
    <2>1. d \in 0 .. 2 * Half64 - 1 /\ c \in 0 .. 2 * Half64 - 1 /\ s \in 0 .. 2 * Half64 - 1
      BY <1>1, <1>2
    <2> QED
      BY <2>1, Ranges
  <1>4. udiv(c, s) \in Nat
    <2>1. CASE s = 0
      BY <2>1 DEF udiv
    <2>2. CASE s # 0
      <3>1. c \in Int /\ s \in Nat \ {0} /\ c >= 0
        BY <2>2
      <3>2. c >= 0 => c \div s \in Nat
        BY <3>1, QuotientBounds
      <3> QED
        BY <2>2, <3>1, <3>2 DEF udiv
    <2> QED
      BY <2>1, <2>2
  <1>5. PICK u \in Nat : u = udiv(c, s) /\ u < Half32
    BY <1>1, <1>4
  <1>6. Quotient(d, s) = int32(u)
    BY <1>1, <1>3, <1>5 DEF Quotient
  <1>7. u \in -Half32 .. Half32 - 1 /\ u \in 0 .. Half32 - 1
    BY <1>2, <1>5
  <1>8. int32(u) = u
    BY <1>7, Ranges
  <1> QED
    BY <1>1, <1>5, <1>6, <1>7, <1>8

\* The scaler divides, cutting off less than one either way; by a scale of 0, it gives 0.
LEMMA ScalerIs ==
  ASSUME NEW y, NEW X \in Int, NEW m \in Int, NEW s \in Nat,
         y = IF m > X THEN int32(-Quotient(m - X, s)) ELSE Quotient(X - m, s),
         s < Half64, Abs(X - m) * One < 2 * Half64, udiv(Abs(X - m) * One, s) < Half32
  PROVE  /\ y \in Int
         /\ s = 0 => y = 0
         /\ s # 0 => Divides(y, X, m, s)
  <1>1. One \in Nat \ {0} /\ Half32 \in Nat \ {0}
    BY FixedPointAssumption
  <1>2. PICK d \in Nat : d = Abs(X - m) /\ d = IF m > X THEN m - X ELSE X - m
    <2>1. PICK z \in Int : z = X - m
      OBVIOUS
    <2>2. Abs(z) \in Nat /\ Abs(z) = IF m > X THEN m - X ELSE X - m
      BY <2>1 DEF Abs
    <2> QED
      BY <2>1, <2>2
  <1>3. PICK q \in 0 .. Half32 - 1 : q = Quotient(d, s) /\ q = udiv(d * One, s)
    BY <1>2, QuotientIs
  <1>4. int32(-q) = -q
    <2>1. -q \in -Half32 .. Half32 - 1
      BY <1>1
    <2> QED
      BY <2>1, Ranges
  <1>5. y = IF m > X THEN -q ELSE q
    BY <1>2, <1>3, <1>4
  <1>6. s = 0 => q = 0
    BY <1>3 DEF udiv
  <1>7. ASSUME s # 0 PROVE Within(y * s - (X - m) * One, s)
    <2>1. PICK c \in Int : c = d * One
      BY <1>1
    <2>2. q = c \div s /\ s \in Nat \ {0}
      BY <1>3, <1>7, <2>1 DEF udiv
    <2>3. PICK rest \in Nat : c = s * q + rest /\ rest < s
      <3>1. c % s \in 0 .. s - 1 /\ c = s * (c \div s) + (c % s)
        BY <2>2, QuotientBounds
      <3> QED
        BY <2>2, <3>1
    <2>4. CASE m > X
      <3>1. X - m = -d /\ y = -q
        BY <1>2, <1>5, <2>4
      <3>2. y * s = -(s * q) /\ (X - m) * One = -c
        BY <1>1, <2>1, <3>1
      <3>3. y * s - (X - m) * One = rest
        BY <2>3, <3>2
      <3> QED
        BY <2>3, <3>3 DEF Within
    <2>5. CASE ~(m > X)
      <3>1. X - m = d /\ y = q
        BY <1>2, <1>5, <2>5
      <3>2. y * s = s * q /\ (X - m) * One = c
        BY <1>1, <2>1, <3>1
      <3>3. y * s - (X - m) * One = -rest
        BY <2>3, <3>2
      <3> QED
        BY <2>3, <3>3 DEF Within
    <2> QED
      BY <2>4, <2>5
  <1> QED
    BY <1>5, <1>6, <1>7 DEF Divides

\* A header or a slot holds what the exporter makes of a trained network.
Header(n) == \E t \in Trained, factor \in Nat \ {0} : n = Exported(t, factor)

LEMMA HeaderIs ==
  ASSUME NEW n, Header(n)
  PROVE  /\ n.trained \in Trained /\ n.factor \in Nat \ {0}
         /\ n.layer_0_weight = Fixed(n.trained.layer_0, N1, N0, n.factor)
         /\ n.layer_1_weight = Fixed(n.trained.layer_1, N1, N1, n.factor)
         /\ n.layer_2_weight = Fixed(n.trained.layer_2, 2, N1, n.factor)
         /\ DOMAIN n.mean = 0 .. N0 - 1
         /\ \A i \in 0 .. N0 - 1 : /\ n.mean[i] = Round(n.trained.mean[i], 2)
                                   /\ n.scale[i] = Round(n.trained.scale[i], 2)
  <1>1. PICK t \in Trained, factor \in Nat \ {0} : n = Exported(t, factor)
    BY DEF Header
  <1>2. n.trained = t /\ n.factor = factor
    BY <1>1 DEF Exported
  <1> QED
    BY <1>1, <1>2 DEF Exported

LEMMA TrainedIs ==
  ASSUME NEW t \in Trained
  PROVE  /\ t.layer_0 \in Vec(N1, Vec(N0, Int)) /\ t.layer_1 \in Vec(N1, Vec(N1, Int))
         /\ t.layer_2 \in Vec(2, Vec(N1, Int))
         /\ t.mean \in Vec(N0, Int) /\ t.scale \in Vec(N0, Nat)
  BY DEF Trained

\* The parameters of the scaler for one feature.
ScaleOf(n, i, h, g, m, s, a, b) ==
  /\ h = n.trained.mean[i] /\ g = n.trained.scale[i] /\ m = n.mean[i] /\ s = n.scale[i]
  /\ a = Off(h) /\ b = Off(g) /\ Halves(m, h, a, s, g, b)
  /\ s # 0 => g # 0

LEMMA ScaleIs ==
  ASSUME NEW n, Header(n), NEW i \in 0 .. N0 - 1
  PROVE  \E h \in Int, g \in Nat, m \in Int, s \in Nat, a \in Nat, b \in Nat :
           ScaleOf(n, i, h, g, m, s, a, b)
  <1>1. n.trained \in Trained
    BY HeaderIs
  <1>2. PICK h \in Int, g \in Nat : h = n.trained.mean[i] /\ g = n.trained.scale[i]
    <2>1. n.trained.mean \in Vec(N0, Int) /\ n.trained.scale \in Vec(N0, Nat)
      BY <1>1, TrainedIs
    <2> QED
      BY <2>1 DEF Vec
  <1>3. n.mean[i] = Round(h, 2) /\ n.scale[i] = Round(g, 2)
    BY <1>2, HeaderIs
  <1>4. PICK m \in Int, a \in Nat : m = Round(h, 2) /\ a = Off(h) /\ Within(2 * m - h, a)
    BY HalfIs
  <1>5. PICK s \in Nat, b \in Nat : s = Round(g, 2) /\ b = Off(g) /\ Within(2 * s - g, b)
    BY HalfIs
  <1>6. s # 0 => g # 0
    BY <1>5 DEF Within, Off
  <1> QED
    BY <1>2, <1>3, <1>4, <1>5, <1>6 DEF Halves, ScaleOf

\* Feature i of the scaler's result.
LEMMA FeatureClose ==
  ASSUME NEW n, Header(n), NEW in \in Vec(N0, Int), NEW i \in 0 .. N0 - 1
  PROVE  LET e == Standardised(n, in)
             y == standard_scaler(in, n.mean, n.scale)
         IN  /\ e.val[i] \in Int /\ e.err[i] \in Nat
             /\ e.fits => 2 * Abs(y[i] * e.den - e.val[i] * e.one) <= e.err[i]
  <1>1. PICK X \in Int : X = in[i]
    BY DEF Vec
  <1>2. PICK h \in Int, g \in Nat, m \in Int, s \in Nat, a \in Nat, b \in Nat :
           /\ h = n.trained.mean[i] /\ g = n.trained.scale[i] /\ m = n.mean[i] /\ s = n.scale[i]
           /\ a = Off(h) /\ b = Off(g) /\ Halves(m, h, a, s, g, b)
           /\ s # 0 => g # 0
    BY ScaleIs DEF ScaleOf
  <1>3. PICK e : e = Standardised(n, in)
    OBVIOUS
  <1>4. PICK den \in Nat \ {0} : den = Denominator(n) /\ (s # 0 => den % g = 0)
    <2>1. n.trained \in Trained
      BY HeaderIs
    <2>2. PICK scale \in Vec(N0, Nat) : scale = n.trained.scale
      BY <2>1, TrainedIs
    <2>3. ASSUME NEW j \in 0 .. N0 - 1, n.scale[j] # 0 PROVE scale[j] # 0
      BY <2>2, <2>3, ScaleIs DEF ScaleOf
    <2>4. /\ Denominator(n) \in Nat \ {0}
          /\ \A j \in 0 .. N0 - 1 : n.scale[j] # 0 => Denominator(n) % scale[j] = 0
      BY <2>2, <2>3, DenominatorIs
    <2> QED
      BY <1>2, <2>2, <2>4
  <1>5. /\ e.den = den /\ e.one = One
        /\ e.val[i] = IF s = 0 THEN 0 ELSE (2 * X - h) * (den \div g)
        /\ e.err[i] = IF s = 0 THEN 0
                      ELSE QuotientErr(e.val[i], b, den, a, s)
    BY <1>1, <1>2, <1>3, <1>4 DEF Standardised, QuotientErr
  <1>6. e.fits => /\ Abs(m) < Half64 /\ s < Half64
                  /\ Abs(X - m) * One < 2 * Half64 /\ udiv(Abs(X - m) * One, s) < Half32
    BY <1>1, <1>2, <1>3 DEF Standardised
  <1>7. PICK y : /\ y = standard_scaler(in, n.mean, n.scale)[i]
                 /\ y = IF m > X THEN int32(-Quotient(m - X, s)) ELSE Quotient(X - m, s)
    <2>1. DOMAIN n.mean = 0 .. N0 - 1
      BY HeaderIs
    <2> QED
      BY <1>1, <1>2, <2>1 DEF standard_scaler
  <1>8. CASE s = 0
    <2>1. e.fits => y = 0
      BY <1>6, <1>7, <1>8, ScalerIs
    <2>2. 0 * den = 0 /\ 0 * One = 0 /\ 2 * Abs(0 - 0) = 0
      BY FixedPointAssumption DEF Abs
    <2> QED
      BY <1>3, <1>5, <1>7, <1>8, <2>1, <2>2
  <1>9. CASE s # 0
    <2>1. PICK k \in Nat : k = den \div g /\ den = g * k
      <3>1. den \in Int /\ g \in Nat \ {0} /\ den >= 0 /\ den % g = 0
        BY <1>2, <1>4, <1>9
      <3>2. den = g * (den \div g) + (den % g) /\ (den >= 0 => den \div g \in Nat)
        BY <3>1, QuotientBounds
      <3>3. PICK k \in Nat : k = den \div g
        BY <3>1, <3>2
      <3>4. den = g * k
        BY <3>1, <3>2, <3>3
      <3> QED
        BY <3>3, <3>4
    <2>2. PICK v \in Int : v = (2 * X - h) * k /\ v = e.val[i]
      BY <1>5, <1>9, <2>1
    <2>3. e.fits => y \in Int /\ Divides(y, X, m, s)
      BY <1>6, <1>7, <1>9, ScalerIs
    <2>4. s \in Nat \ {0} /\ den \in Nat /\ Fraction(v, den, X, h, g, k)
      BY <1>9, <2>1, <2>2 DEF Fraction
    <2>5. PICK c \in Nat : c = QuotientErr(v, b, den, a, s)
      BY <2>4, QuotientErrTyped
    <2>6. e.fits => Near(y, den, v, One, c)
      BY <1>2, <2>3, <2>4, <2>5, QuotientClose
    <2>7. e.fits => 2 * Abs(y * den - v * One) <= c
      <3>1. ASSUME e.fits PROVE 2 * Abs(y * den - v * One) <= c
        <4>1. y \in Int /\ den \in Int /\ v \in Int /\ One \in Int /\ c \in Int
          BY <2>3, <3>1, FixedPointAssumption
        <4>2. Near(y, den, v, One, c)
          BY <2>6, <3>1
        <4> QED
          BY <4>1, <4>2, NearIs
      <3> QED
        BY <3>1
    <2> QED
      BY <1>3, <1>5, <1>7, <1>9, <2>2, <2>5, <2>7
  <1> QED
    BY <1>3, <1>8, <1>9

LEMMA StandardClose ==
  ASSUME NEW n, Header(n), NEW in \in Vec(N0, Int)
  PROVE  /\ Estimate(Standardised(n, in), N0)
         /\ Standardised(n, in).fits =>
              Close(Standardised(n, in), standard_scaler(in, n.mean, n.scale))
  <1>1. PICK e : e = Standardised(n, in)
    OBVIOUS
  <1>2. Denominator(n) \in Nat \ {0}
    <2>1. n.trained \in Trained
      BY HeaderIs
    <2>2. PICK scale \in Vec(N0, Nat) : scale = n.trained.scale
      BY <2>1, TrainedIs
    <2>3. ASSUME NEW j \in 0 .. N0 - 1, n.scale[j] # 0 PROVE scale[j] # 0
      BY <2>2, <2>3, ScaleIs DEF ScaleOf
    <2> QED
      BY <2>2, <2>3, DenominatorIs
  <1>3. \A i \in 0 .. N0 - 1 : e.val[i] \in Int /\ e.err[i] \in Nat
    BY <1>1, FeatureClose
  <1> DEFINE val == [i \in 0 .. N0 - 1 |-> e.val[i]]
             err == [i \in 0 .. N0 - 1 |-> e.err[i]]
  <1>4. /\ e = [val |-> val, err |-> err, den |-> Denominator(n), one |-> One, fits |-> e.fits]
        /\ e.fits \in BOOLEAN
    BY <1>1 DEF Standardised
  <1>5. val \in [0 .. N0 - 1 -> Int] /\ err \in [0 .. N0 - 1 -> Nat]
    BY <1>3
  <1> HIDE DEF val, err
  <1>6. Estimate(e, N0)
    BY <1>2, <1>4, <1>5, FixedPointAssumption DEF Estimate
  <1>7. DOMAIN e.val = 0 .. N0 - 1
    BY <1>6 DEF Estimate
  <1>8. e.fits => Close(e, standard_scaler(in, n.mean, n.scale))
    BY <1>1, <1>7, FeatureClose DEF Close
  <1> QED
    BY <1>1, <1>6, <1>8

\* What an estimate is close to may be longer.
LEMMA CloseExtends ==
  ASSUME NEW e, NEW n \in Nat, Estimate(e, n), NEW y, NEW z,
         \A i \in 0 .. n - 1 : z[i] = y[i], Close(e, y)
  PROVE  Close(e, z)
  BY DEF Estimate, Close

-----------------------------------------------------------------------------
(* The forward pass. *)

IsEstimate(e) == \E n \in Nat : Estimate(e, n)

\* g is an estimate of what the layer's weights W make of a vector that e is close to.
Passes(e, g, W, M, N) ==
  \A y : Feeds(e, y, N) => Close(g, linear_layer(W, y, M, N))

\* A layer fits only if its input does.
LEMMA LayerStep ==
  ASSUME NEW M \in Nat, NEW N \in Nat, NEW e, IsEstimate(e), e.fits => Estimate(e, N),
         NEW w \in Vec(M, Vec(N, Int)), NEW F \in Nat \ {0}, NEW W, W = Fixed(w, M, N, F)
  PROVE  LET g == Layer(e, w, W, M, N, F)
         IN  IsEstimate(g) /\ (g.fits => e.fits /\ Estimate(g, M) /\ Passes(e, g, W, M, N))
  <1>1. PICK g : g = Layer(e, w, W, M, N, F)
    OBVIOUS
  <1>2. CASE e.fits
    <2>1. /\ Estimate(g, M)
          /\ g.fits => \A y : (\A j \in 0 .. N - 1 : y[j] \in Int) /\ Close(e, y)
                               => Close(g, linear_layer(W, y, M, N))
      BY <1>1, <1>2, LayerClose
    <2> QED
      BY <1>1, <1>2, <2>1 DEF IsEstimate, Passes, Feeds
  <1>3. CASE ~e.fits
    <2>1. g = e
      BY <1>1, <1>3 DEF Layer
    <2> QED
      BY <1>1, <1>3, <2>1
  <1> QED
    BY <1>2, <1>3

LEMMA ReluStep ==
  ASSUME NEW M \in Nat, NEW e, IsEstimate(e), e.fits => Estimate(e, M)
  PROVE  /\ IsEstimate(ReLU(e)) /\ ReLU(e).fits = e.fits
         /\ e.fits => /\ Estimate(ReLU(e), M)
                      /\ \A y \in Vec(M, Int) : Close(e, y) => Close(ReLU(e), relu(y))
  BY ReluClose DEF IsEstimate

\* The layers' exported weights, with the sizes of the network.
LEMMA NetIs ==
  ASSUME NEW n, Header(n)
  PROVE  /\ n.factor \in Nat \ {0} /\ N0 \in Nat /\ N1 \in Nat /\ 2 \in Nat
         /\ n.trained.layer_0 \in Vec(N1, Vec(N0, Int))
         /\ n.layer_0_weight = Fixed(n.trained.layer_0, N1, N0, n.factor)
         /\ n.trained.layer_1 \in Vec(N1, Vec(N1, Int))
         /\ n.layer_1_weight = Fixed(n.trained.layer_1, N1, N1, n.factor)
         /\ n.trained.layer_2 \in Vec(2, Vec(N1, Int))
         /\ n.layer_2_weight = Fixed(n.trained.layer_2, 2, N1, n.factor)
  BY HeaderIs, TrainedIs, InferenceAssumption

\* Stage by stage, what the kernel computes of something close is close.
LEMMA Forward ==
  ASSUME Header(net), x \in Vec(N0, Int)
  PROVE  /\ Estimate(Scaled, N0)
         /\ Scaled.fits => Close(Scaled, standard_scaler(x, net.mean, net.scale))
         /\ Input.fits  => /\ Scaled.fits
                           /\ Passes(Scaled, Input, net.layer_0_weight, N1, N0)
                           /\ \A y \in Vec(N1, Int) : Close(Input, y) => Close(ReLU(Input), relu(y))
         /\ Hidden.fits => /\ Input.fits
                           /\ Passes(ReLU(Input), Hidden, net.layer_1_weight, N1, N1)
                           /\ \A y \in Vec(N1, Int) : Close(Hidden, y) => Close(ReLU(Hidden), relu(y))
         /\ Output.fits => /\ Hidden.fits /\ Estimate(Output, 2)
                           /\ Passes(ReLU(Hidden), Output, net.layer_2_weight, 2, N1)
  <1>1. /\ Estimate(Scaled, N0)
        /\ Scaled.fits => Close(Scaled, standard_scaler(x, net.mean, net.scale))
    BY StandardClose DEF Scaled
  <1>2. IsEstimate(Scaled)
    BY <1>1, NetIs DEF IsEstimate
  <1>3. PICK n : n = net
    OBVIOUS
  <1>4. Header(n)
    BY <1>3
  <1>5. /\ IsEstimate(Input)
        /\ Input.fits => /\ Scaled.fits /\ Estimate(Input, N1)
                         /\ Passes(Scaled, Input, n.layer_0_weight, N1, N0)
    BY <1>1, <1>2, <1>3, <1>4, NetIs, LayerStep DEF Input
  <1>6. /\ IsEstimate(ReLU(Input)) /\ ReLU(Input).fits = Input.fits
        /\ Input.fits => /\ Estimate(ReLU(Input), N1)
                         /\ \A y \in Vec(N1, Int) : Close(Input, y) => Close(ReLU(Input), relu(y))
    BY <1>4, <1>5, NetIs, ReluStep
  <1>7. /\ IsEstimate(Hidden)
        /\ Hidden.fits => /\ Input.fits /\ Estimate(Hidden, N1)
                          /\ Passes(ReLU(Input), Hidden, n.layer_1_weight, N1, N1)
    BY <1>3, <1>4, <1>6, NetIs, LayerStep DEF Hidden
  <1>8. /\ IsEstimate(ReLU(Hidden)) /\ ReLU(Hidden).fits = Hidden.fits
        /\ Hidden.fits => /\ Estimate(ReLU(Hidden), N1)
                          /\ \A y \in Vec(N1, Int) : Close(Hidden, y) => Close(ReLU(Hidden), relu(y))
    BY <1>4, <1>7, NetIs, ReluStep
  <1>9. Output.fits => /\ Hidden.fits /\ Estimate(Output, 2)
                       /\ Passes(ReLU(Hidden), Output, n.layer_2_weight, 2, N1)
    BY <1>3, <1>4, <1>8, NetIs, LayerStep DEF Output
  <1> QED
    BY <1>1, <1>3, <1>5, <1>6, <1>7, <1>8, <1>9

-----------------------------------------------------------------------------
(* The invariant. *)

\* Header and slot come from the exporter; a label is printed when the detection is over,
\* and says which of the two logits, that are still in the scratch vector, is the greater.
LabelInv ==
  /\ stage # "idle" => label = 2
  /\ label # 2 => label = IF hidden1[0] > hidden1[1] THEN 0 ELSE 1

InferenceInv == TypeOK /\ Header(header) /\ Header(net) /\ LabelInv /\ ActivationsClose

LEMMA Sizes == N0 \in Nat \ {0} /\ N1 \in Nat \ {0, 1} /\ N0 <= N1 /\ Half32 \in Nat \ {0}
  BY InferenceAssumption, FixedPointAssumption

\* The values that the kernel computes fit an int32_t.
LEMMA WeightsTyped ==
  ASSUME NEW n, Header(n)
  PROVE  /\ n.layer_0_weight \in [0 .. N1 * N0 - 1 -> Int]
         /\ n.layer_1_weight \in [0 .. N1 * N1 - 1 -> Int]
         /\ n.layer_2_weight \in [0 .. 2 * N1 - 1 -> Int]
  <1>1. n.factor \in Nat
    BY NetIs
  <1>2. N0 \in Nat /\ N1 \in Nat /\ 2 \in Nat
    BY NetIs
  <1>3. /\ n.trained.layer_0 \in Vec(N1, Vec(N0, Int)) /\ n.trained.layer_1 \in Vec(N1, Vec(N1, Int))
        /\ n.trained.layer_2 \in Vec(2, Vec(N1, Int))
    BY NetIs
  <1>4. /\ Fixed(n.trained.layer_0, N1, N0, n.factor) \in [0 .. N1 * N0 - 1 -> Int]
        /\ Fixed(n.trained.layer_1, N1, N1, n.factor) \in [0 .. N1 * N1 - 1 -> Int]
        /\ Fixed(n.trained.layer_2, 2, N1, n.factor) \in [0 .. 2 * N1 - 1 -> Int]
    BY <1>1, <1>2, <1>3, FixedTyped
  <1> QED
    BY <1>4, NetIs

LEMMA ScalerTyped ==
  ASSUME NEW n, Header(n), NEW in \in Vec(N0, Int)
  PROVE  standard_scaler(in, n.mean, n.scale) \in Vec(N0, -Half32 .. Half32 - 1)
  <1>1. DOMAIN n.mean = 0 .. N0 - 1
    BY HeaderIs
  <1>2. ASSUME NEW i \in 0 .. N0 - 1
        PROVE  standard_scaler(in, n.mean, n.scale)[i] \in -Half32 .. Half32 - 1
    <2>1. PICK X \in Int, m \in Int, s \in Int : X = in[i] /\ m = n.mean[i] /\ s = n.scale[i]
      <3>1. in[i] \in Int
        BY DEF Vec
      <3>2. n.mean[i] \in Int /\ n.scale[i] \in Int
        BY ScaleIs DEF ScaleOf
      <3> QED
        BY <3>1, <3>2
    <2>2. standard_scaler(in, n.mean, n.scale)[i]
            = IF m > X THEN int32(-Quotient(m - X, s)) ELSE Quotient(X - m, s)
      BY <1>1, <2>1 DEF standard_scaler
    <2>3. Quotient(X - m, s) \in -Half32 .. Half32 - 1
      <3>1. X - m \in Int
        OBVIOUS
      <3> QED
        BY <3>1, QuotientTyped
    <2>4. int32(-Quotient(m - X, s)) \in -Half32 .. Half32 - 1
      <3>0. m - X \in Int
        OBVIOUS
      <3>1. PICK q \in Int : q = Quotient(m - X, s)
        BY <3>0, QuotientTyped, Sizes
      <3>2. -q \in Int
        OBVIOUS
      <3> QED
        BY <3>1, <3>2, Ranges
    <2> QED
      BY <2>2, <2>3, <2>4
  <1>3. standard_scaler(in, n.mean, n.scale)
          = [i \in 0 .. N0 - 1 |-> standard_scaler(in, n.mean, n.scale)[i]]
    BY <1>1 DEF standard_scaler
  <1> QED
    BY <1>2, <1>3 DEF Vec

LEMMA ReluTyped ==
  ASSUME NEW n \in Nat, NEW y \in Vec(n, -Half32 .. Half32 - 1)
  PROVE  relu(y) \in Vec(n, -Half32 .. Half32 - 1)
  BY Sizes DEF relu, Vec

LEMMA OverwriteTyped ==
  ASSUME NEW n \in Nat, NEW k \in Nat, k <= n, NEW hidden \in Vec(n, -Half32 .. Half32 - 1),
         NEW y \in Vec(k, -Half32 .. Half32 - 1)
  PROVE  /\ Overwrite(hidden, y) \in Vec(n, -Half32 .. Half32 - 1)
         /\ \A i \in 0 .. k - 1 : Overwrite(hidden, y)[i] = y[i]
  BY DEF Overwrite, Vec

\* Kernel values are integers.
LEMMA VecInt ==
  ASSUME NEW n \in Nat, NEW y \in Vec(n, -Half32 .. Half32 - 1)
  PROVE  y \in Vec(n, Int) /\ \A i \in 0 .. n - 1 : y[i] \in Int
  BY Sizes DEF Vec

LEMMA ZeroNetworkIs == ZeroNetwork \in Trained
  BY Sizes DEF ZeroNetwork, Trained, Vec, Zeros

LEMMA InitInferenceInv == Init => InferenceInv
  <1> SUFFICES ASSUME Init PROVE InferenceInv
    OBVIOUS
  <1>1. Header(header) /\ Header(net)
    <2>1. 1 \in Nat \ {0}
      OBVIOUS
    <2> QED
      BY <2>1, ZeroNetworkIs DEF Init, Header
  <1>2. \A n \in Nat : Zeros(n) \in Vec(n, -Half32 .. Half32 - 1) /\ Zeros(n) \in Vec(n, Int)
    BY Sizes DEF Zeros, Vec
  <1>3. TypeOK
    BY <1>2, Sizes DEF Init, TypeOK
  <1>4. LabelInv /\ ActivationsClose
    BY DEF Init, LabelInv, ActivationsClose
  <1> QED
    BY <1>1, <1>3, <1>4 DEF InferenceInv

\* While a detection runs, what the network as trained makes of its features stands.
LEMMA PassKept ==
  ASSUME net' = net, x' = x
  PROVE  Scaled' = Scaled /\ Input' = Input /\ Hidden' = Hidden /\ Output' = Output
  <1>1. Scaled' = Scaled
    BY DEF Scaled
  <1>2. Input' = Input
    BY <1>1 DEF Input
  <1>3. Hidden' = Hidden
    BY <1>2 DEF Hidden
  <1>4. Output' = Output
    BY <1>3 DEF Output
  <1> QED
    BY <1>1, <1>2, <1>3, <1>4

LEMMA ExportInv ==
  ASSUME InferenceInv, NEW t \in Networks, NEW factor \in Factors, Export(t, factor)
  PROVE  InferenceInv'
  <1>1. Header(header)' /\ Header(net)'
    BY InferenceAssumption DEF InferenceInv, Export, Header
  <1>2. net' = net /\ x' = x /\ hidden1' = hidden1 /\ hidden2' = hidden2 /\ stage' = stage
        /\ label' = label
    BY DEF Export
  <1>3. TypeOK' /\ LabelInv'
    BY <1>2 DEF InferenceInv, TypeOK, LabelInv
  <1>4. ActivationsClose'
    BY <1>2, PassKept DEF InferenceInv, ActivationsClose
  <1> QED
    BY <1>1, <1>3, <1>4 DEF InferenceInv

LEMMA HotUpdatingInv ==
  ASSUME InferenceInv, hot_updating
  PROVE  InferenceInv'
  <1>1. Header(header)' /\ Header(net)'
    BY DEF InferenceInv, hot_updating, Header
  <1>2. TypeOK' /\ LabelInv' /\ ActivationsClose'
    BY DEF InferenceInv, hot_updating, TypeOK, LabelInv, ActivationsClose
  <1> QED
    BY <1>1, <1>2 DEF InferenceInv

LEMMA DetectInv ==
  ASSUME InferenceInv, NEW features \in Features, Detect(features)
  PROVE  InferenceInv'
  <1>1. Header(header)' /\ Header(net)'
    BY DEF InferenceInv, Detect, Header
  <1>2. TypeOK' /\ LabelInv' /\ ActivationsClose'
    BY InferenceAssumption DEF InferenceInv, Detect, TypeOK, LabelInv, ActivationsClose
  <1> QED
    BY <1>1, <1>2 DEF InferenceInv

\* A program of the pipeline keeps the slot and the features; what is left to prove is the
\* vector it writes.
LEMMA ProgramInv ==
  ASSUME InferenceInv, NEW name, NEW next, Program(name, next), UNCHANGED label, name # "idle",
         next \in {"xdp_input_linear", "xdp_input_relu", "xdp_hidden_linear",
                   "xdp_hidden_relu", "xdp_output_linear"},
         hidden1' \in Vec(N1, -Half32 .. Half32 - 1), hidden2' \in Vec(N1, -Half32 .. Half32 - 1),
         next = "xdp_input_linear"  => (Scaled.fits => Close(Scaled, hidden2')),
         next = "xdp_input_relu"    => (Input.fits => Close(Input, hidden1')),
         next = "xdp_hidden_linear" => (Input.fits => Close(ReLU(Input), hidden1')),
         next = "xdp_hidden_relu"   => (Hidden.fits => Close(Hidden, hidden2')),
         next = "xdp_output_linear" => (Hidden.fits => Close(ReLU(Hidden), hidden2'))
  PROVE  InferenceInv'
  <1>1. stage = name /\ stage' = next /\ header' = header /\ net' = net /\ x' = x /\ label' = label
    BY DEF Program
  <1>2. Header(header)' /\ Header(net)'
    BY <1>1 DEF InferenceInv, Header
  <1>3. TypeOK'
    BY <1>1 DEF InferenceInv, TypeOK
  <1>4. label = 2
    BY <1>1 DEF InferenceInv, LabelInv
  <1>5. LabelInv'
    BY <1>1, <1>4 DEF LabelInv
  <1>6. ActivationsClose'
    BY <1>1, <1>4, PassKept DEF ActivationsClose
  <1> QED
    BY <1>2, <1>3, <1>5, <1>6 DEF InferenceInv

\* In a state of the invariant.
LEMMA InvIs ==
  ASSUME InferenceInv
  PROVE  /\ Header(net) /\ x \in Vec(N0, Int) /\ N0 \in Nat /\ N1 \in Nat /\ N0 <= N1 /\ 2 <= N1
         /\ hidden1 \in Vec(N1, -Half32 .. Half32 - 1) /\ hidden2 \in Vec(N1, -Half32 .. Half32 - 1)
         /\ hidden1 \in Vec(N1, Int) /\ hidden2 \in Vec(N1, Int)
         /\ \A i \in 0 .. N1 - 1 : hidden1[i] \in Int /\ hidden2[i] \in Int
         /\ \A i \in 0 .. N0 - 1 : hidden1[i] \in Int /\ hidden2[i] \in Int
  <1>1. /\ hidden1 \in Vec(N1, -Half32 .. Half32 - 1) /\ hidden2 \in Vec(N1, -Half32 .. Half32 - 1)
        /\ Header(net) /\ x \in Vec(N0, Int)
    BY DEF InferenceInv, TypeOK
  <1>2. /\ hidden1 \in Vec(N1, Int) /\ hidden2 \in Vec(N1, Int)
        /\ \A i \in 0 .. N1 - 1 : hidden1[i] \in Int /\ hidden2[i] \in Int
    BY <1>1, Sizes, VecInt
  <1> QED
    BY <1>1, <1>2, Sizes

LEMMA PreprocessingInv ==
  ASSUME InferenceInv, xdp_preprocessing
  PROVE  InferenceInv'
  <1>1. PICK y : y = standard_scaler(x, net.mean, net.scale)
    OBVIOUS
  <1>2. /\ Program("xdp_preprocessing", "xdp_input_linear") /\ UNCHANGED label
        /\ hidden1' = hidden1 /\ hidden2' = Overwrite(hidden2, y)
    BY <1>1 DEF xdp_preprocessing
  <1>3. y \in Vec(N0, -Half32 .. Half32 - 1)
    BY <1>1, InvIs, ScalerTyped
  <1>4. /\ hidden2' \in Vec(N1, -Half32 .. Half32 - 1)
        /\ \A i \in 0 .. N0 - 1 : hidden2'[i] = y[i]
    BY <1>2, <1>3, InvIs, OverwriteTyped
  <1>5. Scaled.fits => Close(Scaled, hidden2')
    <2>1. Estimate(Scaled, N0) /\ (Scaled.fits => Close(Scaled, y))
      BY <1>1, InvIs, Forward
    <2> QED
      BY <1>4, <2>1, InvIs, CloseExtends
  <1> QED
    BY <1>2, <1>4, <1>5, InvIs, ProgramInv

LEMMA InputLinearInv ==
  ASSUME InferenceInv, xdp_input_linear
  PROVE  InferenceInv'
  <1>1. /\ Program("xdp_input_linear", "xdp_input_relu") /\ UNCHANGED label
        /\ hidden1' = linear_layer(net.layer_0_weight, hidden2, N1, N0) /\ hidden2' = hidden2
    BY DEF xdp_input_linear
  <1>2. hidden1' \in Vec(N1, -Half32 .. Half32 - 1)
    BY <1>1, InvIs, WeightsTyped, LinearTyped
  <1>3. Input.fits => Close(Input, hidden1')
    <2>1. Scaled.fits => Close(Scaled, hidden2)
      BY <1>1 DEF Program, InferenceInv, ActivationsClose
    <2>2. Scaled.fits => Feeds(Scaled, hidden2, N0)
      BY <2>1, InvIs DEF Feeds
    <2>3. Input.fits => Scaled.fits /\ Passes(Scaled, Input, net.layer_0_weight, N1, N0)
      BY InvIs, Forward
    <2> QED
      BY <1>1, <2>2, <2>3 DEF Passes
  <1> QED
    BY <1>1, <1>2, <1>3, InvIs, ProgramInv

LEMMA InputReluInv ==
  ASSUME InferenceInv, xdp_input_relu
  PROVE  InferenceInv'
  <1>1. /\ Program("xdp_input_relu", "xdp_hidden_linear") /\ UNCHANGED label
        /\ hidden1' = relu(hidden1) /\ hidden2' = hidden2
    BY DEF xdp_input_relu
  <1>2. hidden1' \in Vec(N1, -Half32 .. Half32 - 1)
    BY <1>1, InvIs, ReluTyped
  <1>3. Input.fits => Close(ReLU(Input), hidden1')
    <2>1. Input.fits => Close(Input, hidden1)
      BY <1>1 DEF Program, InferenceInv, ActivationsClose
    <2>2. Input.fits => \A y \in Vec(N1, Int) : Close(Input, y) => Close(ReLU(Input), relu(y))
      BY InvIs, Forward
    <2> QED
      BY <1>1, <2>1, <2>2, InvIs
  <1> QED
    BY <1>1, <1>2, <1>3, InvIs, ProgramInv

LEMMA HiddenLinearInv ==
  ASSUME InferenceInv, xdp_hidden_linear
  PROVE  InferenceInv'
  <1>1. /\ Program("xdp_hidden_linear", "xdp_hidden_relu") /\ UNCHANGED label
        /\ hidden2' = linear_layer(net.layer_1_weight, hidden1, N1, N1) /\ hidden1' = hidden1
    BY DEF xdp_hidden_linear
  <1>2. hidden2' \in Vec(N1, -Half32 .. Half32 - 1)
    BY <1>1, InvIs, WeightsTyped, LinearTyped
  <1>3. Hidden.fits => Close(Hidden, hidden2')
    <2>1. Input.fits => Close(ReLU(Input), hidden1)
      BY <1>1 DEF Program, InferenceInv, ActivationsClose
    <2>2. Input.fits => Feeds(ReLU(Input), hidden1, N1)
      BY <2>1, InvIs DEF Feeds
    <2>3. Hidden.fits => Input.fits /\ Passes(ReLU(Input), Hidden, net.layer_1_weight, N1, N1)
      BY InvIs, Forward
    <2> QED
      BY <1>1, <2>2, <2>3 DEF Passes
  <1> QED
    BY <1>1, <1>2, <1>3, InvIs, ProgramInv

LEMMA HiddenReluInv ==
  ASSUME InferenceInv, xdp_hidden_relu
  PROVE  InferenceInv'
  <1>1. /\ Program("xdp_hidden_relu", "xdp_output_linear") /\ UNCHANGED label
        /\ hidden2' = relu(hidden2) /\ hidden1' = hidden1
    BY DEF xdp_hidden_relu
  <1>2. hidden2' \in Vec(N1, -Half32 .. Half32 - 1)
    BY <1>1, InvIs, ReluTyped
  <1>3. Hidden.fits => Close(ReLU(Hidden), hidden2')
    <2>1. Hidden.fits => Close(Hidden, hidden2)
      BY <1>1 DEF Program, InferenceInv, ActivationsClose
    <2>2. Hidden.fits => \A y \in Vec(N1, Int) : Close(Hidden, y) => Close(ReLU(Hidden), relu(y))
      BY InvIs, Forward
    <2> QED
      BY <1>1, <2>1, <2>2, InvIs
  <1> QED
    BY <1>1, <1>2, <1>3, InvIs, ProgramInv

LEMMA OutputLinearInv ==
  ASSUME InferenceInv, xdp_output_linear
  PROVE  InferenceInv'
  <1>1. PICK y : y = linear_layer(net.layer_2_weight, hidden2, 2, N1)
    OBVIOUS
  <1>2. /\ Program("xdp_output_linear", "idle") /\ hidden1' = Overwrite(hidden1, y)
        /\ hidden2' = hidden2 /\ label' = IF hidden1'[0] > hidden1'[1] THEN 0 ELSE 1
    BY <1>1 DEF xdp_output_linear
  <1>3. y \in Vec(2, -Half32 .. Half32 - 1)
    <2>1. 2 \in Nat
      OBVIOUS
    <2> QED
      BY <1>1, <2>1, InvIs, WeightsTyped, LinearTyped
  <1>4. /\ hidden1' \in Vec(N1, -Half32 .. Half32 - 1)
        /\ \A i \in 0 .. 2 - 1 : hidden1'[i] = y[i]
    <2>1. 2 \in Nat
      OBVIOUS
    <2> QED
      BY <1>2, <1>3, <2>1, InvIs, OverwriteTyped
  <1>5. Output.fits => Close(Output, hidden1')
    <2>1. Hidden.fits => Close(ReLU(Hidden), hidden2)
      BY <1>2 DEF Program, InferenceInv, ActivationsClose
    <2>2. Hidden.fits => Feeds(ReLU(Hidden), hidden2, N1)
      BY <2>1, InvIs DEF Feeds
    <2>3. Output.fits => /\ Hidden.fits /\ Estimate(Output, 2)
                         /\ Passes(ReLU(Hidden), Output, net.layer_2_weight, 2, N1)
      BY InvIs, Forward
    <2>4. Output.fits => Close(Output, y)
      BY <1>1, <2>2, <2>3 DEF Passes
    <2>5. 2 \in Nat
      OBVIOUS
    <2> QED
      BY <1>4, <2>3, <2>4, <2>5, CloseExtends
  <1>6. stage = "xdp_output_linear" /\ stage' = "idle" /\ header' = header /\ net' = net /\ x' = x
    BY <1>2 DEF Program
  <1>7. Header(header)' /\ Header(net)'
    BY <1>6 DEF InferenceInv, Header
  <1>8. TypeOK' /\ LabelInv'
    BY <1>2, <1>4, <1>6, InvIs DEF TypeOK, LabelInv
  <1>9. ActivationsClose'
    BY <1>5, <1>6, PassKept DEF ActivationsClose
  <1> QED
    BY <1>7, <1>8, <1>9 DEF InferenceInv

LEMMA NextInferenceInv == InferenceInv /\ [Next]_vars => InferenceInv'
  <1> SUFFICES ASSUME InferenceInv, [Next]_vars PROVE InferenceInv'
    OBVIOUS
  <1>1. ASSUME NEW t \in Networks, NEW factor \in Factors, Export(t, factor) PROVE InferenceInv'
    BY <1>1, ExportInv
  <1>2. CASE hot_updating
    BY <1>2, HotUpdatingInv
  <1>3. ASSUME NEW features \in Features, Detect(features) PROVE InferenceInv'
    BY <1>3, DetectInv
  <1>4. CASE xdp_preprocessing
    BY <1>4, PreprocessingInv
  <1>5. CASE xdp_input_linear
    BY <1>5, InputLinearInv
  <1>6. CASE xdp_input_relu
    BY <1>6, InputReluInv
  <1>7. CASE xdp_hidden_linear
    BY <1>7, HiddenLinearInv
  <1>8. CASE xdp_hidden_relu
    BY <1>8, HiddenReluInv
  <1>9. CASE xdp_output_linear
    BY <1>9, OutputLinearInv
  <1>10. CASE UNCHANGED vars
    <2>1. Header(header)' /\ Header(net)' /\ TypeOK' /\ LabelInv'
      BY <1>10 DEF vars, InferenceInv, Header, TypeOK, LabelInv
    <2>2. ActivationsClose'
      BY <1>10, PassKept DEF vars, InferenceInv, ActivationsClose
    <2> QED
      BY <2>1, <2>2 DEF InferenceInv
  <1> QED
    BY <1>1, <1>2, <1>3, <1>4, <1>5, <1>6, <1>7, <1>8, <1>9, <1>10 DEF Next

\* The label is the greater logit's, and each logit is off by less than half its error.
LEMMA MarginDecides ==
  ASSUME NEW y0 \in Int, NEW y1 \in Int, NEW v0 \in Int, NEW v1 \in Int,
         NEW d \in Nat \ {0}, NEW o \in Nat \ {0}, NEW e0 \in Nat, NEW e1 \in Nat,
         2 * Abs(y0 * d - v0 * o) <= e0, 2 * Abs(y1 * d - v1 * o) <= e1,
         2 * Abs(v0 - v1) * o > e0 + e1
  PROVE  y0 > y1 <=> v0 > v1
  <1>1. PICK a0 \in Int, a1 \in Int, b0 \in Int, b1 \in Int :
          a0 = y0 * d /\ a1 = y1 * d /\ b0 = v0 * o /\ b1 = v1 * o
    OBVIOUS
  <1>2. /\ 2 * (a0 - b0) <= e0 /\ -(2 * (a0 - b0)) <= e0
        /\ 2 * (a1 - b1) <= e1 /\ -(2 * (a1 - b1)) <= e1
    BY <1>1 DEF Abs
  <1>3. (v0 > v1 => 2 * (b0 - b1) > e0 + e1) /\ (~(v0 > v1) => 2 * (b1 - b0) > e0 + e1)
    <2>1. CASE v0 > v1
      <3>1. Abs(v0 - v1) = v0 - v1
        BY <2>1 DEF Abs
      <3>2. 2 * (v0 - v1) * o = 2 * (b0 - b1)
        BY <1>1
      <3> QED
        BY <2>1, <3>1, <3>2
    <2>2. CASE ~(v0 > v1)
      <3>1. Abs(v0 - v1) = v1 - v0
        BY <2>2 DEF Abs
      <3>2. 2 * (v1 - v0) * o = 2 * (b1 - b0)
        BY <1>1
      <3> QED
        BY <2>2, <3>1, <3>2
    <2> QED
      BY <2>1, <2>2
  <1>4. (v0 > v1 => a0 > a1) /\ (~(v0 > v1) => a0 < a1)
    BY <1>2, <1>3
  <1>5. (a0 > a1 => y0 > y1) /\ (a0 < a1 => y0 < y1)
    <2>1. a0 = d * y0 /\ a1 = d * y1
      BY <1>1
    <2> QED
      BY <2>1, Monotone
  <1> QED
    BY <1>4, <1>5

LEMMA InvLabelRight == InferenceInv => LabelRight
  <1> SUFFICES ASSUME InferenceInv, label # 2, Output.fits,
                      2 * Abs(Output.val[0] - Output.val[1]) * Output.one
                        > Output.err[0] + Output.err[1]
               PROVE  label = IF Output.val[0] > Output.val[1] THEN 0 ELSE 1
    BY DEF LabelRight
  <1>1. Estimate(Output, 2) /\ Close(Output, hidden1)
    BY InvIs, Forward DEF InferenceInv, ActivationsClose
  <1>2. PICK v0 \in Int, v1 \in Int, e0 \in Nat, e1 \in Nat, d \in Nat \ {0}, o \in Nat \ {0} :
          /\ v0 = Output.val[0] /\ v1 = Output.val[1] /\ e0 = Output.err[0] /\ e1 = Output.err[1]
          /\ d = Output.den /\ o = Output.one
    <2>1. 0 \in 0 .. 2 - 1 /\ 1 \in 0 .. 2 - 1
      OBVIOUS
    <2>2. /\ Output.val \in [0 .. 2 - 1 -> Int] /\ Output.err \in [0 .. 2 - 1 -> Nat]
          /\ Output.den \in Nat \ {0} /\ Output.one \in Nat \ {0}
      BY <1>1 DEF Estimate
    <2>3. /\ Output.val[0] \in Int /\ Output.val[1] \in Int
          /\ Output.err[0] \in Nat /\ Output.err[1] \in Nat
      BY <2>1, <2>2
    <2> QED
      BY <2>2, <2>3
  <1>3. PICK y0 \in Int, y1 \in Int : y0 = hidden1[0] /\ y1 = hidden1[1]
    <2>1. 0 \in 0 .. N1 - 1 /\ 1 \in 0 .. N1 - 1
      BY InvIs
    <2> QED
      BY <2>1, InvIs
  <1>4. 0 \in DOMAIN Output.val /\ 1 \in DOMAIN Output.val
    BY <1>1 DEF Estimate
  <1>5. 2 * Abs(y0 * d - v0 * o) <= e0 /\ 2 * Abs(y1 * d - v1 * o) <= e1
    BY <1>1, <1>2, <1>3, <1>4 DEF Close
  <1>6. 2 * Abs(v0 - v1) * o > e0 + e1
    BY <1>2
  <1>7. y0 > y1 <=> v0 > v1
    BY <1>5, <1>6, MarginDecides
  <1> QED
    BY <1>2, <1>3, <1>7 DEF InferenceInv, LabelInv

LEMMA InferenceInvariant == Spec => []InferenceInv
  BY InitInferenceInv, NextInferenceInv, PTL DEF Spec

\* Whatever a slot holds and whatever overflows, the scratch vectors hold int32_t values
\* and keep their lengths.
THEOREM InferenceTypeCorrect == Spec => []TypeOK
  <1>1. InferenceInv => TypeOK
    BY DEF InferenceInv
  <1> QED
    BY <1>1, InferenceInvariant, PTL

\* At every stage the scratch vector that comes next is as close to the activations of the
\* network as trained as the rounding of the parameters and the shifts allow, or an
\* operation can have left its range.
THEOREM ActivationsAlwaysClose == Spec => []ActivationsClose
  <1>1. InferenceInv => ActivationsClose
    BY DEF InferenceInv
  <1> QED
    BY <1>1, InferenceInvariant, PTL

\* A margin that is greater than the errors gets the trained network's label.
THEOREM LabelAlwaysRight == Spec => []LabelRight
  BY InvLabelRight, InferenceInvariant, PTL
=============================================================================
