-------------------------- MODULE CalculationsProofs --------------------------
(***************************************************************************)
(* Theorems about Calculations for any samples, streams and rules.         *)
(***************************************************************************)
EXTENDS Calculations, FiniteSetTheorems, WellFoundedInduction, TLAPS

-----------------------------------------------------------------------------
(* Numbers and sums.                                                       *)

\* A set of natural numbers has a least one: induction, for a set.
LEMMA LeastNatural ==
    ASSUME NEW T \in SUBSET Nat, T # {}
    PROVE  \E m \in T : \A k \in T : m <= k
<1> DEFINE R == OpToRel(<, Nat)
<1>1. PICK m \in T : \A k \in T : <<k, m>> \notin R
  BY NatLessThanWellFounded, WFMin
<1>2. ASSUME NEW k \in T, k < m PROVE FALSE
  <2>1. <<k, m>> \in R
    BY <1>2 DEF OpToRel
  <2>2. QED  BY <1>1, <2>1
<1> HIDE DEF R
<1>3. \A k \in T : k \in Nat /\ m \in Nat
  OBVIOUS
<1>4. QED  BY <1>2, <1>3

\* What a running sum of the terms of f is.
IsSum(s, f, n) ==
    s = [i \in 0..n |-> IF i = 0 THEN 0 ELSE s[i - 1] + f[i]]

LEMMA SumExists ==
    ASSUME NEW n \in Nat, NEW f \in [1..n -> Int]
    PROVE  \E s : IsSum(s, f, n) /\ s \in [0..n -> Int]
<1> DEFINE Has(m) == \E s \in [0..m -> Int] : s = [i \in 0..m |-> IF i = 0 THEN 0 ELSE s[i - 1] + f[i]]
           T == {m \in 0..n : ~Has(m)}
<1>1. SUFFICES ASSUME T # {} PROVE FALSE
  <2>1. n \in 0..n
    OBVIOUS
  <2>2. Has(n)
    BY <1>1, <2>1
  <2>3. QED  BY <2>2 DEF IsSum
<1>2. PICK m \in T : \A k \in T : m <= k
  <2>1. T \subseteq Nat
    OBVIOUS
  <2> HIDE DEF T
  <2>2. QED  BY <1>1, <2>1, LeastNatural
<1>3. Has(0)
  <2> DEFINE s == [i \in 0..0 |-> 0]
  <2>1. s \in [0..0 -> Int] /\ s = [i \in 0..0 |-> IF i = 0 THEN 0 ELSE s[i - 1] + f[i]]
    OBVIOUS
  <2>2. QED  BY <2>1
<1>4. m \in 0..n /\ ~Has(m)
  OBVIOUS
<1>5. \A k \in 0..n : ~Has(k) => m <= k
  BY <1>2
<1>6. Has(m - 1)
  <2> HIDE DEF Has
  <2>1. m # 0
    BY <1>3, <1>4
  <2>2. m - 1 \in 0..n /\ ~(m <= m - 1)
    BY <1>4, <2>1
  <2>3. QED  BY <1>5, <2>2
<1>7. m \in 1..n
  <2> HIDE DEF Has
  <2>1. QED  BY <1>3, <1>4
<1>8. PICK s \in [0..(m - 1) -> Int] :
            s = [i \in 0..(m - 1) |-> IF i = 0 THEN 0 ELSE s[i - 1] + f[i]]
  BY <1>6
<1> DEFINE t == [i \in 0..m |-> IF i = m THEN s[m - 1] + f[m] ELSE s[i]]
<1>9. t \in [0..m -> Int]
  BY <1>7
<1>10. ASSUME NEW i \in 0..m PROVE t[i] = IF i = 0 THEN 0 ELSE t[i - 1] + f[i]
  <2>1. CASE i = 0
    <3>1. 0 # m /\ 0 \in 0..(m - 1)
      BY <1>7
    <3>2. s[0] = 0
      BY <1>8, <3>1
    <3>3. QED  BY <2>1, <3>1, <3>2
  <2>2. CASE i # 0 /\ i # m
    <3>1. i \in 0..(m - 1) /\ i - 1 \in 0..m /\ i - 1 # m
      BY <1>7, <2>2
    <3>2. s[i] = s[i - 1] + f[i]
      BY <1>8, <2>2, <3>1
    <3>3. QED  BY <2>2, <3>1, <3>2
  <2>3. CASE i = m
    <3>1. m # 0 /\ m - 1 \in 0..m /\ m - 1 # m
      BY <1>7
    <3>2. QED  BY <2>3, <3>1
  <2>4. QED  BY <2>1, <2>2, <2>3
<1>11. t = [i \in 0..m |-> IF i = 0 THEN 0 ELSE t[i - 1] + f[i]]
  BY <1>9, <1>10
<1>12. Has(m)
  BY <1>9, <1>11
<1>13. QED  BY <1>4, <1>12

\* The running sums of numbers that a set holds together with their sums.
LEMMA SumType ==
    ASSUME NEW n \in Nat, NEW f \in [1..n -> Int], NEW s, IsSum(s, f, n),
           NEW S \in SUBSET Int, 0 \in S, \A x, y \in S : x + y \in S,
           \A i \in 1..n : f[i] \in S
    PROVE  s[n] \in S
<1> DEFINE T == {m \in 0..n : s[m] \notin S}
<1>1. s[0] = 0 /\ \A i \in 1..n : s[i] = s[i - 1] + f[i]
  <2> DEFINE e(i) == IF i = 0 THEN 0 ELSE s[i - 1] + f[i]
  <2>1. s = [i \in 0..n |-> e(i)]
    BY DEF IsSum
  <2> HIDE DEF e
  <2>2. \A i \in 0..n : s[i] = e(i)
    BY <2>1
  <2>3. 0 \in 0..n /\ \A i \in 1..n : i \in 0..n /\ i # 0
    OBVIOUS
  <2>4. e(0) = 0 /\ \A i \in 1..n : e(i) = s[i - 1] + f[i]
    BY <2>3 DEF e
  <2>5. QED  BY <2>2, <2>3, <2>4
<1>2. SUFFICES ASSUME T # {} PROVE FALSE
  <2>1. n \in 0..n
    OBVIOUS
  <2>2. QED  BY <2>1
<1>3. PICK m \in T : \A k \in T : m <= k
  <2>1. T \subseteq Nat
    OBVIOUS
  <2> HIDE DEF T
  <2>2. QED  BY <1>2, <2>1, LeastNatural
<1>4. m \in 0..n /\ s[m] \notin S /\ \A k \in 0..n : s[k] \notin S => m <= k
  BY <1>3
<1>5. m # 0
  BY <1>1, <1>4
<1>6. m \in 1..n /\ m - 1 \in 0..n /\ ~(m <= m - 1)
  BY <1>4, <1>5
<1>7. s[m - 1] \in S
  BY <1>4, <1>6
<1>8. QED  BY <1>1, <1>4, <1>6, <1>7

\* The scalar product of two vectors is a number, that of a vector with itself
\* no negative one.
LEMMA DotType ==
    ASSUME NEW a \in Seq(Int), NEW b \in Seq(Int), Len(a) = Len(b)
    PROVE  Dot(a, b) \in Int /\ (a = b => Dot(a, b) \in Nat)
<1> DEFINE n == Len(a)
           f == [i \in 1..n |-> a[i] * b[i]]
           sum == CHOOSE s : s = [i \in 0..n |-> IF i = 0 THEN 0 ELSE s[i - 1] + a[i] * b[i]]
<1>1. n \in Nat /\ DOMAIN a = 1..n /\ DOMAIN b = 1..n
  OBVIOUS
<1>2. f \in [1..n -> Int]
  BY <1>1
<1>3. ASSUME NEW s
      PROVE  IsSum(s, f, n) <=> s = [i \in 0..n |-> IF i = 0 THEN 0 ELSE s[i - 1] + a[i] * b[i]]
  <2>1. \A i \in 0..n : i # 0 => f[i] = a[i] * b[i]
    BY <1>1
  <2>2. [i \in 0..n |-> IF i = 0 THEN 0 ELSE s[i - 1] + f[i]]
        = [i \in 0..n |-> IF i = 0 THEN 0 ELSE s[i - 1] + a[i] * b[i]]
    BY <2>1
  <2>3. QED  BY <2>2 DEF IsSum
<1>4. \E s : IsSum(s, f, n)
  BY <1>1, <1>2, SumExists
<1>5. IsSum(sum, f, n)
  BY <1>3, <1>4
<1>6. Dot(a, b) = sum[n]
  BY DEF Dot
<1> HIDE DEF sum
<1>7. sum[n] \in Int
  <2>1. /\ Int \in SUBSET Int /\ 0 \in Int /\ \A x, y \in Int : x + y \in Int
        /\ \A i \in 1..n : f[i] \in Int
    BY <1>2
  <2> HIDE DEF f, n
  <2>2. QED  BY <1>1, <1>2, <1>5, <2>1, SumType
<1>8. ASSUME a = b PROVE sum[n] \in Nat
  <2>1. \A i \in 1..n : f[i] \in Nat
    <3>1. \A x \in Int : x * x \in Nat
      OBVIOUS
    <3>2. QED  BY <1>1, <1>8, <3>1
  <2>2. Nat \in SUBSET Int /\ 0 \in Nat /\ \A x, y \in Nat : x + y \in Nat
    OBVIOUS
  <2> HIDE DEF f, n
  <2>3. QED  BY <1>1, <1>2, <1>5, <2>1, <2>2, SumType
<1>9. QED  BY <1>6, <1>7, <1>8

-----------------------------------------------------------------------------
(* Closeness orders the rules: cross-multiplied fractions.                 *)

LEMMA Products ==
    ASSUME NEW x \in Int, NEW y \in Int, NEW m \in Nat \ {0}
    PROVE  x <= y <=> x * m <= y * m
<1>1. x <= y => x * m <= y * m
  OBVIOUS
<1>2. x > y => x * m > y * m
  OBVIOUS
<1>3. x * m \in Int /\ y * m \in Int
  OBVIOUS
<1>4. QED  BY <1>1, <1>2, <1>3

\* x/n >= y/m >= z/k.
LEMMA Fractions ==
    ASSUME NEW x \in Int, NEW y \in Int, NEW z \in Int,
           NEW n \in Nat \ {0}, NEW m \in Nat \ {0}, NEW k \in Nat \ {0},
           y * n <= x * m, z * m <= y * k
    PROVE  z * n <= x * k
<1>1. /\ y * n \in Int /\ x * m \in Int /\ z * m \in Int /\ y * k \in Int
      /\ z * n \in Int /\ x * k \in Int
  OBVIOUS
<1>2. (z * m) * n <= (y * k) * n /\ (y * n) * k <= (x * m) * k
  BY <1>1, Products
<1>3. /\ (z * m) * n = (z * n) * m /\ (y * k) * n = (y * n) * k
      /\ (x * m) * k = (x * k) * m
  OBVIOUS
<1>4. (z * n) * m \in Int /\ (y * n) * k \in Int /\ (x * k) * m \in Int
  BY <1>1
<1>5. (z * n) * m <= (x * k) * m
  BY <1>2, <1>3, <1>4
<1>6. QED  BY <1>1, <1>5, Products

\* Vectors that rank_rules does not refuse.
Comparable(q, v) ==
    /\ q \in Seq(Int) /\ v \in Seq(Seq(Int))
    /\ \A i \in DOMAIN v : Len(v[i]) = Len(q) /\ ~ZeroMagnitude(v[i])

\* Rule j comes before rule i.
Ahead(q, v, j, i) == Closer(q, v[j], v[i]) \/ (j < i /\ ~Closer(q, v[i], v[j]))

LEMMA RulesAreOrdered ==
    ASSUME NEW q, NEW v, Comparable(q, v)
    PROVE  /\ \A i \in DOMAIN v : ~Ahead(q, v, i, i)
           /\ \A i, j \in DOMAIN v : Closer(q, v[i], v[j]) => ~Closer(q, v[j], v[i])
           /\ \A i, j \in DOMAIN v : i # j => Ahead(q, v, i, j) \/ Ahead(q, v, j, i)
           /\ \A i, j, k \in DOMAIN v :
                 Ahead(q, v, i, j) /\ Ahead(q, v, j, k) => Ahead(q, v, i, k)
<1> DEFINE x(i) == Signed(Dot(q, v[i]))
           n(i) == Dot(v[i], v[i])
<1>1. ASSUME NEW i \in DOMAIN v PROVE x(i) \in Int /\ n(i) \in Nat \ {0}
  <2>1. v[i] \in Seq(Int) /\ Len(v[i]) = Len(q) /\ q \in Seq(Int)
    BY <1>1 DEF Comparable
  <2>2. Dot(q, v[i]) \in Int /\ n(i) \in Nat
    BY <2>1, DotType
  <2>3. n(i) # 0
    BY <1>1 DEF Comparable, ZeroMagnitude
  <2>4. \A d \in Int : Signed(d) \in Int
    BY DEF Signed
  <2>5. QED  BY <2>2, <2>3, <2>4
<1>2. \A i, j \in DOMAIN v : Closer(q, v[i], v[j]) <=> x(i) * n(j) > x(j) * n(i)
  BY DEF Closer
<1>3. \A i \in DOMAIN v : i \in Int
  BY DEF Comparable
<1> HIDE DEF x, n
<1>4. \A i, j \in DOMAIN v : x(i) * n(j) \in Int
  BY <1>1
<1>5. \A i, j, k \in DOMAIN v :
         x(j) * n(i) <= x(i) * n(j) /\ x(k) * n(j) <= x(j) * n(k) => x(k) * n(i) <= x(i) * n(k)
  BY <1>1, Fractions
<1>6. ASSUME NEW i \in DOMAIN v, NEW j \in DOMAIN v, NEW k \in DOMAIN v,
             Ahead(q, v, i, j), Ahead(q, v, j, k)
      PROVE  Ahead(q, v, i, k)
  <2>1. x(j) * n(i) <= x(i) * n(j) /\ x(k) * n(j) <= x(j) * n(k)
    BY <1>2, <1>4, <1>6 DEF Ahead
  <2>2. x(k) * n(i) <= x(i) * n(k)
    BY <1>5, <2>1
  <2>3. CASE x(k) * n(i) < x(i) * n(k)
    BY <1>2, <1>4, <2>3 DEF Ahead
  <2>4. CASE ~(x(k) * n(i) < x(i) * n(k))
    <3>1. x(i) * n(k) <= x(k) * n(i)
      BY <1>4, <2>4
    <3>2. x(j) * n(k) <= x(k) * n(j)
      BY <1>5, <2>1, <3>1
    <3>3. x(i) * n(j) <= x(j) * n(i)
      BY <1>5, <2>1, <3>1
    <3>4. i < j /\ j < k
      BY <1>2, <1>4, <1>6, <3>2, <3>3 DEF Ahead
    <3>5. i < k /\ ~(x(k) * n(i) > x(i) * n(k))
      BY <1>3, <1>4, <2>2, <3>4
    <3>6. QED  BY <1>2, <3>5 DEF Ahead
  <2>5. QED  BY <2>3, <2>4
<1>7. \A i \in DOMAIN v : ~Ahead(q, v, i, i)
  BY <1>2, <1>3, <1>4 DEF Ahead
<1>8. \A i, j \in DOMAIN v : Closer(q, v[i], v[j]) => ~Closer(q, v[j], v[i])
  BY <1>2, <1>4
<1>9. \A i, j \in DOMAIN v : i # j => Ahead(q, v, i, j) \/ Ahead(q, v, j, i)
  BY <1>3, <1>8 DEF Ahead
<1>10. QED  BY <1>6, <1>7, <1>8, <1>9

-----------------------------------------------------------------------------
(* Sorting by insertion.                                                   *)

\* A set of places that has all places before each of its own is an interval.
LEMMA Prefix ==
    ASSUME NEW n \in Nat, NEW K \in SUBSET (1..n),
           \A b \in K : \A a \in 1..n : a < b => a \in K
    PROVE  Cardinality(K) \in 0..n /\ K = 1..Cardinality(K)
<1> DEFINE T == (1..(n + 1)) \ K
<1>1. T \in SUBSET Nat /\ n + 1 \in T
  OBVIOUS
<1>2. PICK m \in T : \A k \in T : m <= k
  <2> HIDE DEF T
  <2>1. QED  BY <1>1, LeastNatural
<1>3. m \in 1..(n + 1) /\ m \notin K
  OBVIOUS
<1>4. \A a \in 1..(n + 1) : a < m => a \in K
  BY <1>2, <1>3
<1>5. ASSUME NEW b \in K PROVE b < m
  <2>1. b \in 1..n /\ b # m
    BY <1>3
  <2>2. b > m => m \in 1..n /\ m \in K
    BY <1>3, <2>1
  <2>3. QED  BY <1>3, <2>1, <2>2
<1>6. K = 1..(m - 1)
  <2> HIDE DEF T
  <2>1. \A a \in K : a \in 1..(m - 1)
    BY <1>3, <1>5
  <2>2. \A a \in 1..(m - 1) : a \in 1..(n + 1) /\ a < m
    BY <1>3
  <2>3. QED  BY <1>4, <2>1, <2>2
<1>7. Cardinality(1..(m - 1)) = m - 1
  BY <1>3, FS_Interval
<1>8. QED  BY <1>3, <1>6, <1>7

LEMMA Concatenated ==
    ASSUME NEW s \in Seq(Int), NEW t \in Seq(Int)
    PROVE  /\ s \o t \in Seq(Int) /\ Len(s \o t) = Len(s) + Len(t)
           /\ \A a \in 1..Len(s) : (s \o t)[a] = s[a]
           /\ \A a \in 1..Len(t) : (s \o t)[Len(s) + a] = t[a]
<1>1. /\ Len(s) \in Nat /\ Len(t) \in Nat
      /\ s \o t \in Seq(Int) /\ Len(s \o t) = Len(s) + Len(t)
  OBVIOUS
<1>2. ASSUME NEW a \in 1..Len(s) PROVE (s \o t)[a] = s[a]
  BY <1>1
<1>3. ASSUME NEW a \in 1..Len(t) PROVE (s \o t)[Len(s) + a] = t[a]
  <2>1. Len(s) + a \in 1..(Len(s) + Len(t)) /\ ~(Len(s) + a <= Len(s))
        /\ (Len(s) + a) - Len(s) = a
    BY <1>1
  <2>2. QED  BY <2>1
<1>4. QED  BY <1>1, <1>2, <1>3

\* What InsertAt of the library does to each place.
LEMMA Inserted ==
    ASSUME NEW o \in Seq(Int), NEW k \in 0..Len(o), NEW i \in Int
    PROVE  LET t == InsertAt(o, k + 1, i)
           IN  /\ t \in Seq(Int) /\ Len(t) = Len(o) + 1
               /\ \A a \in 1..k : t[a] = o[a]
               /\ t[k + 1] = i
               /\ \A a \in (k + 2)..(Len(o) + 1) : t[a] = o[a - 1]
<1> DEFINE n == Len(o)
           left == SubSeq(o, 1, k)
           right == SubSeq(o, k + 1, n)
           mid == left \o <<i>>
           t == mid \o right
<1>1. n \in Nat /\ k \in 0..n /\ k \in Nat /\ (k + 1) - 1 = k
  OBVIOUS
<1>2. /\ left \in Seq(Int) /\ Len(left) = k /\ \A a \in 1..k : left[a] = o[a]
  BY <1>1
<1>3. /\ right \in Seq(Int) /\ Len(right) = n - k
      /\ \A a \in 1..(n - k) : right[a] = o[k + a]
  BY <1>1
<1>4. InsertAt(o, k + 1, i) = t
  <2>1. InsertAt(o, k + 1, i) = SubSeq(o, 1, (k + 1) - 1) \o <<i>> \o SubSeq(o, k + 1, Len(o))
    BY Zenon DEF InsertAt
  <2>2. QED  BY <1>1, <2>1
<1> HIDE DEF left, right, n
<1>5. /\ mid \in Seq(Int) /\ Len(mid) = k + 1 /\ mid[k + 1] = i
      /\ \A a \in 1..k : mid[a] = left[a]
  <2> DEFINE one == <<i>>
  <2>1. one \in Seq(Int) /\ Len(one) = 1 /\ one[1] = i /\ 1 \in 1..1
    OBVIOUS
  <2>2. mid = left \o one
    OBVIOUS
  <2> HIDE DEF one, mid
  <2>3. /\ mid \in Seq(Int) /\ Len(mid) = Len(left) + Len(one)
        /\ \A a \in 1..Len(left) : mid[a] = left[a]
        /\ \A a \in 1..Len(one) : mid[Len(left) + a] = one[a]
    BY <1>2, <2>1, <2>2, Concatenated
  <2>4. mid[k + 1] = one[1]
    BY <1>2, <2>1, <2>3
  <2>5. QED  BY <1>2, <2>1, <2>3, <2>4
<1> HIDE DEF mid
<1>6. /\ t \in Seq(Int) /\ Len(t) = n + 1
      /\ \A a \in 1..(k + 1) : t[a] = mid[a]
      /\ \A a \in 1..(n - k) : t[k + 1 + a] = right[a]
  <2>1. (k + 1) + (n - k) = n + 1
    BY <1>1
  <2>2. t = mid \o right
    OBVIOUS
  <2> HIDE DEF t
  <2>3. /\ t \in Seq(Int) /\ Len(t) = Len(mid) + Len(right)
        /\ \A a \in 1..Len(mid) : t[a] = mid[a]
        /\ \A a \in 1..Len(right) : t[Len(mid) + a] = right[a]
    BY <1>3, <1>5, <2>2, Concatenated
  <2>4. QED  BY <1>3, <1>5, <2>1, <2>3
<1> HIDE DEF t
<1>7. ASSUME NEW a \in (k + 2)..(n + 1) PROVE t[a] = o[a - 1]
  <2> DEFINE c == a - (k + 1)
  <2>1. c \in 1..(n - k) /\ k + c = a - 1 /\ k + 1 + c = a
    BY <1>1
  <2> HIDE DEF c
  <2>2. QED  BY <1>3, <1>6, <2>1
<1>8. \A a \in 1..k : t[a] = o[a]
  <2>1. \A a \in 1..k : a \in 1..(k + 1)
    BY <1>1
  <2>2. QED  BY <1>2, <1>5, <1>6, <2>1
<1>9. t[k + 1] = i
  <2>1. k + 1 \in 1..(k + 1)
    BY <1>1
  <2>2. QED  BY <1>5, <1>6, <2>1
<1>10. QED  BY <1>4, <1>6, <1>7, <1>8, <1>9 DEF n

\* The rules up to the n-th, each once and each before those it is ahead of.
InRank(q, v, o) ==
    /\ o \in Seq(Int)
    /\ \A a \in 1..Len(o) : o[a] \in 1..Len(o)
    /\ \A i \in 1..Len(o) : \E a \in 1..Len(o) : o[a] = i
    /\ \A a, b \in 1..Len(o) : a < b => Ahead(q, v, o[a], o[b])

LEMMA InsertKeepsRank ==
    ASSUME NEW q, NEW v, Comparable(q, v), NEW o, InRank(q, v, o), Len(o) < Len(v)
    PROVE  /\ InRank(q, v, InsertRule(q, v, o, Len(o) + 1))
           /\ Len(InsertRule(q, v, o, Len(o) + 1)) = Len(o) + 1
<1> DEFINE n == Len(o)
           i == Len(o) + 1
           K == {a \in DOMAIN o : ~Closer(q, v[i], v[o[a]])}
           k == Cardinality(K)
           t == InsertAt(o, k + 1, i)
<1>1. /\ o \in Seq(Int) /\ n \in Nat /\ DOMAIN o = 1..n /\ i = n + 1
      /\ DOMAIN v = 1..Len(v) /\ Len(v) \in Nat /\ i \in DOMAIN v
      /\ \A a \in 1..n : o[a] \in 1..n /\ o[a] \in DOMAIN v /\ o[a] < i
  <2>1. o \in Seq(Int) /\ \A a \in 1..n : o[a] \in 1..n
    BY DEF InRank
  <2>2. v \in Seq(Seq(Int))
    BY DEF Comparable
  <2>3. /\ n \in Nat /\ DOMAIN o = 1..n /\ DOMAIN v = 1..Len(v) /\ Len(v) \in Nat /\ n < Len(v)
    BY <2>1, <2>2
  <2> HIDE DEF n
  <2>4. i = n + 1 /\ i \in 1..Len(v)
    BY <2>3 DEF n
  <2> HIDE DEF i
  <2>5. ASSUME NEW a \in 1..n PROVE o[a] \in 1..n /\ o[a] \in 1..Len(v) /\ o[a] < i
    BY <2>1, <2>3, <2>4
  <2>6. QED  BY <2>1, <2>3, <2>4, <2>5
<1> HIDE DEF i, n
<1>2. \A a \in 1..n : a \in K <=> Ahead(q, v, o[a], i)
  BY <1>1, RulesAreOrdered DEF Ahead
<1>3. \A a \in 1..n : a \notin K => Ahead(q, v, i, o[a])
  BY <1>1 DEF Ahead
<1>4. ASSUME NEW b \in K, NEW a \in 1..n, a < b PROVE a \in K
  <2>1. b \in 1..n /\ Ahead(q, v, o[b], i)
    BY <1>1, <1>2
  <2>2. Ahead(q, v, o[a], o[b])
    BY <1>4, <2>1 DEF InRank, n
  <2>3. Ahead(q, v, o[a], i)
    BY <1>1, <2>1, <2>2, RulesAreOrdered
  <2>4. QED  BY <1>2, <2>3
<1>5. k \in 0..n /\ K = 1..k
  <2>1. K \in SUBSET (1..n)
    BY <1>1
  <2> HIDE DEF K
  <2>2. QED  BY <1>1, <1>4, <2>1, Prefix
<1> HIDE DEF k
<1>6. /\ t \in Seq(Int) /\ Len(t) = n + 1 /\ t[k + 1] = i
      /\ \A a \in 1..k : t[a] = o[a]
      /\ \A a \in (k + 2)..(n + 1) : t[a] = o[a - 1]
  <2>1. k \in 0..Len(o) /\ i \in Int
    BY <1>1, <1>5 DEF n
  <2>2. QED  BY <1>1, <2>1, Inserted DEF n
<1>7. InsertRule(q, v, o, i) = t
  BY DEF InsertRule, k
<1> HIDE DEF t, K
<1>8. ASSUME NEW a \in 1..(n + 1) PROVE t[a] \in 1..(n + 1)
  <2>1. CASE a \in 1..k
    <3>1. a \in 1..n /\ t[a] = o[a]
      BY <1>1, <1>5, <1>6, <2>1
    <3>2. QED  BY <1>1, <3>1
  <2>2. CASE a = k + 1
    BY <1>1, <1>6, <2>2
  <2>3. CASE a \in (k + 2)..(n + 1)
    <3>1. a - 1 \in 1..n
      BY <1>1, <1>5, <2>3
    <3>2. QED  BY <1>1, <1>6, <2>3, <3>1
  <2>4. QED  BY <1>1, <1>5, <2>1, <2>2, <2>3
<1>9. ASSUME NEW j \in 1..(n + 1) PROVE \E a \in 1..(n + 1) : t[a] = j
  <2>1. CASE j = n + 1
    <3>1. k + 1 \in 1..(n + 1)
      BY <1>1, <1>5
    <3>2. QED  BY <1>1, <1>6, <2>1, <3>1
  <2>2. CASE j # n + 1
    <3>1. j \in 1..n
      BY <1>1, <2>2
    <3>2. PICK b \in 1..n : o[b] = j
      BY <3>1 DEF InRank, n
    <3>3. CASE b <= k
      BY <1>1, <1>5, <1>6, <3>2, <3>3
    <3>4. CASE b > k
      <4>1. b + 1 \in (k + 2)..(n + 1) /\ (b + 1) - 1 = b /\ b + 1 \in 1..(n + 1)
        BY <1>1, <1>5, <3>4
      <4>2. t[b + 1] = o[b]
        BY <1>6, <4>1
      <4>3. QED  BY <3>2, <4>1, <4>2
    <3>5. QED  BY <1>1, <1>5, <3>3, <3>4
  <2>3. QED  BY <2>1, <2>2
<1>10. ASSUME NEW a \in 1..(n + 1), NEW b \in 1..(n + 1), a < b
       PROVE  Ahead(q, v, t[a], t[b])
  <2> DEFINE Old(c) == IF c <= k THEN c ELSE c - 1
  <2>1. ASSUME NEW c \in 1..(n + 1), c # k + 1 PROVE Old(c) \in 1..n /\ t[c] = o[Old(c)]
    BY <1>1, <1>5, <1>6, <2>1
  <2>2. CASE a # k + 1 /\ b # k + 1
    <3>1. Old(a) < Old(b)
      BY <1>1, <1>5, <1>10, <2>2
    <3>2. QED  BY <2>1, <2>2, <3>1 DEF InRank, n
  <2>3. CASE b = k + 1
    <3>1. a \in 1..k /\ a \in 1..n
      BY <1>1, <1>5, <1>10, <2>3
    <3>2. QED  BY <1>2, <1>5, <1>6, <2>3, <3>1
  <2>4. CASE a = k + 1
    <3>1. b \in (k + 2)..(n + 1) /\ b - 1 \in 1..n /\ b - 1 \notin 1..k
      BY <1>1, <1>5, <1>10, <2>4
    <3>2. QED  BY <1>3, <1>5, <1>6, <2>4, <3>1
  <2>5. QED  BY <2>2, <2>3, <2>4
<1>11. QED  BY <1>1, <1>6, <1>7, <1>8, <1>9, <1>10 DEF InRank, n, i

-----------------------------------------------------------------------------
(* rank_rules.                                                             *)

Least(a, b) == IF a < b THEN a ELSE b

\* The rules inserted so far are in rank; what is returned are the first ones
\* when all are.
RankInv ==
    /\ "of" \in DOMAIN call
    /\ call.of = "rank" =>
        IF call.refused THEN result = [verdict |-> "refused", rules |-> <<>>]
        ELSE /\ Comparable(call.query, call.rules)
             /\ InRank(call.query, call.rules, work) /\ Len(work) <= Len(call.rules)
             /\ result # Running =>
                    /\ Len(work) = Len(call.rules)
                    /\ result.rules = SubSeq(work, 1, Least(Len(work), Limit))

LEMMA AcceptedAreComparable ==
    ASSUME NEW vectors \in Embeddings, ~Refused(vectors)
    PROVE  Comparable(Head(vectors), Tail(vectors))
<1>1. vectors \in Seq(Seq(Int)) /\ vectors # <<>>
  BY InputAssumption
<1>2. /\ Head(vectors) \in Seq(Int) /\ Tail(vectors) \in Seq(Seq(Int))
      /\ Head(vectors) = vectors[1]
      /\ \A i \in DOMAIN Tail(vectors) : i + 1 \in DOMAIN vectors /\ Tail(vectors)[i] = vectors[i + 1]
  BY <1>1
<1>3. \A i \in DOMAIN vectors : Len(vectors[i]) = Len(vectors[1]) /\ ~ZeroMagnitude(vectors[i])
  BY DEF Refused
<1>4. QED  BY <1>2, <1>3 DEF Comparable

LEMMA RankInvariant == Spec => []RankInv
<1>1. Init => RankInv
  BY DEF Init, RankInv
<1>2. RankInv /\ [Next]_vars => RankInv'
  <2> SUFFICES ASSUME RankInv, [Next]_vars PROVE RankInv'
    OBVIOUS
  <2>1. CASE CallRankRules
    <3>1. PICK vectors \in Embeddings :
              /\ call' = [of |-> "rank", query |-> Head(vectors), rules |-> Tail(vectors),
                          refused |-> Refused(vectors)]
              /\ work' = <<>>
              /\ result' = IF Refused(vectors) THEN [verdict |-> "refused", rules |-> <<>>]
                           ELSE Running
      BY <2>1 DEF CallRankRules
    <3>2. CASE Refused(vectors)
      <4>1. /\ "of" \in DOMAIN call' /\ call'.refused
            /\ result' = [verdict |-> "refused", rules |-> <<>>]
        BY <3>1, <3>2
      <4>2. QED  BY <4>1 DEF RankInv
    <3>3. CASE ~Refused(vectors)
      <4>1. Comparable(call'.query, call'.rules) /\ ~call'.refused /\ result' = Running
        BY <3>1, <3>3, AcceptedAreComparable
      <4>2. Len(call'.rules) \in Nat
        BY <4>1 DEF Comparable
      <4>3. InRank(call'.query, call'.rules, work') /\ Len(work') <= Len(call'.rules)
        BY <3>1, <4>2 DEF InRank
      <4>4. "of" \in DOMAIN call'
        BY <3>1
      <4>5. QED  BY <4>1, <4>3, <4>4 DEF RankInv
    <3>4. QED  BY <3>2, <3>3
  <2>2. CASE RankRules
    <3>1. call.of = "rank" /\ result = Running /\ UNCHANGED call
      BY <2>2 DEF RankRules
    <3>2. /\ ~call.refused /\ Comparable(call.query, call.rules)
          /\ InRank(call.query, call.rules, work) /\ Len(work) <= Len(call.rules)
      BY <3>1 DEF RankInv, Running
    <3>3. Len(work) \in Nat /\ Len(call.rules) \in Nat
      BY <3>2 DEF InRank, Comparable
    <3>4. CASE Len(work) < Len(call.rules)
      <4>1. work' = InsertRule(call.query, call.rules, work, Len(work) + 1) /\ UNCHANGED result
        BY <2>2, <3>4 DEF RankRules
      <4>2. InRank(call.query, call.rules, work') /\ Len(work') = Len(work) + 1
        BY <3>2, <3>4, <4>1, InsertKeepsRank
      <4>3. QED  BY <3>1, <3>2, <3>3, <3>4, <4>1, <4>2 DEF RankInv
    <3>5. CASE Len(work) >= Len(call.rules)
      <4>1. /\ UNCHANGED work
            /\ result' = [verdict |-> "ranked", rules |-> SubSeq(work, 1, Least(Len(work), Limit))]
        BY <2>2, <3>3, <3>5 DEF RankRules, Least
      <4>2. result'.rules = SubSeq(work', 1, Least(Len(work'), Limit))
        BY <4>1
      <4>3. Len(work') = Len(call'.rules)
        BY <3>1, <3>2, <3>3, <3>5, <4>1
      <4>4. Comparable(call'.query, call'.rules) /\ InRank(call'.query, call'.rules, work')
        BY <3>1, <3>2, <4>1
      <4>5. "of" \in DOMAIN call' /\ ~call'.refused /\ Len(work') <= Len(call'.rules)
        BY <3>1, <3>2, <3>3, <4>1, <4>3 DEF RankInv
      <4>6. QED  BY <4>2, <4>3, <4>4, <4>5 DEF RankInv
    <3>6. QED  BY <3>3, <3>4, <3>5
  <2>3. CASE CallSummarize \/ CallBenchmarkChat \/ CallBenchmarkEmbedding \/ BenchmarkChat
    <3>1. call'.of # "rank" /\ "of" \in DOMAIN call'
      <4>1. CASE BenchmarkChat
        <5>1. call.of = "chat" /\ \E E, e, a : call' = [call EXCEPT !.events = E]
                                             \/ call' = [call EXCEPT !.end = e, !.at = a]
          BY <4>1, Zenon DEF BenchmarkChat, InStream, ReadEvent, Receive, EndStream
        <5>2. QED  BY <5>1 DEF RankInv
      <4>2. QED  BY <2>3, <4>1 DEF CallSummarize, CallBenchmarkChat, CallBenchmarkEmbedding
    <3>2. QED  BY <3>1 DEF RankInv
  <2>4. CASE UNCHANGED vars
    BY <2>4 DEF vars, RankInv
  <2>5. QED  BY <2>1, <2>2, <2>3, <2>4 DEF Next, Begin
<1>3. QED  BY <1>1, <1>2, PTL DEF Spec

\* In a ranking of all rules a rule stands behind exactly those ahead of it.
LEMMA PlaceInRank ==
    ASSUME NEW q, NEW v, Comparable(q, v), NEW o, InRank(q, v, o), Len(o) = Len(v),
           NEW p \in 1..Len(o)
    PROVE  Cardinality({j \in DOMAIN v : Ahead(q, v, j, o[p])}) = p - 1
<1> DEFINE A == {j \in DOMAIN v : Ahead(q, v, j, o[p])}
           f == [m \in 1..(p - 1) |-> o[m]]
           n == Len(o)
<1>1. /\ n \in Nat /\ DOMAIN v = 1..n /\ p \in 1..n
      /\ \A a \in 1..n : o[a] \in DOMAIN v
  <2>1. o \in Seq(Int) /\ v \in Seq(Seq(Int)) /\ \A a \in 1..n : o[a] \in 1..n
    BY DEF InRank, Comparable
  <2>2. n \in Nat /\ DOMAIN v = 1..n
    BY <2>1
  <2>3. QED  BY <2>1, <2>2
<1>2. \A a, b \in 1..n : a < b => Ahead(q, v, o[a], o[b])
  BY DEF InRank
<1>3. \A a \in 1..(p - 1) : a \in 1..n /\ a < p
  BY <1>1
<1>4. \A a, b \in 1..n : o[a] = o[b] => a = b
  <2>1. \A a \in 1..n : ~Ahead(q, v, o[a], o[a])
    BY <1>1, RulesAreOrdered
  <2>2. \A a, b \in 1..n : a < b \/ b < a \/ a = b
    OBVIOUS
  <2> HIDE DEF n
  <2>3. QED  BY <1>2, <2>1, <2>2
<1>5. \A j \in A : \E m \in 1..(p - 1) : o[m] = j
  <2> SUFFICES ASSUME NEW j \in A PROVE \E m \in 1..(p - 1) : o[m] = j
    OBVIOUS
  <2>1. j \in 1..n /\ Ahead(q, v, j, o[p])
    BY <1>1
  <2>2. PICK m \in 1..n : o[m] = j
    BY <2>1 DEF InRank
  <2>3. m # p
    BY <1>1, <2>1, <2>2, RulesAreOrdered
  <2>4. ~(p < m)
    <3>1. SUFFICES ASSUME p < m PROVE FALSE
      OBVIOUS
    <3>2. Ahead(q, v, o[p], o[m]) /\ Ahead(q, v, o[m], o[p])
      BY <1>1, <1>2, <2>1, <2>2, <3>1
    <3>3. Ahead(q, v, o[p], o[p]) /\ o[p] \in DOMAIN v
      BY <1>1, <3>2, RulesAreOrdered
    <3>4. QED  BY <3>3, RulesAreOrdered
  <2>5. m \in 1..(p - 1)
    BY <1>1, <2>3, <2>4
  <2>6. QED  BY <2>2, <2>5
<1>6. f \in Bijection(1..(p - 1), A)
  <2>1. f \in [1..(p - 1) -> A]
    BY <1>1, <1>2, <1>3
  <2> HIDE DEF A
  <2>2. \A a, b \in 1..(p - 1) : f[a] = f[b] => a = b
    BY <1>3, <1>4
  <2>3. \A j \in A : \E m \in 1..(p - 1) : f[m] = j
    BY <1>5
  <2> HIDE DEF f
  <2>4. DOMAIN f = 1..(p - 1)
    BY <2>1
  <2>5. f \in Injection(1..(p - 1), A)
    BY <2>1, <2>2, <2>4 DEF Injection, IsInjective
  <2>6. QED  BY <2>1, <2>3, <2>5 DEF Bijection, Surjection
<1>7. IsFiniteSet(1..(p - 1)) /\ Cardinality(1..(p - 1)) = p - 1
  <2>1. 1 \in Int /\ p - 1 \in Int
    BY <1>1
  <2>2. /\ IsFiniteSet(1..(p - 1))
        /\ Cardinality(1..(p - 1)) = IF 1 > p - 1 THEN 0 ELSE (p - 1) - 1 + 1
    BY <2>1, FS_Interval
  <2>3. (IF 1 > p - 1 THEN 0 ELSE (p - 1) - 1 + 1) = p - 1
    BY <1>1
  <2>4. QED  BY <2>2, <2>3
<1>8. Cardinality(A) = p - 1
  <2> HIDE DEF A, f
  <2>1. ExistsBijection(1..(p - 1), A)
    BY <1>6 DEF ExistsBijection
  <2>2. QED  BY <1>7, <2>1, FS_Bijection
<1>9. QED  BY <1>8

\* For any number of rules and vectors of any length: the rules that rank_rules
\* returns are the closest, equally close ones in the order of the rule file.
THEOREM TheClosestComeFirst == Spec => []ClosestRulesFirst
<1>1. ASSUME RankInv PROVE ClosestRulesFirst
  <2> DEFINE q == call.query
             v == call.rules
             n == Len(work)
             Before(i) == {j \in DOMAIN v : Closer(q, v[j], v[i])
                                            \/ (j < i /\ ~Closer(q, v[i], v[j]))}
  <2>1. CASE call.of # "rank" \/ result = Running
    BY <2>1 DEF ClosestRulesFirst
  <2>2. CASE call.of = "rank" /\ result # Running /\ call.refused
    BY <1>1, <2>2 DEF ClosestRulesFirst, RankInv
  <2>3. CASE call.of = "rank" /\ result # Running /\ ~call.refused
    <3>1. /\ Comparable(q, v) /\ InRank(q, v, work) /\ n = Len(v)
          /\ result.rules = SubSeq(work, 1, Least(n, Limit))
      BY <1>1, <2>3 DEF RankInv
    <3>2. /\ work \in Seq(Int) /\ n \in Nat /\ DOMAIN v = 1..n
      BY <3>1 DEF InRank, Comparable
    <3>3. /\ Len(result.rules) = Least(n, Limit)
          /\ \A p \in 1..Least(n, Limit) : result.rules[p] = work[p]
      <4>1. Least(n, Limit) \in 0..n
        BY <3>2 DEF Least, Limit
      <4> HIDE DEF n
      <4>2. QED  BY <3>1, <3>2, <4>1 DEF n
    <3>4. ASSUME NEW i \in DOMAIN v, Cardinality(Before(i)) < Limit
          PROVE  result.rules[Cardinality(Before(i)) + 1] = i
      <4>1. PICK p \in 1..n : work[p] = i
        BY <3>1, <3>2 DEF InRank
      <4>2. Before(i) = {j \in DOMAIN v : Ahead(q, v, j, work[p])}
        BY <4>1 DEF Ahead
      <4>3. Cardinality(Before(i)) = p - 1
        BY <3>1, <4>2, PlaceInRank
      <4>4. p \in 1..Least(n, Limit) /\ (p - 1) + 1 = p
        BY <3>2, <3>4, <4>3 DEF Least, Limit
      <4>5. QED  BY <3>3, <4>1, <4>3, <4>4
    <3>5. Len(result.rules) = IF Len(v) < Limit THEN Len(v) ELSE Limit
      BY <3>1, <3>3 DEF Least
    <3>6. QED  BY <2>3, <3>4, <3>5 DEF ClosestRulesFirst
  <2>4. QED  BY <2>1, <2>2, <2>3
<1>2. QED  BY <1>1, RankInvariant, PTL

-----------------------------------------------------------------------------
(* sorted.                                                                 *)

LEMMA Bounded ==
    ASSUME NEW values \in Seq(Nat)
    PROVE  \E B \in Nat : \A i \in DOMAIN values : values[i] <= B
<1> DEFINE n == Len(values)
           Has(m) == \E B \in Nat : \A i \in 1..m : values[i] <= B
           T == {m \in 0..n : ~Has(m)}
<1>1. n \in Nat /\ DOMAIN values = 1..n /\ \A i \in 1..n : values[i] \in Nat
  OBVIOUS
<1> HIDE DEF n
<1>2. SUFFICES ASSUME T # {} PROVE FALSE
  <2>1. n \in 0..n
    BY <1>1
  <2>2. QED  BY <1>1, <1>2, <2>1
<1>3. PICK m \in T : \A k \in T : m <= k
  <2>1. T \subseteq Nat
    BY <1>1
  <2> HIDE DEF T
  <2>2. QED  BY <1>2, <2>1, LeastNatural
<1>4. m \in 0..n /\ ~Has(m) /\ \A k \in 0..n : ~Has(k) => m <= k
  BY <1>3
<1>5. Has(0)
  <2>1. \A i \in 1..0 : values[i] <= 0
    OBVIOUS
  <2>2. QED  BY <2>1
<1>6. m \in 1..n /\ m - 1 \in 0..n /\ ~(m <= m - 1)
  <2> HIDE DEF Has
  <2>1. m # 0
    BY <1>4, <1>5
  <2>2. QED  BY <1>1, <1>4, <2>1
<1>7. PICK B \in Nat : \A i \in 1..(m - 1) : values[i] <= B
  BY <1>4, <1>6
<1>8. \A i \in 1..m : i \in 1..(m - 1) \/ i = m
  BY <1>6
<1>9. B + values[m] \in Nat /\ \A i \in 1..m : values[i] <= B + values[m]
  BY <1>1, <1>6, <1>7, <1>8
<1>10. QED  BY <1>4, <1>9

\* Sets of places are finite, and as large as the sets they hold.
LEMMA Places ==
    ASSUME NEW values \in Seq(Nat), NEW S \in SUBSET (DOMAIN values), NEW T \in SUBSET S
    PROVE  /\ IsFiniteSet(DOMAIN values) /\ Cardinality(DOMAIN values) = Len(values)
           /\ IsFiniteSet(S) /\ IsFiniteSet(T)
           /\ Cardinality(S) \in 0..Len(values) /\ Cardinality(T) \in 0..Cardinality(S)
           /\ Cardinality(S) = Cardinality(T) => S = T
<1>1. DOMAIN values = 1..Len(values) /\ Len(values) \in Nat
  OBVIOUS
<1>2. /\ IsFiniteSet(1..Len(values))
      /\ Cardinality(1..Len(values)) = IF 1 > Len(values) THEN 0 ELSE Len(values) - 1 + 1
  BY <1>1, FS_Interval
<1>3. IsFiniteSet(DOMAIN values) /\ Cardinality(DOMAIN values) = Len(values)
  BY <1>1, <1>2
<1>4. IsFiniteSet(S) /\ Cardinality(S) <= Len(values)
  BY <1>3, FS_Subset
<1>5. IsFiniteSet(T) /\ Cardinality(T) <= Cardinality(S) /\ (Cardinality(S) = Cardinality(T) => S = T)
  BY <1>4, FS_Subset
<1>6. Cardinality(S) \in Nat /\ Cardinality(T) \in Nat
  BY <1>4, <1>5, FS_CardinalityType
<1>7. QED  BY <1>1, <1>3, <1>4, <1>5, <1>6

\* What stands at place k of the sorted sample.
Stands(values, k, x) ==
    /\ x \in {values[i] : i \in DOMAIN values}
    /\ Cardinality(Under(values, x)) < k /\ k <= Cardinality(AtMost(values, x))

LEMMA OrderedStands ==
    ASSUME NEW values \in Seq(Nat), NEW k \in 1..Len(values)
    PROVE  Stands(values, k, Ordered(values)[k]) /\ Ordered(values)[k] \in Nat
<1> DEFINE T == {m \in Nat : k <= Cardinality(AtMost(values, m))}
<1>1. /\ DOMAIN values = 1..Len(values) /\ Len(values) \in Nat
      /\ \A i \in DOMAIN values : values[i] \in Nat
  OBVIOUS
<1>2. \A m \in Int : AtMost(values, m) \in SUBSET (DOMAIN values)
  BY DEF AtMost
<1>3. \A m \in Int : Cardinality(AtMost(values, m)) \in Nat
  BY <1>1, <1>2, Places
<1>4. T # {}
  <2>1. PICK B \in Nat : \A i \in DOMAIN values : values[i] <= B
    BY Bounded
  <2>2. AtMost(values, B) = DOMAIN values
    BY <2>1 DEF AtMost
  <2>3. Cardinality(AtMost(values, B)) = Len(values)
    BY <2>2, Places
  <2>4. QED  BY <1>1, <2>3
<1>5. PICK m \in T : \A j \in T : m <= j
  <2>1. T \in SUBSET Nat
    OBVIOUS
  <2> HIDE DEF T
  <2>2. QED  BY <1>4, <2>1, LeastNatural
<1>6. m \in Nat /\ k <= Cardinality(AtMost(values, m))
  OBVIOUS
<1>7. Cardinality(Under(values, m)) < k
  <2>1. CASE m = 0
    <3>1. Under(values, m) = {}
      BY <1>1, <2>1 DEF Under
    <3>2. QED  BY <3>1, FS_EmptySet
  <2>2. CASE m # 0
    <3>1. m - 1 \in Nat /\ m - 1 \notin T
      BY <1>5, <1>6, <2>2
    <3>2. ~(k <= Cardinality(AtMost(values, m - 1)))
      BY <3>1
    <3>3. Under(values, m) = AtMost(values, m - 1)
      BY <1>1, <1>6 DEF Under, AtMost
    <3>4. QED  BY <1>3, <3>1, <3>2, <3>3
  <2>3. QED  BY <2>1, <2>2
<1>8. m \in {values[i] : i \in DOMAIN values}
  <2>1. Under(values, m) # AtMost(values, m)
    <3>1. Cardinality(AtMost(values, m)) \in Nat
      BY <1>3, <1>6
    <3>2. QED  BY <1>6, <1>7, <3>1
  <2>2. \E i \in DOMAIN values : values[i] <= m /\ ~(values[i] < m)
    BY <2>1 DEF Under, AtMost
  <2>3. QED  BY <1>1, <1>6, <2>2
<1>9. \E x \in {values[i] : i \in DOMAIN values} :
         Cardinality(Under(values, x)) < k /\ k <= Cardinality(AtMost(values, x))
  BY <1>6, <1>7, <1>8
<1>10. Ordered(values)[k] =
          CHOOSE x \in {values[i] : i \in DOMAIN values} :
             Cardinality(Under(values, x)) < k /\ k <= Cardinality(AtMost(values, x))
  BY <1>1 DEF Ordered
<1>11. Stands(values, k, Ordered(values)[k])
  BY <1>9, <1>10 DEF Stands
<1>12. QED  BY <1>1, <1>11 DEF Stands

\* Later places hold no smaller values.
LEMMA OrderedGrows ==
    ASSUME NEW values \in Seq(Nat), NEW k \in 1..Len(values), NEW l \in 1..Len(values), k <= l
    PROVE  Ordered(values)[k] <= Ordered(values)[l]
<1> DEFINE x == Ordered(values)[k]
           y == Ordered(values)[l]
<1>1. x \in Nat /\ y \in Nat /\ Stands(values, k, x) /\ Stands(values, l, y)
  BY OrderedStands
<1> HIDE DEF x, y
<1>2. SUFFICES ASSUME y < x PROVE FALSE
  BY <1>1 DEF x, y
<1>3. AtMost(values, y) \in SUBSET Under(values, x) /\ Under(values, x) \in SUBSET (DOMAIN values)
  BY <1>1, <1>2 DEF AtMost, Under
<1>4. Cardinality(AtMost(values, y)) <= Cardinality(Under(values, x))
      /\ Cardinality(AtMost(values, y)) \in Nat /\ Cardinality(Under(values, x)) \in Nat
  BY <1>3, Places
<1>5. QED  BY <1>1, <1>4 DEF Stands

\* The first place holds the smallest value, the last one the largest.
LEMMA OrderedEnds ==
    ASSUME NEW values \in Seq(Nat), values # <<>>
    PROVE  /\ Ordered(values)[1] = SmallestOf(values)
           /\ Ordered(values)[Len(values)] = LargestOf(values)
<1> DEFINE n == Len(values)
           S == {values[i] : i \in DOMAIN values}
           x == Ordered(values)[1]
           y == Ordered(values)[n]
<1>1. /\ n \in Nat /\ n > 0 /\ DOMAIN values = 1..n
      /\ \A i \in DOMAIN values : values[i] \in Nat
  OBVIOUS
<1>2. 1 \in 1..n /\ n \in 1..n
  BY <1>1
<1>3. /\ x \in Nat /\ Stands(values, 1, x) /\ y \in Nat /\ Stands(values, n, y)
  BY <1>2, OrderedStands
<1> HIDE DEF x, y, n
<1>4. \A i \in DOMAIN values : values[i] >= x
  <2>1. Under(values, x) \in SUBSET (DOMAIN values)
    BY DEF Under
  <2>2. IsFiniteSet(Under(values, x)) /\ Cardinality(Under(values, x)) \in Nat
    BY <2>1, Places
  <2>3. Cardinality(Under(values, x)) < 1
    BY <1>3 DEF Stands
  <2>4. Cardinality(Under(values, x)) = 0
    BY <2>2, <2>3
  <2>5. Under(values, x) = {}
    BY <2>2, <2>4, FS_EmptySet
  <2>6. QED  BY <1>1, <1>3, <2>5 DEF Under
<1>5. \A i \in DOMAIN values : values[i] <= y
  <2>1. AtMost(values, y) \in SUBSET (DOMAIN values) /\ DOMAIN values \in SUBSET (DOMAIN values)
    BY DEF AtMost
  <2>2. n <= Cardinality(AtMost(values, y))
    BY <1>3 DEF Stands
  <2>3. /\ Cardinality(AtMost(values, y)) \in 0..n /\ Cardinality(DOMAIN values) = n
        /\ Cardinality(DOMAIN values) = Cardinality(AtMost(values, y))
              => DOMAIN values = AtMost(values, y)
    BY <2>1, Places DEF n
  <2>4. AtMost(values, y) = DOMAIN values
    BY <1>1, <2>2, <2>3
  <2>5. QED  BY <2>4 DEF AtMost
<1>6. x \in S /\ y \in S
  BY <1>3 DEF Stands
<1>7. S \subseteq Nat
  BY <1>1
<1>8. \A z \in S : (\A i \in DOMAIN values : values[i] >= z) => z = x
  BY <1>1, <1>4, <1>6, <1>7
<1>9. \A z \in S : (\A i \in DOMAIN values : values[i] <= z) => z = y
  BY <1>1, <1>5, <1>6, <1>7
<1>10. SmallestOf(values) = x
  BY <1>4, <1>6, <1>8 DEF SmallestOf
<1>11. LargestOf(values) = y
  BY <1>5, <1>6, <1>9 DEF LargestOf
<1>12. QED  BY <1>10, <1>11 DEF x, y, n

-----------------------------------------------------------------------------
(* _percentile.                                                            *)

\* The weighted mean of two values lies between them and moves with the weight.
LEMMA Between ==
    ASSUME NEW a \in Nat, NEW b \in Nat, a <= b, NEW w \in 0..100, NEW u \in 0..w
    PROVE  /\ a * (100 - w) + b * w \in Nat
           /\ 100 * a <= a * (100 - w) + b * w
           /\ a * (100 - w) + b * w <= 100 * b
           /\ a * (100 - u) + b * u <= a * (100 - w) + b * w
<1> DEFINE d == b - a
<1>1. d \in Nat /\ b = a + d
  OBVIOUS
<1> HIDE DEF d
<1>2. \A t \in 0..100 : a * (100 - t) + (a + d) * t = 100 * a + d * t
  BY <1>1
<1>3. d * u \in Nat /\ d * w \in Nat /\ d * u <= d * w /\ d * w <= d * 100
  <2>1. \A t \in Nat : d * t \in Nat
    BY <1>1
  <2>2. /\ w - u \in Nat /\ 100 - w \in Nat /\ d * w = d * u + d * (w - u)
        /\ d * 100 = d * w + d * (100 - w)
    BY <1>1
  <2>3. QED  BY <2>1, <2>2
<1>4. QED  BY <1>1, <1>2, <1>3

\* The places that _percentile reads exist.
LEMMA Positions ==
    ASSUME NEW n \in Nat, n > 0, NEW p \in Percents
    PROVE  LET lower == ((n - 1) * p) \div 100
               w     == ((n - 1) * p) % 100
           IN  /\ lower \in 0..(n - 1) /\ w \in 0..99 /\ (n - 1) * p = 100 * lower + w
               /\ lower + 1 \in 1..n /\ (w # 0 => lower + 2 \in 1..n)
<1>1. CASE p = 50
  BY <1>1
<1>2. CASE p = 90
  BY <1>2
<1>3. CASE p = 95
  BY <1>3
<1>4. CASE p = 99
  BY <1>4
<1>5. QED  BY <1>1, <1>2, <1>3, <1>4 DEF Percents

Lower(n, p)  == ((n - 1) * p) \div 100
Weight(n, p) == ((n - 1) * p) % 100
\* The place above the position.
Upper(n, p)  == IF Weight(n, p) = 0 THEN Lower(n, p) ELSE Lower(n, p) + 1

\* A sample in its order.
Sorted(s, n) ==
    /\ n \in Nat /\ n > 0 /\ Len(s) = n
    /\ \A k \in 1..n : s[k] \in Nat
    /\ \A k, l \in 1..n : k <= l => s[k] <= s[l]

LEMMA OrderedIsSorted ==
    ASSUME NEW values \in Seq(Nat), values # <<>>
    PROVE  Sorted(Ordered(values), Len(values))
<1>1. Len(values) \in Nat /\ Len(values) > 0 /\ DOMAIN values = 1..Len(values)
  OBVIOUS
<1>2. Len(Ordered(values)) = Len(values)
  BY <1>1 DEF Ordered
<1>3. QED  BY <1>1, <1>2, OrderedStands, OrderedGrows DEF Sorted

\* A percentile lies between the two values around its position.
LEMMA PercentileLies ==
    ASSUME NEW s, NEW n, Sorted(s, n), NEW p \in Percents
    PROVE  /\ Lower(n, p) + 1 \in 1..n /\ Upper(n, p) + 1 \in 1..n
           /\ Percentile(s, p) \in Nat
           /\ 100 * s[Lower(n, p) + 1] <= Percentile(s, p)
           /\ Percentile(s, p) <= 100 * s[Upper(n, p) + 1]
<1> DEFINE l == Lower(n, p)
           w == Weight(n, p)
<1>1. n \in Nat /\ n > 0 /\ Len(s) = n
  BY DEF Sorted
<1>2. l \in 0..(n - 1) /\ w \in 0..99 /\ l + 1 \in 1..n /\ (w # 0 => l + 2 \in 1..n)
  BY <1>1, Positions DEF Lower, Weight
<1>3. Percentile(s, p) = IF w = 0 THEN 100 * s[l + 1] ELSE s[l + 1] * (100 - w) + s[l + 2] * w
  BY <1>1 DEF Percentile, Lower, Weight
<1>4. Upper(n, p) = IF w = 0 THEN l ELSE l + 1
  BY DEF Upper
<1> HIDE DEF l, w
<1>5. CASE w = 0
  <2>1. s[l + 1] \in Nat
    BY <1>2 DEF Sorted
  <2>2. QED  BY <1>2, <1>3, <1>4, <1>5, <2>1 DEF l
<1>6. CASE w # 0
  <2>1. /\ l + 1 <= l + 2 /\ (l + 1) + 1 = l + 2 /\ l + 2 \in 1..n /\ w \in 0..100 /\ w \in 0..w
    BY <1>2, <1>6
  <2>2. s[l + 1] \in Nat /\ s[l + 2] \in Nat /\ s[l + 1] <= s[l + 2]
    BY <1>2, <2>1 DEF Sorted
  <2>3. /\ s[l + 1] * (100 - w) + s[l + 2] * w \in Nat
        /\ 100 * s[l + 1] <= s[l + 1] * (100 - w) + s[l + 2] * w
        /\ s[l + 1] * (100 - w) + s[l + 2] * w <= 100 * s[l + 2]
    BY <2>1, <2>2, Between
  <2>4. Percentile(s, p) = s[l + 1] * (100 - w) + s[l + 2] * w /\ Upper(n, p) = l + 1
    BY <1>3, <1>4, <1>6
  <2>5. Upper(n, p) + 1 = l + 2
    BY <1>2, <2>4
  <2>6. QED  BY <1>2, <2>1, <2>3, <2>4, <2>5 DEF l
<1>7. QED  BY <1>5, <1>6

\* A larger percentage gives no smaller percentile.
LEMMA PercentileGrows ==
    ASSUME NEW s, NEW n, Sorted(s, n), NEW p \in Percents, NEW q \in Percents, p <= q
    PROVE  Percentile(s, p) <= Percentile(s, q)
<1>1. n \in Nat /\ n > 0 /\ Len(s) = n
  BY DEF Sorted
<1>2. /\ Lower(n, p) \in 0..(n - 1) /\ Weight(n, p) \in 0..99
      /\ Lower(n, q) \in 0..(n - 1) /\ Weight(n, q) \in 0..99
      /\ (n - 1) * p = 100 * Lower(n, p) + Weight(n, p)
      /\ (n - 1) * q = 100 * Lower(n, q) + Weight(n, q)
      /\ (Weight(n, q) # 0 => Lower(n, q) + 2 \in 1..n)
  BY <1>1, Positions DEF Lower, Weight
<1>3. (n - 1) * p <= (n - 1) * q
  BY <1>1 DEF Percents
<1>4. /\ Lower(n, p) + 1 \in 1..n /\ Upper(n, p) + 1 \in 1..n /\ Lower(n, q) + 1 \in 1..n
      /\ Percentile(s, p) \in Nat /\ Percentile(s, q) \in Nat
      /\ Percentile(s, p) <= 100 * s[Upper(n, p) + 1]
      /\ 100 * s[Lower(n, p) + 1] <= Percentile(s, p)
      /\ 100 * s[Lower(n, q) + 1] <= Percentile(s, q)
  BY PercentileLies
<1>5. CASE Lower(n, p) < Lower(n, q)
  <2>1. Upper(n, p) + 1 <= Lower(n, q) + 1
    BY <1>2, <1>5 DEF Upper
  <2>2. /\ s[Upper(n, p) + 1] <= s[Lower(n, q) + 1]
        /\ s[Upper(n, p) + 1] \in Nat /\ s[Lower(n, q) + 1] \in Nat
    BY <1>4, <2>1 DEF Sorted
  <2>3. QED  BY <1>4, <2>2
<1>6. CASE Lower(n, p) = Lower(n, q)
  <2> DEFINE l == Lower(n, p)
             w == Weight(n, p)
             u == Weight(n, q)
  <2>1. w \in 0..u /\ u \in 0..100 /\ w \in 0..100
    BY <1>2, <1>3, <1>6
  <2>2. /\ Percentile(s, p) = IF w = 0 THEN 100 * s[l + 1] ELSE s[l + 1] * (100 - w) + s[l + 2] * w
        /\ Percentile(s, q) = IF u = 0 THEN 100 * s[l + 1] ELSE s[l + 1] * (100 - u) + s[l + 2] * u
    BY <1>1, <1>6 DEF Percentile, Lower, Weight
  <2>3. l + 1 \in 1..n /\ (u # 0 => l + 2 \in 1..n) /\ l + 1 <= l + 2
    BY <1>2, <1>4, <1>6
  <2>4. 100 * s[l + 1] <= Percentile(s, q)
    BY <1>4, <1>6
  <2> HIDE DEF l, w, u
  <2>5. CASE w = 0
    BY <2>2, <2>4, <2>5
  <2>6. CASE w # 0
    <3>1. u # 0
      BY <2>1, <2>6
    <3>2. s[l + 1] \in Nat /\ s[l + 2] \in Nat /\ s[l + 1] <= s[l + 2]
      BY <2>3, <3>1 DEF Sorted
    <3>3. s[l + 1] * (100 - w) + s[l + 2] * w <= s[l + 1] * (100 - u) + s[l + 2] * u
      BY <2>1, <3>2, Between
    <3>4. QED  BY <2>2, <2>6, <3>1, <3>3
  <2>7. QED  BY <2>5, <2>6
<1>7. Lower(n, p) <= Lower(n, q)
  BY <1>2, <1>3
<1>8. QED  BY <1>2, <1>5, <1>6, <1>7

\* No more values lie under a percentile, or above it, than its share.
LEMMA PercentileCuts ==
    ASSUME NEW values \in Seq(Nat), values # <<>>, NEW p \in Percents
    PROVE  LET gaps  == Len(values) - 1
               r     == Percentile(Ordered(values), p)
               Below == {i \in DOMAIN values : 100 * values[i] < r}
               Above == {i \in DOMAIN values : 100 * values[i] > r}
           IN  /\ 100 * Cardinality(Below) <= p * gaps + 99
               /\ 100 * Cardinality(Above) <= (100 - p) * gaps + 99
<1> DEFINE n == Len(values)
           r == Percentile(Ordered(values), p)
           Below == {i \in DOMAIN values : 100 * values[i] < r}
           Above == {i \in DOMAIN values : 100 * values[i] > r}
           l == Lower(n, p)
           w == Weight(n, p)
           x == Ordered(values)[l + 1]
           y == Ordered(values)[Upper(n, p) + 1]
<1>1. n \in Nat /\ n > 0 /\ DOMAIN values = 1..n /\ \A i \in DOMAIN values : values[i] \in Nat
  OBVIOUS
<1>2. /\ l \in 0..(n - 1) /\ w \in 0..99 /\ (n - 1) * p = 100 * l + w
  BY <1>1, Positions DEF Lower, Weight
<1>3. /\ l + 1 \in 1..n /\ Upper(n, p) + 1 \in 1..n
      /\ r \in Nat /\ 100 * x <= r /\ r <= 100 * y
  BY OrderedIsSorted, PercentileLies
<1>4. /\ x \in Nat /\ Stands(values, l + 1, x)
      /\ y \in Nat /\ Stands(values, Upper(n, p) + 1, y)
  BY <1>3, OrderedStands
<1>5. Upper(n, p) = IF w = 0 THEN l ELSE l + 1
  BY DEF Upper
<1> HIDE DEF n, r, l, w, x, y
<1>6. 100 * Cardinality(Below) <= 100 * l + w + 99
  <2>1. Below \in SUBSET Under(values, y) /\ Under(values, y) \in SUBSET (DOMAIN values)
    BY <1>1, <1>3, <1>4 DEF Under
  <2>2. /\ Cardinality(Below) \in 0..Cardinality(Under(values, y))
        /\ Cardinality(Under(values, y)) \in 0..n
    BY <2>1, Places DEF n
  <2>3. Cardinality(Under(values, y)) < Upper(n, p) + 1
    BY <1>4 DEF Stands
  <2> HIDE DEF Below
  <2>4. QED  BY <1>1, <1>2, <1>5, <2>2, <2>3
<1>7. 100 * Cardinality(Above) <= 100 * (n - 1) - (100 * l + w) + 99
  <2> DEFINE Rest == DOMAIN values \ AtMost(values, x)
  <2>1. Above \in SUBSET Rest /\ Rest \in SUBSET (DOMAIN values)
    BY <1>1, <1>3, <1>4 DEF AtMost
  <2>2. AtMost(values, x) \in SUBSET (DOMAIN values) /\ DOMAIN values \in SUBSET (DOMAIN values)
    BY DEF AtMost
  <2>3. /\ IsFiniteSet(DOMAIN values) /\ Cardinality(DOMAIN values) = n
        /\ Cardinality(AtMost(values, x)) \in 0..n
    BY <2>2, Places DEF n
  <2>4. Cardinality(Rest) = Cardinality(DOMAIN values) - Cardinality(DOMAIN values \cap AtMost(values, x))
    BY <2>3, FS_Difference
  <2>5. DOMAIN values \cap AtMost(values, x) = AtMost(values, x)
    BY <2>2
  <2>6. Cardinality(Above) \in 0..Cardinality(Rest) /\ Cardinality(Rest) \in 0..n
    BY <2>1, Places DEF n
  <2>7. l + 1 <= Cardinality(AtMost(values, x))
    BY <1>4 DEF Stands
  <2>8. Cardinality(Rest) = n - Cardinality(AtMost(values, x))
    BY <2>3, <2>4, <2>5
  <2> HIDE DEF Above, Rest
  <2>9. Cardinality(Above) <= n - (l + 1)
    BY <1>1, <1>2, <2>3, <2>6, <2>7, <2>8
  <2>10. QED  BY <1>1, <1>2, <2>3, <2>6, <2>9
<1>8. p \in Int /\ p * (n - 1) = (n - 1) * p /\ (100 - p) * (n - 1) = 100 * (n - 1) - (n - 1) * p
  BY <1>1 DEF Percents
<1>9. /\ 100 * Cardinality(Below) <= p * (n - 1) + 99
      /\ 100 * Cardinality(Above) <= (100 - p) * (n - 1) + 99
  <2> HIDE DEF Below, Above
  <2>1. QED  BY <1>2, <1>6, <1>7, <1>8
<1>10. QED  BY <1>9 DEF n, r

\* A summary is that of a sample.
SummaryInv ==
    /\ "of" \in DOMAIN call
    /\ call.of = "summarize" => call.values \in Samples /\ result = Summarize(call.values)

\* A call is called by its name to the end.
LEMMA NamesStay ==
    ASSUME "of" \in DOMAIN call, BenchmarkChat
    PROVE  "of" \in DOMAIN call' /\ call'.of = "chat"
<1>1. call.of = "chat" /\ \E E, e, a : call' = [call EXCEPT !.events = E]
                                     \/ call' = [call EXCEPT !.end = e, !.at = a]
  BY Zenon DEF BenchmarkChat, InStream, ReadEvent, Receive, EndStream
<1>2. QED  BY <1>1

LEMMA SummaryInvariant == Spec => []SummaryInv
<1>1. Init => SummaryInv
  BY DEF Init, SummaryInv
<1>2. SummaryInv /\ [Next]_vars => SummaryInv'
  <2> SUFFICES ASSUME SummaryInv, [Next]_vars PROVE SummaryInv'
    OBVIOUS
  <2>1. CASE CallSummarize
    BY <2>1 DEF CallSummarize, SummaryInv
  <2>2. CASE BenchmarkChat
    BY <2>2, NamesStay DEF SummaryInv
  <2>3. CASE CallBenchmarkChat \/ CallBenchmarkEmbedding \/ CallRankRules
    BY <2>3 DEF CallBenchmarkChat, CallBenchmarkEmbedding, CallRankRules, SummaryInv
  <2>4. CASE RankRules
    BY <2>4 DEF RankRules, SummaryInv
  <2>5. CASE UNCHANGED vars
    BY <2>5 DEF vars, SummaryInv
  <2>6. QED  BY <2>1, <2>2, <2>3, <2>4, <2>5 DEF Next, Begin
<1>3. QED  BY <1>1, <1>2, PTL DEF Spec

\* For samples of any length: the percentiles of a report grow with their
\* percentage, stay within the sample and cut it where they say.
THEOREM PercentilesGrowAndCut == Spec => []PercentilesAreRight
<1>1. ASSUME SummaryInv PROVE PercentilesAreRight
  <2> SUFFICES ASSUME call.of = "summarize" PROVE PercentilesAreRight
    BY DEF PercentilesAreRight, PercentilesGrow, PercentilesCut
  <2> DEFINE values == call.values
             n == Len(values)
             s == Ordered(values)
  <2>1. values \in Seq(Nat) /\ values # <<>> /\ result = Summarize(values)
    BY <1>1, InputAssumption DEF SummaryInv
  <2>2. \A p \in Percents : result[p] = Percentile(s, p)
    BY <2>1 DEF Summarize
  <2>3. n \in Nat /\ n > 0
    BY <2>1
  <2> HIDE DEF n, s, values
  <2>4. Sorted(s, n)
    BY <2>1, OrderedIsSorted DEF n, s
  <2>5. 50 \in Percents /\ 90 \in Percents /\ 95 \in Percents /\ 99 \in Percents
    BY DEF Percents
  <2>6. /\ Percentile(s, 50) <= Percentile(s, 90) /\ Percentile(s, 90) <= Percentile(s, 95)
        /\ Percentile(s, 95) <= Percentile(s, 99)
    BY <2>4, <2>5, PercentileGrows
  <2>7. 100 * SmallestOf(values) <= Percentile(s, 50)
    <3>1. Lower(n, 50) + 1 \in 1..n /\ 100 * s[Lower(n, 50) + 1] <= Percentile(s, 50)
          /\ Percentile(s, 50) \in Nat
      BY <2>4, <2>5, PercentileLies
    <3>2. 1 \in 1..n /\ 1 <= Lower(n, 50) + 1
      BY <2>3, <3>1
    <3>3. s[1] <= s[Lower(n, 50) + 1] /\ s[1] \in Nat /\ s[Lower(n, 50) + 1] \in Nat
      BY <2>4, <3>1, <3>2 DEF Sorted
    <3>4. s[1] = SmallestOf(values)
      BY <2>1, OrderedEnds DEF s
    <3>5. QED  BY <3>1, <3>3, <3>4
  <2>8. Percentile(s, 99) <= 100 * LargestOf(values)
    <3>1. Upper(n, 99) + 1 \in 1..n /\ Percentile(s, 99) <= 100 * s[Upper(n, 99) + 1]
          /\ Percentile(s, 99) \in Nat
      BY <2>4, <2>5, PercentileLies
    <3>2. n \in 1..n /\ Upper(n, 99) + 1 <= n
      BY <2>3, <3>1
    <3>3. s[Upper(n, 99) + 1] <= s[n] /\ s[n] \in Nat /\ s[Upper(n, 99) + 1] \in Nat
      BY <2>4, <3>1, <3>2 DEF Sorted
    <3>4. s[n] = LargestOf(values)
      BY <2>1, OrderedEnds DEF s, n
    <3>5. QED  BY <3>1, <3>3, <3>4
  <2>9. PercentilesGrow
    BY <2>2, <2>5, <2>6, <2>7, <2>8 DEF PercentilesGrow, values
  <2>10. PercentilesCut
    <3> SUFFICES ASSUME NEW p \in Percents
                 PROVE  LET gaps  == Len(values) - 1
                            Below == {i \in DOMAIN values : 100 * values[i] < result[p]}
                            Above == {i \in DOMAIN values : 100 * values[i] > result[p]}
                        IN  /\ 100 * Cardinality(Below) <= p * gaps + 99
                            /\ 100 * Cardinality(Above) <= (100 - p) * gaps + 99
      BY DEF PercentilesCut, values
    <3>1. result[p] = Percentile(Ordered(values), p)
      BY <2>2 DEF s
    <3>2. QED  BY <2>1, <3>1, PercentileCuts
  <2>11. QED  BY <2>9, <2>10 DEF PercentilesAreRight
<1>2. QED  BY <1>1, SummaryInvariant, PTL

-----------------------------------------------------------------------------
(* Successes are earned: what the loop over a stream keeps is the moment of *)
(* the first content and the last usage among the events it has read.       *)

Usage   == {"none", "many", "one", "bad"}
Receipt == [content : BOOLEAN, usage : Usage, at : Nat]
Stream  == [of : {"chat"}, events : Seq(Receipt), end : {"open", "done"} \cup Cut, at : Nat]
Account == [now : Nat, first : Nat \cup {-1}, usage : Usage]

FirstContent(E, k) == k \in DOMAIN E /\ E[k].content /\ \A j \in DOMAIN E : E[j].content => k <= j
LastUsage(E, k) ==
    k \in DOMAIN E /\ E[k].usage # "none" /\ \A j \in DOMAIN E : E[j].usage # "none" => j <= k

\* What the account a says of the events E.
Accounts(a, E) ==
    /\ \A k \in DOMAIN E : E[k].at <= a.now
    /\ \/ a.first = -1 /\ \A k \in DOMAIN E : ~E[k].content
       \/ \E k \in DOMAIN E : FirstContent(E, k) /\ a.first = E[k].at
    /\ \/ a.usage = "none" /\ \A k \in DOMAIN E : E[k].usage = "none"
       \/ \E k \in DOMAIN E : LastUsage(E, k) /\ a.usage = E[k].usage

ChatInv ==
    call.of = "chat" =>
        /\ call \in Stream /\ work \in Account
        /\ Accounts(work, call.events)
        /\ call.end = "open" => result = Running
        /\ call.end = "done" => result = Judge(work, call.at) /\ work.now <= call.at
        /\ call.end \in Cut => result = Failed(call.end, call.at)

EmbeddingInv == call.of = "embedding" => call.reply \in Reply /\ result = BenchmarkEmbedding(call.reply)

EarnedInv == "of" \in DOMAIN call /\ ChatInv /\ EmbeddingInv

\* Reading one more event keeps the account right.
LEMMA AccountStep ==
    ASSUME NEW a \in Account, NEW E \in Seq(Receipt), Accounts(a, E),
           NEW event \in Event, NEW now \in Nat, a.now <= now
    PROVE  LET r == [content |-> event.content, usage |-> event.usage, at |-> now]
               b == [now   |-> now,
                     first |-> IF a.first = -1 /\ event.content THEN now ELSE a.first,
                     usage |-> IF event.usage # "none" THEN event.usage ELSE a.usage]
           IN  /\ Append(E, r) \in Seq(Receipt)
               /\ b \in Account
               /\ Accounts(b, Append(E, r))
<1> DEFINE r == [content |-> event.content, usage |-> event.usage, at |-> now]
           b == [now   |-> now,
                 first |-> IF a.first = -1 /\ event.content THEN now ELSE a.first,
                 usage |-> IF event.usage # "none" THEN event.usage ELSE a.usage]
           F == Append(E, r)
           n == Len(E) + 1
<1>1. r \in Receipt /\ r.content = event.content /\ r.usage = event.usage /\ r.at = now
  BY DEF Event, Receipt, Usage
<1>2. /\ b \in Account /\ b.now = now
      /\ b.first = IF a.first = -1 /\ event.content THEN now ELSE a.first
      /\ b.usage = IF event.usage # "none" THEN event.usage ELSE a.usage
  BY DEF Event, Account, Usage
<1>3. /\ a.now \in Nat /\ a.first \in Nat \cup {-1}
      /\ \A k \in DOMAIN E : E[k].at \in Nat
  <2>1. \A k \in DOMAIN E : E[k] \in Receipt
    OBVIOUS
  <2>2. QED  BY <2>1 DEF Account, Receipt
<1> HIDE DEF r, b
<1>4. /\ F \in Seq(Receipt) /\ Len(E) \in Nat /\ DOMAIN E = 1..Len(E) /\ DOMAIN F = 1..n
      /\ F[n] = r /\ \A k \in DOMAIN E : F[k] = E[k]
  BY <1>1
<1> HIDE DEF F
<1>5. \A k \in DOMAIN F : k \in DOMAIN E \/ k = n
  BY <1>4
<1>6. \A k \in DOMAIN E : k \in DOMAIN F /\ k <= n
  BY <1>4
<1>7. n \in DOMAIN F
  BY <1>4
<1>8. \A k \in DOMAIN F : F[k].at <= b.now
  <2> SUFFICES ASSUME NEW k \in DOMAIN F PROVE F[k].at <= now
    BY <1>2
  <2>1. CASE k \in DOMAIN E
    BY <2>1, <1>3, <1>4 DEF Accounts
  <2>2. CASE k = n
    BY <2>2, <1>1, <1>4
  <2>3. QED  BY <2>1, <2>2, <1>5
<1>9. \/ b.first = -1 /\ \A k \in DOMAIN F : ~F[k].content
      \/ \E k \in DOMAIN F : FirstContent(F, k) /\ b.first = F[k].at
  <2>1. CASE a.first = -1 /\ \A k \in DOMAIN E : ~E[k].content
    <3>1. CASE event.content
      <4>1. FirstContent(F, n) /\ b.first = F[n].at
        <5>1. F[n].content /\ b.first = F[n].at
          BY <2>1, <3>1, <1>1, <1>2, <1>4
        <5>2. \A j \in DOMAIN F : F[j].content => j = n
          BY <2>1, <1>4, <1>5
        <5>3. n \in Nat
          BY <1>4
        <5>4. QED  BY <5>1, <5>2, <5>3, <1>7 DEF FirstContent
      <4>2. QED  BY <4>1, <1>7
    <3>2. CASE ~event.content
      BY <2>1, <3>2, <1>1, <1>2, <1>4, <1>5
    <3>3. QED  BY <3>1, <3>2
  <2>2. CASE \E k \in DOMAIN E : FirstContent(E, k) /\ a.first = E[k].at
    <3>1. PICK k \in DOMAIN E : FirstContent(E, k) /\ a.first = E[k].at
      BY <2>2
    <3>2. b.first = F[k].at
      BY <3>1, <1>2, <1>3, <1>4
    <3>3. FirstContent(F, k)
      BY <3>1, <1>4, <1>5, <1>6 DEF FirstContent
    <3>4. QED  BY <3>2, <3>3, <1>6
  <2>3. QED  BY <2>1, <2>2 DEF Accounts
<1>10. \/ b.usage = "none" /\ \A k \in DOMAIN F : F[k].usage = "none"
       \/ \E k \in DOMAIN F : LastUsage(F, k) /\ b.usage = F[k].usage
  <2>1. CASE event.usage # "none"
    <3>1. LastUsage(F, n) /\ b.usage = F[n].usage
      BY <2>1, <1>1, <1>2, <1>4, <1>5, <1>6, <1>7 DEF LastUsage
    <3>2. QED  BY <3>1, <1>7
  <2>2. CASE event.usage = "none"
    <3>1. CASE a.usage = "none" /\ \A k \in DOMAIN E : E[k].usage = "none"
      BY <2>2, <3>1, <1>1, <1>2, <1>4, <1>5
    <3>2. CASE \E k \in DOMAIN E : LastUsage(E, k) /\ a.usage = E[k].usage
      <4>1. PICK k \in DOMAIN E : LastUsage(E, k) /\ a.usage = E[k].usage
        BY <3>2
      <4>2. b.usage = F[k].usage
        BY <2>2, <4>1, <1>2, <1>4
      <4>3. LastUsage(F, k)
        BY <2>2, <4>1, <1>1, <1>4, <1>5, <1>6 DEF LastUsage
      <4>4. QED  BY <4>2, <4>3, <1>6
    <3>3. QED  BY <3>1, <3>2 DEF Accounts
  <2>3. QED  BY <2>1, <2>2
<1>11. Accounts(b, F)
  BY <1>8, <1>9, <1>10 DEF Accounts
<1>12. QED  BY <1>2, <1>4, <1>11 DEF b, F, r

LEMMA EarnedInvariant == Spec => []EarnedInv
<1>1. Init => EarnedInv
  BY DEF Init, EarnedInv, ChatInv, EmbeddingInv
<1>2. EarnedInv /\ [Next]_vars => EarnedInv'
  <2> SUFFICES ASSUME EarnedInv, [Next]_vars PROVE EarnedInv'
    OBVIOUS
  <2>1. CASE CallBenchmarkChat
    <3>1. /\ call' \in Stream /\ work' \in Account /\ call'.of = "chat"
          /\ call'.events = <<>> /\ call'.end = "open" /\ result' = Running
      BY <2>1 DEF CallBenchmarkChat, Stream, Account, Usage
    <3>2. work'.first = -1 /\ work'.usage = "none"
      BY <2>1 DEF CallBenchmarkChat
    <3>3. Accounts(work', call'.events)
      BY <3>1, <3>2 DEF Accounts
    <3>4. QED
      BY <3>1, <3>3 DEF EarnedInv, ChatInv, EmbeddingInv, Cut, Stream
  <2>2. CASE BenchmarkChat
    <3>1. PICK tick \in Ticks :
             \/ \E event \in Event : ReadEvent(event, work.now + tick)
             \/ \E end \in Cut \cup {"done"} : EndStream(end, work.now + tick)
      BY <2>2 DEF BenchmarkChat
    <3> DEFINE now == work.now + tick
    <3>2. /\ call.of = "chat" /\ call.end = "open" /\ call \in Stream /\ work \in Account
          /\ Accounts(work, call.events) /\ result = Running
      BY <2>2 DEF BenchmarkChat, InStream, EarnedInv, ChatInv
    <3>3. now \in Nat /\ work.now <= now
      BY <3>2 DEF Ticks, Account
    <3>4. CASE \E event \in Event : ReadEvent(event, now)
      <4>1. PICK event \in Event : ReadEvent(event, now)
        BY <3>4
      <4> DEFINE r == [content |-> event.content, usage |-> event.usage, at |-> now]
                 b == [now   |-> now,
                       first |-> IF work.first = -1 /\ event.content THEN now ELSE work.first,
                       usage |-> IF event.usage # "none" THEN event.usage ELSE work.usage]
                 F == Append(call.events, r)
      <4> HIDE DEF now
      <4>2. call.events \in Seq(Receipt)
        BY <3>2 DEF Stream
      <4>3. F \in Seq(Receipt) /\ b \in Account /\ Accounts(b, F)
        BY <3>2, <3>3, <4>2, AccountStep
      <4>4. work' = b /\ result' = Running /\ call' = [call EXCEPT !.events = F]
        BY <3>2, <4>1 DEF ReadEvent, Receive
      <4> HIDE DEF r, b, F
      <4>5. /\ call' \in Stream /\ call'.events = F /\ call'.of = "chat" /\ call'.end = "open"
            /\ "of" \in DOMAIN call'
        BY <3>2, <4>3, <4>4 DEF Stream
      <4>6. QED
        BY <4>3, <4>4, <4>5 DEF EarnedInv, ChatInv, EmbeddingInv, Cut
    <3>5. CASE \E end \in Cut \cup {"done"} : EndStream(end, now)
      <4>1. PICK end \in Cut \cup {"done"} : EndStream(end, now)
        BY <3>5
      <4> HIDE DEF now
      <4>2. /\ work' = work /\ call' = [call EXCEPT !.end = end, !.at = now]
            /\ result' = IF end = "done" THEN Judge(work, now) ELSE Failed(end, now)
        BY <4>1 DEF EndStream
      <4>3. /\ call' \in Stream /\ call'.events = call.events /\ call'.of = "chat"
            /\ call'.end = end /\ call'.at = now /\ "of" \in DOMAIN call'
        BY <3>2, <3>3, <4>2 DEF Stream
      <4>4. end # "open" /\ (end \in Cut => end # "done")
        BY DEF Cut
      <4>5. /\ call'.end = "done" => result' = Judge(work', call'.at) /\ work'.now <= call'.at
            /\ call'.end \in Cut => result' = Failed(call'.end, call'.at)
        BY <3>3, <4>2, <4>3, <4>4
      <4>6. QED
        BY <3>2, <4>2, <4>3, <4>4, <4>5 DEF EarnedInv, ChatInv, EmbeddingInv
    <3>6. QED  BY <3>1, <3>4, <3>5
  <2>3. CASE CallBenchmarkEmbedding
    BY <2>3 DEF CallBenchmarkEmbedding, EarnedInv, ChatInv, EmbeddingInv
  <2>4. CASE CallSummarize \/ CallRankRules
    BY <2>4 DEF CallSummarize, CallRankRules, EarnedInv, ChatInv, EmbeddingInv
  <2>5. CASE RankRules
    BY <2>5 DEF RankRules, EarnedInv, ChatInv, EmbeddingInv
  <2>6. CASE UNCHANGED vars
    BY <2>6 DEF vars, EarnedInv, ChatInv, EmbeddingInv
  <2>7. QED  BY <2>1, <2>2, <2>3, <2>4, <2>5, <2>6 DEF Next, Begin
<1>3. QED  BY <1>1, <1>2, PTL DEF Spec

\* For streams of any length: a request is a success only if the whole answer
\* came with content and usable usage, and its times are those of the stream.
THEOREM SuccessesAreEarned == Spec => []SuccessIsEarned
<1>1. ASSUME EarnedInv PROVE SuccessIsEarned
  <2>1. ASSUME call.of = "embedding", result.verdict = "success"
        PROVE  /\ call.reply.http = "ok" /\ call.reply.body = "object"
               /\ result.items > 0 /\ result.items = call.reply.vectors
    <3> DEFINE reply == call.reply
    <3>1. reply \in Reply /\ result = BenchmarkEmbedding(reply)
      BY <1>1, <2>1 DEF EarnedInv, EmbeddingInv
    <3> HIDE DEF reply
    <3>2. /\ reply.http \in {"timeout", "broken", "status", "ok"}
          /\ reply.body \in {"object", "other", "none"} /\ reply.vectors \in -1..2
      BY <3>1 DEF Reply
    <3>3. reply.http = "ok"
      BY <3>1, <3>2, <2>1 DEF BenchmarkEmbedding
    <3>4. reply.body = "object"
      BY <3>1, <3>2, <3>3, <2>1 DEF BenchmarkEmbedding
    <3>5. reply.vectors \notin -1..0 /\ result.items = reply.vectors
      BY <3>1, <3>3, <3>4, <2>1 DEF BenchmarkEmbedding
    <3>6. QED  BY <3>2, <3>3, <3>4, <3>5 DEF reply
  <2>2. ASSUME call.of = "chat" PROVE ChatSuccessIsEarned
    <3> DEFINE E == call.events
               Contents == {k \in DOMAIN E : E[k].content}
               Usages   == {k \in DOMAIN E : E[k].usage # "none"}
               Ending(u) == \E k \in Usages : E[k].usage = u /\ \A j \in Usages : j <= k
               Sound == call.end = "done" /\ Contents # {} /\ (Ending("many") \/ Ending("one"))
               Opening == E[CHOOSE k \in Contents : \A j \in Contents : k <= j].at
               Still == call.at = IF Ending("many") THEN Opening ELSE 0
               Verdict == /\ result.verdict = "success" <=> Sound /\ ~Still
                          /\ result.verdict = "success" =>
                                 result.ttft = Opening /\ result.e2e = call.at /\ Opening <= call.at
                          /\ result.verdict = "raised" <=> (Sound /\ Still) \/ call.end = "raised"
    <3> SUFFICES Verdict
      BY <2>2 DEF ChatSuccessIsEarned
    <3>1. /\ call \in Stream /\ work \in Account /\ Accounts(work, E)
          /\ call.end = "open" => result = Running
          /\ call.end = "done" => result = Judge(work, call.at) /\ work.now <= call.at
          /\ call.end \in Cut => result = Failed(call.end, call.at)
      BY <1>1, <2>2 DEF EarnedInv, ChatInv
    <3>2. /\ E \in Seq(Receipt) /\ call.at \in Nat /\ call.end \in {"open", "done"} \cup Cut
          /\ work.now \in Nat /\ work.first \in Nat \cup {-1} /\ work.usage \in Usage
      BY <3>1 DEF Stream, Account
    <3>3. DOMAIN E \subseteq Nat /\ \A k \in DOMAIN E : E[k].at \in Nat
      <4>1. DOMAIN E \subseteq Nat /\ \A k \in DOMAIN E : E[k] \in Receipt
        BY <3>2
      <4>2. QED  BY <4>1 DEF Receipt
    <3> HIDE DEF E
    <3>4. Contents = {} <=> work.first = -1
      BY <3>1, <3>3 DEF Accounts, FirstContent
    <3>5. Contents # {} => work.first = Opening /\ Opening <= work.now /\ Opening \in Nat
      <4> SUFFICES ASSUME Contents # {}
                   PROVE  work.first = Opening /\ Opening <= work.now /\ Opening \in Nat
        OBVIOUS
      <4>1. PICK k \in DOMAIN E : FirstContent(E, k) /\ work.first = E[k].at
        BY <3>1, <3>4 DEF Accounts
      <4>2. k \in Contents /\ \A j \in Contents : k <= j
        BY <4>1 DEF FirstContent
      <4>3. \A i \in Contents : (\A j \in Contents : i <= j) => i = k
        BY <4>2, <3>3
      <4> HIDE DEF Contents
      <4>4. (CHOOSE i \in Contents : \A j \in Contents : i <= j) = k
        BY <4>2, <4>3
      <4>5. QED  BY <4>1, <4>4, <3>1, <3>3 DEF Accounts
    <3>6. ASSUME NEW u \in {"many", "one"} PROVE Ending(u) <=> work.usage = u
      <4>1. CASE work.usage = "none" /\ \A k \in DOMAIN E : E[k].usage = "none"
        BY <4>1, <3>6
      <4>2. CASE \E k \in DOMAIN E : LastUsage(E, k) /\ work.usage = E[k].usage
        <5>1. PICK k \in DOMAIN E : LastUsage(E, k) /\ work.usage = E[k].usage
          BY <4>2
        <5>2. k \in Usages /\ \A j \in Usages : j <= k
          BY <5>1 DEF LastUsage
        <5>3. \A i \in Usages : (\A j \in Usages : j <= i) => i = k
          BY <5>2, <3>3
        <5>4. QED  BY <5>1, <5>2, <5>3
      <4>3. QED  BY <3>1, <4>1, <4>2 DEF Accounts
    <3>7. Sound <=> call.end = "done" /\ work.first # -1 /\ work.usage \in {"many", "one"}
      BY <3>4, <3>6
    <3>8. Sound => (Still <=> call.at = IF work.usage = "many" THEN work.first ELSE 0)
      BY <3>5, <3>6
    <3> HIDE DEF Contents, Usages, Ending, Opening
    <3>9. CASE call.end = "done"
      <4>1. result = Judge(work, call.at) /\ work.now <= call.at
        BY <3>1, <3>9
      <4>2. CASE work.first = -1
        BY <4>1, <4>2, <3>7, <3>9 DEF Judge, Failed, Verdict
      <4>3. CASE work.first # -1 /\ work.usage \notin {"many", "one"}
        BY <4>1, <4>3, <3>7, <3>9 DEF Judge, Failed, Verdict
      <4>4. CASE work.first # -1 /\ work.usage \in {"many", "one"}
        <5>1. Sound /\ work.first = Opening /\ Opening <= call.at
          BY <4>1, <4>4, <3>2, <3>4, <3>5, <3>7, <3>9
        <5>2. result = IF Still THEN Failed("raised", call.at)
                       ELSE [verdict |-> "success", ttft |-> work.first, e2e |-> call.at]
          BY <4>1, <4>4, <5>1, <3>8 DEF Judge
        <5> HIDE DEF Sound, Still
        <5>3. QED  BY <5>1, <5>2, <3>9 DEF Failed, Verdict
      <4>5. QED  BY <4>2, <4>3, <4>4
    <3>10. CASE call.end # "done"
      <4>1. \/ call.end = "open" /\ result = Running
            \/ call.end \in Cut /\ result = Failed(call.end, call.at)
        BY <3>1, <3>2, <3>10
      <4>2. ~Sound
        BY <3>7, <3>10
      <4> HIDE DEF Sound, Still
      <4>3. QED  BY <4>1, <4>2 DEF Running, Failed, Cut, Verdict
    <3>11. QED  BY <3>9, <3>10
  <2>3. QED  BY <2>1, <2>2 DEF SuccessIsEarned, ChatSuccessIsEarned
<1>2. QED  BY <1>1, EarnedInvariant, PTL
=============================================================================
