---------------------------- MODULE BasketProofs ----------------------------
(***************************************************************************)
(* What holds of the order core, its mock venue and its dashboard for      *)
(* every number of orders, traders and loops: quantities add up, the       *)
(* tables agree with the core, a done order stays done, a split keeps the  *)
(* basket's total, an IOC order has one attempt, and a gesture at the      *)
(* dashboard acts on what it names.                                        *)
(***************************************************************************)
EXTENDS MockVenue, BasketDesk, SequenceTheorems, FiniteSetTheorems, WellFoundedInduction, TLAPS

-----------------------------------------------------------------------------
\* Sums

\* A set of naturals has a least element.
LEMMA LeastElement ==
    ASSUME NEW T, T \subseteq Nat, T # {}
    PROVE  \E x \in T : \A y \in T : x <= y
<1> DEFINE R == OpToRel(<, Nat)
<1>1. IsWellFoundedOn(R, Nat)
      BY NatLessThanWellFounded
<1>2. \A x, y \in Nat : x < y => <<x, y>> \in R
      BY DEF OpToRel
<1>   HIDE DEF R
<1>3. PICK x \in T : \A y \in T : ~ (<<y, x>> \in R)
      BY <1>1, WFMin
<1>4. \A y \in T : ~(y < x)
      BY <1>2, <1>3
<1> QED BY <1>3, <1>4

\* The running sums of the first n numbers of s.
Adds(f, s, n) == \A i \in 1..n : f[i] = f[i - 1] + s[i]
Sums(f, s, n) == f \in [0..n -> Int] /\ f[0] = 0 /\ Adds(f, s, n)

\* What an element of a sequence of integers is.
LEMMA Numbers ==
    ASSUME NEW s \in Seq(Int)
    PROVE  Len(s) \in Nat /\ DOMAIN s = 1..Len(s) /\ \A i \in 1..Len(s) : s[i] \in Int
BY LenProperties, ElementOfSeq

\* Every sequence of integers has running sums,
LEMMA SumsExist ==
    ASSUME NEW s \in Seq(Int), NEW n \in 0..Len(s)
    PROVE  \E f : Sums(f, s, n)
<1> DEFINE Good(m) == \E f : Sums(f, s, m)
           bad == {m \in 0..Len(s) : ~Good(m)}
<1>1. Len(s) \in Nat /\ \A i \in 1..Len(s) : s[i] \in Int
      BY Numbers
<1>2. CASE bad # {}
  <2>1. bad \subseteq Nat
        BY <1>1
  <2> HIDE DEF bad
  <2>2. PICK m \in bad : \A k \in bad : m <= k
        BY <1>2, <2>1, LeastElement
  <2> USE DEF bad
  <2>3. m \in Nat /\ m <= Len(s) /\ ~Good(m)
        BY <1>1, <2>2
  <2>4. m # 0
    <3>1. Sums([i \in 0..0 |-> 0], s, 0)
          BY DEF Sums, Adds
    <3> QED BY <2>3, <3>1
  <2> DEFINE k == m - 1
  <2>5. k \in Nat /\ k + 1 = m /\ k \in 0..Len(s) /\ m \in 1..Len(s)
        BY <1>1, <2>3, <2>4
  <2>6. Good(k)
    <3>1. ~(m <= k)
          BY <2>3, <2>5
    <3> QED BY <2>2, <2>5, <3>1
  <2>7. PICK f : Sums(f, s, k)
        BY <2>6
  <2> HIDE DEF k
  <2> DEFINE g == [i \in 0..m |-> IF i <= k THEN f[i] ELSE f[k] + s[m]]
  <2>8. s[m] \in Int
        BY <1>1, <2>5
  <2>9. g \in [0..m -> Int]
        BY <2>3, <2>5, <2>7, <2>8 DEF Sums
  <2>10. ASSUME NEW i \in 1..m PROVE g[i] = g[i - 1] + s[i]
    <3>1. CASE i <= k
      <4>1. i \in 1..k /\ i - 1 \in 0..m /\ i - 1 <= k /\ i \in 0..m
            BY <2>3, <2>5, <3>1
      <4>2. f[i] = f[i - 1] + s[i]
            BY <2>7, <4>1 DEF Sums, Adds
      <4>3. g[i] = f[i] /\ g[i - 1] = f[i - 1]
            BY <3>1, <4>1
      <4> QED BY <4>2, <4>3
    <3>2. CASE i = m
      <4>1. i - 1 = k /\ k \in 0..m /\ ~(i <= k) /\ i \in 0..m /\ k <= k
            BY <2>3, <2>5, <3>2
      <4>2. g[i] = f[k] + s[i] /\ g[k] = f[k]
            BY <3>2, <4>1
      <4> QED BY <4>1, <4>2
    <3> QED BY <2>3, <2>5, <3>1, <3>2
  <2>11. Sums(g, s, m)
    <3>1. g[0] = 0
      <4>1. 0 \in 0..m /\ 0 <= k
            BY <2>3, <2>5
      <4> QED BY <2>7, <4>1 DEF Sums
    <3> HIDE DEF g
    <3> QED BY <2>9, <2>10, <3>1 DEF Sums, Adds
  <2> QED BY <2>3, <2>11
<1>3. CASE bad = {}
      BY <1>3
<1> QED BY <1>2, <1>3

\* and no others.
LEMMA SumsAgree ==
    ASSUME NEW s, NEW n \in Nat, NEW f, NEW g, f[0] = g[0], Adds(f, s, n), Adds(g, s, n)
    PROVE  \A i \in 0..n : f[i] = g[i]
<1> DEFINE bad == {i \in 0..n : f[i] # g[i]}
<1>1. CASE bad # {}
  <2>1. bad \subseteq Nat
        OBVIOUS
  <2> HIDE DEF bad
  <2>2. PICK m \in bad : \A k \in bad : m <= k
        BY <1>1, <2>1, LeastElement
  <2> USE DEF bad
  <2>3. m \in 1..n /\ m - 1 \in 0..n /\ ~(m <= m - 1)
        BY <2>2
  <2>4. f[m - 1] = g[m - 1]
        BY <2>2, <2>3
  <2> QED BY <2>2, <2>3, <2>4 DEF Adds
<1>2. CASE bad = {}
      BY <1>2
<1> QED BY <1>1, <1>2

\* Total is the last of the running sums.
LEMMA TotalIs ==
    ASSUME NEW s \in Seq(Int), NEW f, Sums(f, s, Len(s))
    PROVE  Total(s) = f[Len(s)] /\ Total(s) \in Int
<1> DEFINE n == Len(s)
           sum[i \in 0..n] == IF i = 0 THEN 0 ELSE sum[i - 1] + s[i]
<1>1. n \in Nat
      BY LenProperties
<1>2. f = [i \in 0..n |-> IF i = 0 THEN 0 ELSE f[i - 1] + s[i]]
  <2> DEFINE r(i) == IF i = 0 THEN 0 ELSE f[i - 1] + s[i]
  <2>1. ASSUME NEW i \in 0..n PROVE f[i] = r(i)
    <3>1. i = 0 \/ i \in 1..n
          BY <1>1
    <3> QED BY <3>1 DEF Sums, Adds
  <2>2. f = [i \in 0..n |-> f[i]]
        BY DEF Sums
  <2> HIDE DEF r
  <2>3. f = [i \in 0..n |-> r(i)]
        BY <2>1, <2>2
  <2> QED BY <2>3 DEF r
<1>3. sum = [i \in 0..n |-> IF i = 0 THEN 0 ELSE sum[i - 1] + s[i]]
      BY <1>2
<1>4. Total(s) = sum[n]
      BY DEF Total
<1> HIDE DEF sum
<1>5. sum[0] = 0 /\ \A i \in 1..n : sum[i] = sum[i - 1] + s[i]
  <2>1. 0 \in 0..n
        BY <1>1
  <2>2. sum[0] = 0
        BY <1>3, <2>1
  <2>3. ASSUME NEW i \in 1..n PROVE sum[i] = sum[i - 1] + s[i]
    <3>1. i \in 0..n /\ i # 0
          BY <1>1
    <3> QED BY <1>3, <3>1
  <2> QED BY <2>2, <2>3
<1>6. \A i \in 0..n : sum[i] = f[i]
  <2>1. sum[0] = f[0] /\ Adds(sum, s, n) /\ Adds(f, s, n)
        BY <1>5 DEF Sums, Adds
  <2> HIDE DEF n
  <2> QED BY <1>1, <2>1, SumsAgree
<1>7. n \in 0..n
      BY <1>1
<1> QED BY <1>1, <1>4, <1>6, <1>7 DEF Sums

\* Every sequence of integers has running sums that end in its total.
LEMMA TotalSums ==
    ASSUME NEW s \in Seq(Int)
    PROVE  \E f : Sums(f, s, Len(s)) /\ Total(s) = f[Len(s)] /\ Total(s) \in Int
<1>1. Len(s) \in 0..Len(s)
      BY Numbers
<1>2. PICK f : Sums(f, s, Len(s))
      BY <1>1, SumsExist
<1> QED BY <1>2, TotalIs

\* The total of two sequences one behind the other.
LEMMA TotalConcat ==
    ASSUME NEW a \in Seq(Int), NEW b \in Seq(Int)
    PROVE  Total(a \o b) = Total(a) + Total(b)
<1> DEFINE n == Len(a)
           m == Len(b)
<1>1. n \in Nat /\ m \in Nat /\ \A i \in 1..m : b[i] \in Int
      BY Numbers
<1>2. /\ a \o b \in Seq(Int) /\ Len(a \o b) = n + m
      /\ \A i \in 1..n + m : (a \o b)[i] = IF i <= n THEN a[i] ELSE b[i - n]
      BY ConcatProperties
<1>3. PICK f : Sums(f, a, n) /\ Total(a) = f[n] /\ Total(a) \in Int
      BY TotalSums
<1>4. PICK g : Sums(g, b, m) /\ Total(b) = g[m]
      BY TotalSums
<1>5. PICK h : Sums(h, a \o b, n + m) /\ Total(a \o b) = h[n + m]
      BY <1>2, TotalSums
<1>6. \A i \in 0..n : h[i] = f[i]
  <2>1. ASSUME NEW i \in 1..n PROVE h[i] = h[i - 1] + a[i]
    <3>1. i \in 1..n + m /\ i <= n
          BY <1>1
    <3> QED BY <1>2, <1>5, <3>1 DEF Sums, Adds
  <2>2. Adds(h, a, n) /\ h[0] = f[0] /\ Adds(f, a, n)
        BY <1>3, <1>5, <2>1 DEF Sums, Adds
  <2> HIDE DEF n
  <2> QED BY <1>1, <2>2, SumsAgree
<1> DEFINE u == [i \in 0..m |-> h[n + i]]
           v == [i \in 0..m |-> f[n] + g[i]]
<1>7. \A i \in 0..m : u[i] = v[i]
  <2>1. 0 \in 0..m /\ n + 0 = n /\ n \in 0..n
        BY <1>1
  <2>2. u[0] = h[n] /\ v[0] = f[n] + 0
        BY <1>4, <2>1 DEF Sums
  <2>3. u[0] = v[0]
        BY <1>3, <1>6, <2>1, <2>2
  <2>4. ASSUME NEW i \in 1..m
        PROVE  u[i] = u[i - 1] + b[i] /\ v[i] = v[i - 1] + b[i]
    <3>1. i \in 0..m /\ i - 1 \in 0..m /\ n + i \in 1..n + m
          /\ ~(n + i <= n) /\ (n + i) - n = i /\ (n + i) - 1 = n + (i - 1)
          BY <1>1
    <3>2. h[n + i] = h[(n + i) - 1] + (a \o b)[n + i]
          BY <1>5, <3>1 DEF Sums, Adds
    <3>3. (a \o b)[n + i] = b[i]
          BY <1>2, <3>1
    <3>4. u[i] = u[i - 1] + b[i]
          BY <3>1, <3>2, <3>3
    <3>5. g[i] = g[i - 1] + b[i] /\ g[i - 1] \in Int /\ b[i] \in Int
          BY <1>1, <1>4, <3>1 DEF Sums, Adds
    <3>6. v[i] = f[n] + g[i] /\ v[i - 1] = f[n] + g[i - 1]
          BY <3>1
    <3>7. v[i] = v[i - 1] + b[i]
      <4> HIDE DEF v
      <4> QED BY <1>3, <3>5, <3>6
    <3> QED BY <3>4, <3>7
  <2>5. Adds(u, b, m) /\ Adds(v, b, m)
    <3> HIDE DEF u, v
    <3> QED BY <2>4 DEF Adds
  <2> HIDE DEF u, v, m
  <2> QED BY <1>1, <2>3, <2>5, SumsAgree
<1>8. m \in 0..m
      BY <1>1
<1> QED BY <1>3, <1>4, <1>5, <1>7, <1>8

\* The total of zeros is zero,
LEMMA TotalZeros ==
    ASSUME NEW n \in Nat
    PROVE  Total([i \in 1..n |-> 0]) = 0
<1> DEFINE z == [i \in 1..n |-> 0]
           f == [i \in 0..n |-> 0]
<1>1. z \in Seq(Int) /\ Len(z) = n
  <2>1. z \in [1..n -> Int]
        OBVIOUS
  <2> HIDE DEF z
  <2>2. z \in Seq(Int)
        BY <2>1, SeqDef
  <2> QED BY <2>1, <2>2, LenProperties
<1>2. Sums(f, z, n)
  <2>1. f[0] = 0
        OBVIOUS
  <2>2. ASSUME NEW i \in 1..n PROVE f[i] = f[i - 1] + z[i]
    <3>1. i \in 0..n /\ i - 1 \in 0..n
          OBVIOUS
    <3> QED BY <3>1
  <2>3. f \in [0..n -> Int]
        OBVIOUS
  <2> QED BY <2>1, <2>2, <2>3 DEF Sums, Adds
<1>3. f[n] = 0
      OBVIOUS
<1> HIDE DEF z, f
<1>4. Total(z) = f[n]
      BY <1>1, <1>2, TotalIs
<1> QED BY <1>3, <1>4 DEF z

\* the total of one number is that number,
LEMMA TotalOne ==
    ASSUME NEW x \in Int
    PROVE  Total(<<x>>) = x
<1> DEFINE f == [i \in 0..1 |-> IF i = 0 THEN 0 ELSE x]
           s == <<x>>
<1>1. s \in Seq(Int) /\ Len(s) = 1 /\ s[1] = x
      OBVIOUS
<1>2. f \in [0..1 -> Int] /\ f[0] = 0 /\ f[1] = x
      OBVIOUS
<1> HIDE DEF f, s
<1>3. Adds(f, s, 1)
  <2> SUFFICES ASSUME NEW i \in 1..1 PROVE f[i] = f[i - 1] + s[i]
      BY DEF Adds
  <2>1. i = 1 /\ i - 1 = 0
        OBVIOUS
  <2> QED BY <1>1, <1>2, <2>1
<1>4. Total(s) = f[1]
      BY <1>1, <1>2, <1>3, TotalIs DEF Sums
<1> QED BY <1>2, <1>4 DEF s

\* a number more adds itself,
LEMMA TotalAppend ==
    ASSUME NEW s \in Seq(Int), NEW x \in Int
    PROVE  Total(Append(s, x)) = Total(s) + x
<1>1. <<x>> \in Seq(Int)
      OBVIOUS
<1>2. Append(s, x) = s \o <<x>>
      BY AppendIsConcat
<1> QED BY <1>1, <1>2, TotalConcat, TotalOne

\* and a number that takes the place of another changes the total by the difference.
LEMMA TotalReplace ==
    ASSUME NEW s \in Seq(Int), NEW j \in 1..Len(s), NEW t \in Seq(Int), Len(t) = Len(s),
           \A i \in 1..Len(s) : i # j => t[i] = s[i]
    PROVE  Total(t) = Total(s) - s[j] + t[j]
<1> DEFINE n == Len(s)
<1>1. n \in Nat /\ \A i \in 1..n : s[i] \in Int /\ t[i] \in Int
      BY Numbers
<1>2. PICK f : Sums(f, s, n) /\ Total(s) = f[n]
      BY TotalSums
<1> DEFINE d == t[j] - s[j]
           g == [i \in 0..n |-> IF i < j THEN f[i] ELSE f[i] + d]
<1>3. d \in Int /\ j \in Nat /\ j > 0 /\ j <= n
      BY <1>1
<1>4. Sums(g, t, n)
  <2>1. g[0] = 0
    <3>1. 0 \in 0..n /\ 0 < j
          BY <1>1, <1>3
    <3> QED BY <1>2, <3>1 DEF Sums
  <2>2. g \in [0..n -> Int]
    <3>1. \A i \in 0..n : f[i] \in Int
          BY <1>2 DEF Sums
    <3> HIDE DEF d
    <3> QED BY <1>3, <3>1
  <2>3. ASSUME NEW i \in 1..n PROVE g[i] = g[i - 1] + t[i]
    <3>1. i \in 0..n /\ i - 1 \in 0..n /\ i \in Int
          BY <1>1
    <3>2. f[i] = f[i - 1] + s[i] /\ f[i - 1] \in Int /\ s[i] \in Int /\ t[i] \in Int
          BY <1>1, <1>2, <3>1 DEF Sums, Adds
    <3>3. CASE i < j
      <4>1. i - 1 < j /\ i # j
            BY <1>3, <3>1, <3>3
      <4>2. g[i] = f[i] /\ g[i - 1] = f[i - 1]
            BY <3>1, <3>3, <4>1
      <4>3. t[i] = s[i]
            BY <4>1
      <4> QED BY <3>2, <4>2, <4>3
    <3>4. CASE i = j
      <4>1. i - 1 < j /\ ~(i < j)
            BY <1>3, <3>4
      <4>2. g[i] = f[i] + d /\ g[i - 1] = f[i - 1]
            BY <3>1, <4>1
      <4>3. d = t[i] - s[i]
            BY <3>4
      <4>4. \A a, b, c \in Int : (a + b) + (c - b) = a + c
            OBVIOUS
      <4> DEFINE a == f[i - 1]
                 b == s[i]
                 c == t[i]
      <4>5. a \in Int /\ b \in Int /\ c \in Int /\ f[i] = a + b
            BY <3>2
      <4> HIDE DEF g, d, a, b, c
      <4>6. (a + b) + (c - b) = a + c
            BY <4>4, <4>5
      <4>7. f[i] + d = a + c
            BY <4>3, <4>5, <4>6 DEF b, c
      <4> QED BY <4>2, <4>7 DEF a, c
    <3>5. CASE j < i
      <4>1. ~(i - 1 < j) /\ ~(i < j) /\ i # j
            BY <1>3, <3>1, <3>5
      <4>2. g[i] = f[i] + d /\ g[i - 1] = f[i - 1] + d
            BY <3>1, <4>1
      <4>3. t[i] = s[i]
            BY <4>1
      <4> HIDE DEF g, d
      <4> QED BY <1>3, <3>2, <4>2, <4>3
    <3> QED BY <1>3, <3>1, <3>3, <3>4, <3>5
  <2> HIDE DEF g
  <2> QED BY <2>1, <2>2, <2>3 DEF Sums, Adds
<1>5. Total(t) = g[n]
  <2> HIDE DEF g
  <2> QED BY <1>4, TotalIs
<1>6. g[n] = f[n] + d
  <2>1. n \in 0..n /\ ~(n < j)
        BY <1>1, <1>3
  <2> QED BY <2>1
<1>7. f[n] \in Int /\ s[j] \in Int /\ t[j] \in Int
  <2>1. n \in 0..n
        BY <1>1
  <2> QED BY <1>1, <1>2, <2>1 DEF Sums
<1> HIDE DEF g, n
<1> QED BY <1>2, <1>5, <1>6, <1>7

\* An even split gives away what there is, whatever the quantity and the slices.
LEMMA SplitIsExact ==
    ASSUME NEW q \in Nat, NEW n \in Nat \ {0}
    PROVE  /\ SplitQuantities(q, n) \in Seq(Int) /\ Len(SplitQuantities(q, n)) = n
           /\ \A k \in 1..n : SplitQuantities(q, n)[k] >= q \div n
           /\ Total(SplitQuantities(q, n)) = q
<1> DEFINE s == SplitQuantities(q, n)
           d == q \div n
           r == q % n
<1>1. d \in Nat /\ r \in Nat /\ r < n /\ q = n * d + r
      OBVIOUS
<1>2. s = [i \in 1..n |-> d + (IF i <= r THEN 1 ELSE 0)]
      BY DEF SplitQuantities
<1> HIDE DEF s, d, r
<1>3. s \in [1..n -> Int] /\ \A k \in 1..n : s[k] >= d
      BY <1>1, <1>2
<1>4. s \in Seq(Int) /\ Len(s) = n
      BY <1>3, SeqDef, LenProperties
<1> DEFINE f == [i \in 0..n |-> i * d + (IF i <= r THEN i ELSE r)]
<1>5. f \in [0..n -> Int]
  <2>1. ASSUME NEW i \in 0..n PROVE i * d \in Int
        BY <1>1
  <2> QED BY <1>1, <2>1
<1>6. f[0] = 0
      BY <1>1
<1>7. ASSUME NEW i \in 1..n PROVE f[i] = f[i - 1] + s[i]
  <2>1. i \in 0..n /\ i - 1 \in 0..n /\ i \in Int
        OBVIOUS
  <2>2. i * d = (i - 1) * d + d
        BY <1>1
  <2>3. (i - 1) * d \in Int
        BY <1>1, <2>1
  <2>4. f[i] = i * d + (IF i <= r THEN i ELSE r)
        /\ f[i - 1] = (i - 1) * d + (IF i - 1 <= r THEN i - 1 ELSE r)
        /\ s[i] = d + (IF i <= r THEN 1 ELSE 0)
        BY <1>2, <2>1
  <2> DEFINE x == i * d
             y == (i - 1) * d
  <2> HIDE DEF f, x, y
  <2>5. f[i] = x + (IF i <= r THEN i ELSE r) /\ x = y + d /\ y \in Int
        /\ f[i - 1] = y + (IF i - 1 <= r THEN i - 1 ELSE r)
        BY <2>2, <2>3, <2>4 DEF x, y
  <2> QED BY <1>1, <2>1, <2>4, <2>5
<1>8. f[n] = q
      BY <1>1
<1> HIDE DEF f
<1>9. Total(s) = f[n]
      BY <1>4, <1>5, <1>6, <1>7, TotalIs DEF Sums, Adds
<1> QED BY <1>3, <1>4, <1>8, <1>9 DEF s, d

-----------------------------------------------------------------------------
\* Sums over the rows of a table

\* What one sequence behind another is.
Starts(t, a, n)  == \A i \in 1..n : t[i] = a[i]
Ends(t, b, n, k) == \A i \in 1..k : t[n + i] = b[i]

\* A sequence that starts with one and ends with the other is the two, one behind the other.
LEMMA Behind ==
    ASSUME NEW a \in Seq(Int), NEW b \in Seq(Int), NEW n, NEW k, Len(a) = n, Len(b) = k,
           NEW t \in Seq(Int), Len(t) = n + k, Starts(t, a, n), Ends(t, b, n, k)
    PROVE  t = a \o b
<1>1. /\ a \o b \in Seq(Int) /\ Len(a \o b) = Len(a) + Len(b)
      /\ \A i \in 1..Len(a) + Len(b) :
            (a \o b)[i] = IF i <= Len(a) THEN a[i] ELSE b[i - Len(a)]
      BY ConcatProperties
<1>2. n \in Nat /\ k \in Nat
      BY LenProperties
<1>3. ASSUME NEW i \in 1..n + k PROVE t[i] = (a \o b)[i]
  <2>1. (a \o b)[i] = IF i <= n THEN a[i] ELSE b[i - n]
        BY <1>1
  <2>2. CASE i <= n
    <3>1. i \in 1..n
          BY <1>2, <2>2
    <3> QED BY <2>1, <2>2, <3>1 DEF Starts
  <2>3. CASE ~(i <= n)
    <3>1. i - n \in 1..k /\ n + (i - n) = i
          BY <1>2, <2>3
    <3>2. t[n + (i - n)] = b[i - n]
          BY <3>1 DEF Ends
    <3> QED BY <2>1, <2>3, <3>1, <3>2
  <2> QED BY <2>2, <2>3
<1>4. Len(a \o b) = n + k
      BY <1>1
<1> QED BY <1>1, <1>3, <1>4, SeqEqual

\* A sum is the total of a column.
Column(rows, S, field) == [i \in DOMAIN rows |-> IF i \in S THEN rows[i][field] ELSE 0]

Table(rows, n) == n \in Nat /\ DOMAIN rows = 1..n
Counts(rows, S, field) == \A i \in S : rows[i][field] \in Int
Alike(rows, f, more, g, S) == \A i \in S : more[i][g] = rows[i][f]

\* A column has a number for every row, and the sum over rows is its total.
LEMMA ColumnIs ==
    ASSUME NEW rows, NEW n, Table(rows, n), NEW S, NEW field, Counts(rows, S, field)
    PROVE  /\ Column(rows, S, field) \in Seq(Int) /\ Len(Column(rows, S, field)) = n
           /\ \A i \in 1..n : Column(rows, S, field)[i] = IF i \in S THEN rows[i][field] ELSE 0
           /\ SumOf(rows, S, field) = Total(Column(rows, S, field))
           /\ SumOf(rows, S, field) \in Int /\ Total(Column(rows, S, field)) \in Int
<1> DEFINE c == Column(rows, S, field)
<1>1. c = [i \in 1..n |-> IF i \in S THEN rows[i][field] ELSE 0] /\ n \in Nat
      BY DEF Column, Table
<1>2. SumOf(rows, S, field) = Total(c)
      BY DEF SumOf, Column
<1> HIDE DEF c
<1>3. c \in [1..n -> Int] /\ \A i \in 1..n : c[i] = IF i \in S THEN rows[i][field] ELSE 0
      BY <1>1 DEF Counts
<1>4. c \in Seq(Int) /\ Len(c) = n
      BY <1>1, <1>3, SeqDef, LenProperties
<1>5. Total(c) \in Int
      BY <1>4, TotalSums
<1> QED BY <1>2, <1>3, <1>4, <1>5 DEF c

\* Rows of nothing sum up to nothing,
LEMMA SumOfNothing ==
    ASSUME NEW rows, NEW n, Table(rows, n), NEW S, NEW field,
           \A i \in S : rows[i][field] = 0
    PROVE  SumOf(rows, S, field) = 0
<1>1. [i \in DOMAIN rows |-> IF i \in S THEN rows[i][field] ELSE 0] = [i \in 1..n |-> 0]
      BY DEF Table
<1> QED BY <1>1, TotalZeros DEF SumOf, Table

\* rows that are not counted do not matter, nor what else changed in those that are,
Matches(rows, n, f, more, m, g, S) ==
    /\ Table(rows, n) /\ Table(more, m) /\ n <= m
    /\ S \subseteq 1..n /\ Counts(rows, S, f) /\ Alike(rows, f, more, g, S)

\* The sum over rows that ask for the same is the same.
LEMMA SumOfSame ==
    ASSUME NEW rows, NEW n, NEW f, NEW more, NEW m, NEW g, NEW S,
           Matches(rows, n, f, more, m, g, S)
    PROVE  SumOf(more, S, g) = SumOf(rows, S, f)
<1>   USE DEF Matches
<1> DEFINE s == Column(rows, S, f)
           t == Column(more, S, g)
           z == [i \in 1..(m - n) |-> 0]
<1>1. m - n \in Nat /\ n \in Nat /\ m \in Nat /\ n + (m - n) = m
      BY DEF Table
<1>2. /\ s \in Seq(Int) /\ Len(s) = n /\ SumOf(rows, S, f) = Total(s) /\ Total(s) \in Int
      /\ \A i \in 1..n : s[i] = IF i \in S THEN rows[i][f] ELSE 0
      BY ColumnIs
<1>3. /\ t \in Seq(Int) /\ Len(t) = m /\ SumOf(more, S, g) = Total(t)
      /\ \A i \in 1..m : t[i] = IF i \in S THEN more[i][g] ELSE 0
  <2>1. Counts(more, S, g)
        BY DEF Counts, Alike
  <2> QED BY <2>1, ColumnIs
<1>4. z \in Seq(Int) /\ Len(z) = m - n /\ Total(z) = 0 /\ \A i \in 1..(m - n) : z[i] = 0
  <2>1. z \in [1..(m - n) -> Int]
        OBVIOUS
  <2>2. Total(z) = 0
        BY <1>1, TotalZeros
  <2>3. \A i \in 1..(m - n) : z[i] = 0
        OBVIOUS
  <2> HIDE DEF z
  <2>4. z \in Seq(Int)
        BY <1>1, <2>1, SeqDef
  <2> QED BY <1>1, <2>1, <2>2, <2>3, <2>4, LenProperties
<1> HIDE DEF s, t, z
<1>5. t = s \o z
  <2>1. Starts(t, s, n)
    <3> SUFFICES ASSUME NEW i \in 1..n PROVE t[i] = s[i]
        BY DEF Starts
    <3>1. i \in 1..m
          BY <1>1
    <3> QED BY <1>2, <1>3, <3>1 DEF Alike
  <2>2. Ends(t, z, n, m - n)
    <3> SUFFICES ASSUME NEW i \in 1..(m - n) PROVE t[n + i] = z[i]
        BY DEF Ends
    <3>1. n + i \in 1..m /\ n + i \notin S
          BY <1>1
    <3> QED BY <1>3, <1>4, <3>1
  <2>3. Len(t) = n + (m - n)
        BY <1>1, <1>3
  <2> QED BY <1>2, <1>3, <1>4, <2>1, <2>2, <2>3, Behind
<1>6. Total(t) = Total(s) + 0
      BY <1>2, <1>4, <1>5, TotalConcat
<1> QED BY <1>2, <1>3, <1>6

\* a row more counts if it is among those asked for,
Appends(rows, row, R, field, S) ==
    /\ rows \in Seq(R) /\ row \in R /\ \A r \in R : r[field] \in Int
    /\ S \subseteq 1..Len(rows) + 1

AddsOne(rows, row, field, S) ==
    SumOf(Append(rows, row), S, field)
      = SumOf(rows, S \ {Len(rows) + 1}, field)
          + (IF Len(rows) + 1 \in S THEN row[field] ELSE 0)

\* The sum over a table that grew by a row.
LEMMA SumOfAppend ==
    ASSUME NEW rows, NEW row, NEW R, NEW field, NEW S, Appends(rows, row, R, field, S)
    PROVE  AddsOne(rows, row, field, S)
<1>   USE DEF Appends, AddsOne
<1> DEFINE n == Len(rows)
           more == Append(rows, row)
           rest == S \ {n + 1}
           x == IF n + 1 \in S THEN row[field] ELSE 0
           s == Column(rows, rest, field)
           t == Column(more, S, field)
<1>1. n \in Nat /\ DOMAIN rows = 1..n /\ \A i \in 1..n : rows[i] \in R
      BY LenProperties, ElementOfSeq
<1>2. /\ more \in Seq(R) /\ Len(more) = n + 1
      /\ \A i \in 1..n : more[i] = rows[i]
      /\ more[n + 1] = row
      BY AppendProperties
<1>3. DOMAIN more = 1..n + 1
      BY <1>2, LenProperties
<1> HIDE DEF more
<1>4. Table(rows, n) /\ Table(more, n + 1) /\ x \in Int
      BY <1>1, <1>3 DEF Table
<1>5. Counts(rows, rest, field)
      BY <1>1 DEF Counts
<1>6. Counts(more, S, field)
      BY <1>1, <1>2 DEF Counts
<1> HIDE DEF x
<1>7. /\ s \in Seq(Int) /\ Len(s) = n /\ SumOf(rows, rest, field) = Total(s)
      /\ \A i \in 1..n : s[i] = IF i \in rest THEN rows[i][field] ELSE 0
  <2> HIDE DEF n, rest
  <2> QED BY <1>4, <1>5, ColumnIs
<1>8. /\ t \in Seq(Int) /\ Len(t) = n + 1 /\ SumOf(more, S, field) = Total(t)
      /\ \A i \in 1..n + 1 : t[i] = IF i \in S THEN more[i][field] ELSE 0
  <2> HIDE DEF n
  <2> QED BY <1>4, <1>6, ColumnIs
<1> HIDE DEF s, t
<1>9. t = Append(s, x)
  <2>1. /\ Append(s, x) \in Seq(Int) /\ Len(Append(s, x)) = n + 1
        /\ \A i \in 1..n : Append(s, x)[i] = s[i]
        /\ Append(s, x)[n + 1] = x
        BY <1>4, <1>7, AppendProperties
  <2>2. ASSUME NEW i \in 1..n + 1 PROVE t[i] = Append(s, x)[i]
    <3>1. CASE i \in 1..n
      <4>1. i # n + 1 /\ i \in 1..n + 1
            BY <1>1, <3>1
      <4>2. t[i] = IF i \in S THEN rows[i][field] ELSE 0
            BY <1>2, <1>8, <3>1, <4>1
      <4>3. s[i] = IF i \in S THEN rows[i][field] ELSE 0
            BY <1>7, <3>1, <4>1
      <4>4. t[i] = s[i]
            BY <4>2, <4>3
      <4>5. Append(s, x)[i] = s[i]
            BY <2>1, <3>1
      <4> QED BY <4>4, <4>5
    <3>2. CASE i = n + 1
      <4>1. n + 1 \in 1..n + 1
            BY <1>1
      <4>2. t[n + 1] = x
            BY <1>2, <1>8, <4>1 DEF x
      <4> QED BY <2>1, <3>2, <4>2
    <3>3. i \in 1..n \/ i = n + 1
          BY <1>1
    <3> QED BY <3>1, <3>2, <3>3
  <2> QED BY <1>8, <2>1, <2>2, SeqEqual
<1>10. Total(t) = Total(s) + x
      BY <1>4, <1>7, <1>9, TotalAppend
<1> QED BY <1>7, <1>8, <1>10 DEF x, more

\* and so does the replacement of one row by others that are put behind the table.
Parts(rows, n, more, k, S, j, field, sizes) ==
    /\ Table(rows, n) /\ k \in Nat /\ Table(more, n + k)
    /\ S \subseteq 1..n /\ j \in S /\ sizes \in Seq(Int) /\ Len(sizes) = k
    /\ \A i \in S : rows[i][field] \in Int
    /\ \A i \in S \ {j} : more[i][field] = rows[i][field]
    /\ \A i \in 1..k : more[n + i][field] = sizes[i]

Parted(rows, n, more, k, S, j, field, sizes) ==
    SumOf(more, (S \ {j}) \cup (n + 1)..(n + k), field)
      = SumOf(rows, S, field) - rows[j][field] + Total(sizes)

\* The sum after a row was replaced by others behind the table.
LEMMA SumOfParts ==
    ASSUME NEW rows, NEW n, NEW more, NEW k, NEW S, NEW j, NEW field, NEW sizes,
           Parts(rows, n, more, k, S, j, field, sizes)
    PROVE  Parted(rows, n, more, k, S, j, field, sizes)
<1>   USE DEF Parts, Parted
<1> DEFINE rest == S \ {j}
           all  == rest \cup (n + 1)..(n + k)
           s == Column(rows, S, field)
           u == Column(rows, rest, field)
           t == Column(more, all, field)
<1>1. n \in Nat /\ n + k \in Nat /\ \A i \in 1..k : sizes[i] \in Int
      BY Numbers DEF Table
<1>2. /\ s \in Seq(Int) /\ Len(s) = n /\ SumOf(rows, S, field) = Total(s) /\ Total(s) \in Int
      /\ \A i \in 1..n : s[i] = IF i \in S THEN rows[i][field] ELSE 0
  <2>1. Counts(rows, S, field)
        BY DEF Counts
  <2> QED BY <2>1, ColumnIs
<1>3. /\ u \in Seq(Int) /\ Len(u) = n
      /\ \A i \in 1..n : u[i] = IF i \in rest THEN rows[i][field] ELSE 0
  <2>1. Counts(rows, rest, field)
        BY DEF Counts
  <2> HIDE DEF rest
  <2> QED BY <2>1, ColumnIs
<1>4. Counts(more, all, field)
  <2> SUFFICES ASSUME NEW i \in all PROVE more[i][field] \in Int
      BY DEF Counts
  <2>1. CASE i \in rest
        BY <2>1
  <2>2. CASE i \in (n + 1)..(n + k)
    <3>1. i - n \in 1..k /\ n + (i - n) = i
          BY <1>1, <2>2
    <3> QED BY <1>1, <3>1
  <2> QED BY <2>1, <2>2
<1>5. /\ t \in Seq(Int) /\ Len(t) = n + k /\ SumOf(more, all, field) = Total(t)
      /\ \A i \in 1..n + k : t[i] = IF i \in all THEN more[i][field] ELSE 0
  <2> HIDE DEF all
  <2> QED BY <1>4, ColumnIs
<1> HIDE DEF s, t, u
<1>6. t = u \o sizes
  <2>1. Starts(t, u, n)
    <3> SUFFICES ASSUME NEW i \in 1..n PROVE t[i] = u[i]
        BY DEF Starts
    <3>1. i \in 1..n + k /\ i \notin (n + 1)..(n + k)
          BY <1>1
    <3> QED BY <1>3, <1>5, <3>1
  <2>2. Ends(t, sizes, n, k)
    <3> SUFFICES ASSUME NEW i \in 1..k PROVE t[n + i] = sizes[i]
        BY DEF Ends
    <3>1. n + i \in 1..n + k /\ n + i \in (n + 1)..(n + k)
          BY <1>1
    <3> QED BY <1>5, <3>1
  <2> QED BY <1>3, <1>5, <2>1, <2>2, Behind
<1>7. Total(t) = Total(u) + Total(sizes)
      BY <1>3, <1>6, TotalConcat
<1>8. Total(u) = Total(s) - s[j] + u[j] /\ s[j] = rows[j][field] /\ u[j] = 0
  <2>1. j \in 1..n /\ j \notin rest /\ j \in 1..Len(s)
        BY <1>2
  <2>2. \A i \in 1..Len(s) : i # j => u[i] = s[i]
        BY <1>2, <1>3
  <2>3. Total(u) = Total(s) - s[j] + u[j]
    <3>1. u \in Seq(Int) /\ Len(u) = Len(s)
          BY <1>2, <1>3
    <3> QED BY <1>2, <2>1, <2>2, <3>1, TotalReplace
  <2> QED BY <1>2, <1>3, <2>1, <2>3
<1>9. rows[j][field] \in Int
      OBVIOUS
<1>10. Total(sizes) \in Int
      BY TotalSums
<1> QED BY <1>2, <1>5, <1>7, <1>8, <1>9, <1>10

-----------------------------------------------------------------------------
\* The inductive invariant

\* Every line a trader may paste, every order of the demo's books, and what an order has from
\* its line.
Lined        == UNION {{ParseLine(p[i]) : i \in DOMAIN p} : p \in Pastes}
Seeded       == UNION {{book.orders[i] : i \in DOMAIN book.orders} : book \in SeedBooks}
Given(field) == {line[field] : line \in Lined \cup Seeded}

AnyOrder ==
    [basket : Nat, parent : Nat, side : Given("side"), qty : Int, type : Given("type"),
     limit : Given("limit") \cup NewPrices, tif : Given("tif") \cup NewTifs,
     venue : Venues \cup {None}, status : Live \cup Terminal \cup {"SPLIT"},
     filled : Int, leaves : Int]

Execution == [order : Nat, qty : Int]
Done      == Terminal \cup {"SPLIT"}

CoreTypes ==
    /\ orders \in Seq(AnyOrder)
    /\ shown \in Seq(AnyOrder) /\ Len(shown) = Len(orders)
    /\ baskets \in Seq({"STAGED", "WORKING", "DONE", "CANCELLED"})
    /\ executions \in Seq(Execution)
    /\ halfModified \subseteq DOMAIN orders
    /\ \A i \in DOMAIN orders : orders[i].basket \in DOMAIN baskets
    /\ \A k \in DOMAIN executions : executions[k].order \in DOMAIN orders

\* What a published row says of itself.
RowSound(row) ==
    /\ row.status = "NEW" => row.filled = 0 /\ row.leaves = row.qty
    /\ row.status \notin Live => row.leaves = 0

\* An order whose quantities add up.
Fits(order) ==
    /\ order.qty > 0 /\ order.filled <= order.qty
    /\ order.leaves = IF order.status \in Live THEN order.qty - order.filled ELSE 0
    /\ (order.status = "FILLED") <=> (order.filled = order.qty)

OrdersFit ==
    \A i \in DOMAIN orders :
        /\ orders[i].status = "NEW" => orders[i].filled = 0
        /\ i \notin halfModified => Fits(orders[i]) /\ orders[i].filled = ExecutedQty(i)

\* A row follows its order, also one that a refused modify() left behind.
Follows(row, order) ==
    row.basket = order.basket /\ row.status = order.status /\ row.filled = order.filled

RowsFollow ==
    \A i \in DOMAIN orders :
        /\ Follows(shown[i], orders[i]) /\ RowSound(shown[i])
        /\ i \notin halfModified => shown[i] = orders[i]

BasketsFollow ==
    \A b \in DOMAIN baskets : Leaf(orders, b) # {} /\ baskets[b] = Rollup(orders, b)

CoreSound == CoreTypes /\ OrdersFit /\ RowsFollow /\ BasketsFollow

VenueTypes ==
    /\ doing \in [Steppers -> {"idle", "round", "priced", "tried", "gone"}]
    /\ todo \in [Steppers -> SUBSET DOMAIN orders]
    /\ hand \in [Steppers -> [ioc : BOOLEAN, fills : BOOLEAN, qty : Int]]
    /\ iocTried \subseteq DOMAIN orders
    /\ overlapped \in BOOLEAN

\* A snapshot holds orders that were at the venue; one that is at work is past its answer.
Worked == {"WORKING", "PARTIAL"} \cup Terminal

SnapshotsSound ==
    \A v \in Steppers :
        /\ \A i \in todo[v] : orders[i].status \in Routed \cup Terminal
        /\ doing[v] \in {"priced", "tried"} => todo[v] # {} /\ Current(v).status \in Worked

RoundsApart ==
    ~overlapped => \A v, w \in Steppers : InRound(v) /\ InRound(w) => v = w

VenueSound == VenueTypes /\ SnapshotsSound /\ RoundsApart /\ OneShot

BasketSound == CoreSound /\ VenueSound

-----------------------------------------------------------------------------
\* What becomes of one order

\* The orders, by position.
LEMMA OrderRows ==
    ASSUME NEW os \in Seq(AnyOrder)
    PROVE  /\ Len(os) \in Nat /\ DOMAIN os = 1..Len(os) /\ Table(os, Len(os))
           /\ \A i \in DOMAIN os : os[i] \in AnyOrder
BY LenProperties, ElementOfSeq DEF Table

\* What a call of the core may make of an order, and what it keeps unless it is a fill.
Becomes(o, n) ==
    /\ n \in AnyOrder /\ n.basket = o.basket /\ RowSound(n)
    /\ o.status \in Live /\ n.status # "SPLIT"
    /\ o.status \in Routed => n.status \in Routed \cup Terminal
    /\ o.status \in Worked => n.status \in Worked

Kept(o, n) == n.filled = o.filled /\ (Fits(o) => Fits(n))

\* A new order that is routed becomes a sound one,
LEMMA RoutedBecomes ==
    ASSUME NEW o \in AnyOrder, NEW x \in Venues, o.status = "NEW", o.filled = 0
    PROVE  Becomes(o, RoutedTo(o, x)) /\ Kept(o, RoutedTo(o, x))
<1> DEFINE n == RoutedTo(o, x)
<1>1. /\ n \in AnyOrder /\ n.status = "ROUTED" /\ n.basket = o.basket
      /\ n.qty = o.qty /\ n.filled = o.filled /\ n.leaves = o.leaves
      BY DEF AnyOrder, RoutedTo, Live
<1> HIDE DEF n
<1>2. Becomes(o, n)
      BY <1>1 DEF Becomes, RowSound, Live, Routed, Terminal, Worked
<1>3. Kept(o, n)
      BY <1>1 DEF Kept, Fits, Live
<1> QED BY <1>2, <1>3 DEF n

\* a live order that is cancelled,
LEMMA CancelledBecomes ==
    ASSUME NEW o \in AnyOrder, o.status \in Live
    PROVE  Becomes(o, Cancelled(o)) /\ Kept(o, Cancelled(o))
<1> DEFINE n == Cancelled(o)
<1>1. /\ n \in AnyOrder /\ n.status = "CANCELLED" /\ n.basket = o.basket
      /\ n.qty = o.qty /\ n.filled = o.filled /\ n.leaves = 0
  <2> DEFINE st   == "CANCELLED"
             none == 0
  <2>1. st \in Live \cup Terminal \cup {"SPLIT"} /\ none \in Int
        BY DEF Terminal
  <2>2. n = [o EXCEPT !.status = st, !.leaves = none]
        BY DEF Cancelled
  <2>3. /\ n \in AnyOrder /\ n.status = st /\ n.basket = o.basket
        /\ n.qty = o.qty /\ n.filled = o.filled /\ n.leaves = none
    <3> HIDE DEF n, st, none
    <3> QED BY <2>1, <2>2 DEF AnyOrder
  <2> QED BY <2>3
<1> HIDE DEF n
<1>2. Becomes(o, n)
      BY <1>1 DEF Becomes, RowSound, Live, Routed, Terminal, Worked
<1>3. Kept(o, n)
      BY <1>1 DEF Kept, Fits, Live
<1> QED BY <1>2, <1>3 DEF n

\* one that the venue takes to work,
LEMMA AckedBecomes ==
    ASSUME NEW o \in AnyOrder, o.status = "ROUTED"
    PROVE  LET n == [o EXCEPT !.status = "WORKING"] IN Becomes(o, n) /\ Kept(o, n)
<1> DEFINE n == [o EXCEPT !.status = "WORKING"]
<1>1. /\ n \in AnyOrder /\ n.status = "WORKING" /\ n.basket = o.basket
      /\ n.qty = o.qty /\ n.filled = o.filled /\ n.leaves = o.leaves
      BY DEF AnyOrder, Live
<1> HIDE DEF n
<1>2. Becomes(o, n)
      BY <1>1 DEF Becomes, RowSound, Live, Routed, Terminal, Worked
<1>3. Kept(o, n)
      BY <1>1 DEF Kept, Fits, Live
<1> QED BY <1>2, <1>3 DEF n

\* and one that it rejects.
LEMMA RejectedBecomes ==
    ASSUME NEW o \in AnyOrder, o.status \in Routed
    PROVE  LET n == [o EXCEPT !.status = "REJECTED", !.leaves = 0]
           IN  Becomes(o, n) /\ Kept(o, n)
<1> DEFINE n == [o EXCEPT !.status = "REJECTED", !.leaves = 0]
<1>1. /\ n \in AnyOrder /\ n.status = "REJECTED" /\ n.basket = o.basket
      /\ n.qty = o.qty /\ n.filled = o.filled /\ n.leaves = 0
  <2> DEFINE st   == "REJECTED"
             none == 0
  <2>1. st \in Live \cup Terminal \cup {"SPLIT"} /\ none \in Int
        BY DEF Terminal
  <2>2. n = [o EXCEPT !.status = st, !.leaves = none]
        OBVIOUS
  <2>3. /\ n \in AnyOrder /\ n.status = st /\ n.basket = o.basket
        /\ n.qty = o.qty /\ n.filled = o.filled /\ n.leaves = none
    <3> HIDE DEF n, st, none
    <3> QED BY <2>1, <2>2 DEF AnyOrder
  <2> QED BY <2>3
<1> HIDE DEF n
<1>2. Becomes(o, n)
      BY <1>1 DEF Becomes, RowSound, Live, Routed, Terminal, Worked
<1>3. Kept(o, n)
      BY <1>1 DEF Kept, Fits, Live, Routed
<1> QED BY <1>2, <1>3 DEF n

\* A fill adds what was cut down to what is left.
LEMMA FilledBecomes ==
    ASSUME NEW o \in AnyOrder, o.status \in {"WORKING", "PARTIAL"}, NEW q \in Int, q > 0
    PROVE  /\ Becomes(o, Filled(o, q)) /\ Filled(o, q).filled = o.filled + q
           /\ Fits(o) /\ q <= o.leaves => Fits(Filled(o, q))
<1> DEFINE n == Filled(o, q)
           left == o.qty - (o.filled + q)
<1>1. left \in Int /\ o.filled + q \in Int
      BY DEF AnyOrder
<1>2. /\ n \in AnyOrder /\ n.basket = o.basket /\ n.qty = o.qty
      /\ n.filled = o.filled + q /\ n.leaves = left
      /\ n.status = IF left = 0 THEN "FILLED" ELSE "PARTIAL"
  <2>1. n = [o EXCEPT !.filled = o.filled + q, !.leaves = left,
                      !.status = IF left = 0 THEN "FILLED" ELSE "PARTIAL"]
        BY DEF Filled, AnyOrder
  <2> HIDE DEF n, left
  <2>2. (IF left = 0 THEN "FILLED" ELSE "PARTIAL") \in Live \cup Terminal \cup {"SPLIT"}
        BY DEF Live, Terminal
  <2> QED BY <1>1, <2>1, <2>2 DEF AnyOrder
<1>3. o.qty \in Int /\ o.filled \in Int
      BY DEF AnyOrder
<1> HIDE DEF n
<1>4. Becomes(o, n)
  <2>1. CASE left = 0
        BY <1>2, <2>1 DEF Becomes, RowSound, Live, Routed, Terminal, Worked
  <2>2. CASE left # 0
        BY <1>2, <2>2 DEF Becomes, RowSound, Live, Routed, Terminal, Worked
  <2> QED BY <2>1, <2>2
<1>5. ASSUME Fits(o), q <= o.leaves PROVE Fits(n)
  <2>1. q <= o.qty - o.filled /\ o.qty > 0
        BY <1>5 DEF Fits, Live
  <2>2. CASE left = 0
        BY <1>2, <1>3, <2>1, <2>2 DEF Fits, Live
  <2>3. CASE left # 0
        BY <1>2, <1>3, <2>1, <2>3 DEF Fits, Live
  <2> QED BY <2>2, <2>3
<1> QED BY <1>2, <1>4, <1>5 DEF n

\* A new order is what its line asks for.
LEMMA NewOrderIs ==
    ASSUME NEW b \in Nat, NEW p \in Nat, NEW line, line.qty \in Int,
           line.side \in Given("side"), line.type \in Given("type"),
           line.limit \in Given("limit") \cup NewPrices, line.tif \in Given("tif") \cup NewTifs
    PROVE  LET n == NewOrder(b, p, line) IN
           /\ n \in AnyOrder /\ n.basket = b /\ n.parent = p /\ n.status = "NEW"
           /\ n.qty = line.qty /\ n.filled = 0 /\ RowSound(n) /\ (line.qty > 0 => Fits(n))
<1> DEFINE n == NewOrder(b, p, line)
<1>1. /\ n \in AnyOrder /\ n.status = "NEW" /\ n.basket = b /\ n.parent = p
      /\ n.qty = line.qty /\ n.filled = 0 /\ n.leaves = line.qty
      BY DEF NewOrder, AnyOrder, Live
<1> HIDE DEF n
<1>2. RowSound(n)
      BY <1>1 DEF RowSound, Live
<1>3. line.qty > 0 => Fits(n)
      BY <1>1 DEF Fits, Live
<1> QED BY <1>1, <1>2, <1>3 DEF n

\* modify(): what it accepts keeps an order sound; what it has written when it refuses
\* leaves the status and what was filled as they were.
LEMMA ModifiedBecomes ==
    ASSUME NEW o \in AnyOrder, o.status \in Live, o.status = "NEW" => o.filled = 0,
           NEW qty \in Int \cup {None}, NEW px \in Given("limit") \cup NewPrices \cup {None},
           NEW tif \in Given("tif") \cup NewTifs \cup {None}
    PROVE  LET m == Modified(o, qty, px, tif) IN
           IF m.ok THEN Becomes(o, m.order) /\ Kept(o, m.order)
           ELSE /\ m.order \in AnyOrder /\ m.order.basket = o.basket
                /\ m.order.status = o.status /\ m.order.filled = o.filled
<1> DEFINE qtyOk == qty = None \/ (qty > 0 /\ qty >= o.filled)
           pxOk  == px = None \/ (o.type = "LMT" /\ px > 0)
           tifOk == tif = None \/ tif \in Tifs
           a == IF qty # None /\ qtyOk THEN [o EXCEPT !.qty = qty] ELSE o
           b == IF px # None /\ qtyOk /\ pxOk THEN [a EXCEPT !.limit = px] ELSE a
           c == IF tif # None /\ qtyOk /\ pxOk /\ tifOk THEN [b EXCEPT !.tif = tif] ELSE b
           d == [c EXCEPT !.leaves = c.qty - c.filled,
                          !.status = IF c.qty = c.filled THEN "FILLED" ELSE @]
           m == Modified(o, qty, px, tif)
<1>1. m = IF qtyOk /\ pxOk /\ tifOk /\ c # o THEN [order |-> d, ok |-> TRUE]
          ELSE [order |-> c, ok |-> FALSE]
      BY DEF Modified
<1> HIDE DEF m
<1>2. /\ a \in AnyOrder /\ a.basket = o.basket /\ a.status = o.status /\ a.filled = o.filled
      /\ a.qty = o.qty \/ (a.qty > 0 /\ a.qty >= o.filled)
      BY DEF AnyOrder
<1>3. /\ b \in AnyOrder /\ b.basket = o.basket /\ b.status = o.status /\ b.filled = o.filled
      /\ b.qty = a.qty
  <2> HIDE DEF a, qtyOk, pxOk
  <2> QED BY <1>2 DEF AnyOrder
<1>4. /\ c \in AnyOrder /\ c.basket = o.basket /\ c.status = o.status /\ c.filled = o.filled
      /\ c.qty = a.qty
  <2> HIDE DEF a, b, qtyOk, pxOk, tifOk
  <2> QED BY <1>3 DEF AnyOrder
<1> HIDE DEF a, b, c, qtyOk, pxOk, tifOk
<1>5. /\ d \in AnyOrder /\ d.basket = o.basket /\ d.filled = o.filled /\ d.qty = a.qty
      /\ d.leaves = a.qty - o.filled
      /\ d.status = IF a.qty = o.filled THEN "FILLED" ELSE o.status
  <2> DEFINE left == c.qty - c.filled
             now  == IF c.qty = c.filled THEN "FILLED" ELSE c.status
  <2>1. left \in Int /\ now \in Live \cup Terminal \cup {"SPLIT"}
        BY <1>4 DEF AnyOrder, Live, Terminal
  <2>2. d = [c EXCEPT !.leaves = left, !.status = now]
        BY <1>4 DEF AnyOrder
  <2>3. left = a.qty - o.filled /\ now = IF a.qty = o.filled THEN "FILLED" ELSE o.status
        BY <1>4
  <2> HIDE DEF left, now, d
  <2>4. d \in AnyOrder /\ d.basket = c.basket /\ d.filled = c.filled /\ d.qty = c.qty
        /\ d.leaves = left /\ d.status = now
        BY <1>4, <2>1, <2>2 DEF AnyOrder
  <2> QED BY <1>4, <2>3, <2>4
<1> HIDE DEF d
<1>6. a.qty \in Int /\ o.filled \in Int /\ o.qty \in Int
      BY <1>2 DEF AnyOrder
<1>7. Becomes(o, d)
  <2>1. CASE a.qty = o.filled
        BY <1>5, <1>6, <2>1 DEF Becomes, RowSound, Live, Routed, Terminal, Worked
  <2>2. CASE a.qty # o.filled
        BY <1>5, <1>6, <2>2 DEF Becomes, RowSound, Live, Routed, Terminal, Worked
  <2> QED BY <2>1, <2>2
<1>8. ASSUME Fits(o) PROVE Fits(d)
  <2>1. a.qty > 0 /\ o.filled <= a.qty
        BY <1>2, <1>6, <1>8 DEF Fits
  <2>2. CASE a.qty = o.filled
        BY <1>5, <1>6, <2>1, <2>2 DEF Fits, Live
  <2>3. CASE a.qty # o.filled
        BY <1>5, <1>6, <2>1, <2>3 DEF Fits, Live
  <2> QED BY <2>2, <2>3
<1>9. CASE m.ok
  <2>1. m.order = d
        BY <1>1, <1>9
  <2> QED BY <1>5, <1>7, <1>8, <1>9, <2>1 DEF Kept, m
<1>10. CASE ~m.ok
  <2>1. m.order = c
        BY <1>1, <1>10
  <2> QED BY <1>4, <1>10, <2>1 DEF m
<1> QED BY <1>9, <1>10

-----------------------------------------------------------------------------
\* A published change

\* What is left of a basket's leaves and of what they filled decides its rollup.
LEMMA RollupSame ==
    ASSUME NEW os \in Seq(AnyOrder), NEW more \in Seq(AnyOrder), Len(os) <= Len(more), NEW c,
           Leaf(more, c) = Leaf(os, c),
           \A i \in Leaf(os, c) : more[i].status = os[i].status /\ more[i].filled = os[i].filled
    PROVE  Rollup(more, c) = Rollup(os, c)
<1> DEFINE S == Leaf(os, c)
<1>1. S \subseteq DOMAIN os
      BY DEF Leaf, InBasket
<1>2. /\ Table(os, Len(os)) /\ Table(more, Len(more)) /\ DOMAIN os = 1..Len(os)
      /\ \A i \in DOMAIN os : os[i] \in AnyOrder
      BY OrderRows
<1>3. \A i \in S : os[i]["filled"] \in Int /\ more[i]["filled"] = os[i]["filled"]
      BY <1>1, <1>2 DEF AnyOrder
<1>4. S \subseteq 1..Len(os)
      BY <1>1, <1>2
<1>5. SumOf(more, S, "filled") = SumOf(os, S, "filled")
  <2> DEFINE f == "filled"
  <2> HIDE DEF S, f
  <2>1. Counts(os, S, f) /\ Alike(os, f, more, f, S)
        BY <1>3 DEF f, Counts, Alike
  <2> DEFINE n == Len(os)
             m == Len(more)
  <2>2. Matches(os, n, f, more, m, f, S)
        BY <1>2, <1>4, <2>1 DEF Matches
  <2> HIDE DEF n, m
  <2>3. SumOf(more, S, f) = SumOf(os, S, f)
        BY <2>2, SumOfSame
  <2> QED BY <2>3 DEF f
<1>6. (\A i \in S : more[i].status = "NEW") <=> (\A i \in S : os[i].status = "NEW")
      OBVIOUS
<1>7. (\A i \in S : more[i].status \in Terminal) <=> (\A i \in S : os[i].status \in Terminal)
      OBVIOUS
<1> QED BY <1>5, <1>6, <1>7 DEF Rollup

RollupStatus == {"STAGED", "WORKING", "DONE", "CANCELLED"}

\* A rollup is one of the four statuses.
LEMMA RollupIs ==
    ASSUME NEW os, NEW b
    PROVE  Rollup(os, b) \in RollupStatus
BY DEF Rollup, RollupStatus

\* The baskets after the status r was written to one of them, or to a new one.
Writes(bs, b, r, after) ==
    /\ bs \in Seq(RollupStatus) /\ r \in RollupStatus
    /\ b \in DOMAIN bs \/ b = Len(bs) + 1
    /\ after = IF b \in DOMAIN bs THEN [bs EXCEPT ![b] = r] ELSE Append(bs, r)

Written(bs, b, r, after) ==
    /\ after \in Seq(RollupStatus) /\ DOMAIN after = DOMAIN bs \cup {b}
    /\ after[b] = r /\ \A c \in DOMAIN bs \ {b} : after[c] = bs[c]

\* What is written is there, and nothing else has changed.
LEMMA WritesIs ==
    ASSUME NEW bs, NEW b, NEW r, NEW after, Writes(bs, b, r, after)
    PROVE  Written(bs, b, r, after)
<1>   USE DEF Written
<1>1. bs \in Seq(RollupStatus) /\ r \in RollupStatus
      BY DEF Writes
<1>2. Len(bs) \in Nat /\ DOMAIN bs = 1..Len(bs)
      BY <1>1, LenProperties
<1>3. CASE b \in DOMAIN bs
  <2>1. after = [bs EXCEPT ![b] = r]
        BY <1>3 DEF Writes
  <2>2. [bs EXCEPT ![b] = r] \in Seq(RollupStatus)
        BY <1>1, <1>2, <1>3, ExceptSeq
  <2> QED BY <1>3, <2>1, <2>2
<1>4. CASE b \notin DOMAIN bs
  <2>1. after = Append(bs, r) /\ b = Len(bs) + 1
        BY <1>4 DEF Writes
  <2>2. /\ Append(bs, r) \in Seq(RollupStatus) /\ Len(Append(bs, r)) = Len(bs) + 1
        /\ \A c \in 1..Len(bs) : Append(bs, r)[c] = bs[c]
        /\ Append(bs, r)[Len(bs) + 1] = r
        BY <1>1, AppendProperties
  <2>3. DOMAIN Append(bs, r) = 1..(Len(bs) + 1)
        BY <2>2, LenProperties
  <2>4. 1..(Len(bs) + 1) = (1..Len(bs)) \cup {Len(bs) + 1}
        BY <1>2
  <2> QED BY <1>2, <2>1, <2>2, <2>3, <2>4
<1> QED BY <1>3, <1>4

\* Orders of a basket were written, or new ones came to it; all are published.
Changed(ids, b) ==
    /\ orders' \in Seq(AnyOrder) /\ Len(orders) <= Len(orders')
    /\ Publish(orders', ids, b)
    /\ b \in DOMAIN baskets \/ b = Len(baskets) + 1
    /\ ids \subseteq DOMAIN orders'
    /\ \A i \in DOMAIN orders' \ ids : i \in DOMAIN orders /\ orders'[i] = orders[i]
    /\ \A i \in ids : /\ orders'[i].basket = b /\ RowSound(orders'[i])
                      /\ i \in DOMAIN orders => orders[i].basket = b
    /\ \/ ids = {} /\ b \in DOMAIN baskets
       \/ \E i \in ids : orders'[i].status # "SPLIT"
    /\ halfModified' = halfModified

\* The tables follow every such change.
LEMMA ChangedRows ==
    ASSUME CoreTypes, RowsFollow, NEW ids, NEW b, Changed(ids, b)
    PROVE  RowsFollow' /\ (shown \in Seq(AnyOrder) /\ Len(shown) = Len(orders))'
<1>1. /\ orders' \in Seq(AnyOrder) /\ Len(orders) <= Len(orders')
      /\ ids \subseteq DOMAIN orders'
      /\ \A i \in DOMAIN orders' \ ids : i \in DOMAIN orders /\ orders'[i] = orders[i]
      /\ \A i \in ids : RowSound(orders'[i])
      /\ halfModified' = halfModified
      BY DEF Changed
<1>2. shown' = [i \in DOMAIN orders' |-> IF i \in ids THEN orders'[i] ELSE shown[i]]
      BY DEF Changed, Publish, Shown
<1>3. /\ Len(orders') \in Nat /\ DOMAIN orders' = 1..Len(orders')
      /\ \A i \in DOMAIN orders' : orders'[i] \in AnyOrder
      BY <1>1, OrderRows
<1>4. /\ DOMAIN shown = DOMAIN orders /\ \A i \in DOMAIN shown : shown[i] \in AnyOrder
      BY OrderRows DEF CoreTypes
<1>5. \A i \in DOMAIN orders' : shown'[i] = IF i \in ids THEN orders'[i] ELSE shown[i]
      BY <1>2
<1>6. shown' \in Seq(AnyOrder) /\ Len(shown') = Len(orders')
  <2>1. \A i \in DOMAIN orders' :
            (IF i \in ids THEN orders'[i] ELSE shown[i]) \in AnyOrder
        BY <1>1, <1>3, <1>4
  <2>2. shown' \in [1..Len(orders') -> AnyOrder]
        BY <1>2, <1>3, <2>1
  <2>3. shown' \in Seq(AnyOrder)
        BY <1>3, <2>2, SeqDef
  <2> QED BY <1>3, <2>2, <2>3, LenProperties
<1>7. ASSUME NEW i \in DOMAIN orders'
      PROVE  /\ Follows(shown'[i], orders'[i]) /\ RowSound(shown'[i])
             /\ i \notin halfModified' => shown'[i] = orders'[i]
  <2>1. CASE i \in ids
    <3>1. shown'[i] = orders'[i]
          BY <1>5, <2>1
    <3> QED BY <1>1, <2>1, <3>1 DEF Follows
  <2>2. CASE i \notin ids
    <3>1. i \in DOMAIN orders /\ orders'[i] = orders[i] /\ shown'[i] = shown[i]
          BY <1>1, <1>5, <2>2
    <3>2. /\ Follows(shown[i], orders[i]) /\ RowSound(shown[i])
          /\ i \notin halfModified => shown[i] = orders[i]
          BY <3>1 DEF RowsFollow
    <3> QED BY <1>1, <3>1, <3>2
  <2> QED BY <2>1, <2>2
<1> QED BY <1>6, <1>7 DEF RowsFollow

\* and so do the baskets.
LEMMA ChangedBaskets ==
    ASSUME CoreTypes, BasketsFollow, NEW ids, NEW b, Changed(ids, b)
    PROVE  /\ BasketsFollow' /\ (baskets \in Seq(RollupStatus))'
           /\ DOMAIN baskets \subseteq DOMAIN baskets'
           /\ \A i \in DOMAIN orders' : orders'[i].basket \in DOMAIN baskets'
<1>1. /\ orders' \in Seq(AnyOrder) /\ Len(orders) <= Len(orders')
      /\ b \in DOMAIN baskets \/ b = Len(baskets) + 1
      /\ ids \subseteq DOMAIN orders'
      /\ \A i \in DOMAIN orders' \ ids : i \in DOMAIN orders /\ orders'[i] = orders[i]
      /\ \A i \in ids : orders'[i].basket = b /\ (i \in DOMAIN orders => orders[i].basket = b)
      /\ (ids = {} /\ b \in DOMAIN baskets) \/ (\E i \in ids : orders'[i].status # "SPLIT")
      /\ baskets' = Touched(orders', b)
      BY DEF Changed, Publish
<1>2. /\ orders \in Seq(AnyOrder) /\ baskets \in Seq(RollupStatus)
      /\ \A i \in DOMAIN orders : orders[i].basket \in DOMAIN baskets
      BY DEF CoreTypes, RollupStatus
<1>3. /\ baskets' \in Seq(RollupStatus) /\ DOMAIN baskets' = DOMAIN baskets \cup {b}
      /\ baskets'[b] = Rollup(orders', b)
      /\ \A c \in DOMAIN baskets \ {b} : baskets'[c] = baskets[c]
  <2> DEFINE r == Rollup(orders', b)
  <2>1. r \in RollupStatus
        BY RollupIs
  <2>2. Writes(baskets, b, r, baskets')
        BY <1>1, <1>2, <2>1 DEF Writes, Touched
  <2> HIDE DEF r
  <2>3. Written(baskets, b, r, baskets')
        BY <2>2, WritesIs
  <2> QED BY <2>3 DEF r, Written
<1>4. DOMAIN orders \subseteq DOMAIN orders'
  <2>1. DOMAIN orders = 1..Len(orders) /\ Len(orders) \in Nat
        BY <1>2, OrderRows
  <2>2. DOMAIN orders' = 1..Len(orders') /\ Len(orders') \in Nat
        BY <1>1, OrderRows
  <2> QED BY <1>1, <2>1, <2>2
<1>5. ASSUME NEW c \in DOMAIN baskets, c # b
      PROVE  Leaf(orders', c) # {} /\ baskets'[c] = Rollup(orders', c)
  <2>1. ASSUME NEW i \in Leaf(orders', c) PROVE i \in Leaf(orders, c) /\ orders'[i] = orders[i]
    <3>1. i \in DOMAIN orders' /\ orders'[i].basket = c /\ orders'[i].status # "SPLIT"
          BY DEF Leaf, InBasket
    <3>2. i \notin ids
          BY <1>1, <1>5, <3>1
    <3>3. i \in DOMAIN orders /\ orders'[i] = orders[i]
          BY <1>1, <3>1, <3>2
    <3> QED BY <3>1, <3>3 DEF Leaf, InBasket
  <2>2. ASSUME NEW i \in Leaf(orders, c) PROVE i \in Leaf(orders', c) /\ orders'[i] = orders[i]
    <3>1. i \in DOMAIN orders /\ orders[i].basket = c /\ orders[i].status # "SPLIT"
          BY DEF Leaf, InBasket
    <3>2. i \notin ids
          BY <1>1, <1>5, <3>1
    <3>3. i \in DOMAIN orders' /\ orders'[i] = orders[i]
          BY <1>1, <1>4, <3>1, <3>2
    <3> QED BY <3>1, <3>3 DEF Leaf, InBasket
  <2>3. Leaf(orders', c) = Leaf(orders, c)
        BY <2>1, <2>2
  <2>4. \A i \in Leaf(orders, c) : /\ orders'[i].status = orders[i].status
                                   /\ orders'[i].filled = orders[i].filled
        BY <2>2
  <2>5. Rollup(orders', c) = Rollup(orders, c)
        BY <1>1, <1>2, <2>3, <2>4, RollupSame
  <2> QED BY <1>3, <1>5, <2>3, <2>5 DEF BasketsFollow
<1>6. Leaf(orders', b) # {}
  <2>1. CASE ids = {} /\ b \in DOMAIN baskets
    <3>1. PICK i \in Leaf(orders, b) : TRUE
          BY <2>1 DEF BasketsFollow
    <3>2. i \in DOMAIN orders' /\ orders'[i] = orders[i]
          BY <1>1, <1>4, <2>1 DEF Leaf, InBasket
    <3>3. i \in Leaf(orders', b)
          BY <3>2 DEF Leaf, InBasket
    <3> QED BY <3>3
  <2>2. CASE \E i \in ids : orders'[i].status # "SPLIT"
    <3>1. PICK i \in ids : orders'[i].status # "SPLIT"
          BY <2>2
    <3>2. i \in Leaf(orders', b)
          BY <1>1, <3>1 DEF Leaf, InBasket
    <3> QED BY <3>2
  <2> QED BY <1>1, <2>1, <2>2
<1>7. BasketsFollow'
  <2>1. \A c \in DOMAIN baskets' : Leaf(orders', c) # {} /\ baskets'[c] = Rollup(orders', c)
        BY <1>3, <1>5, <1>6
  <2> QED BY <2>1 DEF BasketsFollow
<1>8. ASSUME NEW i \in DOMAIN orders' PROVE orders'[i].basket \in DOMAIN baskets'
  <2>1. CASE i \in ids
        BY <1>1, <1>3, <2>1
  <2>2. CASE i \notin ids
        BY <1>1, <1>2, <1>3, <2>2
  <2> QED BY <2>1, <2>2
<1> QED BY <1>3, <1>7, <1>8

\* The core stays sound when what it books does.
Booking == /\ executions \in Seq(Execution)
           /\ \A k \in DOMAIN executions : executions[k].order \in DOMAIN orders

\* A longer table has the positions of the shorter one.
LEMMA MoreOrders ==
    ASSUME NEW os \in Seq(AnyOrder), NEW more \in Seq(AnyOrder), Len(os) <= Len(more)
    PROVE  DOMAIN os \subseteq DOMAIN more
<1>1. DOMAIN os = 1..Len(os) /\ Len(os) \in Nat
      BY OrderRows
<1>2. DOMAIN more = 1..Len(more) /\ Len(more) \in Nat
      BY OrderRows
<1> QED BY <1>1, <1>2

\* A published change keeps the core sound, if the quantities still add up.
LEMMA ChangedSound ==
    ASSUME CoreSound, NEW ids, NEW b, Changed(ids, b), Booking', OrdersFit'
    PROVE  CoreSound'
<1>1. CoreTypes /\ RowsFollow /\ BasketsFollow
      BY DEF CoreSound
<1>2. RowsFollow' /\ (shown \in Seq(AnyOrder) /\ Len(shown) = Len(orders))'
      BY <1>1, ChangedRows
<1>3. /\ BasketsFollow' /\ (baskets \in Seq(RollupStatus))'
      /\ \A i \in DOMAIN orders' : orders'[i].basket \in DOMAIN baskets'
      BY <1>1, ChangedBaskets
<1>4. /\ orders' \in Seq(AnyOrder) /\ Len(orders) <= Len(orders')
      /\ halfModified' = halfModified
      BY DEF Changed
<1>5. halfModified' \subseteq DOMAIN orders'
  <2>1. halfModified \subseteq DOMAIN orders /\ orders \in Seq(AnyOrder)
        BY <1>1 DEF CoreTypes
  <2>2. DOMAIN orders \subseteq DOMAIN orders'
        BY <1>4, <2>1, MoreOrders
  <2> QED BY <1>4, <2>1, <2>2
<1>6. CoreTypes'
      BY <1>2, <1>3, <1>4, <1>5 DEF CoreTypes, RollupStatus, Booking
<1> QED BY <1>2, <1>3, <1>6 DEF CoreSound

-----------------------------------------------------------------------------
\* What a step may not do to the orders that are there

Moves ==
    /\ DOMAIN orders \subseteq DOMAIN orders' /\ halfModified \subseteq halfModified'
    /\ \A i \in DOMAIN orders :
         /\ orders[i].status \in Done   => orders'[i] = orders[i]
         /\ orders[i].status \in Routed => orders'[i].status \in Routed \cup Terminal
         /\ orders[i].status \in Worked => orders'[i].status \in Worked

Requantified == \E i \in DOMAIN orders : orders'[i].qty # orders[i].qty
NewLine      == \E i \in DOMAIN orders' \ DOMAIN orders : orders'[i].parent = 0
KeepsTotals  == \A b \in DOMAIN baskets : TotalQty(b)' # TotalQty(b) => Requantified \/ NewLine

CoreStep == CoreSound' /\ Moves /\ KeepsTotals

\* Only the orders of S change.
Spares(S) == \A i \in DOMAIN orders \ S : orders'[i] = orders[i]

\* With the leaves it had, and what they ask for, a basket has the quantity it had.
LEMMA SameTotals ==
    ASSUME NEW os \in Seq(AnyOrder), NEW more \in Seq(AnyOrder), Len(os) <= Len(more), NEW c,
           Leaf(more, c) = Leaf(os, c), \A i \in Leaf(os, c) : more[i].qty = os[i].qty
    PROVE  SumOf(more, Leaf(more, c), "qty") = SumOf(os, Leaf(os, c), "qty")
<1> DEFINE S == Leaf(os, c)
           f == "qty"
           n == Len(os)
           m == Len(more)
<1>1. S \subseteq DOMAIN os
      BY DEF Leaf, InBasket
<1>2. /\ Table(os, n) /\ Table(more, m) /\ DOMAIN os = 1..n
      /\ \A i \in DOMAIN os : os[i] \in AnyOrder
      BY OrderRows
<1>3. \A i \in S : os[i][f] \in Int /\ more[i][f] = os[i][f]
      BY <1>1, <1>2 DEF AnyOrder
<1> HIDE DEF S, f
<1>4. Counts(os, S, f) /\ Alike(os, f, more, f, S)
      BY <1>3 DEF Counts, Alike
<1>5. Matches(os, n, f, more, m, f, S)
      BY <1>1, <1>2, <1>4 DEF Matches
<1> HIDE DEF n, m
<1>6. SumOf(more, S, f) = SumOf(os, S, f)
      BY <1>5, SumOfSame
<1> QED BY <1>6 DEF S, f

-----------------------------------------------------------------------------
\* Orders of one basket are revised: routed, cancelled, answered, filled or modified

Revised(ids, b) ==
    /\ ids \subseteq DOMAIN orders /\ b \in DOMAIN baskets
    /\ orders' \in Seq(AnyOrder) /\ Len(orders') = Len(orders)
    /\ \A i \in ids : orders[i].basket = b /\ Becomes(orders[i], orders'[i])
    /\ \A i \in DOMAIN orders \ ids : orders'[i] = orders[i]
    /\ Publish(orders', ids, b)
    /\ halfModified' = halfModified

\* A revision is a published change.
LEMMA RevisedChanged ==
    ASSUME CoreTypes, NEW ids, NEW b, Revised(ids, b)
    PROVE  Changed(ids, b) /\ DOMAIN orders' = DOMAIN orders
<1>1. /\ ids \subseteq DOMAIN orders /\ b \in DOMAIN baskets
      /\ orders' \in Seq(AnyOrder) /\ Len(orders') = Len(orders)
      /\ \A i \in ids : orders[i].basket = b /\ Becomes(orders[i], orders'[i])
      /\ \A i \in DOMAIN orders \ ids : orders'[i] = orders[i]
      /\ Publish(orders', ids, b)
      /\ halfModified' = halfModified
      BY DEF Revised
<1>2. orders \in Seq(AnyOrder)
      BY DEF CoreTypes
<1>3. DOMAIN orders' = DOMAIN orders /\ Len(orders) <= Len(orders')
  <2>1. DOMAIN orders = 1..Len(orders) /\ Len(orders) \in Nat
        BY <1>2, OrderRows
  <2>2. DOMAIN orders' = 1..Len(orders')
        BY <1>1, OrderRows
  <2> QED BY <1>1, <2>1, <2>2
<1>4. \A i \in ids : /\ orders'[i].basket = b /\ RowSound(orders'[i])
                     /\ orders'[i].status # "SPLIT"
      BY <1>1 DEF Becomes
<1>5. (ids = {} /\ b \in DOMAIN baskets) \/ \E i \in ids : orders'[i].status # "SPLIT"
      BY <1>1, <1>4
<1> QED BY <1>1, <1>3, <1>4, <1>5 DEF Changed

\* It does to the orders no more than it may,
LEMMA RevisedMoves ==
    ASSUME CoreTypes, NEW ids, NEW b, Revised(ids, b)
    PROVE  Moves
<1>1. DOMAIN orders' = DOMAIN orders
      BY RevisedChanged
<1>2. /\ \A i \in ids : Becomes(orders[i], orders'[i])
      /\ \A i \in DOMAIN orders \ ids : orders'[i] = orders[i]
      /\ halfModified' = halfModified
      BY DEF Revised
<1>3. ASSUME NEW i \in DOMAIN orders
      PROVE  /\ orders[i].status \in Done   => orders'[i] = orders[i]
             /\ orders[i].status \in Routed => orders'[i].status \in Routed \cup Terminal
             /\ orders[i].status \in Worked => orders'[i].status \in Worked
  <2>1. CASE i \in ids
        BY <1>2, <2>1 DEF Becomes, Live, Done, Terminal
  <2>2. CASE i \notin ids
        BY <1>2, <2>2
  <2> QED BY <2>1, <2>2
<1> QED BY <1>1, <1>2, <1>3 DEF Moves

\* and a basket's total is what it was, unless a quantity was modified.
LEMMA RevisedTotals ==
    ASSUME CoreTypes, NEW ids, NEW b, Revised(ids, b)
    PROVE  KeepsTotals
<1> SUFFICES ASSUME NEW c \in DOMAIN baskets, ~Requantified
             PROVE  TotalQty(c)' = TotalQty(c)
    BY DEF KeepsTotals
<1>1. DOMAIN orders' = DOMAIN orders
      BY RevisedChanged
<1>2. /\ orders' \in Seq(AnyOrder) /\ Len(orders') = Len(orders)
      /\ \A i \in ids : Becomes(orders[i], orders'[i])
      /\ \A i \in DOMAIN orders \ ids : orders'[i] = orders[i]
      BY DEF Revised
<1>3. orders \in Seq(AnyOrder)
      BY DEF CoreTypes
<1>4. ASSUME NEW i \in DOMAIN orders
      PROVE  /\ orders'[i].basket = orders[i].basket /\ orders'[i].qty = orders[i].qty
             /\ orders'[i].status = "SPLIT" <=> orders[i].status = "SPLIT"
  <2>1. orders'[i].qty = orders[i].qty
        BY DEF Requantified
  <2>2. CASE i \in ids
        BY <1>2, <2>1, <2>2 DEF Becomes, Live
  <2>3. CASE i \notin ids
        BY <1>2, <2>3
  <2> QED BY <2>1, <2>2, <2>3
<1>5. Leaf(orders', c) = Leaf(orders, c)
      BY <1>1, <1>4 DEF Leaf, InBasket
<1>6. \A i \in Leaf(orders, c) : orders'[i].qty = orders[i].qty
      BY <1>4 DEF Leaf, InBasket
<1>7. Len(orders) <= Len(orders')
  <2>1. Len(orders) \in Nat
        BY <1>3, OrderRows
  <2> QED BY <1>2, <2>1
<1>8. SumOf(orders', Leaf(orders', c), "qty") = SumOf(orders, Leaf(orders, c), "qty")
      BY <1>2, <1>3, <1>5, <1>6, <1>7, SameTotals
<1> QED BY <1>8 DEF TotalQty

\* A revision that fills nothing keeps the core sound.
LEMMA RevisedStep ==
    ASSUME CoreSound, NEW ids, NEW b, Revised(ids, b), UNCHANGED executions,
           \A i \in ids : Kept(orders[i], orders'[i])
    PROVE  CoreStep
<1>1. CoreTypes /\ OrdersFit
      BY DEF CoreSound
<1>2. Changed(ids, b) /\ DOMAIN orders' = DOMAIN orders
      BY <1>1, RevisedChanged
<1>3. Moves /\ KeepsTotals
      BY <1>1, RevisedMoves, RevisedTotals
<1>4. Booking'
      BY <1>1, <1>2 DEF CoreTypes, Booking
<1>5. /\ \A i \in ids : Becomes(orders[i], orders'[i])
      /\ \A i \in DOMAIN orders \ ids : orders'[i] = orders[i]
      /\ halfModified' = halfModified
      BY DEF Revised
<1>6. ASSUME NEW i \in DOMAIN orders'
      PROVE  /\ orders'[i].status = "NEW" => orders'[i].filled = 0
             /\ i \notin halfModified' =>
                  Fits(orders'[i]) /\ orders'[i].filled = ExecutedQty(i)'
  <2>1. ExecutedQty(i)' = ExecutedQty(i)
        BY DEF ExecutedQty
  <2>2. /\ orders[i].status = "NEW" => orders[i].filled = 0
        /\ i \notin halfModified => Fits(orders[i]) /\ orders[i].filled = ExecutedQty(i)
        BY <1>1, <1>2 DEF OrdersFit
  <2>3. CASE i \in ids
    <3>1. Kept(orders[i], orders'[i]) /\ RowSound(orders'[i])
          BY <1>5, <2>3 DEF Becomes
    <3> QED BY <1>5, <2>1, <2>2, <3>1 DEF Kept, RowSound
  <2>4. CASE i \notin ids
        BY <1>2, <1>5, <2>1, <2>2, <2>4
  <2> QED BY <2>3, <2>4
<1>7. OrdersFit'
      BY <1>6 DEF OrdersFit
<1>8. CoreSound'
      BY <1>2, <1>4, <1>7, ChangedSound
<1> QED BY <1>3, <1>8 DEF CoreStep

-----------------------------------------------------------------------------
\* Calls that revise

\* One order is replaced by what becomes of it.
LEMMA ReplaceRevised ==
    ASSUME CoreTypes, NEW i \in DOMAIN orders, NEW n, Becomes(orders[i], n),
           Replace(i, n), UNCHANGED halfModified
    PROVE  /\ Revised({i}, orders[i].basket) /\ orders'[i] = n
           /\ \A j \in {i} : orders'[j] = n /\ orders[j] = orders[i]
<1>1. orders \in Seq(AnyOrder) /\ orders[i].basket \in DOMAIN baskets
      BY DEF CoreTypes
<1>2. Len(orders) \in Nat /\ DOMAIN orders = 1..Len(orders)
      BY <1>1, OrderRows
<1>3. orders' = [orders EXCEPT ![i] = n] /\ n \in AnyOrder
      BY DEF Replace, Publish, Becomes
<1>4. orders' \in Seq(AnyOrder) /\ Len(orders') = Len(orders)
      BY <1>1, <1>2, <1>3, ExceptSeq
<1>5. orders'[i] = n /\ \A j \in DOMAIN orders \ {i} : orders'[j] = orders[j]
      BY <1>1, <1>2, <1>3
<1>6. Publish(orders', {i}, orders[i].basket)
      BY <1>3 DEF Replace
<1>7. \A j \in {i} : orders[j].basket = orders[i].basket /\ Becomes(orders[j], orders'[j])
      BY <1>5
<1>8. Revised({i}, orders[i].basket)
      BY <1>1, <1>4, <1>5, <1>6, <1>7 DEF Revised
<1> QED BY <1>5, <1>8

\* An order that is replaced by what it may become keeps the core sound:
LEMMA ReplaceStep ==
    ASSUME CoreSound, NEW i \in DOMAIN orders, NEW n, Becomes(orders[i], n), Kept(orders[i], n),
           Replace(i, n), UNCHANGED <<executions, halfModified>>
    PROVE  CoreStep
<1>1. CoreTypes
      BY DEF CoreSound
<1>2. /\ Revised({i}, orders[i].basket)
      /\ \A j \in {i} : orders'[j] = n /\ orders[j] = orders[i]
      BY <1>1, ReplaceRevised
<1>3. \A j \in {i} : Kept(orders[j], orders'[j])
      BY <1>2
<1> QED BY <1>2, <1>3, RevisedStep

\* What is known of an order that a call is about.
LEMMA OrderIs ==
    ASSUME CoreSound, NEW i \in DOMAIN orders
    PROVE  /\ orders[i] \in AnyOrder /\ orders[i].basket \in DOMAIN baskets
           /\ orders[i].status = "NEW" => orders[i].filled = 0
<1>1. orders \in Seq(AnyOrder) /\ OrdersFit /\ orders[i].basket \in DOMAIN baskets
      BY DEF CoreSound, CoreTypes
<1> QED BY <1>1, OrderRows DEF OrdersFit

\* when it is routed,
LEMMA RouteStep ==
    ASSUME CoreSound, NEW i, NEW x, Route(i, x)
    PROVE  CoreStep
<1>1. /\ i \in DOMAIN orders /\ x \in Venues /\ orders[i].status = "NEW"
      /\ Replace(i, RoutedTo(orders[i], x))
      /\ UNCHANGED <<executions, halfModified>>
  <2>1. "route" \in Allowed(orders[i]) => orders[i].status = "NEW"
        BY DEF Allowed
  <2> QED BY <2>1 DEF Route
<1>2. orders[i] \in AnyOrder /\ orders[i].filled = 0
      BY <1>1, OrderIs
<1>3. Becomes(orders[i], RoutedTo(orders[i], x)) /\ Kept(orders[i], RoutedTo(orders[i], x))
      BY <1>1, <1>2, RoutedBecomes
<1> QED BY <1>1, <1>3, ReplaceStep

\* cancelled,
LEMMA CancelStep ==
    ASSUME CoreSound, NEW i, Cancel(i)
    PROVE  CoreStep
<1>1. /\ i \in DOMAIN orders /\ orders[i].status \in Live
      /\ Replace(i, Cancelled(orders[i]))
      /\ UNCHANGED <<executions, halfModified>>
  <2>1. "cancel" \in Allowed(orders[i]) => orders[i].status \in Live
        BY DEF Allowed
  <2> QED BY <2>1 DEF Cancel
<1>2. orders[i] \in AnyOrder
      BY <1>1, OrderIs
<1>3. Becomes(orders[i], Cancelled(orders[i])) /\ Kept(orders[i], Cancelled(orders[i]))
      BY <1>1, <1>2, CancelledBecomes
<1> QED BY <1>1, <1>3, ReplaceStep

\* acknowledged by the venue,
LEMMA AckStep ==
    ASSUME CoreSound, NEW i \in DOMAIN orders, Ack(i)
    PROVE  CoreStep
<1> DEFINE n == [orders[i] EXCEPT !.status = "WORKING"]
<1>1. /\ orders[i].status = "ROUTED" /\ Replace(i, n)
      /\ UNCHANGED <<executions, halfModified>>
      BY DEF Ack, NoFill
<1>2. orders[i] \in AnyOrder
      BY OrderIs
<1>3. Becomes(orders[i], n) /\ Kept(orders[i], n)
      BY <1>1, <1>2, AckedBecomes
<1> HIDE DEF n
<1> QED BY <1>1, <1>3, ReplaceStep

\* or rejected.
LEMMA RejectStep ==
    ASSUME CoreSound, NEW i \in DOMAIN orders, Reject(i)
    PROVE  CoreStep
<1> DEFINE n == [orders[i] EXCEPT !.status = "REJECTED", !.leaves = 0]
<1>1. /\ orders[i].status \in Routed /\ Replace(i, n)
      /\ UNCHANGED <<executions, halfModified>>
      BY DEF Reject, NoFill
<1>2. orders[i] \in AnyOrder
      BY OrderIs
<1>3. Becomes(orders[i], n) /\ Kept(orders[i], n)
      BY <1>1, <1>2, RejectedBecomes
<1> HIDE DEF n
<1> QED BY <1>1, <1>3, ReplaceStep

\* A basket is routed or cancelled as a whole: `ids` are the orders it concerns.
LEMMA BasketRevised ==
    ASSUME CoreTypes, NEW b \in DOMAIN baskets, NEW ids, ids \subseteq InBasket(orders, b),
           orders' \in [DOMAIN orders -> AnyOrder],
           \A i \in ids : Becomes(orders[i], orders'[i]),
           \A i \in DOMAIN orders \ ids : orders'[i] = orders[i],
           Publish(orders', ids, b), UNCHANGED halfModified
    PROVE  Revised(ids, b)
<1>1. orders \in Seq(AnyOrder)
      BY DEF CoreTypes
<1>2. Len(orders) \in Nat /\ DOMAIN orders = 1..Len(orders)
      BY <1>1, OrderRows
<1>3. orders' \in Seq(AnyOrder) /\ Len(orders') = Len(orders)
  <2>1. orders' \in [1..Len(orders) -> AnyOrder]
        BY <1>2
  <2>2. orders' \in Seq(AnyOrder)
        BY <1>2, <2>1, SeqDef
  <2> QED BY <1>2, <2>1, <2>2, LenProperties
<1>4. ids \subseteq DOMAIN orders /\ \A i \in ids : orders[i].basket = b
      BY DEF InBasket
<1> QED BY <1>3, <1>4 DEF Revised

\* Routing a basket's new orders keeps the core sound,
LEMMA RouteBasketStep ==
    ASSUME CoreSound, NEW b, NEW x, RouteBasket(b, x)
    PROVE  CoreStep
<1> DEFINE ids == {i \in InBasket(orders, b) : orders[i].status = "NEW"}
           os  == [i \in DOMAIN orders |-> IF i \in ids THEN RoutedTo(orders[i], x)
                                           ELSE orders[i]]
<1>1. /\ b \in DOMAIN baskets /\ x \in Venues /\ Publish(os, ids, b)
      /\ UNCHANGED <<executions, halfModified>>
      BY DEF RouteBasket
<1>2. ids \subseteq InBasket(orders, b) /\ ids \subseteq DOMAIN orders
      BY DEF InBasket
<1>3. \A i \in ids : orders[i].status = "NEW"
      OBVIOUS
<1> HIDE DEF ids
<1>4. orders' = os
      BY <1>1 DEF Publish
<1>5. ASSUME NEW i \in ids
      PROVE  Becomes(orders[i], orders'[i]) /\ Kept(orders[i], orders'[i])
  <2>1. orders'[i] = RoutedTo(orders[i], x)
        BY <1>2, <1>4
  <2>2. orders[i] \in AnyOrder /\ orders[i].status = "NEW" /\ orders[i].filled = 0
        BY <1>2, <1>3, OrderIs
  <2> QED BY <1>1, <2>1, <2>2, RoutedBecomes
<1>6. \A i \in DOMAIN orders \ ids : orders'[i] = orders[i]
      BY <1>4
<1>7. orders' \in [DOMAIN orders -> AnyOrder]
  <2>1. ASSUME NEW i \in DOMAIN orders PROVE orders'[i] \in AnyOrder
    <3>1. CASE i \in ids
          BY <1>5, <3>1 DEF Becomes
    <3>2. CASE i \notin ids
          BY <1>6, <3>2, OrderIs
    <3> QED BY <3>1, <3>2
  <2>2. orders' = [i \in DOMAIN orders |-> orders'[i]]
        BY <1>4
  <2> HIDE DEF os
  <2> QED BY <2>1, <2>2
<1>8. Publish(orders', ids, b)
      BY <1>1, <1>4
<1> HIDE DEF os
<1>9. Revised(ids, b)
  <2>1. CoreTypes
        BY DEF CoreSound
  <2> QED BY <1>1, <1>2, <1>5, <1>6, <1>7, <1>8, <2>1, BasketRevised
<1> QED BY <1>1, <1>5, <1>9, RevisedStep

\* and so does cancelling its live ones.
LEMMA CancelBasketStep ==
    ASSUME CoreSound, NEW b, CancelBasket(b)
    PROVE  CoreStep
<1> DEFINE ids == {i \in InBasket(orders, b) : "cancel" \in Allowed(orders[i])}
           os  == [i \in DOMAIN orders |-> IF i \in ids THEN Cancelled(orders[i])
                                           ELSE orders[i]]
<1>1. /\ b \in DOMAIN baskets /\ Publish(os, ids, b)
      /\ UNCHANGED <<executions, halfModified>>
      BY DEF CancelBasket
<1>2. ids \subseteq InBasket(orders, b) /\ ids \subseteq DOMAIN orders
      BY DEF InBasket
<1>3. \A i \in ids : orders[i].status \in Live
      BY DEF Allowed
<1> HIDE DEF ids
<1>4. orders' = os
      BY <1>1 DEF Publish
<1>5. ASSUME NEW i \in ids
      PROVE  Becomes(orders[i], orders'[i]) /\ Kept(orders[i], orders'[i])
  <2>1. orders'[i] = Cancelled(orders[i])
        BY <1>2, <1>4
  <2>2. orders[i] \in AnyOrder /\ orders[i].status \in Live
        BY <1>2, <1>3, OrderIs
  <2> QED BY <2>1, <2>2, CancelledBecomes
<1>6. \A i \in DOMAIN orders \ ids : orders'[i] = orders[i]
      BY <1>4
<1>7. orders' \in [DOMAIN orders -> AnyOrder]
  <2>1. ASSUME NEW i \in DOMAIN orders PROVE orders'[i] \in AnyOrder
    <3>1. CASE i \in ids
          BY <1>5, <3>1 DEF Becomes
    <3>2. CASE i \notin ids
          BY <1>6, <3>2, OrderIs
    <3> QED BY <3>1, <3>2
  <2>2. orders' = [i \in DOMAIN orders |-> orders'[i]]
        BY <1>4
  <2> HIDE DEF os
  <2> QED BY <2>1, <2>2
<1>8. Publish(orders', ids, b)
      BY <1>1, <1>4
<1> HIDE DEF os
<1>9. Revised(ids, b)
  <2>1. CoreTypes
        BY DEF CoreSound
  <2> QED BY <1>1, <1>2, <1>5, <1>6, <1>7, <1>8, <2>1, BasketRevised
<1> QED BY <1>1, <1>5, <1>9, RevisedStep

-----------------------------------------------------------------------------
\* Fills

\* What was executed of an order, in any table of executions.
Executed(ex, i) == SumOf(ex, {k \in DOMAIN ex : ex[k].order = i}, "qty")

\* One more execution adds to its order alone.
LEMMA ExecutedMore ==
    ASSUME NEW ex \in Seq(Execution), NEW row \in Execution, NEW i
    PROVE  Executed(Append(ex, row), i)
             = Executed(ex, i) + (IF row.order = i THEN row.qty ELSE 0)
<1> DEFINE n    == Len(ex)
           more == Append(ex, row)
           S    == {k \in DOMAIN more : more[k].order = i}
           f    == "qty"
<1>1. n \in Nat /\ DOMAIN ex = 1..n
      BY LenProperties
<1>2. /\ more \in Seq(Execution) /\ Len(more) = n + 1
      /\ \A k \in 1..n : more[k] = ex[k]
      /\ more[n + 1] = row
      BY AppendProperties
<1>3. DOMAIN more = 1..(n + 1)
      BY <1>2, LenProperties
<1> HIDE DEF more
<1>4. S \ {n + 1} = {k \in DOMAIN ex : ex[k].order = i}
  <2>1. \A k : k \in 1..n <=> k \in 1..(n + 1) /\ k # n + 1
        BY <1>1
  <2> HIDE DEF n
  <2> QED BY <1>1, <1>2, <1>3, <2>1
<1>5. n + 1 \in S <=> row.order = i
  <2>1. n + 1 \in 1..(n + 1)
        BY <1>1
  <2> QED BY <1>2, <1>3, <2>1
<1>6. S \subseteq 1..n + 1
      BY <1>3
<1>7. \A r \in Execution : r[f] \in Int
      BY DEF Execution
<1>8. row[f] = row.qty
      OBVIOUS
<1> HIDE DEF S, f
<1>9. SumOf(Append(ex, row), S, f) = SumOf(ex, S \ {Len(ex) + 1}, f)
                                       + (IF Len(ex) + 1 \in S THEN row[f] ELSE 0)
  <2>1. Appends(ex, row, Execution, f, S)
        BY <1>6, <1>7 DEF Appends
  <2>2. AddsOne(ex, row, f, S)
        BY <2>1, SumOfAppend
  <2> QED BY <2>2 DEF AddsOne
<1>10. Executed(more, i) = SumOf(more, S, f)
      BY DEF Executed, S, f
<1>11. Executed(ex, i) = SumOf(ex, S \ {n + 1}, f)
      BY <1>4 DEF Executed, f
<1>12. more = Append(ex, row)
      BY DEF more
<1> QED BY <1>5, <1>8, <1>9, <1>10, <1>11, <1>12

\* A fill is booked with the order it fills.
LEMMA FillStep ==
    ASSUME CoreSound, NEW i \in DOMAIN orders, NEW qty \in Int, Fill(i, qty)
    PROVE  CoreStep
<1> DEFINE cut == LesserOf(qty, orders[i].leaves)
           n   == Filled(orders[i], cut)
           row == [order |-> i, qty |-> cut]
<1>1. /\ orders[i].status \in {"WORKING", "PARTIAL"} /\ cut > 0
      /\ Replace(i, n) /\ executions' = Append(executions, row)
      /\ UNCHANGED halfModified
      BY DEF Fill, Booked
<1>2. orders[i] \in AnyOrder /\ orders[i].leaves \in Int /\ orders[i].filled \in Int
      BY OrderIs DEF AnyOrder
<1>3. cut \in Int /\ cut <= orders[i].leaves
      BY <1>2 DEF LesserOf
<1> HIDE DEF cut
<1>4. /\ Becomes(orders[i], n) /\ n.filled = orders[i].filled + cut
      /\ Fits(orders[i]) => Fits(n)
      BY <1>1, <1>2, <1>3, FilledBecomes
<1> HIDE DEF n
<1>5. CoreTypes /\ OrdersFit
      BY DEF CoreSound
<1>6. Revised({i}, orders[i].basket) /\ orders'[i] = n
      BY <1>1, <1>4, <1>5, ReplaceRevised
<1>7. Changed({i}, orders[i].basket) /\ DOMAIN orders' = DOMAIN orders
      BY <1>5, <1>6, RevisedChanged
<1>8. Moves /\ KeepsTotals
      BY <1>5, <1>6, RevisedMoves, RevisedTotals
<1>9. i \in Nat /\ row \in Execution
  <2>1. orders \in Seq(AnyOrder)
        BY <1>5 DEF CoreTypes
  <2>2. i \in Nat
        BY <2>1, OrderRows
  <2> QED BY <1>3, <2>2 DEF Execution
<1>10. executions \in Seq(Execution)
       /\ \A k \in DOMAIN executions : executions[k].order \in DOMAIN orders
      BY <1>5 DEF CoreTypes
<1>11. row.order = i /\ row.qty = cut
      OBVIOUS
<1> HIDE DEF row
<1>12. Booking'
  <2>1. /\ executions' \in Seq(Execution) /\ Len(executions') = Len(executions) + 1
        /\ \A k \in 1..Len(executions) : executions'[k] = executions[k]
        /\ executions'[Len(executions) + 1] = row
        BY <1>1, <1>9, <1>10, AppendProperties
  <2>2. DOMAIN executions = 1..Len(executions) /\ Len(executions) \in Nat
        BY <1>10, LenProperties
  <2>3. DOMAIN executions' = 1..(Len(executions) + 1)
        BY <2>1, LenProperties
  <2>4. ASSUME NEW k \in DOMAIN executions' PROVE executions'[k].order \in DOMAIN orders
    <3>1. k \in 1..Len(executions) \/ k = Len(executions) + 1
          BY <2>2, <2>3
    <3>2. CASE k \in 1..Len(executions)
          BY <1>10, <2>1, <2>2, <3>2
    <3>3. CASE k = Len(executions) + 1
          BY <1>11, <2>1, <3>3
    <3> QED BY <3>1, <3>2, <3>3
  <2> QED BY <1>7, <2>1, <2>4 DEF Booking
<1>13. ASSUME NEW j \in DOMAIN orders'
       PROVE  /\ orders'[j].status = "NEW" => orders'[j].filled = 0
              /\ j \notin halfModified' =>
                   Fits(orders'[j]) /\ orders'[j].filled = ExecutedQty(j)'
  <2>1. ExecutedQty(j)' = ExecutedQty(j) + (IF row.order = j THEN row.qty ELSE 0)
    <3>1. Executed(executions', j)
            = Executed(executions, j) + (IF row.order = j THEN row.qty ELSE 0)
          BY <1>1, <1>9, <1>10, ExecutedMore
    <3>2. Executed(executions, j) = ExecutedQty(j) /\ Executed(executions', j) = ExecutedQty(j)'
          BY DEF Executed, ExecutedQty
    <3> QED BY <3>1, <3>2
  <2>2. /\ orders[j].status = "NEW" => orders[j].filled = 0
        /\ j \notin halfModified => Fits(orders[j]) /\ orders[j].filled = ExecutedQty(j)
        BY <1>5, <1>7 DEF OrdersFit
  <2>3. CASE j = i
    <3>1. RowSound(n)
          BY <1>4 DEF Becomes
    <3>2. n.status = "NEW" => n.filled = 0
          BY <3>1 DEF RowSound
    <3>3. j \notin halfModified => Fits(n) /\ n.filled = ExecutedQty(j) + cut
          BY <1>4, <2>2, <2>3
    <3> QED BY <1>1, <1>6, <1>11, <2>1, <2>3, <3>2, <3>3
  <2>4. CASE j # i
    <3>1. orders'[j] = orders[j]
          BY <1>6, <1>7, <2>4 DEF Revised
    <3>2. orders[j].filled \in Int
          BY <1>7, OrderIs DEF AnyOrder
    <3>3. j \notin halfModified => ExecutedQty(j)' = orders[j].filled
          BY <1>11, <2>1, <2>2, <2>4, <3>2
    <3> QED BY <1>1, <2>2, <3>1, <3>3
  <2> QED BY <2>3, <2>4
<1>14. OrdersFit'
      BY <1>13 DEF OrdersFit
<1>15. CoreSound'
      BY <1>7, <1>12, <1>14, ChangedSound
<1> QED BY <1>8, <1>15 DEF CoreStep

-----------------------------------------------------------------------------
\* Modifications

\* A refused modify() may have written to the order; its row and its basket are as before.
LEMMA HalfModifyStep ==
    ASSUME CoreSound, NEW i \in DOMAIN orders, NEW n \in AnyOrder,
           n.basket = orders[i].basket, n.status = orders[i].status,
           n.filled = orders[i].filled, orders[i].status \in Live,
           orders' = [orders EXCEPT ![i] = n], halfModified' = halfModified \cup {i},
           UNCHANGED <<shown, baskets, executions>>
    PROVE  CoreStep
<1>1. CoreTypes /\ OrdersFit /\ RowsFollow /\ BasketsFollow
      BY DEF CoreSound
<1>2. /\ orders \in Seq(AnyOrder) /\ halfModified \subseteq DOMAIN orders
      BY <1>1 DEF CoreTypes
<1>3. Len(orders) \in Nat /\ DOMAIN orders = 1..Len(orders)
      BY <1>2, OrderRows
<1>4. orders' \in Seq(AnyOrder) /\ Len(orders') = Len(orders) /\ DOMAIN orders' = DOMAIN orders
      BY <1>2, <1>3, ExceptSeq
<1>5. orders'[i] = n /\ \A j \in DOMAIN orders : j # i => orders'[j] = orders[j]
      OBVIOUS
<1>6. \A j \in DOMAIN orders : /\ orders'[j].basket = orders[j].basket
                               /\ orders'[j].status = orders[j].status
                               /\ orders'[j].filled = orders[j].filled
      BY <1>5
<1>7. CoreTypes'
  <2>1. /\ Len(shown') = Len(orders') /\ halfModified' \subseteq DOMAIN orders'
        /\ shown' \in Seq(AnyOrder) /\ executions' \in Seq(Execution)
        BY <1>1, <1>4 DEF CoreTypes
  <2>2. baskets' \in Seq({"STAGED", "WORKING", "DONE", "CANCELLED"})
        BY <1>1 DEF CoreTypes
  <2>3. \A j \in DOMAIN orders' : orders'[j].basket \in DOMAIN baskets'
        BY <1>1, <1>4, <1>6 DEF CoreTypes
  <2>4. \A k \in DOMAIN executions' : executions'[k].order \in DOMAIN orders'
        BY <1>1, <1>4 DEF CoreTypes
  <2> QED BY <1>4, <2>1, <2>2, <2>3, <2>4 DEF CoreTypes
<1>8. OrdersFit'
  <2>1. ASSUME NEW j \in DOMAIN orders
        PROVE  /\ orders'[j].status = "NEW" => orders'[j].filled = 0
               /\ j \notin halfModified' =>
                    Fits(orders'[j]) /\ orders'[j].filled = ExecutedQty(j)'
    <3>1. ExecutedQty(j)' = ExecutedQty(j)
          BY DEF ExecutedQty
    <3>2. /\ orders[j].status = "NEW" => orders[j].filled = 0
          /\ j \notin halfModified => Fits(orders[j]) /\ orders[j].filled = ExecutedQty(j)
          BY <1>1 DEF OrdersFit
    <3>3. j \notin halfModified' => j \notin halfModified /\ orders'[j] = orders[j]
          BY <1>5
    <3> QED BY <1>6, <3>1, <3>2, <3>3
  <2> QED BY <1>4, <2>1 DEF OrdersFit
<1>9. RowsFollow'
  <2>1. ASSUME NEW j \in DOMAIN orders
        PROVE  /\ Follows(shown[j], orders'[j]) /\ RowSound(shown[j])
               /\ j \notin halfModified' => shown[j] = orders'[j]
    <3>1. /\ Follows(shown[j], orders[j]) /\ RowSound(shown[j])
          /\ j \notin halfModified => shown[j] = orders[j]
          BY <1>1 DEF RowsFollow
    <3>2. Follows(shown[j], orders'[j])
          BY <1>6, <3>1 DEF Follows
    <3>3. j \notin halfModified' => j \notin halfModified /\ orders'[j] = orders[j]
          BY <1>5
    <3> QED BY <3>1, <3>2, <3>3
  <2> QED BY <1>4, <2>1 DEF RowsFollow
<1>10. \A c : Leaf(orders', c) = Leaf(orders, c)
      BY <1>4, <1>6 DEF Leaf, InBasket
<1>11. Len(orders) <= Len(orders')
      BY <1>3, <1>4
<1>12. BasketsFollow'
  <2>1. ASSUME NEW c \in DOMAIN baskets
        PROVE  Leaf(orders', c) # {} /\ baskets[c] = Rollup(orders', c)
    <3>1. \A j \in Leaf(orders, c) : /\ orders'[j].status = orders[j].status
                                     /\ orders'[j].filled = orders[j].filled
          BY <1>6 DEF Leaf, InBasket
    <3>2. Rollup(orders', c) = Rollup(orders, c)
      <4>1. Leaf(orders', c) = Leaf(orders, c)
            BY <1>10
      <4> QED BY <1>2, <1>4, <1>11, <3>1, <4>1, RollupSame
    <3> QED BY <1>1, <1>10, <3>2 DEF BasketsFollow
  <2> QED BY <2>1 DEF BasketsFollow
<1>13. Moves
  <2>1. ASSUME NEW j \in DOMAIN orders
        PROVE  /\ orders[j].status \in Done   => orders'[j] = orders[j]
               /\ orders[j].status \in Routed => orders'[j].status \in Routed \cup Terminal
               /\ orders[j].status \in Worked => orders'[j].status \in Worked
    <3>1. orders'[j].status = orders[j].status
          BY <1>6
    <3>2. orders[j].status \in Done => j # i
          BY DEF Done, Live, Terminal
    <3> QED BY <1>5, <3>1, <3>2
  <2> QED BY <1>4, <2>1 DEF Moves
<1>14. KeepsTotals
  <2> SUFFICES ASSUME NEW c \in DOMAIN baskets, ~Requantified
               PROVE  TotalQty(c)' = TotalQty(c)
      BY DEF KeepsTotals
  <2>1. \A j \in Leaf(orders, c) : orders'[j].qty = orders[j].qty
        BY DEF Requantified, Leaf, InBasket
  <2>2. SumOf(orders', Leaf(orders', c), "qty") = SumOf(orders, Leaf(orders, c), "qty")
        BY <1>2, <1>4, <1>10, <1>11, <2>1, SameTotals
  <2> QED BY <2>2 DEF TotalQty
<1> QED BY <1>7, <1>8, <1>9, <1>12, <1>13, <1>14 DEF CoreStep, CoreSound

\* A modification keeps the core sound, accepted or refused.
LEMMA ModifyStep ==
    ASSUME CoreSound, NEW i, NEW qty \in Int \cup {None},
           NEW px \in Given("limit") \cup NewPrices \cup {None},
           NEW tif \in Given("tif") \cup NewTifs \cup {None}, Modify(i, qty, px, tif)
    PROVE  CoreStep
<1> DEFINE m == Modified(orders[i], qty, px, tif)
<1>1. /\ i \in DOMAIN orders /\ orders[i].status \in Live /\ UNCHANGED executions
      /\ \/ m.ok /\ Replace(i, m.order) /\ UNCHANGED halfModified
         \/ /\ ~m.ok /\ orders' = [orders EXCEPT ![i] = m.order]
            /\ halfModified' = halfModified \cup {i} /\ UNCHANGED <<shown, baskets>>
  <2>1. "modify" \in Allowed(orders[i]) => orders[i].status \in Live
        BY DEF Allowed
  <2> QED BY <2>1 DEF Modify
<1>2. orders[i] \in AnyOrder /\ (orders[i].status = "NEW" => orders[i].filled = 0)
      BY <1>1, OrderIs
<1>3. IF m.ok THEN Becomes(orders[i], m.order) /\ Kept(orders[i], m.order)
      ELSE /\ m.order \in AnyOrder /\ m.order.basket = orders[i].basket
           /\ m.order.status = orders[i].status /\ m.order.filled = orders[i].filled
      BY <1>1, <1>2, ModifiedBecomes
<1> HIDE DEF m
<1>4. CASE m.ok
  <2>1. Replace(i, m.order) /\ UNCHANGED <<executions, halfModified>>
        BY <1>1, <1>4
  <2>2. Becomes(orders[i], m.order) /\ Kept(orders[i], m.order)
        BY <1>3, <1>4
  <2> QED BY <1>1, <2>1, <2>2, ReplaceStep
<1>5. CASE ~m.ok
  <2>1. orders' = [orders EXCEPT ![i] = m.order] /\ halfModified' = halfModified \cup {i}
        /\ UNCHANGED <<shown, baskets, executions>>
        BY <1>1, <1>5
  <2>2. /\ m.order \in AnyOrder /\ m.order.basket = orders[i].basket
        /\ m.order.status = orders[i].status /\ m.order.filled = orders[i].filled
        BY <1>3, <1>5
  <2> QED BY <1>1, <2>1, <2>2, HalfModifyStep
<1> QED BY <1>4, <1>5

-----------------------------------------------------------------------------
\* Orders that are new

\* One table behind another.
Spliced(a, c, t) ==
    /\ t \in Seq(AnyOrder) /\ Len(t) = Len(a) + Len(c)
    /\ DOMAIN a \subseteq DOMAIN t /\ \A i \in DOMAIN a : t[i] = a[i]
    /\ \A k \in DOMAIN c : /\ Len(a) + k \in DOMAIN t \ DOMAIN a
                           /\ t[Len(a) + k] = c[k]
    /\ \A i \in DOMAIN t \ DOMAIN a : i - Len(a) \in DOMAIN c /\ t[i] = c[i - Len(a)]

\* What two tables, one behind the other, have at each position.
LEMMA Splices ==
    ASSUME NEW a \in Seq(AnyOrder), NEW c \in Seq(AnyOrder)
    PROVE  Spliced(a, c, a \o c)
<1> DEFINE n == Len(a)
           k == Len(c)
           t == a \o c
<1>1. n \in Nat /\ DOMAIN a = 1..n
      BY LenProperties
<1>2. k \in Nat /\ DOMAIN c = 1..k
      BY LenProperties
<1>3. /\ t \in Seq(AnyOrder) /\ Len(t) = n + k
      /\ \A i \in 1..n + k : t[i] = IF i <= n THEN a[i] ELSE c[i - n]
      BY ConcatProperties
<1>4. DOMAIN t = 1..(n + k)
      BY <1>3, LenProperties
<1>5. t \in Seq(AnyOrder) /\ Len(t) = Len(a) + Len(c)
      BY <1>3
<1> HIDE DEF n, k, t
<1>6. DOMAIN a \subseteq DOMAIN t /\ \A i \in DOMAIN a : t[i] = a[i]
      BY <1>1, <1>2, <1>3, <1>4
<1>7. ASSUME NEW j \in DOMAIN c PROVE n + j \in DOMAIN t \ DOMAIN a /\ t[n + j] = c[j]
  <2>1. n + j \in 1..(n + k) /\ ~(n + j <= n) /\ n + j \notin 1..n /\ (n + j) - n = j
        BY <1>1, <1>2
  <2> QED BY <1>1, <1>3, <1>4, <2>1
<1>8. ASSUME NEW i \in DOMAIN t \ DOMAIN a PROVE i - n \in DOMAIN c /\ t[i] = c[i - n]
  <2>1. i \in 1..(n + k) /\ ~(i <= n) /\ i - n \in 1..k
        BY <1>1, <1>2, <1>4
  <2> QED BY <1>2, <1>3, <2>1
<1> QED BY <1>5, <1>6, <1>7, <1>8 DEF Spliced, n, t

\* Nothing was executed of an order that is not there.
LEMMA NothingExecuted ==
    ASSUME CoreTypes, NEW j, j \notin DOMAIN orders
    PROVE  ExecutedQty(j) = 0
<1> DEFINE S == {k \in DOMAIN executions : executions[k].order = j}
           f == "qty"
<1>1. executions \in Seq(Execution)
      BY DEF CoreTypes
<1>2. Table(executions, Len(executions))
      BY <1>1, LenProperties DEF Table
<1>3. S = {}
      BY DEF CoreTypes
<1> HIDE DEF f
<1>4. SumOf(executions, {}, f) = 0
      BY <1>2, SumOfNothing
<1> QED BY <1>3, <1>4 DEF ExecutedQty, f

\* Lines that a paste may have.
GoodLines(lines) ==
    /\ lines \in Seq(Lined) /\ lines # <<>>
    /\ \A k \in DOMAIN lines : lines[k].qty \in Int /\ lines[k].qty > 0

\* The lines of a paste that was accepted are such lines.
LEMMA LinesAreGood ==
    ASSUME NEW p \in Pastes, Lines(p) # <<>>
    PROVE  GoodLines(Lines(p))
<1> DEFINE parsed == [i \in DOMAIN p |-> ParseLine(p[i])]
<1>1. Lines(p) = IF \A i \in DOMAIN parsed : parsed[i].ok THEN parsed ELSE <<>>
      BY DEF Lines
<1>2. Lines(p) = parsed /\ \A i \in DOMAIN p : ParseLine(p[i]).ok
      BY <1>1
<1> DEFINE L == [side : STRING, qty : Int, rest : Seq([word : STRING] \cup [number : Int])]
<1>3. p \in Seq(L)
      BY CoreAssumption
<1>4. \A line \in L : line.qty \in Int
      OBVIOUS
<1> HIDE DEF L
<1>5. Len(p) \in Nat /\ DOMAIN p = 1..Len(p) /\ \A i \in DOMAIN p : p[i] \in L
      BY <1>3, LenProperties, ElementOfSeq
<1>6. ASSUME NEW i \in DOMAIN p
      PROVE  /\ ParseLine(p[i]) \in Lined
             /\ ParseLine(p[i]).qty \in Int /\ ParseLine(p[i]).qty > 0
  <2>1. ParseLine(p[i]) \in Lined
        BY DEF Lined
  <2>2. ParseLine(p[i]).qty = p[i].qty /\ (ParseLine(p[i]).ok => p[i].qty > 0)
        BY DEF ParseLine
  <2> QED BY <1>2, <1>4, <1>5, <2>1, <2>2
<1>7. parsed \in Seq(Lined)
  <2>1. parsed \in [1..Len(p) -> Lined]
        BY <1>5, <1>6
  <2> QED BY <1>5, <2>1, SeqDef
<1>8. \A k \in DOMAIN parsed : parsed[k].qty \in Int /\ parsed[k].qty > 0
      BY <1>6
<1> HIDE DEF parsed
<1> QED BY <1>2, <1>7, <1>8 DEF GoodLines

\* A line of a paste has what a new order takes from it.
LEMMA LinedGives ==
    ASSUME NEW line \in Lined
    PROVE  /\ line.side \in Given("side") /\ line.type \in Given("type")
           /\ line.limit \in Given("limit") \cup NewPrices /\ line.tif \in Given("tif") \cup NewTifs
BY DEF Given

\* Lines put new orders into a basket.
LEMMA AddLinesStep ==
    ASSUME CoreSound, NEW b, b \in DOMAIN baskets \/ b = Len(baskets) + 1,
           NEW lines, GoodLines(lines), AddLines(b, lines)
    PROVE  CoreStep /\ Spares({})
<1> DEFINE kids == [k \in DOMAIN lines |-> NewOrder(b, 0, lines[k])]
           os   == orders \o kids
           ids  == DOMAIN os \ DOMAIN orders
<1>1. Publish(os, ids, b) /\ UNCHANGED <<executions, halfModified>>
      BY DEF AddLines
<1>2. CoreTypes /\ OrdersFit
      BY DEF CoreSound
<1>3. orders \in Seq(AnyOrder) /\ halfModified \subseteq DOMAIN orders
      /\ \A i \in DOMAIN orders : orders[i].basket \in DOMAIN baskets
      BY <1>2 DEF CoreTypes
<1>4. b \in Nat
  <2>1. baskets \in Seq(RollupStatus)
        BY <1>2 DEF CoreTypes, RollupStatus
  <2>2. Len(baskets) \in Nat /\ DOMAIN baskets = 1..Len(baskets)
        BY <2>1, LenProperties
  <2> QED BY <2>2
<1>5. /\ Len(lines) \in Nat /\ DOMAIN lines = 1..Len(lines) /\ 1 \in DOMAIN lines
      /\ \A k \in DOMAIN lines : lines[k] \in Lined
      /\ \A k \in DOMAIN lines : lines[k].qty \in Int /\ lines[k].qty > 0
  <2>1. /\ lines \in Seq(Lined) /\ lines # <<>>
        /\ \A k \in DOMAIN lines : lines[k].qty \in Int /\ lines[k].qty > 0
        BY DEF GoodLines
  <2>2. Len(lines) \in Nat /\ DOMAIN lines = 1..Len(lines)
        BY <2>1, LenProperties
  <2>3. \A k \in DOMAIN lines : lines[k] \in Lined
        BY <2>1, <2>2, ElementOfSeq
  <2>4. Len(lines) # 0
        BY <2>1, EmptySeq
  <2>5. 1 \in DOMAIN lines
        BY <2>2, <2>4
  <2> QED BY <2>1, <2>2, <2>3, <2>5
<1>6. ASSUME NEW k \in DOMAIN lines
      PROVE  /\ kids[k] \in AnyOrder /\ kids[k].basket = b /\ kids[k].parent = 0
             /\ kids[k].status = "NEW" /\ kids[k].filled = 0 /\ RowSound(kids[k])
             /\ Fits(kids[k])
  <2> DEFINE line == lines[k]
             none == 0
  <2>1. line \in Lined /\ line.qty \in Int /\ line.qty > 0 /\ none \in Nat
        BY <1>5
  <2>2. kids[k] = NewOrder(b, none, line)
        OBVIOUS
  <2> HIDE DEF line, kids, none
  <2>3. /\ line.side \in Given("side") /\ line.type \in Given("type")
        /\ line.limit \in Given("limit") \cup NewPrices
        /\ line.tif \in Given("tif") \cup NewTifs
        BY <2>1, LinedGives
  <2>4. LET n == NewOrder(b, none, line) IN
        /\ n \in AnyOrder /\ n.basket = b /\ n.parent = none /\ n.status = "NEW"
        /\ n.qty = line.qty /\ n.filled = 0 /\ RowSound(n) /\ (line.qty > 0 => Fits(n))
        BY <1>4, <2>1, <2>3, NewOrderIs
  <2> QED BY <2>1, <2>2, <2>4 DEF none
<1>7. kids \in Seq(AnyOrder) /\ DOMAIN kids = DOMAIN lines
  <2>1. kids \in [1..Len(lines) -> AnyOrder]
        BY <1>5, <1>6
  <2> HIDE DEF kids
  <2> QED BY <1>5, <2>1, SeqDef
<1> HIDE DEF kids
<1>8. Spliced(orders, kids, os)
      BY <1>3, <1>7, Splices
<1>9. orders' = os
      BY <1>1 DEF Publish
<1> HIDE DEF os
<1>10. /\ orders' \in Seq(AnyOrder) /\ Len(orders') = Len(orders) + Len(kids)
       /\ DOMAIN orders \subseteq DOMAIN orders' /\ \A i \in DOMAIN orders : orders'[i] = orders[i]
       /\ \A i \in ids : i - Len(orders) \in DOMAIN kids /\ orders'[i] = kids[i - Len(orders)]
       /\ Len(orders) + 1 \in ids /\ orders'[Len(orders) + 1] = kids[1]
      BY <1>5, <1>7, <1>8, <1>9 DEF Spliced
<1>11. ASSUME NEW i \in ids
       PROVE  /\ orders'[i].basket = b /\ orders'[i].parent = 0 /\ orders'[i].status = "NEW"
              /\ orders'[i].filled = 0 /\ RowSound(orders'[i]) /\ Fits(orders'[i])
      BY <1>6, <1>7, <1>10
<1>12. Publish(orders', ids, b) /\ ids = DOMAIN orders' \ DOMAIN orders
      BY <1>1, <1>9
<1> HIDE DEF ids
<1>13. Changed(ids, b)
  <2>1. Len(orders) <= Len(orders')
    <3>1. Len(orders) \in Nat /\ Len(kids) \in Nat
          BY <1>3, <1>7, OrderRows
    <3> QED BY <1>10, <3>1
  <2>2. \A i \in DOMAIN orders' \ ids : i \in DOMAIN orders /\ orders'[i] = orders[i]
        BY <1>10, <1>12
  <2>3. \A i \in ids : /\ orders'[i].basket = b /\ RowSound(orders'[i])
                       /\ i \in DOMAIN orders => orders[i].basket = b
        BY <1>11, <1>12
  <2>4. \E i \in ids : orders'[i].status # "SPLIT"
        BY <1>10, <1>11
  <2>5. ids \subseteq DOMAIN orders' /\ halfModified' = halfModified
        BY <1>1, <1>12
  <2> QED BY <1>10, <1>12, <2>1, <2>2, <2>3, <2>4, <2>5 DEF Changed
<1>14. Moves
      BY <1>1, <1>10 DEF Moves
<1>15. NewLine
      BY <1>10, <1>11, <1>12 DEF NewLine
<1>16. OrdersFit'
  <2>1. ASSUME NEW i \in DOMAIN orders'
        PROVE  /\ orders'[i].status = "NEW" => orders'[i].filled = 0
               /\ i \notin halfModified' =>
                    Fits(orders'[i]) /\ orders'[i].filled = ExecutedQty(i)'
    <3>1. ExecutedQty(i)' = ExecutedQty(i)
          BY <1>1 DEF ExecutedQty
    <3>2. CASE i \in ids
      <4>1. ExecutedQty(i) = 0
            BY <1>2, <1>12, <3>2, NothingExecuted
      <4> QED BY <1>11, <3>1, <3>2, <4>1
    <3>3. CASE i \in DOMAIN orders
          BY <1>1, <1>2, <1>10, <3>1, <3>3 DEF OrdersFit
    <3> QED BY <1>12, <3>2, <3>3
  <2> QED BY <2>1 DEF OrdersFit
<1>17. Booking'
      BY <1>1, <1>2, <1>10 DEF CoreTypes, Booking
<1>18. CoreSound'
      BY <1>13, <1>16, <1>17, ChangedSound
<1>19. Spares({})
      BY <1>10 DEF Spares
<1> QED BY <1>14, <1>15, <1>18, <1>19 DEF CoreStep, KeepsTotals

\* A new basket keeps the core sound and the orders there are,
LEMMA CreateBasketStep ==
    ASSUME CoreSound, NEW p \in Pastes, CreateBasket(p)
    PROVE  CoreStep /\ Spares({})
<1>1. AddLines(Len(baskets) + 1, Lines(p)) /\ Lines(p) # <<>>
      BY DEF CreateBasket, AddLines
<1>2. GoodLines(Lines(p))
      BY <1>1, LinesAreGood
<1> DEFINE lines == Lines(p)
           b     == Len(baskets) + 1
<1>3. AddLines(b, lines) /\ GoodLines(lines) /\ b = Len(baskets) + 1
      BY <1>1, <1>2
<1> HIDE DEF lines, b
<1> QED BY <1>3, AddLinesStep

\* and so do new lines of an old one.
LEMMA AddOrdersStep ==
    ASSUME CoreSound, NEW b, NEW p \in Pastes, AddOrders(b, p)
    PROVE  CoreStep /\ Spares({})
<1>1. b \in DOMAIN baskets /\ AddLines(b, Lines(p)) /\ Lines(p) # <<>>
      BY DEF AddOrders, AddLines
<1>2. GoodLines(Lines(p))
      BY <1>1, LinesAreGood
<1> DEFINE lines == Lines(p)
<1>3. AddLines(b, lines) /\ GoodLines(lines)
      BY <1>1, <1>2
<1> HIDE DEF lines
<1> QED BY <1>1, <1>3, AddLinesStep

-----------------------------------------------------------------------------
\* Splits

\* The parent of a split, and its children behind the table.
Parent(o) == [o EXCEPT !.status = "SPLIT", !.leaves = 0]

\* A parent keeps what it is, and has nothing left.
LEMMA ParentIs ==
    ASSUME NEW o \in AnyOrder, o.status = "NEW", o.filled = 0
    PROVE  LET n == Parent(o) IN
           /\ n \in AnyOrder /\ n.basket = o.basket /\ n.status = "SPLIT"
           /\ n.qty = o.qty /\ n.filled = 0 /\ RowSound(n) /\ (Fits(o) => Fits(n))
<1> DEFINE n == Parent(o)
<1>1. /\ n \in AnyOrder /\ n.status = "SPLIT" /\ n.basket = o.basket
      /\ n.qty = o.qty /\ n.filled = 0 /\ n.leaves = 0
  <2> DEFINE st   == "SPLIT"
             none == 0
  <2>1. st \in Live \cup Terminal \cup {"SPLIT"} /\ none \in Int
        OBVIOUS
  <2>2. n = [o EXCEPT !.status = st, !.leaves = none]
        BY DEF Parent
  <2>3. /\ n \in AnyOrder /\ n.status = st /\ n.basket = o.basket
        /\ n.qty = o.qty /\ n.filled = o.filled /\ n.leaves = none
    <3> HIDE DEF n, st, none
    <3> QED BY <2>1, <2>2 DEF AnyOrder
  <2> QED BY <2>3
<1> HIDE DEF n
<1>2. RowSound(n)
      BY <1>1 DEF RowSound, Live
<1>3. ASSUME Fits(o) PROVE Fits(n)
  <2>1. o.qty > 0 /\ o.filled # o.qty /\ n.status # "FILLED" /\ n.status \notin Live
        BY <1>1, <1>3 DEF Fits, Live
  <2> QED BY <1>1, <2>1 DEF Fits, AnyOrder
<1> QED BY <1>1, <1>2, <1>3 DEF n

\* What a split of order i makes of the orders.
SplitOff(i, sizes) ==
    /\ orders' \in Seq(AnyOrder) /\ Len(orders') = Len(orders) + Len(sizes)
    /\ DOMAIN orders \subseteq DOMAIN orders'
    /\ \A j \in DOMAIN orders : orders'[j] = IF j = i THEN Parent(orders[i]) ELSE orders[j]
    /\ \A j \in DOMAIN orders' \ DOMAIN orders :
         LET k == j - Len(orders) IN
         /\ k \in DOMAIN sizes /\ orders'[j].status = "NEW"
         /\ orders'[j].basket = orders[i].basket /\ orders'[j].qty = sizes[k]
         /\ orders'[j].filled = 0 /\ RowSound(orders'[j]) /\ Fits(orders'[j])
    /\ \A k \in DOMAIN sizes : Len(orders) + k \in DOMAIN orders' \ DOMAIN orders

\* What may be split, and into what.
MaySplit(i, sizes) ==
    /\ i \in DOMAIN orders /\ orders[i].status = "NEW"
    /\ sizes \in Seq(Int) /\ Len(sizes) >= 2 /\ \A k \in DOMAIN sizes : sizes[k] > 0
    /\ Total(sizes) = orders[i].qty

\* A split replaces the parent and puts the children behind the orders.
LEMMA SplitSplitsOff ==
    ASSUME CoreSound, NEW i, NEW sizes, MaySplit(i, sizes), SplitInto(i, sizes)
    PROVE  /\ SplitOff(i, sizes) /\ UNCHANGED <<executions, halfModified>>
           /\ Publish(orders', {i} \cup (DOMAIN orders' \ DOMAIN orders), orders[i].basket)
<1> DEFINE o    == orders[i]
           b    == o.basket
           kids == [k \in DOMAIN sizes |-> NewOrder(b, i, [o EXCEPT !.qty = sizes[k]])]
           base == [orders EXCEPT ![i] = Parent(o)]
           os   == base \o kids
<1>1. orders \in Seq(AnyOrder)
      BY DEF CoreSound, CoreTypes
<1>2. /\ i \in DOMAIN orders /\ orders[i].status = "NEW"
      /\ sizes \in Seq(Int) /\ Len(sizes) >= 2 /\ \A k \in DOMAIN sizes : sizes[k] > 0
      BY DEF MaySplit
<1>3. o \in AnyOrder /\ o.filled = 0 /\ b \in Nat /\ i \in Nat
  <2>1. o \in AnyOrder /\ o.filled = 0
        BY <1>2, OrderIs
  <2>2. Len(orders) \in Nat /\ DOMAIN orders = 1..Len(orders)
        BY <1>1, OrderRows
  <2>3. i \in Nat
        BY <1>2, <2>2
  <2>4. b \in Nat
        BY <2>1 DEF AnyOrder
  <2> QED BY <2>1, <2>3, <2>4
<1>4. os = [orders EXCEPT ![i].status = "SPLIT", ![i].leaves = 0] \o kids
  <2>1. base = [orders EXCEPT ![i].status = "SPLIT", ![i].leaves = 0]
        BY <1>1, <1>2, OrderRows DEF Parent
  <2> QED BY <2>1
<1>5. Publish(os, {i} \cup (DOMAIN os \ DOMAIN orders), b) /\ UNCHANGED <<executions, halfModified>>
  <2> HIDE DEF os
  <2> QED BY <1>4 DEF SplitInto
<1>6. Len(sizes) \in Nat /\ DOMAIN sizes = 1..Len(sizes) /\ \A k \in DOMAIN sizes : sizes[k] \in Int
      BY <1>2, Numbers
<1>7. ASSUME NEW k \in DOMAIN sizes
      PROVE  /\ kids[k] \in AnyOrder /\ kids[k].basket = b /\ kids[k].status = "NEW"
             /\ kids[k].qty = sizes[k] /\ kids[k].filled = 0 /\ RowSound(kids[k])
             /\ Fits(kids[k])
  <2> DEFINE q    == sizes[k]
             line == [o EXCEPT !.qty = q]
  <2>1. q \in Int /\ q > 0
        BY <1>2, <1>6
  <2>2. kids[k] = NewOrder(b, i, line)
        OBVIOUS
  <2> HIDE DEF q, o, b, kids
  <2>3. /\ line.qty = q /\ line.side \in Given("side") /\ line.type \in Given("type")
        /\ line.limit \in Given("limit") \cup NewPrices
        /\ line.tif \in Given("tif") \cup NewTifs
        BY <1>3, <2>1 DEF AnyOrder
  <2> HIDE DEF line
  <2>4. LET n == NewOrder(b, i, line) IN
        /\ n \in AnyOrder /\ n.basket = b /\ n.parent = i /\ n.status = "NEW"
        /\ n.qty = line.qty /\ n.filled = 0 /\ RowSound(n) /\ (line.qty > 0 => Fits(n))
        BY <1>3, <2>1, <2>3, NewOrderIs
  <2> QED BY <2>1, <2>2, <2>3, <2>4 DEF q
<1>8. kids \in Seq(AnyOrder) /\ DOMAIN kids = DOMAIN sizes /\ Len(kids) = Len(sizes)
  <2>1. kids \in [1..Len(sizes) -> AnyOrder]
        BY <1>6, <1>7
  <2> HIDE DEF kids
  <2>2. kids \in Seq(AnyOrder)
        BY <1>6, <2>1, SeqDef
  <2> QED BY <1>6, <2>1, <2>2, LenProperties
<1>9. Parent(o) \in AnyOrder
      BY <1>2, <1>3, ParentIs
<1> HIDE DEF kids
<1>10. /\ base \in Seq(AnyOrder) /\ Len(base) = Len(orders) /\ DOMAIN base = DOMAIN orders
       /\ \A j \in DOMAIN orders : base[j] = IF j = i THEN Parent(o) ELSE orders[j]
  <2>1. Len(orders) \in Nat /\ DOMAIN orders = 1..Len(orders)
        BY <1>1, OrderRows
  <2> DEFINE n == Parent(o)
  <2> HIDE DEF n
  <2>2. [orders EXCEPT ![i] = n] \in Seq(AnyOrder) /\ Len([orders EXCEPT ![i] = n]) = Len(orders)
        BY <1>1, <1>2, <1>9, <2>1, ExceptSeq DEF n
  <2> QED BY <1>1, <2>1, <2>2 DEF n
<1> HIDE DEF base
<1>11. Spliced(base, kids, os)
      BY <1>8, <1>10, Splices
<1>12. orders' = os
      BY <1>5 DEF Publish
<1>13. SplitOff(i, sizes)
  <2>1. /\ orders' \in Seq(AnyOrder) /\ Len(orders') = Len(orders) + Len(sizes)
        /\ DOMAIN orders \subseteq DOMAIN orders'
        /\ \A j \in DOMAIN orders : orders'[j] = base[j]
        /\ \A k \in DOMAIN sizes : Len(orders) + k \in DOMAIN orders' \ DOMAIN orders
        /\ \A j \in DOMAIN orders' \ DOMAIN orders :
             j - Len(orders) \in DOMAIN sizes /\ orders'[j] = kids[j - Len(orders)]
    <3> HIDE DEF os
    <3> QED BY <1>8, <1>10, <1>11, <1>12 DEF Spliced
  <2>2. \A j \in DOMAIN orders : orders'[j] = IF j = i THEN Parent(orders[i]) ELSE orders[j]
        BY <1>10, <2>1
  <2>3. ASSUME NEW j \in DOMAIN orders' \ DOMAIN orders
        PROVE  LET k == j - Len(orders) IN
               /\ k \in DOMAIN sizes /\ orders'[j].status = "NEW"
               /\ orders'[j].basket = orders[i].basket /\ orders'[j].qty = sizes[k]
               /\ orders'[j].filled = 0 /\ RowSound(orders'[j]) /\ Fits(orders'[j])
    <3> DEFINE k == j - Len(orders)
    <3>1. k \in DOMAIN sizes /\ orders'[j] = kids[k]
          BY <2>1
    <3> HIDE DEF k
    <3>2. /\ k \in DOMAIN sizes /\ orders'[j].status = "NEW"
          /\ orders'[j].basket = orders[i].basket /\ orders'[j].qty = sizes[k]
          /\ orders'[j].filled = 0 /\ RowSound(orders'[j]) /\ Fits(orders'[j])
          BY <1>7, <3>1
    <3> QED BY <3>2 DEF k
  <2> HIDE DEF os
  <2> QED BY <2>1, <2>2, <2>3 DEF SplitOff
<1> QED BY <1>5, <1>12, <1>13

\* The children have what the parent had, so the basket has what it had.
LEMMA SplitTotals ==
    ASSUME CoreTypes, NEW i, NEW sizes, MaySplit(i, sizes), SplitOff(i, sizes)
    PROVE  KeepsTotals
<1> SUFFICES ASSUME NEW c \in DOMAIN baskets PROVE TotalQty(c)' = TotalQty(c)
    BY DEF KeepsTotals
<1> DEFINE n    == Len(orders)
           k    == Len(sizes)
           b    == orders[i].basket
           os   == orders'
           more == DOMAIN os \ DOMAIN orders
<1>1. /\ i \in DOMAIN orders /\ orders[i].status = "NEW"
      /\ sizes \in Seq(Int) /\ Total(sizes) = orders[i].qty
      BY DEF MaySplit
<1>2. /\ os \in Seq(AnyOrder) /\ Len(os) = n + k
      /\ DOMAIN orders \subseteq DOMAIN os
      /\ \A j \in DOMAIN orders : os[j] = IF j = i THEN Parent(orders[i]) ELSE orders[j]
      /\ \A j \in more : j - n \in DOMAIN sizes /\ os[j].status = "NEW"
                         /\ os[j].basket = b /\ os[j].qty = sizes[j - n]
      /\ \A m \in DOMAIN sizes : n + m \in more
      BY DEF SplitOff
<1>3. /\ n \in Nat /\ DOMAIN orders = 1..n /\ Table(orders, n)
      /\ \A j \in DOMAIN orders : orders[j] \in AnyOrder
      BY OrderRows DEF CoreTypes
<1>4. DOMAIN os = 1..(n + k) /\ Table(os, n + k)
      BY <1>2, OrderRows
<1>5. k \in Nat /\ DOMAIN sizes = 1..k
      BY <1>1, Numbers
<1>6. more = (n + 1)..(n + k)
      BY <1>3, <1>4, <1>5
<1>7. os[i].basket = b /\ os[i].status = "SPLIT"
  <2>1. os[i] = Parent(orders[i]) /\ orders[i] \in AnyOrder
        BY <1>1, <1>2, <1>3
  <2> QED BY <2>1 DEF Parent, AnyOrder
<1> HIDE DEF os, more
<1>8. ASSUME c # b PROVE Leaf(os, c) = Leaf(orders, c) /\ \A j \in Leaf(orders, c) : os[j].qty = orders[j].qty
  <2>1. ASSUME NEW j \in Leaf(orders, c) PROVE j \in Leaf(os, c) /\ os[j] = orders[j]
    <3>1. j \in DOMAIN orders /\ orders[j].basket = c /\ orders[j].status # "SPLIT" /\ j # i
          BY <1>8 DEF Leaf, InBasket
    <3>2. j \in DOMAIN os /\ os[j] = orders[j]
          BY <1>2, <3>1
    <3> QED BY <3>1, <3>2 DEF Leaf, InBasket
  <2>2. ASSUME NEW j \in Leaf(os, c) PROVE j \in Leaf(orders, c)
    <3>1. j \in DOMAIN os /\ os[j].basket = c /\ os[j].status # "SPLIT"
          BY DEF Leaf, InBasket
    <3>2. j \notin more /\ j # i
          BY <1>2, <1>7, <1>8, <3>1
    <3>3. j \in DOMAIN orders
          BY <3>1, <3>2 DEF more
    <3>4. os[j] = orders[j]
          BY <1>2, <3>2, <3>3
    <3> QED BY <3>1, <3>3, <3>4 DEF Leaf, InBasket
  <2> QED BY <2>1, <2>2
<1>9. SumOf(os, Leaf(os, c), "qty") = SumOf(orders, Leaf(orders, c), "qty")
  <2>1. CASE c # b
    <3>1. Leaf(os, c) = Leaf(orders, c)
          BY <1>8, <2>1
    <3>2. \A j \in Leaf(orders, c) : os[j].qty = orders[j].qty
          BY <1>8, <2>1
    <3>3. orders \in Seq(AnyOrder) /\ Len(orders) <= Len(os)
          BY <1>2, <1>3, <1>5 DEF CoreTypes
    <3> QED BY <1>2, <3>1, <3>2, <3>3, SameTotals
  <2>2. CASE c = b
    <3> DEFINE S == Leaf(orders, c)
               f == "qty"
    <3>1. S \subseteq 1..n /\ i \in S
          BY <1>1, <1>3, <2>2 DEF Leaf, InBasket
    <3>2. ASSUME NEW j \in S \ {i} PROVE os[j] = orders[j] /\ j \in Leaf(os, c)
      <4>1. j \in DOMAIN orders /\ j # i
            BY <1>3, <3>1
      <4>2. os[j] = orders[j] /\ j \in DOMAIN os
            BY <1>2, <4>1
      <4> QED BY <4>2 DEF Leaf, InBasket
    <3>3. ASSUME NEW j \in more PROVE j \in Leaf(os, c)
          BY <1>2, <2>2 DEF more, Leaf, InBasket
    <3>4. ASSUME NEW j \in Leaf(os, c) PROVE j \in (S \ {i}) \cup more
      <4>1. j \in DOMAIN os /\ os[j].basket = c /\ os[j].status # "SPLIT"
            BY DEF Leaf, InBasket
      <4>2. CASE j \notin more
        <5>1. j \in DOMAIN orders /\ j # i
              BY <1>7, <4>1, <4>2 DEF more
        <5>2. os[j] = orders[j]
              BY <1>2, <5>1
        <5> QED BY <4>1, <5>1, <5>2 DEF Leaf, InBasket
      <4> QED BY <4>2
    <3>5. Leaf(os, c) = (S \ {i}) \cup (n + 1)..(n + k)
          BY <1>6, <3>2, <3>3, <3>4
    <3>6. \A j \in S : orders[j][f] \in Int
          BY <1>3, <3>1 DEF AnyOrder
    <3>7. \A j \in S \ {i} : os[j][f] = orders[j][f]
          BY <3>2
    <3>8. ASSUME NEW m \in 1..k PROVE os[n + m][f] = sizes[m]
      <4>1. n + m \in more /\ (n + m) - n = m
            BY <1>2, <1>3, <1>5
      <4> QED BY <1>2, <4>1
    <3>9. orders[i][f] = Total(sizes) /\ orders[i][f] \in Int
          BY <1>1, <3>1, <3>6
    <3> HIDE DEF S, f
    <3>10. Parts(orders, n, os, k, S, i, f, sizes)
          BY <1>1, <1>3, <1>4, <1>5, <3>1, <3>6, <3>7, <3>8 DEF Parts
    <3>11. Parted(orders, n, os, k, S, i, f, sizes)
          BY <3>10, SumOfParts
    <3>12. SumOf(orders, S, f) \in Int
      <4>1. Counts(orders, S, f)
            BY <3>6 DEF Counts
      <4> QED BY <1>3, <4>1, ColumnIs
    <3>13. SumOf(os, Leaf(os, c), f) = SumOf(orders, S, f)
      <4>1. SumOf(os, Leaf(os, c), f) = SumOf(orders, S, f) - orders[i][f] + Total(sizes)
            BY <3>5, <3>11 DEF Parted
      <4> QED BY <3>9, <3>12, <4>1
    <3> QED BY <3>13 DEF S, f
  <2> QED BY <2>1, <2>2
<1> QED BY <1>9 DEF TotalQty, os

\* A split keeps the core sound.
LEMMA SplitStep ==
    ASSUME CoreSound, NEW i, NEW sizes, MaySplit(i, sizes), SplitInto(i, sizes)
    PROVE  CoreStep
<1> DEFINE more == DOMAIN orders' \ DOMAIN orders
           ids  == {i} \cup more
           b    == orders[i].basket
<1>1. /\ SplitOff(i, sizes) /\ UNCHANGED <<executions, halfModified>>
      /\ Publish(orders', ids, b)
      BY SplitSplitsOff
<1>2. CoreTypes /\ OrdersFit
      BY DEF CoreSound
<1>3. KeepsTotals
      BY <1>1, <1>2, SplitTotals
<1>4. /\ i \in DOMAIN orders /\ orders[i].status = "NEW"
      /\ sizes \in Seq(Int) /\ Len(sizes) >= 2
      BY DEF MaySplit
<1>5. /\ orders' \in Seq(AnyOrder) /\ Len(orders') = Len(orders) + Len(sizes)
      /\ DOMAIN orders \subseteq DOMAIN orders'
      /\ \A j \in DOMAIN orders : orders'[j] = IF j = i THEN Parent(orders[i]) ELSE orders[j]
      /\ \A j \in more :
           /\ orders'[j].status = "NEW" /\ orders'[j].basket = b
           /\ orders'[j].filled = 0 /\ RowSound(orders'[j]) /\ Fits(orders'[j])
      /\ \A k \in DOMAIN sizes : Len(orders) + k \in more
      BY <1>1 DEF SplitOff
<1>6. Len(sizes) \in Nat /\ DOMAIN sizes = 1..Len(sizes) /\ 1 \in DOMAIN sizes
      BY <1>4, Numbers
<1>7. orders \in Seq(AnyOrder) /\ Len(orders) \in Nat /\ b \in DOMAIN baskets
      BY <1>2, <1>4, OrderRows DEF CoreTypes
<1>8. /\ orders'[i].basket = b /\ orders'[i].status = "SPLIT" /\ orders'[i].filled = 0
      /\ RowSound(orders'[i]) /\ (Fits(orders[i]) => Fits(orders'[i]))
  <2>1. orders[i] \in AnyOrder /\ orders[i].filled = 0
        BY <1>4, OrderIs
  <2>2. orders'[i] = Parent(orders[i])
        BY <1>4, <1>5
  <2> QED BY <1>4, <2>1, <2>2, ParentIs
<1>9. \A j \in DOMAIN orders : j # i => orders'[j] = orders[j]
      BY <1>5
<1>10. Len(orders) + 1 \in more
      BY <1>5, <1>6
<1> HIDE DEF b
<1>11. Changed(ids, b)
  <2>1. Len(orders) <= Len(orders')
        BY <1>5, <1>6, <1>7
  <2>2. ids \subseteq DOMAIN orders' /\ halfModified' = halfModified
        BY <1>1, <1>4, <1>5
  <2>3. \A j \in DOMAIN orders' \ ids : j \in DOMAIN orders /\ orders'[j] = orders[j]
        BY <1>9
  <2>4. ASSUME NEW j \in ids
        PROVE  /\ orders'[j].basket = b /\ RowSound(orders'[j])
               /\ j \in DOMAIN orders => orders[j].basket = b
    <3>1. CASE j = i
          BY <1>8, <3>1 DEF b
    <3>2. CASE j \in more
          BY <1>5, <3>2
    <3> QED BY <3>1, <3>2
  <2>5. \E j \in ids : orders'[j].status # "SPLIT"
        BY <1>5, <1>10
  <2> HIDE DEF ids
  <2> QED BY <1>1, <1>5, <1>7, <2>1, <2>2, <2>3, <2>4, <2>5 DEF Changed
<1> HIDE DEF ids
<1>12. Moves
  <2>1. ASSUME NEW j \in DOMAIN orders
        PROVE  /\ orders[j].status \in Done   => orders'[j] = orders[j]
               /\ orders[j].status \in Routed => orders'[j].status \in Routed \cup Terminal
               /\ orders[j].status \in Worked => orders'[j].status \in Worked
    <3>1. CASE j = i
          BY <1>4, <3>1 DEF Done, Terminal, Routed, Worked
    <3>2. CASE j # i
          BY <1>9, <3>2
    <3> QED BY <3>1, <3>2
  <2> QED BY <1>1, <1>5, <2>1 DEF Moves
<1>13. OrdersFit'
  <2>1. ASSUME NEW j \in DOMAIN orders'
        PROVE  /\ orders'[j].status = "NEW" => orders'[j].filled = 0
               /\ j \notin halfModified' =>
                    Fits(orders'[j]) /\ orders'[j].filled = ExecutedQty(j)'
    <3>1. ExecutedQty(j)' = ExecutedQty(j)
          BY <1>1 DEF ExecutedQty
    <3>2. CASE j \in more
      <4>1. ExecutedQty(j) = 0
            BY <1>2, <3>2, NothingExecuted
      <4> QED BY <1>5, <3>1, <3>2, <4>1
    <3>3. CASE j \in DOMAIN orders
      <4>1. /\ orders[j].status = "NEW" => orders[j].filled = 0
            /\ j \notin halfModified => Fits(orders[j]) /\ orders[j].filled = ExecutedQty(j)
            BY <1>2, <3>3 DEF OrdersFit
      <4>2. CASE j = i
            BY <1>1, <1>4, <1>8, <3>1, <4>1, <4>2
      <4>3. CASE j # i
            BY <1>1, <1>9, <3>1, <3>3, <4>1, <4>3
      <4> QED BY <4>2, <4>3
    <3> QED BY <3>2, <3>3
  <2> QED BY <2>1 DEF OrdersFit
<1>14. Booking'
  <2>1. Booking
        BY <1>2 DEF CoreTypes, Booking
  <2> QED BY <1>1, <1>5, <2>1 DEF Booking
<1>15. CoreSound'
      BY <1>11, <1>13, <1>14, ChangedSound
<1> QED BY <1>3, <1>12, <1>15 DEF CoreStep

\* An order that may be split is new.
LEMMA SplitsNew ==
    ASSUME NEW o, "split" \in Allowed(o)
    PROVE  o.status = "NEW"
BY DEF Allowed

\* An even split is one that may be made.
LEMMA EvenSplit ==
    ASSUME CoreSound, NEW i, NEW n \in {2, 3}, SplitEvenly(i, n)
    PROVE  LET sizes == SplitQuantities(orders[i].qty, n) IN
           MaySplit(i, sizes) /\ SplitInto(i, sizes)
<1> DEFINE q     == orders[i].qty
           sizes == SplitQuantities(q, n)
<1>1. i \in DOMAIN orders /\ q >= n /\ SplitInto(i, sizes)
      BY DEF SplitEvenly
<1>2. orders[i].status = "NEW"
      BY <1>1, SplitsNew DEF SplitInto
<1>3. q \in Int
      BY <1>1, OrderIs DEF AnyOrder
<1>4. q \in Nat /\ n \in Nat \ {0} /\ q \div n >= 1
  <2>1. CASE n = 2
        BY <1>1, <1>3, <2>1
  <2>2. CASE n = 3
        BY <1>1, <1>3, <2>2
  <2> QED BY <2>1, <2>2
<1> HIDE DEF q
<1>5. /\ sizes \in Seq(Int) /\ Len(sizes) = n /\ Total(sizes) = q
      /\ \A k \in 1..n : sizes[k] >= q \div n
      BY <1>4, SplitIsExact
<1> HIDE DEF sizes
<1>6. DOMAIN sizes = 1..n /\ \A k \in DOMAIN sizes : sizes[k] \in Int
      BY <1>5, Numbers
<1>7. q \div n \in Int
      BY <1>4
<1>8. \A k \in DOMAIN sizes : sizes[k] > 0
      BY <1>4, <1>5, <1>6, <1>7
<1>9. MaySplit(i, sizes)
      BY <1>1, <1>2, <1>5, <1>8 DEF MaySplit, q
<1> QED BY <1>1, <1>9 DEF sizes, q

\* So it keeps the core sound, too,
LEMMA SplitEvenlyStep ==
    ASSUME CoreSound, NEW i, NEW n \in {2, 3}, SplitEvenly(i, n)
    PROVE  CoreStep
<1> DEFINE sizes == SplitQuantities(orders[i].qty, n)
<1>1. MaySplit(i, sizes) /\ SplitInto(i, sizes)
      BY EvenSplit
<1> HIDE DEF sizes
<1> QED BY <1>1, SplitStep

\* and a split into given sizes.
LEMMA SplitAsStep ==
    ASSUME CoreSound, NEW i, NEW sizes \in Seq(Int), SplitAs(i, sizes)
    PROVE  CoreStep
<1>1. /\ i \in DOMAIN orders /\ Len(sizes) >= 2 /\ \A k \in DOMAIN sizes : sizes[k] > 0
      /\ Total(sizes) = orders[i].qty /\ SplitInto(i, sizes)
      BY DEF SplitAs
<1>2. orders[i].status = "NEW"
      BY <1>1, SplitsNew DEF SplitInto
<1>3. MaySplit(i, sizes)
      BY <1>1, <1>2 DEF MaySplit
<1> QED BY <1>1, <1>3, SplitStep

-----------------------------------------------------------------------------
\* The steps of traders and loops, as the core sees them

\* A step that leaves the book alone keeps the core sound.
LEMMA BookStutters ==
    ASSUME CoreSound, UNCHANGED bookVars
    PROVE  CoreStep
<1>1. /\ orders' = orders /\ baskets' = baskets /\ executions' = executions
      /\ shown' = shown /\ halfModified' = halfModified
      BY DEF bookVars
<1>2. CoreTypes'
      BY <1>1 DEF CoreSound, CoreTypes
<1>3. OrdersFit'
      BY <1>1 DEF CoreSound, OrdersFit, ExecutedQty
<1>4. RowsFollow'
      BY <1>1 DEF CoreSound, RowsFollow
<1>5. BasketsFollow'
      BY <1>1 DEF CoreSound, BasketsFollow
<1>6. Moves
  <2>1. ASSUME NEW i \in DOMAIN orders
        PROVE  /\ orders[i].status \in Done   => orders'[i] = orders[i]
               /\ orders[i].status \in Routed => orders'[i].status \in Routed \cup Terminal
               /\ orders[i].status \in Worked => orders'[i].status \in Worked
        BY <1>1
  <2> QED BY <1>1, <2>1 DEF Moves
<1>7. KeepsTotals
      BY <1>1 DEF KeepsTotals, TotalQty
<1> QED BY <1>2, <1>3, <1>4, <1>5, <1>6, <1>7 DEF CoreSound, CoreStep

\* So does one that leaves all of it alone.
LEMMA CoreStutters ==
    ASSUME CoreSound, UNCHANGED coreVars
    PROVE  CoreStep
<1>1. UNCHANGED bookVars
      BY DEF coreVars, bookVars
<1> QED BY <1>1, BookStutters

\* Whatever a trader does keeps the core sound.
LEMMA TraderStep ==
    ASSUME CoreSound, TraderActs
    PROVE  CoreStep
<1>1. CASE \E p \in Pastes : CreateBasket(p)
      BY <1>1, CreateBasketStep
<1>2. CASE \E b \in DOMAIN baskets, p \in Pastes : AddOrders(b, p)
      BY <1>2, AddOrdersStep
<1>3. CASE \E b \in DOMAIN baskets, x \in Venues : RouteBasket(b, x)
      BY <1>3, RouteBasketStep
<1>4. CASE \E b \in DOMAIN baskets : CancelBasket(b)
      BY <1>4, CancelBasketStep
<1>5. CASE \E i \in DOMAIN orders : \E x \in Venues : Route(i, x)
      BY <1>5, RouteStep
<1>6. CASE \E i \in DOMAIN orders : Cancel(i)
      BY <1>6, CancelStep
<1>7. CASE \E i \in DOMAIN orders :
            \E qty \in NewQtys \cup {None}, px \in NewPrices \cup {None},
               tif \in NewTifs \cup {None} : Modify(i, qty, px, tif)
  <2>1. PICK i \in DOMAIN orders, qty \in NewQtys \cup {None}, px \in NewPrices \cup {None},
             tif \in NewTifs \cup {None} : Modify(i, qty, px, tif)
        BY <1>7
  <2>2. /\ qty \in Int \cup {None} /\ px \in Given("limit") \cup NewPrices \cup {None}
        /\ tif \in Given("tif") \cup NewTifs \cup {None}
        BY CoreAssumption
  <2> QED BY <2>1, <2>2, ModifyStep
<1>8. CASE \E i \in DOMAIN orders : \E n \in {2, 3} : SplitEvenly(i, n)
  <2>1. PICK i \in DOMAIN orders, n \in {2, 3} : SplitEvenly(i, n)
        BY <1>8
  <2> QED BY <2>1, SplitEvenlyStep
<1>9. CASE \E i \in DOMAIN orders : \E a, c \in 1..orders[i].qty : SplitAs(i, <<a, c>>)
  <2>1. PICK i \in DOMAIN orders : \E a, c \in 1..orders[i].qty : SplitAs(i, <<a, c>>)
        BY <1>9
  <2>2. PICK a \in 1..orders[i].qty, c \in 1..orders[i].qty : SplitAs(i, <<a, c>>)
        BY <2>1
  <2> DEFINE sizes == <<a, c>>
  <2>3. sizes \in Seq(Int) /\ SplitAs(i, sizes)
        BY <2>2
  <2> HIDE DEF sizes
  <2> QED BY <2>3, SplitAsStep
<1> QED BY <1>1, <1>2, <1>3, <1>4, <1>5, <1>6, <1>7, <1>8, <1>9, Zenon DEF TraderActs

-----------------------------------------------------------------------------
\* The steps of the venue's threads

\* A stepper that has a snapshot is at an order of it.
LEMMA FirstIs ==
    ASSUME CoreTypes, VenueTypes, NEW v \in Steppers, todo[v] # {}
    PROVE  First(v) \in todo[v] /\ First(v) \in DOMAIN orders
<1>1. todo[v] \subseteq DOMAIN orders
      BY DEF VenueTypes
<1>2. DOMAIN orders \subseteq Nat
  <2>1. Len(orders) \in Nat /\ DOMAIN orders = 1..Len(orders)
        BY OrderRows DEF CoreTypes
  <2> QED BY <2>1
<1>3. \E x \in todo[v] : \A y \in todo[v] : x <= y
      BY <1>1, <1>2, LeastElement
<1>4. First(v) \in todo[v]
      BY <1>3 DEF First, Min
<1> QED BY <1>1, <1>4

\* One stepper moves on, and the core does what it may do.
Works(v) ==
    /\ Moves /\ VenueTypes'
    /\ \A w \in Steppers \ {v} :
         doing'[w] = doing[w] /\ todo'[w] = todo[w] /\ hand'[w] = hand[w]
    /\ \A i \in todo'[v] : orders'[i].status \in Routed \cup Terminal
    /\ doing'[v] \in {"priced", "tried"} =>
         todo'[v] # {} /\ orders'[First(v)'].status \in Worked
    /\ \/ overlapped' = overlapped /\ (InRound(v)' => InRound(v))
       \/ overlapped' = (overlapped \/ \E w \in Steppers \ {v} : InRound(w))
    /\ \/ /\ iocTried' = iocTried
          /\ ~overlapped /\ doing'[v] \in {"priced", "tried"} /\ hand'[v].ioc =>
                First(v)' \notin iocTried
       \/ /\ InRound(v) /\ doing'[v] = "round" /\ iocTried \subseteq iocTried'
          /\ \A i \in iocTried' \ iocTried :
               i \in halfModified \/ orders'[i].status \in Terminal

\* What a step of one stepper keeps.
LEMMA WorksSound ==
    ASSUME CoreSound, VenueSound, NEW v \in Steppers, Works(v)
    PROVE  VenueSound'
<1>1. /\ VenueTypes /\ SnapshotsSound /\ RoundsApart /\ OneShot
      BY DEF VenueSound
<1>2. /\ halfModified \subseteq halfModified' /\ DOMAIN orders \subseteq DOMAIN orders'
      /\ \A i \in DOMAIN orders :
           /\ orders[i].status \in Done   => orders'[i] = orders[i]
           /\ orders[i].status \in Routed => orders'[i].status \in Routed \cup Terminal
           /\ orders[i].status \in Worked => orders'[i].status \in Worked
      BY DEF Works, Moves
<1>3. /\ VenueTypes'
      /\ \A w \in Steppers \ {v} :
           doing'[w] = doing[w] /\ todo'[w] = todo[w] /\ hand'[w] = hand[w]
      BY DEF Works
<1>4. SnapshotsSound'
  <2>1. ASSUME NEW w \in Steppers
        PROVE  /\ \A i \in todo'[w] : orders'[i].status \in Routed \cup Terminal
               /\ doing'[w] \in {"priced", "tried"} =>
                    todo'[w] # {} /\ orders'[First(w)'].status \in Worked
    <3>1. CASE w = v
          BY <3>1 DEF Works
    <3>2. CASE w # v
      <4>1. doing'[w] = doing[w] /\ todo'[w] = todo[w]
            BY <1>3, <3>2
      <4>2. todo[w] \subseteq DOMAIN orders
            BY <1>1 DEF VenueTypes
      <4>3. \A i \in todo[w] : orders[i].status \in Routed \cup Terminal
            BY <1>1 DEF SnapshotsSound
      <4>4. ASSUME NEW i \in todo[w] PROVE orders'[i].status \in Routed \cup Terminal
            BY <1>2, <4>2, <4>3 DEF Done
      <4>5. ASSUME doing[w] \in {"priced", "tried"}
            PROVE  todo[w] # {} /\ orders'[First(w)'].status \in Worked
        <5>1. todo[w] # {} /\ orders[First(w)].status \in Worked
              BY <1>1, <4>5 DEF SnapshotsSound, Current
        <5>2. First(w) \in DOMAIN orders
              BY <1>1, <5>1, FirstIs DEF CoreSound
        <5>3. First(w)' = First(w)
              BY <4>1 DEF First
        <5> QED BY <1>2, <5>1, <5>2, <5>3
      <4> QED BY <4>1, <4>4, <4>5
    <3> QED BY <3>1, <3>2
  <2> QED BY <2>1 DEF SnapshotsSound, Current
<1>5. RoundsApart'
  <2> SUFFICES ASSUME ~overlapped', NEW u \in Steppers, NEW w \in Steppers,
                      InRound(u)', InRound(w)'
               PROVE  u = w
      BY DEF RoundsApart
  <2>1. \A x \in Steppers \ {v} : InRound(x)' => InRound(x)
        BY <1>3 DEF InRound
  <2>2. CASE overlapped' = overlapped /\ (InRound(v)' => InRound(v))
    <3>1. InRound(u) /\ InRound(w) /\ ~overlapped
          BY <2>1, <2>2
    <3> QED BY <1>1, <3>1 DEF RoundsApart
  <2>3. CASE overlapped' = (overlapped \/ \E x \in Steppers \ {v} : InRound(x))
    <3>1. \A x \in Steppers \ {v} : ~InRound(x)
          BY <2>3
    <3> QED BY <2>1, <3>1
  <2> QED BY <2>2, <2>3 DEF Works
<1>6. ASSUME NEW i \in iocTried' \ halfModified' PROVE orders'[i].status \in Terminal
  <2>1. CASE i \in iocTried
    <3>1. i \in DOMAIN orders /\ orders[i].status \in Terminal
          BY <1>1, <1>2, <2>1 DEF OneShot, VenueTypes
    <3> QED BY <1>2, <3>1 DEF Done
  <2>2. CASE i \notin iocTried
        BY <1>2, <2>2 DEF Works
  <2> QED BY <2>1, <2>2
<1>7. ASSUME ~overlapped', NEW w \in Steppers, doing'[w] \in {"priced", "tried"}, hand'[w].ioc
      PROVE  First(w)' \notin iocTried'
  <2>1. ~overlapped
        BY <1>7 DEF Works
  <2>2. CASE w = v
        BY <1>7, <2>1, <2>2 DEF Works
  <2>3. CASE w # v
    <3>1. doing'[w] = doing[w] /\ todo'[w] = todo[w] /\ hand'[w] = hand[w]
          BY <1>3, <2>3
    <3>2. First(w)' = First(w) /\ InRound(w)
          BY <1>7, <3>1 DEF First, InRound
    <3>3. First(w) \notin iocTried
          BY <1>1, <1>7, <2>1, <3>1 DEF OneShot
    <3>4. ~InRound(v)
          BY <1>1, <2>1, <2>3, <3>2 DEF RoundsApart
    <3>5. iocTried' = iocTried
          BY <3>4 DEF Works
    <3> QED BY <3>2, <3>3, <3>5
  <2> QED BY <2>2, <2>3
<1>8. OneShot'
      BY <1>6, <1>7 DEF OneShot
<1> QED BY <1>3, <1>4, <1>5, <1>8 DEF VenueSound

\* The orders of a snapshot remain what the venue has or had.
LEMMA SnapshotKept ==
    ASSUME VenueSound, Moves, NEW v \in Steppers, NEW i \in todo[v]
    PROVE  /\ i \in DOMAIN orders /\ i \in DOMAIN orders'
           /\ orders'[i].status \in Routed \cup Terminal
<1>1. VenueTypes /\ SnapshotsSound
      BY DEF VenueSound
<1>2. i \in DOMAIN orders /\ orders[i].status \in Routed \cup Terminal
      BY <1>1 DEF VenueTypes, SnapshotsSound
<1> QED BY <1>2 DEF Moves, Done

\* A stepper is set to something else to do, with a part of its snapshot.
Set(v, now, rest, h) ==
    /\ now \in {"idle", "round", "priced", "tried", "gone"} /\ rest \subseteq todo[v]
    /\ h \in [ioc : BOOLEAN, fills : BOOLEAN, qty : Int]
    /\ doing' = [doing EXCEPT ![v] = now]
    /\ todo'  = [todo EXCEPT ![v] = rest]
    /\ hand'  = [hand EXCEPT ![v] = h]
    /\ overlapped' = overlapped

\* What it is set to is what it does, and the others go on with what they do.
LEMMA SetIs ==
    ASSUME VenueSound, Moves, NEW v \in Steppers, NEW now, NEW rest, NEW h,
           Set(v, now, rest, h), iocTried' \subseteq DOMAIN orders
    PROVE  /\ VenueTypes' /\ doing'[v] = now /\ todo'[v] = rest /\ hand'[v] = h
           /\ \A w \in Steppers \ {v} :
                doing'[w] = doing[w] /\ todo'[w] = todo[w] /\ hand'[w] = hand[w]
           /\ \A i \in todo'[v] : orders'[i].status \in Routed \cup Terminal
           /\ overlapped' = overlapped
<1>   USE DEF Set
<1>1. /\ doing \in [Steppers -> {"idle", "round", "priced", "tried", "gone"}]
      /\ todo \in [Steppers -> SUBSET DOMAIN orders]
      /\ hand \in [Steppers -> [ioc : BOOLEAN, fills : BOOLEAN, qty : Int]]
      /\ overlapped \in BOOLEAN
      BY DEF VenueSound, VenueTypes
<1>2. doing'[v] = now /\ todo'[v] = rest /\ hand'[v] = h
      BY <1>1
<1>3. \A w \in Steppers \ {v} : doing'[w] = doing[w] /\ todo'[w] = todo[w] /\ hand'[w] = hand[w]
      BY <1>1
<1>4. DOMAIN orders \subseteq DOMAIN orders'
      BY DEF Moves
<1>5. doing' \in [Steppers -> {"idle", "round", "priced", "tried", "gone"}]
      BY <1>1
<1>6. todo' \in [Steppers -> SUBSET DOMAIN orders']
  <2>1. todo \in [Steppers -> SUBSET DOMAIN orders'] /\ rest \in SUBSET DOMAIN orders'
        BY <1>1, <1>4
  <2> QED BY <2>1
<1>7. hand' \in [Steppers -> [ioc : BOOLEAN, fills : BOOLEAN, qty : Int]]
      BY <1>1
<1>8. VenueTypes'
      BY <1>1, <1>4, <1>5, <1>6, <1>7 DEF VenueTypes
<1>9. \A i \in todo'[v] : orders'[i].status \in Routed \cup Terminal
      BY <1>2, SnapshotKept
<1> QED BY <1>2, <1>3, <1>8, <1>9

\* On to the next order.
LEMMA OnwardWorks ==
    ASSUME VenueSound, Moves, NEW v \in Steppers, InRound(v), Onward(v),
           UNCHANGED <<iocTried, overlapped>>
    PROVE  Works(v)
<1> DEFINE rest == todo[v] \ {First(v)}
<1>1. Set(v, "round", rest, Idle)
      BY DEF Onward, Set, Idle
<1>2. iocTried' \subseteq DOMAIN orders
      BY DEF VenueSound, VenueTypes
<1> HIDE DEF rest
<1> DEFINE h   == Idle
           now == "round"
<1> HIDE DEF h, now
<1>3. /\ VenueTypes' /\ doing'[v] = now /\ overlapped' = overlapped
      /\ \A w \in Steppers \ {v} :
           doing'[w] = doing[w] /\ todo'[w] = todo[w] /\ hand'[w] = hand[w]
      /\ \A i \in todo'[v] : orders'[i].status \in Routed \cup Terminal
      BY <1>1, <1>2, SetIs DEF h, now
<1>4. doing'[v] \notin {"priced", "tried"}
      BY <1>3 DEF now
<1> QED BY <1>3, <1>4 DEF Works

\* The answer of the venue,
LEMMA AnswerStep ==
    ASSUME BasketSound, NEW v \in Steppers, Answer(v)
    PROVE  CoreStep /\ Works(v)
<1>1. CoreSound /\ VenueSound
      BY DEF BasketSound
<1>2. /\ doing[v] = "round" /\ todo[v] # {} /\ Onward(v)
      /\ UNCHANGED <<iocTried, overlapped>> /\ (Ack(First(v)) \/ Reject(First(v)))
      BY DEF Answer
<1>3. First(v) \in DOMAIN orders
      BY <1>1, <1>2, FirstIs DEF CoreSound, VenueSound
<1> DEFINE i == First(v)
<1> HIDE DEF i
<1>4. CoreStep
  <2>1. i \in DOMAIN orders /\ (Ack(i) \/ Reject(i))
        BY <1>2, <1>3 DEF i
  <2> QED BY <1>1, <2>1, AckStep, RejectStep
<1>5. Works(v)
  <2>1. Moves
        BY <1>4 DEF CoreStep
  <2>2. InRound(v)
        BY <1>2 DEF InRound
  <2> QED BY <1>1, <1>2, <2>1, <2>2, OnwardWorks
<1> QED BY <1>4, <1>5

\* a look at an order,
LEMMA LookStep ==
    ASSUME BasketSound, NEW v \in Steppers, Look(v)
    PROVE  CoreStep /\ Works(v)
<1>1. CoreSound /\ VenueSound
      BY DEF BasketSound
<1>2. /\ doing[v] = "round" /\ todo[v] # {} /\ Current(v).status # "ROUTED"
      /\ UNCHANGED coreVars /\ UNCHANGED <<iocTried, overlapped>>
      BY DEF Look
<1>3. First(v) \in todo[v] /\ First(v) \in DOMAIN orders
      BY <1>1, <1>2, FirstIs DEF CoreSound, VenueSound
<1>4. CoreStep /\ Moves
      BY <1>1, <1>2, CoreStutters DEF CoreStep
<1>5. InRound(v)
      BY <1>2 DEF InRound
<1> DEFINE ioc == Current(v).tif = "IOC"
<1>6. CASE Onward(v)
      BY <1>1, <1>2, <1>4, <1>5, <1>6, OnwardWorks
<1>7. CASE /\ ioc => First(v) \notin iocTried
           /\ IF FillPrice(Current(v))
              THEN \E q \in Sizes(Current(v)) :
                     hand' = [hand EXCEPT ![v] = [ioc |-> ioc, fills |-> TRUE, qty |-> q]]
              ELSE hand' = [hand EXCEPT ![v] = [Idle EXCEPT !.ioc = ioc]]
           /\ doing' = [doing EXCEPT ![v] = "priced"]
           /\ UNCHANGED todo
  <2>1. Current(v) \in AnyOrder
        BY <1>1, <1>3, OrderIs DEF Current
  <2>2. Sizes(Current(v)) \subseteq Int
        BY <2>1 DEF Sizes, AnyOrder
  <2>3. ioc \in BOOLEAN
        OBVIOUS
  <2>4. PICK h \in [ioc : BOOLEAN, fills : BOOLEAN, qty : Int] :
               hand' = [hand EXCEPT ![v] = h] /\ (h.ioc <=> ioc)
    <3> HIDE DEF ioc
    <3>1. CASE FillPrice(Current(v))
      <4>1. PICK q \in Sizes(Current(v)) :
                   hand' = [hand EXCEPT ![v] = [ioc |-> ioc, fills |-> TRUE, qty |-> q]]
            BY <1>7, <3>1
      <4> DEFINE h == [ioc |-> ioc, fills |-> TRUE, qty |-> q]
      <4>2. h \in [ioc : BOOLEAN, fills : BOOLEAN, qty : Int] /\ h.ioc = ioc
            BY <2>2, <2>3
      <4> QED BY <4>1, <4>2
    <3>2. CASE ~FillPrice(Current(v))
      <4> DEFINE h == [Idle EXCEPT !.ioc = ioc]
      <4>1. hand' = [hand EXCEPT ![v] = h]
            BY <1>7, <3>2
      <4>2. Idle \in [ioc : BOOLEAN, fills : BOOLEAN, qty : Int]
            BY DEF Idle
      <4>3. h \in [ioc : BOOLEAN, fills : BOOLEAN, qty : Int] /\ h.ioc = ioc
            BY <2>3, <4>2
      <4> QED BY <4>1, <4>3
    <3> QED BY <3>1, <3>2
  <2> DEFINE now  == "priced"
             rest == todo[v]
  <2>5. Set(v, now, rest, h)
    <3>1. todo' = [todo EXCEPT ![v] = todo[v]]
          BY <1>1, <1>7 DEF VenueSound, VenueTypes
    <3> QED BY <1>2, <1>7, <2>4, <3>1 DEF Set
  <2>6. iocTried' \subseteq DOMAIN orders
        BY <1>1, <1>2 DEF VenueSound, VenueTypes
  <2> HIDE DEF now, rest
  <2>7. /\ VenueTypes' /\ hand'[v] = h /\ todo'[v] = rest /\ overlapped' = overlapped
        /\ \A w \in Steppers \ {v} :
             doing'[w] = doing[w] /\ todo'[w] = todo[w] /\ hand'[w] = hand[w]
        /\ \A i \in todo'[v] : orders'[i].status \in Routed \cup Terminal
        BY <1>1, <1>4, <2>5, <2>6, SetIs
  <2>8. First(v)' = First(v)
        BY <1>7 DEF First
  <2>9. orders'[First(v)'].status \in Worked
    <3>1. orders[First(v)].status \in Routed \cup Terminal
          BY <1>1, <1>3 DEF VenueSound, SnapshotsSound
    <3>2. orders[First(v)].status \in Worked
          BY <1>2, <3>1 DEF Current, Routed, Worked
    <3> QED BY <1>3, <1>4, <2>8, <3>2 DEF Moves
  <2>10. hand'[v].ioc => First(v)' \notin iocTried
        BY <1>7, <2>4, <2>7, <2>8
  <2> QED BY <1>2, <1>4, <1>5, <2>7, <2>9, <2>10 DEF Works, rest
<1>8. Works(v)
      BY <1>6, <1>7, Zenon DEF Look
<1> QED BY <1>4, <1>8

\* the fill,
LEMMA ExecuteStep ==
    ASSUME BasketSound, NEW v \in Steppers, Execute(v)
    PROVE  CoreStep /\ Works(v)
<1>1. CoreSound /\ VenueSound
      BY DEF BasketSound
<1>2. doing[v] = "priced" /\ InRound(v) /\ UNCHANGED <<iocTried, overlapped>>
      BY DEF Execute, InRound
<1>3. todo[v] # {} /\ Current(v).status \in Worked
      BY <1>1, <1>2 DEF VenueSound, SnapshotsSound
<1>4. First(v) \in DOMAIN orders
      BY <1>1, <1>3, FirstIs DEF CoreSound, VenueSound
<1>5. /\ doing \in [Steppers -> {"idle", "round", "priced", "tried", "gone"}]
      /\ todo[v] \subseteq DOMAIN orders /\ iocTried \subseteq DOMAIN orders
      /\ hand[v] \in [ioc : BOOLEAN, fills : BOOLEAN, qty : Int]
      /\ todo' = todo => todo' = [todo EXCEPT ![v] = todo[v]]
      /\ hand' = hand => hand' = [hand EXCEPT ![v] = hand[v]]
      BY <1>1 DEF VenueSound, VenueTypes
<1>6. ASSUME CoreStep, doing' = [doing EXCEPT ![v] = "tried"], UNCHANGED <<todo, hand>>
      PROVE  Works(v)
  <2> DEFINE now  == "tried"
             rest == todo[v]
             h    == hand[v]
  <2>1. Set(v, now, rest, h)
        BY <1>2, <1>5, <1>6 DEF Set
  <2>2. iocTried' \subseteq DOMAIN orders /\ Moves
        BY <1>2, <1>5, <1>6 DEF CoreStep
  <2> HIDE DEF now, rest, h
  <2>3. /\ VenueTypes' /\ overlapped' = overlapped
        /\ \A w \in Steppers \ {v} :
             doing'[w] = doing[w] /\ todo'[w] = todo[w] /\ hand'[w] = hand[w]
        /\ \A i \in todo'[v] : orders'[i].status \in Routed \cup Terminal
        BY <1>1, <2>1, <2>2, SetIs
  <2>4. First(v)' = First(v)
        BY <1>6 DEF First
  <2>5. orders'[First(v)'].status \in Worked
        BY <1>3, <1>4, <2>2, <2>4 DEF Moves, Current
  <2>6. ~overlapped /\ hand'[v].ioc => First(v)' \notin iocTried
        BY <1>1, <1>2, <1>6, <2>4 DEF VenueSound, OneShot
  <2>7. todo'[v] # {}
        BY <1>3, <1>6
  <2> QED BY <1>2, <2>2, <2>3, <2>5, <2>6, <2>7 DEF Works
<1>7. CASE Fill(First(v), hand[v].qty) /\ doing' = [doing EXCEPT ![v] = "tried"]
           /\ UNCHANGED <<todo, hand>>
  <2> DEFINE i == First(v)
             q == hand[v].qty
  <2>1. i \in DOMAIN orders /\ q \in Int /\ Fill(i, q)
        BY <1>4, <1>5, <1>7
  <2> HIDE DEF i, q
  <2>2. CoreStep
        BY <1>1, <2>1, FillStep
  <2> QED BY <1>6, <1>7, <2>2
<1>8. CASE Onward(v) /\ UNCHANGED coreVars
  <2>1. CoreStep /\ Moves
        BY <1>1, <1>8, CoreStutters DEF CoreStep
  <2> QED BY <1>1, <1>2, <1>8, <2>1, OnwardWorks
<1>9. CASE doing' = [doing EXCEPT ![v] = "tried"] /\ UNCHANGED <<coreVars, todo, hand>>
  <2>1. CoreStep
        BY <1>1, <1>9, CoreStutters
  <2> QED BY <1>6, <1>9, <2>1
<1> QED BY <1>7, <1>8, <1>9, Zenon DEF Execute

\* An order at work that adds up has something left.
LEMMA AtWorkHasLeaves ==
    ASSUME NEW o \in AnyOrder, Fits(o), o.status \in Worked, o.status \notin Terminal
    PROVE  o.leaves > 0 /\ o.status \in {"WORKING", "PARTIAL"}
<1>1. o.status \in {"WORKING", "PARTIAL"} /\ o.status \in Live /\ o.status # "FILLED"
      BY DEF Worked, Live
<1>2. o.qty \in Int /\ o.filled \in Int
      BY DEF AnyOrder
<1>3. o.leaves = o.qty - o.filled /\ o.filled <= o.qty /\ o.filled # o.qty
      BY <1>1 DEF Fits
<1> QED BY <1>1, <1>2, <1>3

\* the end of the work on an order,
LEMMA FinishStep ==
    ASSUME BasketSound, NEW v \in Steppers, Finish(v)
    PROVE  CoreStep /\ Works(v)
<1> DEFINE i == First(v)
<1>1. CoreSound /\ VenueSound
      BY DEF BasketSound
<1>2. doing[v] = "tried" /\ InRound(v) /\ Onward(v) /\ UNCHANGED overlapped
      BY DEF Finish, InRound
<1>3. todo[v] # {} /\ orders[i].status \in Worked
      BY <1>1, <1>2 DEF VenueSound, SnapshotsSound, Current
<1>4. i \in DOMAIN orders
      BY <1>1, <1>3, FirstIs DEF CoreSound, VenueSound
<1>5. iocTried \subseteq DOMAIN orders
      BY <1>1 DEF VenueSound, VenueTypes
<1> DEFINE rest == todo[v] \ {First(v)}
<1>6. Set(v, "round", rest, Idle)
      BY <1>2 DEF Onward, Set, Idle
<1> HIDE DEF i, rest
<1>7. ASSUME CoreStep, iocTried' = iocTried \cup {i},
             i \in halfModified \/ orders'[i].status \in Terminal
      PROVE  Works(v)
  <2> DEFINE now == "round"
             h   == Idle
  <2>1. iocTried' \subseteq DOMAIN orders /\ Moves
        BY <1>4, <1>5, <1>7 DEF CoreStep
  <2> HIDE DEF now, h
  <2>2. /\ VenueTypes' /\ doing'[v] = now /\ overlapped' = overlapped
        /\ \A w \in Steppers \ {v} :
             doing'[w] = doing[w] /\ todo'[w] = todo[w] /\ hand'[w] = hand[w]
        /\ \A j \in todo'[v] : orders'[j].status \in Routed \cup Terminal
        BY <1>1, <1>6, <2>1, SetIs DEF now, h
  <2>3. /\ iocTried \subseteq iocTried'
        /\ \A j \in iocTried' \ iocTried : j \in halfModified \/ orders'[j].status \in Terminal
        BY <1>7
  <2> QED BY <1>2, <2>1, <2>2, <2>3 DEF Works, now
<1>8. CASE Cancel(i) /\ iocTried' = iocTried \cup {i}
  <2>1. CoreStep
        BY <1>1, <1>8, CancelStep
  <2>2. orders' = [orders EXCEPT ![i] = Cancelled(orders[i])]
        BY <1>8 DEF Cancel, Replace, Publish
  <2>3. orders[i] \in AnyOrder
        BY <1>1, <1>4, OrderIs
  <2>4. Cancelled(orders[i]).status = "CANCELLED"
        BY <2>3 DEF Cancelled, AnyOrder
  <2>5. orders'[i].status \in Terminal
        BY <1>4, <2>2, <2>4 DEF Terminal
  <2> QED BY <1>7, <1>8, <2>1, <2>5
<1>9. CASE /\ iocTried' = iocTried \cup {i} /\ UNCHANGED coreVars
           /\ ~(orders[i].leaves > 0 /\ orders[i].status \in {"WORKING", "PARTIAL"})
  <2>1. CoreStep /\ orders' = orders
        BY <1>1, <1>9, CoreStutters DEF coreVars
  <2>2. i \in halfModified \/ orders[i].status \in Terminal
    <3>1. orders[i] \in AnyOrder /\ (i \notin halfModified => Fits(orders[i]))
          BY <1>1, <1>4, OrderIs DEF CoreSound, OrdersFit
    <3> QED BY <1>3, <1>9, <3>1, AtWorkHasLeaves
  <2> QED BY <1>7, <1>9, <2>1, <2>2
<1>10. CASE UNCHANGED <<coreVars, iocTried>>
  <2>1. CoreStep /\ Moves
        BY <1>1, <1>10, CoreStutters DEF CoreStep
  <2> QED BY <1>1, <1>2, <1>10, <2>1, OnwardWorks
<1> QED BY <1>8, <1>9, <1>10, Zenon DEF Finish, i

\* and a round's begin
LEMMA BeginStep ==
    ASSUME BasketSound, NEW v \in Steppers, BeginRound(v)
    PROVE  CoreStep /\ Works(v)
<1>1. CoreSound /\ VenueSound
      BY DEF BasketSound
<1>2. /\ UNCHANGED coreVars /\ UNCHANGED <<iocTried, hand>>
      /\ todo' = [todo EXCEPT ![v] = Snapshot(Routed)]
      /\ doing' = [doing EXCEPT ![v] = "round"]
      /\ overlapped' = (overlapped \/ \E w \in Steppers \ {v} : InRound(w))
      BY DEF BeginRound
<1>3. CoreStep /\ Moves /\ orders' = orders
      BY <1>1, <1>2, CoreStutters DEF CoreStep, coreVars
<1>4. VenueTypes
      BY <1>1 DEF VenueSound
<1>5. Snapshot(Routed) \subseteq DOMAIN orders
      BY DEF Snapshot
<1>6. todo'[v] = Snapshot(Routed) /\ doing'[v] = "round"
      BY <1>2, <1>4 DEF VenueTypes
<1>7. \A w \in Steppers \ {v} : doing'[w] = doing[w] /\ todo'[w] = todo[w] /\ hand'[w] = hand[w]
      BY <1>2, <1>4 DEF VenueTypes
<1>8. \A i \in todo'[v] : orders'[i].status \in Routed \cup Terminal
      BY <1>3, <1>6 DEF Snapshot
<1>9. VenueTypes'
  <2>1. doing' \in [Steppers -> {"idle", "round", "priced", "tried", "gone"}]
        BY <1>2, <1>4 DEF VenueTypes
  <2>2. todo' \in [Steppers -> SUBSET DOMAIN orders']
        BY <1>2, <1>3, <1>4, <1>5 DEF VenueTypes
  <2>3. overlapped' \in BOOLEAN
        BY <1>2
  <2> QED BY <1>2, <1>3, <1>4, <2>1, <2>2, <2>3 DEF VenueTypes
<1>10. doing'[v] \notin {"priced", "tried"}
      BY <1>6
<1>11. Works(v)
      BY <1>2, <1>3, <1>7, <1>8, <1>9, <1>10 DEF Works
<1> QED BY <1>3, <1>11

\* and end.
LEMMA LeaveStep ==
    ASSUME BasketSound, NEW v \in Steppers, EndRound(v) \/ LeaveLoop(v)
    PROVE  CoreStep /\ Works(v)
<1>1. CoreSound /\ VenueSound
      BY DEF BasketSound
<1>2. PICK now \in {"idle", "gone"} :
             /\ doing' = [doing EXCEPT ![v] = now]
             /\ UNCHANGED coreVars /\ UNCHANGED <<iocTried, todo, hand, overlapped>>
  <2>1. CASE EndRound(v)
    <3> DEFINE now == IF v # Console /\ stopSet THEN "gone" ELSE "idle"
    <3>1. now \in {"idle", "gone"} /\ doing' = [doing EXCEPT ![v] = now]
          BY <2>1 DEF EndRound
    <3>2. UNCHANGED coreVars /\ UNCHANGED <<iocTried, todo, hand, overlapped>>
          BY <2>1 DEF EndRound
    <3> HIDE DEF now
    <3> QED BY <3>1, <3>2
  <2>2. CASE LeaveLoop(v)
        BY <2>2 DEF LeaveLoop
  <2> QED BY <2>1, <2>2
<1>3. CoreStep /\ Moves
      BY <1>1, <1>2, CoreStutters DEF CoreStep
<1> DEFINE rest == todo[v]
           h    == hand[v]
<1>4. Set(v, now, rest, h)
  <2>1. hand[v] \in [ioc : BOOLEAN, fills : BOOLEAN, qty : Int]
        /\ todo' = [todo EXCEPT ![v] = todo[v]] /\ hand' = [hand EXCEPT ![v] = hand[v]]
        BY <1>1, <1>2 DEF VenueSound, VenueTypes
  <2> QED BY <1>2, <2>1 DEF Set
<1>5. iocTried' \subseteq DOMAIN orders
      BY <1>1, <1>2 DEF VenueSound, VenueTypes
<1> HIDE DEF rest, h
<1>6. /\ VenueTypes' /\ doing'[v] = now /\ overlapped' = overlapped
      /\ \A w \in Steppers \ {v} :
           doing'[w] = doing[w] /\ todo'[w] = todo[w] /\ hand'[w] = hand[w]
      /\ \A i \in todo'[v] : orders'[i].status \in Routed \cup Terminal
      BY <1>1, <1>3, <1>4, <1>5, SetIs
<1>7. doing'[v] \notin {"priced", "tried"} /\ ~InRound(v)'
      BY <1>2, <1>6 DEF InRound
<1> QED BY <1>2, <1>3, <1>6, <1>7 DEF Works

-----------------------------------------------------------------------------
\* The invariant

\* The venue's part is kept by every step that leaves it alone.
LEMMA VenueStays ==
    ASSUME BasketSound, CoreStep, UNCHANGED venueVars
    PROVE  VenueSound'
<1>1. /\ CoreSound /\ VenueSound /\ VenueTypes /\ OneShot /\ SnapshotsSound
      BY DEF BasketSound, VenueSound
<1>2. /\ doing' = doing /\ todo' = todo /\ hand' = hand /\ overlapped' = overlapped
      /\ iocTried' = iocTried
      BY DEF venueVars
<1>3. Moves
      BY DEF CoreStep
<1>4. VenueTypes'
  <2>1. DOMAIN orders \subseteq DOMAIN orders'
        BY <1>3 DEF Moves
  <2>2. todo' \in [Steppers -> SUBSET DOMAIN orders']
        BY <1>1, <1>2, <2>1 DEF VenueTypes
  <2> QED BY <1>1, <1>2, <2>1, <2>2 DEF VenueTypes
<1> DEFINE v == Console
<1>5. v \in Steppers
      BY DEF Steppers
<1> HIDE DEF v
<1>6. \A i \in todo'[v] : orders'[i].status \in Routed \cup Terminal
      BY <1>1, <1>2, <1>3, <1>5, SnapshotKept
<1>7. First(v)' = First(v)
      BY <1>2 DEF First
<1>8. doing'[v] \in {"priced", "tried"} =>
           todo'[v] # {} /\ orders'[First(v)'].status \in Worked
  <2> SUFFICES ASSUME doing[v] \in {"priced", "tried"}
               PROVE  todo[v] # {} /\ orders'[First(v)].status \in Worked
      BY <1>2, <1>7
  <2>1. todo[v] # {} /\ orders[First(v)].status \in Worked
        BY <1>1, <1>5 DEF SnapshotsSound, Current
  <2>2. First(v) \in DOMAIN orders
        BY <1>1, <1>5, <2>1, FirstIs DEF CoreSound
  <2> QED BY <1>3, <2>1, <2>2 DEF Moves
<1>9. ~overlapped /\ doing'[v] \in {"priced", "tried"} /\ hand'[v].ioc => First(v)' \notin iocTried
      BY <1>1, <1>2, <1>5, <1>7 DEF OneShot
<1>10. Works(v)
  <2>1. InRound(v)' => InRound(v)
        BY <1>2 DEF InRound
  <2> QED BY <1>2, <1>3, <1>4, <1>6, <1>8, <1>9, <2>1 DEF Works
<1> QED BY <1>1, <1>5, <1>10, WorksSound

\* A step of the venue keeps both parts.
LEMMA RoundStep ==
    ASSUME BasketSound, NEW v \in Steppers,
           Round(v) \/ LoopBegins(v) \/ LeaveLoop(v) \/ BeginRound(v)
    PROVE  CoreStep /\ VenueSound'
<1>1. CoreStep /\ Works(v)
  <2>1. \/ Answer(v) \/ Look(v) \/ Execute(v) \/ Finish(v)
        \/ (EndRound(v) \/ LeaveLoop(v)) \/ BeginRound(v)
        BY Zenon DEF Round, LoopBegins
  <2> QED BY <2>1, AnswerStep, LookStep, ExecuteStep, FinishStep, LeaveStep, BeginStep
<1> QED BY <1>1, WorksSound DEF BasketSound

\* Every step keeps the invariant, and does to the core no more than it may.
LEMMA BasketStep ==
    ASSUME BasketSound, [BasketNext]_basketVars
    PROVE  CoreStep /\ BasketSound'
<1>1. CoreSound
      BY DEF BasketSound
<1>2. CoreStep /\ VenueSound'
  <2>1. CASE TraderActs /\ UNCHANGED <<venueVars, simVars>>
    <3>1. CoreStep
          BY <1>1, <2>1, TraderStep
    <3>2. UNCHANGED venueVars
          BY <2>1
    <3> QED BY <3>1, <3>2, VenueStays
  <2>2. CASE \E v \in Loops : LoopBegins(v) /\ UNCHANGED simVars
    <3>1. PICK v \in Steppers : LoopBegins(v)
          BY <2>2 DEF Steppers
    <3> QED BY <3>1, RoundStep
  <2>3. CASE \E v \in Loops : LeaveLoop(v) /\ UNCHANGED simVars
    <3>1. PICK v \in Steppers : LeaveLoop(v)
          BY <2>3 DEF Steppers
    <3> QED BY <3>1, RoundStep
  <2>4. CASE \E v \in Steppers : Round(v) /\ UNCHANGED simVars
        BY <2>4, RoundStep
  <2>5. CASE AskForRound
    <3>1. Console \in Steppers /\ BeginRound(Console)
          BY <2>5 DEF AskForRound, Steppers
    <3> QED BY <3>1, RoundStep
  <2>6. ASSUME UNCHANGED coreVars, UNCHANGED venueVars PROVE CoreStep /\ VenueSound'
    <3>1. CoreStep
          BY <1>1, <2>6, CoreStutters
    <3> QED BY <2>6, <3>1, VenueStays
  <2>7. CASE StartSimulator \/ StopSimulator \/ Joined
    <3>1. UNCHANGED coreVars /\ UNCHANGED venueVars
          BY <2>7 DEF StartSimulator, StopSimulator, Joined
    <3> QED BY <2>6, <3>1
  <2>8. CASE UNCHANGED basketVars
    <3>1. UNCHANGED coreVars /\ UNCHANGED venueVars
          BY <2>8 DEF basketVars
    <3> QED BY <2>6, <3>1
  <2> QED BY <2>1, <2>2, <2>3, <2>4, <2>5, <2>7, <2>8, Zenon DEF BasketNext
<1> QED BY <1>2 DEF CoreStep, BasketSound

\* It holds when nothing was entered and no round begun.
LEMMA BasketBegins ==
    ASSUME BasketInit
    PROVE  BasketSound
<1>1. /\ orders = <<>> /\ baskets = <<>> /\ executions = <<>> /\ shown = <<>>
      /\ halfModified = {}
      BY DEF BasketInit, CoreInit
<1>2. /\ iocTried = {} /\ overlapped = FALSE
      /\ doing = [v \in Steppers |-> "idle"]
      /\ todo  = [v \in Steppers |-> {}]
      /\ hand  = [v \in Steppers |-> Idle]
      BY DEF BasketInit, VenueInit
<1>3. CoreTypes
      BY <1>1 DEF CoreTypes
<1>4. OrdersFit /\ RowsFollow /\ BasketsFollow
      BY <1>1 DEF OrdersFit, RowsFollow, BasketsFollow
<1>5. VenueTypes
  <2>1. Idle \in [ioc : BOOLEAN, fills : BOOLEAN, qty : Int]
        BY DEF Idle
  <2>2. doing \in [Steppers -> {"idle", "round", "priced", "tried", "gone"}]
        BY <1>2
  <2>3. todo \in [Steppers -> SUBSET DOMAIN orders]
        BY <1>2
  <2>4. hand \in [Steppers -> [ioc : BOOLEAN, fills : BOOLEAN, qty : Int]]
        BY <1>2, <2>1
  <2> QED BY <1>2, <2>2, <2>3, <2>4 DEF VenueTypes
<1>6. \A v \in Steppers : doing[v] = "idle" /\ todo[v] = {}
      BY <1>2
<1>7. SnapshotsSound /\ RoundsApart
      BY <1>6 DEF SnapshotsSound, RoundsApart, InRound
<1>8. OneShot
      BY <1>2, <1>6 DEF OneShot
<1> QED BY <1>3, <1>4, <1>5, <1>7, <1>8 DEF BasketSound, CoreSound, VenueSound

\* The inductive invariant, of every behaviour.
THEOREM BasketIsSound == BasketSpec => []BasketSound
<1>1. BasketInit => BasketSound
      BY BasketBegins
<1>2. BasketSound /\ [BasketNext]_basketVars => BasketSound'
  <2> SUFFICES ASSUME BasketSound, [BasketNext]_basketVars PROVE BasketSound'
      OBVIOUS
  <2> QED BY BasketStep
<1> QED BY <1>1, <1>2, PTL DEF BasketSpec

-----------------------------------------------------------------------------
\* What the invariant says

\* The quantities of a sound book add up.
LEMMA SoundAddsUp ==
    ASSUME CoreSound
    PROVE  QuantitiesAddUp
<1> SUFFICES ASSUME NEW i \in DOMAIN orders \ halfModified
             PROVE  LET o == orders[i] IN
                    /\ o.filled = ExecutedQty(i)
                    /\ o.filled <= o.qty
                    /\ o.leaves = IF o.status \in Live THEN o.qty - o.filled ELSE 0
                    /\ (o.status = "FILLED") <=> (o.filled = o.qty)
    BY DEF QuantitiesAddUp
<1>1. Fits(orders[i]) /\ orders[i].filled = ExecutedQty(i)
      BY DEF CoreSound, OrdersFit
<1> QED BY <1>1 DEF Fits

\* Filled + leaves = quantity, and the executions are what an order says it filled, of every
\* order that no refused modify() left half written, whoever does what (core.py: fill,
\* modify, split, _cancel).
THEOREM Quantities == BasketSpec => []QuantitiesAddUp
<1>1. BasketSound => QuantitiesAddUp
      BY SoundAddsUp DEF BasketSound
<1> QED BY <1>1, BasketIsSound, PTL

\* The rows of a table whose orders are leaves of basket b.
LEMMA LeavesOfRows ==
    ASSUME CoreSound, NEW b
    PROVE  /\ Leaf(shown, b) = Leaf(orders, b)
           /\ \A i \in Leaf(orders, b) : /\ i \in DOMAIN orders /\ Follows(shown[i], orders[i])
                                         /\ RowSound(shown[i]) /\ shown[i] \in AnyOrder
<1>1. CoreTypes /\ RowsFollow
      BY DEF CoreSound
<1>2. DOMAIN shown = DOMAIN orders /\ \A i \in DOMAIN shown : shown[i] \in AnyOrder
      BY <1>1, OrderRows DEF CoreTypes
<1>3. \A i \in DOMAIN orders : Follows(shown[i], orders[i]) /\ RowSound(shown[i])
      BY <1>1 DEF RowsFollow
<1>4. Leaf(shown, b) = Leaf(orders, b)
      BY <1>2, <1>3 DEF Leaf, InBasket, Follows
<1> QED BY <1>2, <1>3, <1>4 DEF Leaf, InBasket

\* The view of a basket tells the story of its status.
LEMMA ViewAgrees ==
    ASSUME CoreSound, NEW b \in DOMAIN baskets
    PROVE  LET view == BasketView(shown, b) IN
           /\ view.live + view.done = Cardinality(Leaf(shown, b))
           /\ baskets[b] \in {"DONE", "CANCELLED"} <=> view.live = 0
           /\ baskets[b] = "DONE"   => view.filled > 0 /\ view.leaves = 0
           /\ baskets[b] = "STAGED" => view.filled = 0 /\ view.leaves = view.qty
<1> DEFINE S    == Leaf(orders, b)
           live == {i \in S : shown[i].status \in Live}
           done == {i \in S : shown[i].status \in Terminal}
           n    == Len(shown)
           fq == "qty"
           ff == "filled"
           fl == "leaves"
           all == \A i \in S : orders[i].status = "NEW"
           over == \A i \in S : orders[i].status \in Terminal
<1>1. S # {} /\ baskets[b] = Rollup(orders, b)
      BY DEF CoreSound, BasketsFollow
<1>2. /\ Leaf(shown, b) = S
      /\ \A i \in S : /\ i \in DOMAIN orders /\ Follows(shown[i], orders[i])
                      /\ RowSound(shown[i]) /\ shown[i] \in AnyOrder
      BY LeavesOfRows
<1>3. /\ n \in Nat /\ Table(shown, n) /\ Table(orders, n) /\ DOMAIN shown = 1..n
      /\ DOMAIN orders = 1..n
  <2>1. shown \in Seq(AnyOrder) /\ orders \in Seq(AnyOrder) /\ Len(orders) = n
        BY DEF CoreSound, CoreTypes
  <2> QED BY <2>1, OrderRows
<1>4. S \subseteq 1..n
      BY <1>2, <1>3
<1>5. \A i \in S : shown[i].status = orders[i].status /\ shown[i].filled = orders[i].filled
      BY <1>2 DEF Follows
<1>6. \A i \in S : shown[i].status \in Live \cup Terminal
      BY <1>2 DEF AnyOrder, Leaf, Follows
<1>7. BasketView(shown, b) = [live |-> Cardinality(live), done |-> Cardinality(done),
                              qty |-> SumOf(shown, S, fq), filled |-> SumOf(shown, S, ff),
                              leaves |-> SumOf(shown, S, fl)]
      BY <1>2 DEF BasketView
<1>8. IsFiniteSet(S)
  <2>1. IsFiniteSet(1..n)
        BY <1>3, FS_Interval
  <2> HIDE DEF S, n
  <2> QED BY <1>4, <2>1, FS_Subset
<1>9. /\ IsFiniteSet(live) /\ IsFiniteSet(done) /\ S = live \cup done /\ live \cap done = {}
  <2>1. live \subseteq S /\ done \subseteq S
        OBVIOUS
  <2>2. S = live \cup done
        BY <1>6
  <2>3. live \cap done = {}
        BY DEF Live, Terminal
  <2> HIDE DEF S, live, done
  <2> QED BY <1>8, <2>1, <2>2, <2>3, FS_Subset
<1>10. Cardinality(live) + Cardinality(done) = Cardinality(S)
  <2> HIDE DEF S, live, done
  <2>1. Cardinality(live \cup done)
          = Cardinality(live) + Cardinality(done) - Cardinality(live \cap done)
        BY <1>9, FS_Union
  <2>2. Cardinality(live) \in Nat /\ Cardinality(done) \in Nat
        BY <1>9, FS_CardinalityType
  <2>3. Cardinality({}) = 0
        BY FS_EmptySet
  <2>4. Cardinality(S) = Cardinality(live \cup done) /\ Cardinality(live \cap done) = 0
        BY <1>9, <2>3
  <2> DEFINE a == Cardinality(live)
             c == Cardinality(done)
  <2> HIDE DEF a, c
  <2>5. a \in Nat /\ c \in Nat /\ Cardinality(S) = a + c - 0
        BY <2>1, <2>2, <2>4 DEF a, c
  <2> QED BY <2>5 DEF a, c
<1>11. Cardinality(live) = 0 <=> over
  <2>1. live = {} <=> over
        BY <1>5, <1>6 DEF Live, Terminal
  <2> HIDE DEF live, over
  <2> QED BY <1>9, <2>1, FS_EmptySet
<1>12. ~(all /\ over)
  <2>1. PICK i \in S : TRUE
        BY <1>1
  <2> QED BY <2>1 DEF Terminal
<1>13. baskets[b] = IF all THEN "STAGED"
                    ELSE IF over THEN (IF SumOf(orders, S, ff) > 0 THEN "DONE" ELSE "CANCELLED")
                    ELSE "WORKING"
      BY <1>1 DEF Rollup
<1>14. SumOf(shown, S, ff) = SumOf(orders, S, ff)
  <2>1. \A i \in S : orders[i][ff] \in Int /\ shown[i][ff] = orders[i][ff]
        BY <1>2, <1>5 DEF AnyOrder
  <2> HIDE DEF S, n, ff
  <2>2. Counts(orders, S, ff) /\ Alike(orders, ff, shown, ff, S)
        BY <2>1 DEF Counts, Alike
  <2>3. Matches(orders, n, ff, shown, n, ff, S)
        BY <1>3, <1>4, <2>2 DEF Matches
  <2> QED BY <2>3, SumOfSame
<1>15. over => SumOf(shown, S, fl) = 0
  <2> SUFFICES ASSUME over PROVE SumOf(shown, S, fl) = 0
      OBVIOUS
  <2>1. \A i \in S : shown[i][fl] = 0
        BY <1>2, <1>5 DEF RowSound, Live, Terminal
  <2> HIDE DEF S, n, fl, over
  <2> QED BY <1>3, <2>1, SumOfNothing
<1>16. ASSUME all PROVE SumOf(shown, S, ff) = 0 /\ SumOf(shown, S, fl) = SumOf(shown, S, fq)
  <2>1. \A i \in S : /\ shown[i][ff] = 0 /\ shown[i][fl] = shown[i][fq]
                     /\ shown[i][fq] \in Int
        BY <1>2, <1>5, <1>16 DEF RowSound, AnyOrder
  <2> HIDE DEF S, n, fl, ff, fq, all
  <2>2. SumOf(shown, S, ff) = 0
        BY <1>3, <2>1, SumOfNothing
  <2>3. Counts(shown, S, fq) /\ Alike(shown, fq, shown, fl, S)
        BY <2>1 DEF Counts, Alike
  <2>4. Matches(shown, n, fq, shown, n, fl, S)
        BY <1>3, <1>4, <2>3 DEF Matches
  <2>5. SumOf(shown, S, fl) = SumOf(shown, S, fq)
        BY <2>4, SumOfSame
  <2> QED BY <2>2, <2>5
<1> DEFINE view == BasketView(shown, b)
<1>17. /\ view.live = Cardinality(live) /\ view.done = Cardinality(done)
       /\ view.qty = SumOf(shown, S, fq) /\ view.filled = SumOf(shown, S, ff)
       /\ view.leaves = SumOf(shown, S, fl)
      BY <1>7
<1> HIDE DEF S, live, done, all, over, fq, ff, fl, view
<1>18. view.live + view.done = Cardinality(Leaf(shown, b))
      BY <1>2, <1>10, <1>17
<1>19. baskets[b] \in {"DONE", "CANCELLED"} <=> view.live = 0
      BY <1>11, <1>12, <1>13, <1>17
<1>20. baskets[b] = "DONE" => view.filled > 0 /\ view.leaves = 0
      BY <1>13, <1>14, <1>15, <1>17
<1>21. baskets[b] = "STAGED" => view.filled = 0 /\ view.leaves = view.qty
      BY <1>13, <1>16, <1>17
<1> QED BY <1>18, <1>19, <1>20, <1>21 DEF view

\* The tables of a sound book show it.
LEMMA SoundAgrees ==
    ASSUME CoreSound
    PROVE  TablesAgree
<1>1. \A i \in DOMAIN orders \ halfModified : shown[i] = orders[i]
      BY DEF CoreSound, RowsFollow
<1> QED BY <1>1, ViewAgrees DEF TablesAgree

\* The tables show the core, and the view counted from them tells the story of the basket's
\* status (tables.py: on_order, _build_baskets_view; core.py: _touch_basket, basket_rollup).
THEOREM Tables == BasketSpec => []TablesAgree
<1>1. BasketSound => TablesAgree
      BY SoundAgrees DEF BasketSound
<1> QED BY <1>1, BasketIsSound, PTL

\* An IOC order has one attempt, as long as rounds do not overlap (venue.py: step).
THEOREM OneAttempt == BasketSpec => []OneShot
<1>1. BasketSound => OneShot
      BY DEF BasketSound, VenueSound
<1> QED BY <1>1, BasketIsSound, PTL

\* No step touches an order that is done with (core.py: _get_live_order, fill, split).
THEOREM DoneStaysDone == BasketSpec => DoneIsDone
<1> DEFINE A == \A i \in DOMAIN orders :
                  orders[i].status \in Terminal \cup {"SPLIT"} => orders'[i] = orders[i]
<1>1. BasketSound /\ [BasketNext]_basketVars => [A]_basketVars
  <2> SUFFICES ASSUME BasketSound, [BasketNext]_basketVars PROVE A
      OBVIOUS
  <2>1. Moves
        BY BasketStep DEF CoreStep
  <2> QED BY <2>1 DEF Moves, Done
<1> HIDE DEF A
<1>2. BasketSpec => [][A]_basketVars
      BY <1>1, BasketIsSound, PTL DEF BasketSpec
<1> QED BY <1>2 DEF DoneIsDone, A

\* A basket's quantity changes only with new lines and modifications (core.py: split).
THEOREM SplitsKeepTotals == BasketSpec => SplitKeepsTotals
<1> DEFINE A == \A b \in DOMAIN baskets :
                  TotalQty(b)' # TotalQty(b) =>
                    \/ \E i \in DOMAIN orders : orders'[i].qty # orders[i].qty
                    \/ \E i \in DOMAIN orders' \ DOMAIN orders : orders'[i].parent = 0
<1>1. BasketSound /\ [BasketNext]_basketVars => [A]_basketVars
  <2> SUFFICES ASSUME BasketSound, [BasketNext]_basketVars PROVE A
      OBVIOUS
  <2>1. KeepsTotals
        BY BasketStep DEF CoreStep
  <2> QED BY <2>1 DEF KeepsTotals, Requantified, NewLine
<1> HIDE DEF A
<1>2. BasketSpec => [][A]_basketVars
      BY <1>1, BasketIsSound, PTL DEF BasketSpec
<1> QED BY <1>2 DEF SplitKeepsTotals, A

-----------------------------------------------------------------------------
\* The dashboard

\* What may be selected, asked for in a dialog and offered by a menu.
Known       == {0} \cup DOMAIN orders
BasketItems == {"new_basket", "add_orders", "cancel_basket"}
OrderItems  == OrderDialogs \cup {"route"}

Dialogs == {<<>>} \cup (OrderDialogs \X DOMAIN orders) \cup (BasketItems \X Nat)

Selections == [basket : Nat, order : Known, dialog : Dialogs]
Refs       == [basket : Nat, order : Known]

Menus == {NoMenu}
           \cup [on : {"order"}, target : DOMAIN orders, items : SUBSET OrderItems]
           \cup [on : {"selected"}, target : {0}, items : SUBSET OrderItems]
           \cup [on : {"basket"}, target : Nat, items : SUBSET (BasketItems \cup {"route"})]

Forms == {<<>>} \cup AnyOrder

\* Whatever the page holds names an order that there is, or none.
PageSound ==
    /\ desk = TRUE
    /\ state \in Selections /\ page \in Selections
    /\ ref \in Refs /\ menu \in Menus /\ form \in Forms

DeskSound == CoreSound /\ PageSound

\* What every event of the page does: the core stays sound, the page names orders that there
\* are, and what changes is what was named.
Draws ==
    /\ desk' = TRUE /\ state' \in Selections /\ page' \in Selections
    /\ ref' \in Refs /\ menu' \in Menus /\ form' \in Forms

DeskStep == CoreStep /\ Draws /\ OnlyTouched

\* The page stays sound, as no order goes away.
LEMMA DrawsSound ==
    ASSUME Moves, Draws
    PROVE  PageSound'
<1>1. DOMAIN orders \subseteq DOMAIN orders'
      BY DEF Moves
<1>2. Known \subseteq Known' /\ Dialogs \subseteq Dialogs'
      BY <1>1 DEF Known, Dialogs
<1>3. Selections \subseteq Selections' /\ Refs \subseteq Refs'
      BY <1>2 DEF Selections, Refs
<1>4. Menus \subseteq Menus'
      BY <1>1 DEF Menus
<1>5. Forms' = Forms
      BY DEF Forms
<1> QED BY <1>3, <1>4, <1>5 DEF PageSound, Draws

\* What a dialog names.
LEMMA DialogIs ==
    ASSUME NEW d \in Dialogs, d # <<>>
    PROVE  /\ d = <<d[1], d[2]>>
           /\ d[1] \in OrderDialogs => d[2] \in DOMAIN orders
<1>1. CASE d \in OrderDialogs \X DOMAIN orders
      BY <1>1
<1>2. CASE d \in BasketItems \X Nat
      BY <1>2 DEF BasketItems, OrderDialogs
<1> QED BY <1>1, <1>2 DEF Dialogs

\* Baskets are numbers.
LEMMA BasketIds ==
    ASSUME CoreSound
    PROVE  DOMAIN baskets \subseteq Nat
<1>1. baskets \in Seq(RollupStatus)
      BY DEF CoreSound, CoreTypes, RollupStatus
<1>2. Len(baskets) \in Nat /\ DOMAIN baskets = 1..Len(baskets)
      BY <1>1, LenProperties
<1> QED BY <1>2

\* No gesture: nothing is called and no order's dialog asked for.
LEMMA NoGesture ==
    ASSUME calls' = calls,
           \/ state'.dialog = state.dialog
           \/ state'.dialog = <<>>
           \/ state'.dialog[1] \in BasketItems
    PROVE  OnlyTouched
<1> SUFFICES ASSUME NEW i \in DOMAIN orders, NEW kind \in OrderDialogs,
                    state'.dialog # state.dialog, state'.dialog = <<kind, i>>
             PROVE  FALSE
    BY DEF OnlyTouched
<1>1. state'.dialog[1] = kind /\ <<kind, i>> # <<>>
      OBVIOUS
<1> QED BY <1>1 DEF OrderDialogs, BasketItems

\* A call of the core that changes only named orders, and asks for no dialog.
LEMMA CallGesture ==
    ASSUME NEW S, Spares(S), \A i \in S : i \in DOMAIN orders => Touches(i),
           state'.dialog = state.dialog \/ page.dialog # <<>>
    PROVE  OnlyTouched
BY DEF OnlyTouched, Spares

\* A call about one order changes that order alone,
LEMMA ReplaceSpares ==
    ASSUME NEW i, NEW n, orders' = [orders EXCEPT ![i] = n]
    PROVE  Spares({i})
BY DEF Spares

\* routing it,
LEMMA RouteSpares ==
    ASSUME NEW i, NEW x, Route(i, x)
    PROVE  Spares({i})
<1>1. orders' = [orders EXCEPT ![i] = RoutedTo(orders[i], x)]
      BY DEF Route, Replace, Publish
<1> QED BY <1>1, ReplaceSpares

\* cancelling it,
LEMMA CancelSpares ==
    ASSUME NEW i, Cancel(i)
    PROVE  Spares({i})
<1>1. orders' = [orders EXCEPT ![i] = Cancelled(orders[i])]
      BY DEF Cancel, Replace, Publish
<1> QED BY <1>1, ReplaceSpares

\* modifying it,
LEMMA ModifySpares ==
    ASSUME NEW i, NEW qty, NEW px, NEW tif, Modify(i, qty, px, tif)
    PROVE  Spares({i})
<1> DEFINE n == Modified(orders[i], qty, px, tif).order
<1>1. orders' = [orders EXCEPT ![i] = n]
      BY DEF Modify, Replace, Publish
<1> HIDE DEF n
<1> QED BY <1>1, ReplaceSpares

\* or splitting it;
LEMMA SplitSpares ==
    ASSUME CoreSound, NEW i, NEW n \in {2, 3}, SplitEvenly(i, n)
    PROVE  Spares({i})
<1> DEFINE sizes == SplitQuantities(orders[i].qty, n)
<1>1. MaySplit(i, sizes) /\ SplitInto(i, sizes)
      BY EvenSplit
<1> HIDE DEF sizes
<1>2. SplitOff(i, sizes)
      BY <1>1, SplitSplitsOff
<1> QED BY <1>2 DEF SplitOff, Spares

\* a call about a basket changes orders of that basket.
LEMMA BasketSpares ==
    ASSUME NEW b,
           (\E x \in Venues : RouteBasket(b, x)) \/ CancelBasket(b)
    PROVE  Spares(InBasket(orders, b))
<1>1. CASE \E x \in Venues : RouteBasket(b, x)
  <2>1. PICK x \in Venues : RouteBasket(b, x)
        BY <1>1
  <2> DEFINE ids == {i \in InBasket(orders, b) : orders[i].status = "NEW"}
  <2>2. orders' = [i \in DOMAIN orders |-> IF i \in ids THEN RoutedTo(orders[i], x)
                                          ELSE orders[i]]
        BY <2>1 DEF RouteBasket, Publish
  <2>3. ids \subseteq InBasket(orders, b)
        OBVIOUS
  <2> HIDE DEF ids
  <2> QED BY <2>2, <2>3 DEF Spares
<1>2. CASE CancelBasket(b)
  <2> DEFINE ids == {i \in InBasket(orders, b) : "cancel" \in Allowed(orders[i])}
  <2>2. orders' = [i \in DOMAIN orders |-> IF i \in ids THEN Cancelled(orders[i])
                                          ELSE orders[i]]
        BY <1>2 DEF CancelBasket, Publish
  <2>3. ids \subseteq InBasket(orders, b)
        OBVIOUS
  <2> HIDE DEF ids
  <2> QED BY <2>2, <2>3 DEF Spares
<1> QED BY <1>1, <1>2

\* The order that a menu acts on.
LEMMA TargetIs ==
    ASSUME PageSound, menu.on # "basket", Target # 0
    PROVE  /\ Target \in DOMAIN orders
           /\ page.dialog = <<>> => Touches(Target)
<1>1. page.order \in Known /\ ref.order \in Known /\ menu \in Menus
      BY DEF PageSound, Selections, Refs
<1>2. CASE menu.on = "selected"
  <2>1. Target \in {ref.order, page.order}
        BY <1>2 DEF Target, ResolveOrder
  <2> QED BY <1>1, <1>2, <2>1 DEF Known, Touches
<1>3. CASE menu.on # "selected"
  <2>1. Target = menu.target
        BY <1>3 DEF Target
  <2>2. menu.on = "order" /\ menu.target \in DOMAIN orders
        BY <1>1, <1>3, <2>1 DEF Menus, NoMenu
  <2> QED BY <2>1, <2>2 DEF Touches
<1> QED BY <1>2, <1>3

\* What is closed, and what stays.
LEMMA ClosesDraws ==
    ASSUME PageSound, Closes \/ StaysOpen \/ UNCHANGED <<state, ref, menu>>,
           UNCHANGED <<desk, page, form>>
    PROVE  Draws
<1>1. /\ desk = TRUE /\ state \in Selections /\ page \in Selections
      /\ ref \in Refs /\ menu \in Menus /\ form \in Forms
      BY DEF PageSound
<1>2. <<>> \in Dialogs
      BY DEF Dialogs
<1>3. [state EXCEPT !.dialog = <<>>] \in Selections
  <2> DEFINE none == <<>>
  <2>1. none \in Dialogs
        BY <1>2
  <2> HIDE DEF none
  <2>2. [state EXCEPT !.dialog = none] \in Selections
        BY <1>1, <2>1 DEF Selections
  <2> QED BY <2>2 DEF none
<1>4. state' \in Selections /\ ref' = ref /\ menu' = menu
      BY <1>1, <1>3 DEF Closes, StaysOpen
<1> QED BY <1>1, <1>4 DEF Draws

-----------------------------------------------------------------------------
\* The events of the page

\* An event that leaves the core alone.
LEMMA QuietStep ==
    ASSUME CoreSound, Quiet, Draws,
           \/ state'.dialog = state.dialog
           \/ state'.dialog = <<>>
           \/ state'.dialog[1] \in BasketItems
    PROVE  DeskStep
<1>1. UNCHANGED bookVars /\ calls' = calls
      BY DEF Quiet
<1>2. CoreStep
      BY <1>1, BookStutters
<1>3. OnlyTouched
      BY <1>1, NoGesture
<1> QED BY <1>2, <1>3 DEF DeskStep

\* A press on a basket selects it, and drops the order of another one,
LEMMA PressBasketStep ==
    ASSUME DeskSound, NEW b \in DOMAIN baskets, PressBasket(b)
    PROVE  DeskStep
<1>1. /\ CoreSound /\ desk = TRUE /\ state \in Selections /\ page \in Selections
      /\ ref \in Refs /\ menu \in Menus /\ form \in Forms
      BY DEF DeskSound, PageSound
<1>2. /\ UNCHANGED <<desk, page, form, menu>> /\ Quiet
      /\ ref' = AfterBasketPress(b).ref /\ state' = AfterBasketPress(b).state
      BY DEF PressBasket, Press, Event
<1>3. b \in Nat /\ 0 \in Known
      BY <1>1, BasketIds DEF Known
<1>4. ref' \in Refs
  <2>1. (IF b # page.basket THEN 0 ELSE ref.order) \in Known
        BY <1>1, <1>3 DEF Refs
  <2> QED BY <1>2, <1>3, <2>1 DEF AfterBasketPress, Refs
<1>5. state' \in Selections /\ state'.dialog = state.dialog
  <2> DEFINE none == 0
  <2>1. state' = state \/ state' = [state EXCEPT !.basket = b, !.order = none]
        BY <1>2 DEF AfterBasketPress
  <2>2. none \in Known
        BY <1>3
  <2> HIDE DEF none
  <2> QED BY <1>1, <1>3, <2>1, <2>2 DEF Selections
<1>6. Draws
      BY <1>1, <1>2, <1>4, <1>5 DEF Draws
<1> QED BY <1>1, <1>2, <1>5, <1>6, QuietStep

\* a press on an order selects that,
LEMMA PressOrderStep ==
    ASSUME DeskSound, NEW i \in Known, PressOrder(i)
    PROVE  DeskStep
<1>1. /\ CoreSound /\ desk = TRUE /\ state \in Selections /\ page \in Selections
      /\ ref \in Refs /\ menu \in Menus /\ form \in Forms
      BY DEF DeskSound, PageSound
<1>2. /\ UNCHANGED <<desk, page, form, menu>> /\ Quiet
      /\ ref' = [ref EXCEPT !.order = i] /\ state' = [state EXCEPT !.order = i]
      BY DEF PressOrder, Press, Event
<1>3. state' \in Selections /\ state'.dialog = state.dialog /\ ref' \in Refs
      BY <1>1, <1>2 DEF Selections, Refs
<1>4. Draws
      BY <1>1, <1>2, <1>3 DEF Draws
<1> QED BY <1>1, <1>2, <1>3, <1>4, QuietStep

\* and a menu opens on an order,
LEMMA OpenOrderMenuStep ==
    ASSUME DeskSound, NEW row \in Known, OpenOrderMenu(row)
    PROVE  DeskStep
<1>1. /\ CoreSound /\ desk = TRUE /\ state \in Selections /\ page \in Selections
      /\ ref \in Refs /\ menu \in Menus /\ form \in Forms
      BY DEF DeskSound, PageSound
<1> DEFINE i == ResolveOrder(row)
<1>2. /\ UNCHANGED <<desk, page, form, state, ref>> /\ Quiet
      /\ menu' = IF i = 0
                 THEN [on |-> "selected", target |-> 0,
                       items |-> {"modify", "split", "cancel", "route"}]
                 ELSE [on |-> "order", target |-> i, items |-> Allowed(orders[i])]
      BY DEF OpenOrderMenu, Press, Event
<1>3. i \in Known
      BY <1>1 DEF ResolveOrder, Selections, Refs
<1> HIDE DEF i
<1>4. menu' \in Menus
  <2>1. CASE i = 0
    <3>1. {"modify", "split", "cancel", "route"} \in SUBSET OrderItems
          BY DEF OrderItems, OrderDialogs
    <3> QED BY <1>2, <2>1, <3>1 DEF Menus
  <2>2. CASE i # 0
    <3>1. Allowed(orders[i]) \in SUBSET OrderItems
          BY DEF Allowed, OrderItems, OrderDialogs
    <3>2. i \in DOMAIN orders
          BY <1>3, <2>2 DEF Known
    <3> QED BY <1>2, <2>2, <3>1, <3>2 DEF Menus
  <2> QED BY <2>1, <2>2
<1>5. Draws
      BY <1>1, <1>2, <1>4 DEF Draws
<1> QED BY <1>1, <1>2, <1>5, QuietStep

\* or on a basket.
LEMMA OpenBasketMenuStep ==
    ASSUME DeskSound, NEW row, OpenBasketMenu(row)
    PROVE  DeskStep
<1>1. /\ CoreSound /\ desk = TRUE /\ state \in Selections /\ page \in Selections
      /\ ref \in Refs /\ menu \in Menus /\ form \in Forms
      BY DEF DeskSound, PageSound
<1> DEFINE b     == ResolveBasket(row)
           items == {"add_orders"} \cup (IF NewIn(b) # {} THEN {"route"} ELSE {})
                                   \cup (IF LiveIn(b) # {} THEN {"cancel_basket"} ELSE {})
<1>2. /\ UNCHANGED <<desk, page, form, state, ref>> /\ Quiet
      /\ row \in {0} \cup DOMAIN baskets
      /\ menu' = [on |-> "basket", target |-> b, items |-> items]
      BY DEF OpenBasketMenu, Press, Event
<1>3. b \in Nat
      BY <1>1, <1>2, BasketIds DEF ResolveBasket, Selections
<1>4. items \in SUBSET (BasketItems \cup {"route"})
      BY DEF BasketItems
<1> HIDE DEF b, items
<1>5. menu' \in Menus
      BY <1>2, <1>3, <1>4 DEF Menus
<1>6. Draws
      BY <1>1, <1>2, <1>5 DEF Draws
<1> QED BY <1>1, <1>2, <1>6, QuietStep

\* An entry of a menu asks for the dialog of what the menu acts on,
LEMMA PickDialogStep ==
    ASSUME DeskSound, NEW kind, PickDialog(kind)
    PROVE  DeskStep
<1>1. /\ CoreSound /\ PageSound /\ desk = TRUE /\ state \in Selections /\ page \in Selections
      /\ ref \in Refs /\ menu \in Menus /\ form \in Forms
      BY DEF DeskSound, PageSound
<1>2. /\ UNCHANGED <<desk, page, form, ref>> /\ Quiet /\ page.dialog = <<>>
      /\ kind \in menu.items /\ kind # "route" /\ menu' = NoMenu
      /\ IF menu.on = "selected" /\ (Target = 0 \/ kind \notin Allowed(orders[Target]))
         THEN UNCHANGED state ELSE Asks(kind, Target)
      BY DEF PickDialog, Press, Event
<1>3. menu' \in Menus
      BY <1>2 DEF Menus
<1>4. CASE UNCHANGED state
  <2>1. Draws
        BY <1>1, <1>2, <1>3, <1>4 DEF Draws
  <2> QED BY <1>1, <1>2, <1>4, <2>1, QuietStep
<1>5. CASE ~UNCHANGED state
  <2>1. /\ state' = [state EXCEPT !.dialog = <<kind, Target>>]
        /\ ~(menu.on = "selected" /\ Target = 0)
        BY <1>2, <1>5 DEF Asks
  <2>2. CASE menu.on = "basket"
    <3>1. Target = menu.target /\ menu.target \in Nat /\ kind \in BasketItems
          BY <1>1, <1>2, <2>2 DEF Target, Menus, NoMenu
    <3> DEFINE d == <<kind, Target>>
    <3>2. d \in Dialogs /\ d[1] \in BasketItems
          BY <3>1 DEF Dialogs
    <3> HIDE DEF d
    <3>3. state' \in Selections /\ state'.dialog = d
          BY <1>1, <2>1, <3>2 DEF Selections, d
    <3>4. Draws
          BY <1>1, <1>2, <1>3, <3>3 DEF Draws
    <3> QED BY <1>1, <1>2, <3>2, <3>3, <3>4, QuietStep
  <2>3. CASE menu.on # "basket"
    <3>1. menu.on \in {"order", "selected"} /\ kind \in OrderDialogs
          BY <1>1, <1>2, <2>3 DEF Menus, NoMenu, OrderItems
    <3>2. Target # 0
      <4>1. 0 \notin DOMAIN orders
        <5>1. orders \in Seq(AnyOrder)
              BY <1>1 DEF CoreSound, CoreTypes
        <5> QED BY <5>1, OrderRows
      <4>2. menu.on = "order" => Target \in DOMAIN orders
            BY <1>1 DEF Menus, NoMenu, Target
      <4> QED BY <2>1, <3>1, <4>1, <4>2
    <3>3. Target \in DOMAIN orders /\ Touches(Target)
          BY <1>1, <1>2, <2>3, <3>2, TargetIs
    <3> DEFINE d == <<kind, Target>>
    <3>4. d \in Dialogs
          BY <3>1, <3>3 DEF Dialogs
    <3>5. state' \in Selections /\ state'.dialog = d
      <4> HIDE DEF d
      <4> QED BY <1>1, <2>1, <3>4 DEF Selections, d
    <3>6. Draws
          BY <1>1, <1>2, <1>3, <3>5 DEF Draws
    <3>7. UNCHANGED bookVars /\ calls' = calls
          BY <1>2 DEF Quiet
    <3>8. CoreStep
          BY <1>1, <3>7, BookStutters
    <3>9. OnlyTouched
      <4> SUFFICES ASSUME NEW i \in DOMAIN orders, NEW k \in OrderDialogs,
                          state'.dialog = <<k, i>>
                   PROVE  Touches(i)
          BY <3>7 DEF OnlyTouched
      <4>1. <<kind, Target>> = <<k, i>>
            BY <3>5
      <4>2. i = Target
            BY <4>1
      <4> QED BY <3>3, <4>2
    <3> QED BY <3>6, <3>8, <3>9 DEF DeskStep
  <2> QED BY <2>2, <2>3
<1> QED BY <1>4, <1>5

\* or routes it.
LEMMA PickRouteStep ==
    ASSUME DeskSound, NEW venue, PickRoute(venue)
    PROVE  DeskStep
<1>1. /\ CoreSound /\ PageSound /\ desk = TRUE /\ state \in Selections /\ page \in Selections
      /\ ref \in Refs /\ menu \in Menus /\ form \in Forms
      BY DEF DeskSound, PageSound
<1>2. /\ UNCHANGED <<desk, page, form, state, ref>> /\ menu' = NoMenu
      /\ page.dialog = <<>> /\ menu.on # "basket" /\ Target # 0
      /\ Route(Target, venue) \/ UNCHANGED bookVars
      BY DEF PickRoute, Press, Event
<1>3. Draws
      BY <1>1, <1>2 DEF Draws, Menus
<1>4. CoreStep /\ Spares({Target})
  <2>1. CASE Route(Target, venue)
        BY <1>1, <2>1, RouteStep, RouteSpares
  <2>2. CASE UNCHANGED bookVars
        BY <1>1, <2>2, BookStutters DEF bookVars, Spares
  <2> QED BY <1>2, <2>1, <2>2
<1>5. Touches(Target)
      BY <1>1, <1>2, TargetIs
<1>6. \A i \in {Target} : i \in DOMAIN orders => Touches(i)
      BY <1>5
<1>7. OnlyTouched
      BY <1>2, <1>4, <1>6, CallGesture
<1> QED BY <1>3, <1>4, <1>7 DEF DeskStep

\* The toolbar and the basket's menu route the basket that they are about,
LEMMA PickRouteBasketStep ==
    ASSUME DeskSound, NEW b, NEW venue \in Venues, PickRouteBasket(b, venue)
    PROVE  DeskStep
<1>1. /\ CoreSound /\ desk = TRUE /\ state \in Selections /\ page \in Selections
      /\ ref \in Refs /\ menu \in Menus /\ form \in Forms
      BY DEF DeskSound, PageSound
<1>2. /\ UNCHANGED <<desk, page, form, state, ref>> /\ menu' = NoMenu
      /\ page.dialog = <<>> /\ RouteBasket(b, venue)
      /\ \/ menu.on = "nothing" /\ b = page.basket
         \/ menu.on = "basket" /\ b = menu.target
      BY DEF PickRouteBasket, Press, Event
<1>3. Draws
      BY <1>1, <1>2 DEF Draws, Menus
<1>4. CoreStep
      BY <1>1, <1>2, RouteBasketStep
<1> DEFINE S == InBasket(orders, b)
<1>5. Spares(S)
      BY <1>2, BasketSpares
<1>6. \A i \in S : Touches(i)
      BY <1>2 DEF InBasket, Touches
<1> HIDE DEF S
<1>7. OnlyTouched
      BY <1>2, <1>5, <1>6, CallGesture
<1> QED BY <1>3, <1>4, <1>7 DEF DeskStep

\* and the toolbar's buttons ask for a dialog of the basket.
LEMMA ToolbarDialogStep ==
    ASSUME DeskSound, NEW kind, ToolbarDialog(kind)
    PROVE  DeskStep
<1>1. /\ CoreSound /\ desk = TRUE /\ state \in Selections /\ page \in Selections
      /\ ref \in Refs /\ menu \in Menus /\ form \in Forms
      BY DEF DeskSound, PageSound
<1> DEFINE b == IF kind = "new_basket" THEN 0 ELSE page.basket
           d == <<kind, b>>
<1>2. /\ UNCHANGED <<desk, page, form, ref, menu>> /\ Quiet
      /\ kind \in BasketItems /\ state' = [state EXCEPT !.dialog = d]
      BY DEF ToolbarDialog, Press, Event, Asks, BasketItems
<1>3. b \in Nat
      BY <1>1 DEF Selections
<1>4. d \in Dialogs /\ d[1] \in BasketItems
      BY <1>2, <1>3 DEF Dialogs
<1> HIDE DEF b, d
<1>5. state' \in Selections /\ state'.dialog = d
      BY <1>1, <1>2, <1>4 DEF Selections
<1>6. Draws
      BY <1>1, <1>2, <1>5 DEF Draws
<1> QED BY <1>1, <1>2, <1>4, <1>5, <1>6, QuietStep

-----------------------------------------------------------------------------
\* The dialogs

\* The dialog of an order touches that order.
LEMMA NamedIs ==
    ASSUME PageSound, NEW kind \in OrderDialogs, page.dialog # <<>>, page.dialog[1] = kind
    PROVE  Named \in DOMAIN orders /\ Touches(Named)
<1>1. page.dialog \in Dialogs
      BY DEF PageSound, Selections
<1>2. /\ page.dialog = <<page.dialog[1], page.dialog[2]>>
      /\ page.dialog[1] \in OrderDialogs => page.dialog[2] \in DOMAIN orders
      BY <1>1, DialogIs
<1>3. kind # "cancel_basket"
      BY DEF OrderDialogs
<1> QED BY <1>2, <1>3 DEF Named, Touches

\* A dialog of an order whose button calls the core about that order, if it calls it.
LEMMA DialogStep ==
    ASSUME DeskSound, NEW kind \in OrderDialogs, Shows(kind),
           (CoreStep /\ Spares({Named})) \/ UNCHANGED bookVars,
           Closes \/ StaysOpen
    PROVE  DeskStep
<1>1. CoreSound /\ PageSound
      BY DEF DeskSound
<1>2. UNCHANGED <<desk, page, form>> /\ page.dialog # <<>> /\ page.dialog[1] = kind
      BY DEF Shows, Event
<1>3. Draws
      BY <1>1, <1>2, ClosesDraws
<1>4. CoreStep /\ Spares({Named})
  <2>1. CASE UNCHANGED bookVars
        BY <1>1, <2>1, BookStutters DEF bookVars, Spares
  <2> QED BY <2>1
<1>5. Touches(Named)
      BY <1>1, <1>2, NamedIs
<1>6. \A i \in {Named} : i \in DOMAIN orders => Touches(i)
      BY <1>5
<1>7. OnlyTouched
      BY <1>2, <1>4, <1>6, CallGesture
<1> QED BY <1>3, <1>4, <1>7 DEF DeskStep

\* [Save] of the Modify dialog sends what was typed or what the form shows.
LEMMA SaveModifyStep ==
    ASSUME DeskSound, NEW qty, NEW px, NEW tif, form # <<>>, SaveModify(qty, px, tif)
    PROVE  DeskStep
<1>1. CoreSound /\ PageSound
      BY DEF DeskSound
<1>2. /\ Shows("modify") /\ (Closes \/ StaysOpen)
      /\ Modify(Named, qty, px, tif) \/ UNCHANGED bookVars
      /\ qty \in NewQtys \cup {form.qty} /\ tif \in NewTifs \cup {form.tif}
      /\ px \in NewPrices \cup {form.limit} \cup {None}
      BY DEF SaveModify
<1>3. form \in AnyOrder
      BY <1>1 DEF PageSound, Forms
<1>4. /\ qty \in Int \cup {None} /\ px \in Given("limit") \cup NewPrices \cup {None}
      /\ tif \in Given("tif") \cup NewTifs \cup {None}
      BY <1>2, <1>3, CoreAssumption DEF AnyOrder
<1>5. Modify(Named, qty, px, tif) => CoreStep /\ Spares({Named})
      BY <1>1, <1>4, ModifyStep, ModifySpares
<1> QED BY <1>2, <1>5, DialogStep DEF OrderDialogs

\* [Split] splits evenly,
LEMMA SaveSplitStep ==
    ASSUME DeskSound, NEW slices \in {2, 3}, SaveSplit(slices)
    PROVE  DeskStep
<1>1. CoreSound
      BY DEF DeskSound
<1>2. /\ Shows("split") /\ (Closes \/ StaysOpen)
      /\ SplitEvenly(Named, slices) \/ UNCHANGED bookVars
      BY DEF SaveSplit
<1>3. SplitEvenly(Named, slices) => CoreStep /\ Spares({Named})
      BY <1>1, SplitEvenlyStep, SplitSpares
<1> QED BY <1>2, <1>3, DialogStep DEF OrderDialogs

\* and a confirmed cancel cancels the order,
LEMMA ConfirmCancelStep ==
    ASSUME DeskSound, ConfirmCancel
    PROVE  DeskStep
<1>1. CoreSound
      BY DEF DeskSound
<1>2. Shows("cancel") /\ Closes /\ (Cancel(Named) \/ UNCHANGED bookVars)
      BY DEF ConfirmCancel
<1>3. Cancel(Named) => CoreStep /\ Spares({Named})
      BY <1>1, CancelStep, CancelSpares
<1> QED BY <1>2, <1>3, DialogStep DEF OrderDialogs

\* or the basket.
LEMMA ConfirmCancelBasketStep ==
    ASSUME DeskSound, ConfirmCancelBasket
    PROVE  DeskStep
<1>1. CoreSound /\ PageSound
      BY DEF DeskSound
<1>2. /\ UNCHANGED <<desk, page, form>> /\ page.dialog # <<>>
      /\ page.dialog[1] = "cancel_basket" /\ CancelBasket(Named) /\ Closes
      BY DEF ConfirmCancelBasket, Shows, Event
<1>3. Draws
      BY <1>1, <1>2, ClosesDraws
<1>4. CoreStep
      BY <1>1, <1>2, CancelBasketStep
<1> DEFINE S == InBasket(orders, Named)
<1>5. Spares(S)
      BY <1>2, BasketSpares
<1>6. \A i \in S : Touches(i)
  <2>1. page.dialog = <<page.dialog[1], page.dialog[2]>>
        BY <1>1, <1>2, DialogIs DEF PageSound, Selections
  <2> QED BY <1>2, <2>1 DEF InBasket, Named, Touches
<1> HIDE DEF S
<1>7. OnlyTouched
      BY <1>2, <1>5, <1>6, CallGesture
<1> QED BY <1>3, <1>4, <1>7 DEF DeskStep

\* A ticket makes a basket or adds to one,
LEMMA SubmitTicketStep ==
    ASSUME DeskSound, NEW paste \in Pastes, NEW venue, SubmitTicket(paste, venue)
    PROVE  DeskStep
<1>1. CoreSound /\ PageSound
      BY DEF DeskSound
<1>2. /\ UNCHANGED <<desk, page, form>> /\ page.dialog # <<>>
      /\ Closes \/ StaysOpen
      /\ CreateBasket(paste) \/ \E b : AddOrders(b, paste)
      BY DEF SubmitTicket, Event
<1>3. Draws
      BY <1>1, <1>2, ClosesDraws
<1>4. CoreStep /\ Spares({})
      BY <1>1, <1>2, CreateBasketStep, AddOrdersStep
<1>5. OnlyTouched
      BY <1>2, <1>4, CallGesture
<1> QED BY <1>3, <1>4, <1>5 DEF DeskStep

\* and may route it in a second call.
LEMMA TicketRoutesStep ==
    ASSUME DeskSound, TicketRoutes
    PROVE  DeskStep
<1>1. CoreSound /\ PageSound
      BY DEF DeskSound
<1>2. /\ UNCHANGED <<desk, page, form, calls>> /\ Closes
      /\ RouteBasket(routing[1], routing[2])
      BY DEF TicketRoutes
<1>3. Draws
      BY <1>1, <1>2, ClosesDraws
<1>4. CoreStep
      BY <1>1, <1>2, RouteBasketStep
<1>5. state'.dialog = <<>>
      BY <1>1, <1>2 DEF Closes, PageSound, Selections
<1>6. OnlyTouched
      BY <1>2, <1>5, NoGesture
<1> QED BY <1>3, <1>4, <1>6 DEF DeskStep

\* A dialog that is closed does nothing,
LEMMA CloseDialogStep ==
    ASSUME DeskSound, CloseDialog
    PROVE  DeskStep
<1>1. CoreSound /\ PageSound
      BY DEF DeskSound
<1>2. UNCHANGED <<desk, page, form>> /\ Closes /\ Quiet
      BY DEF CloseDialog, Event
<1>3. Draws
      BY <1>1, <1>2, ClosesDraws
<1>4. state'.dialog = <<>>
      BY <1>1, <1>2 DEF Closes, PageSound, Selections
<1> QED BY <1>1, <1>2, <1>3, <1>4, QuietStep

\* and what was set is rendered, the form with the order as it is when its dialog opens.
LEMMA RenderStep ==
    ASSUME DeskSound, Render
    PROVE  DeskStep
<1>1. /\ CoreSound /\ PageSound /\ desk = TRUE /\ state \in Selections /\ page \in Selections
      /\ ref \in Refs /\ menu \in Menus /\ form \in Forms
      BY DEF DeskSound, PageSound
<1>2. /\ UNCHANGED <<coreVars, desk, state, ref, menu>> /\ page' = state
      /\ form' = IF state.dialog = <<>> \/ state.dialog[1] # "modify" THEN <<>>
                 ELSE IF page.dialog = state.dialog THEN form ELSE orders[state.dialog[2]]
      BY DEF Render
<1>3. form' \in Forms
  <2>1. CASE form' = <<>> \/ form' = form
        BY <1>1, <2>1 DEF Forms
  <2>2. CASE ~(form' = <<>> \/ form' = form)
    <3>1. /\ form' = orders[state.dialog[2]] /\ state.dialog # <<>>
          /\ state.dialog[1] = "modify"
          BY <1>2, <2>2
    <3>2. state.dialog[2] \in DOMAIN orders
          BY <1>1, <3>1, DialogIs DEF Selections, OrderDialogs
    <3> QED BY <1>1, <3>1, <3>2, OrderIs DEF Forms
  <2> QED BY <2>1, <2>2
<1>4. Draws
      BY <1>1, <1>2, <1>3 DEF Draws
<1>5. CoreStep
      BY <1>1, <1>2, CoreStutters
<1>6. OnlyTouched
      BY <1>2, NoGesture DEF coreVars
<1> QED BY <1>4, <1>5, <1>6 DEF DeskStep

\* The venue works on while the page is open.
LEMMA VenueActsStep ==
    ASSUME DeskSound, VenueActs
    PROVE  DeskStep
<1>1. /\ CoreSound /\ PageSound /\ desk = TRUE /\ state \in Selections /\ page \in Selections
      /\ ref \in Refs /\ menu \in Menus /\ form \in Forms
      BY DEF DeskSound, PageSound
<1>2. UNCHANGED <<desk, state, ref, page, form, menu>>
      BY DEF VenueActs, deskVars
<1>3. PICK i \in DOMAIN orders : Ack(i) \/ Reject(i) \/ Fill(i, 1)
      BY DEF VenueActs
<1>4. CoreStep
  <2>1. CASE Ack(i)
        BY <1>1, <2>1, AckStep
  <2>2. CASE Reject(i)
        BY <1>1, <2>2, RejectStep
  <2>3. CASE Fill(i, 1)
    <3> DEFINE one == 1
    <3>1. Fill(i, one) /\ one \in Int
          BY <2>3
    <3> HIDE DEF one
    <3> QED BY <1>1, <3>1, FillStep
  <2> QED BY <1>3, <2>1, <2>2, <2>3
<1>5. calls' = calls
      BY <1>3 DEF Ack, Reject, Fill, NoFill
<1>6. Draws
      BY <1>1, <1>2 DEF Draws
<1>7. OnlyTouched
      BY <1>2, <1>5, NoGesture
<1> QED BY <1>4, <1>6, <1>7 DEF DeskStep

-----------------------------------------------------------------------------
\* What holds at the dashboard

\* An order of the demo's books is one of ours,
LEMMA SeededIs ==
    ASSUME NEW book \in SeedBooks
    PROVE  book.orders \in Seq(AnyOrder)
<1> DEFINE os == book.orders
<1>1. os \in Seq(Order)
      BY DeskAssumption DEF SoundBook
<1>2. Len(os) \in Nat /\ DOMAIN os = 1..Len(os) /\ \A i \in DOMAIN os : os[i] \in Order
      BY <1>1, LenProperties, ElementOfSeq
<1>3. ASSUME NEW i \in DOMAIN os PROVE os[i] \in AnyOrder
  <2> DEFINE o == os[i]
  <2>1. o \in Order /\ o \in Seeded
        BY <1>2 DEF Seeded
  <2> HIDE DEF o
  <2>2. /\ o.side \in Given("side") /\ o.type \in Given("type")
        /\ o.limit \in Given("limit") /\ o.tif \in Given("tif")
        BY <2>1 DEF Given
  <2>3. o \in AnyOrder
        BY <2>1, <2>2 DEF Order, AnyOrder
  <2> QED BY <2>3 DEF o
<1>4. os \in [1..Len(os) -> AnyOrder]
  <2>1. os \in [1..Len(os) -> Order]
        BY <1>1, <1>2, LenProperties
  <2> HIDE DEF os
  <2> QED BY <1>2, <1>3, <2>1
<1> HIDE DEF os
<1>5. os \in Seq(AnyOrder)
      BY <1>2, <1>4, SeqDef
<1> QED BY <1>5 DEF os

\* and its executions are executions of its orders.
LEMMA SeededExecutions ==
    ASSUME NEW book \in SeedBooks
    PROVE  /\ book.executions \in Seq(Execution)
           /\ \A k \in DOMAIN book.executions : book.executions[k].order \in DOMAIN book.orders
<1> DEFINE os == book.orders
           ex == book.executions
           E  == [order : DOMAIN os, qty : Int]
<1>1. ex \in Seq(E)
      BY DeskAssumption DEF SoundBook
<1>2. DOMAIN os \subseteq Nat
  <2>1. os \in Seq(AnyOrder)
        BY SeededIs
  <2>2. Len(os) \in Nat /\ DOMAIN os = 1..Len(os)
        BY <2>1, OrderRows
  <2> QED BY <2>2
<1>3. E \subseteq Execution /\ \A e \in E : e.order \in DOMAIN os
      BY <1>2 DEF Execution
<1> HIDE DEF os, ex, E
<1>4. /\ Len(ex) \in Nat /\ DOMAIN ex = 1..Len(ex) /\ \A k \in DOMAIN ex : ex[k] \in E
      /\ ex \in [1..Len(ex) -> E]
      BY <1>1, LenProperties, ElementOfSeq
<1>5. ex \in [1..Len(ex) -> Execution]
      BY <1>3, <1>4
<1>6. ex \in Seq(Execution)
      BY <1>4, <1>5, SeqDef
<1> QED BY <1>3, <1>4, <1>6 DEF os, ex

\* The book that the demo leaves is sound,
LEMMA SeedIsSound ==
    ASSUME DeskInit
    PROVE  CoreSound
<1>1. PICK book \in SeedBooks :
        /\ orders = book.orders /\ shown = book.orders /\ baskets = book.baskets
        /\ executions = book.executions /\ halfModified = {}
      BY DEF DeskInit
<1>2. /\ book.baskets \in Seq({"STAGED", "WORKING", "DONE", "CANCELLED"})
      /\ \A i \in DOMAIN book.orders :
           LET o == book.orders[i]  ex == book.executions IN
           /\ o.basket \in DOMAIN book.baskets
           /\ o.filled = SumOf(ex, {k \in DOMAIN ex : ex[k].order = i}, "qty")
           /\ o.qty > 0 /\ o.filled <= o.qty
           /\ o.leaves = IF o.status \in Live THEN o.qty - o.filled ELSE 0
           /\ (o.status = "FILLED") <=> (o.filled = o.qty)
           /\ o.status = "NEW" => o.filled = 0
      /\ \A b \in DOMAIN book.baskets :
           Leaf(book.orders, b) # {} /\ book.baskets[b] = Rollup(book.orders, b)
      BY DeskAssumption DEF SoundBook
<1>3. orders \in Seq(AnyOrder) /\ shown = orders /\ executions \in Seq(Execution)
      /\ \A k \in DOMAIN executions : executions[k].order \in DOMAIN orders
      BY <1>1, SeededIs, SeededExecutions
<1>4. \A i \in DOMAIN orders :
           /\ orders[i].basket \in DOMAIN baskets
           /\ Fits(orders[i]) /\ orders[i].filled = ExecutedQty(i)
           /\ orders[i].status = "NEW" => orders[i].filled = 0
      BY <1>1, <1>2 DEF Fits, ExecutedQty
<1>5. CoreTypes
      BY <1>1, <1>2, <1>3, <1>4 DEF CoreTypes
<1>6. OrdersFit
      BY <1>4 DEF OrdersFit
<1>7. RowsFollow
  <2>1. ASSUME NEW i \in DOMAIN orders PROVE RowSound(orders[i])
    <3>1. orders[i].qty \in Int
          BY <1>3, OrderRows DEF AnyOrder
    <3> QED BY <1>4, <3>1 DEF RowSound, Fits, Live
  <2> QED BY <1>3, <2>1 DEF RowsFollow, Follows
<1>8. BasketsFollow
      BY <1>1, <1>2 DEF BasketsFollow
<1> QED BY <1>5, <1>6, <1>7, <1>8 DEF CoreSound

\* and so is the page that opens on it.
LEMMA DeskBegins ==
    ASSUME DeskInit
    PROVE  DeskSound
<1>1. CoreSound
      BY SeedIsSound
<1>2. /\ desk = TRUE /\ page = state /\ menu = NoMenu
      /\ ref = [basket |-> state.basket, order |-> state.order]
      /\ \/ /\ state = [basket |-> IF baskets = <<>> THEN 0 ELSE 1, order |-> 0, dialog |-> <<>>]
            /\ form = <<>>
         \/ \E i \in DOMAIN orders : \E kind \in Allowed(orders[i]) \ {"route"} :
              /\ state = [basket |-> orders[i].basket, order |-> i, dialog |-> <<kind, i>>]
              /\ form = IF kind = "modify" THEN orders[i] ELSE <<>>
      BY DEF DeskInit
<1>3. state \in Selections /\ form \in Forms
  <2>1. CASE /\ state = [basket |-> IF baskets = <<>> THEN 0 ELSE 1, order |-> 0,
                         dialog |-> <<>>]
             /\ form = <<>>
    <3> DEFINE d == <<>>
               b == IF baskets = <<>> THEN 0 ELSE 1
               none == 0
    <3>1. d \in Dialogs /\ b \in Nat /\ none \in Known
          BY DEF Dialogs, Known
    <3>2. state = [basket |-> b, order |-> none, dialog |-> d] /\ form \in Forms
          BY <2>1 DEF Forms
    <3> HIDE DEF d, b, none
    <3> QED BY <3>1, <3>2 DEF Selections
  <2>2. ASSUME NEW i \in DOMAIN orders, NEW kind \in Allowed(orders[i]) \ {"route"},
               state = [basket |-> orders[i].basket, order |-> i, dialog |-> <<kind, i>>],
               form = IF kind = "modify" THEN orders[i] ELSE <<>>
        PROVE  state \in Selections /\ form \in Forms
    <3> DEFINE d == <<kind, i>>
    <3>1. orders[i] \in AnyOrder /\ orders[i].basket \in Nat
          BY <1>1, OrderIs DEF AnyOrder
    <3>2. kind \in OrderDialogs
          BY DEF Allowed, OrderDialogs
    <3>3. d \in Dialogs /\ i \in Known
          BY <3>2 DEF Dialogs, Known
    <3>4. form \in Forms
          BY <2>2, <3>1 DEF Forms
    <3>5. state = [basket |-> orders[i].basket, order |-> i, dialog |-> d]
          BY <2>2
    <3> HIDE DEF d
    <3> QED BY <3>1, <3>3, <3>4, <3>5 DEF Selections
  <2> QED BY <1>2, <2>1, <2>2
<1>4. page \in Selections /\ ref \in Refs /\ menu \in Menus
      BY <1>2, <1>3 DEF Selections, Refs, Menus
<1> QED BY <1>1, <1>2, <1>3, <1>4 DEF DeskSound, PageSound

\* Every step at the dashboard is a step of one of these kinds.
LEMMA DeskSteps ==
    ASSUME DeskSound, [DeskNext]_desktopVars
    PROVE  DeskSound' /\ DeskStep
<1>1. ASSUME UNCHANGED desktopVars PROVE DeskStep
  <2>1. CoreSound /\ PageSound
        BY DEF DeskSound
  <2>2. CoreStep
        BY <1>1, <2>1, CoreStutters DEF desktopVars
  <2>3. UNCHANGED <<desk, page, form>> /\ UNCHANGED <<state, ref, menu>> /\ calls' = calls
        BY <1>1 DEF desktopVars, deskVars, coreVars
  <2>4. Draws
        BY <2>1, <2>3, ClosesDraws
  <2>5. OnlyTouched
        BY <2>3, NoGesture
  <2> QED BY <2>2, <2>4, <2>5 DEF DeskStep
<1>2. ASSUME DeskNext PROVE DeskStep
  <2>1. CASE \E b \in DOMAIN baskets : PressBasket(b)
        BY <2>1, PressBasketStep
  <2>2. CASE \E i \in {0} \cup DOMAIN orders : PressOrder(i) \/ OpenOrderMenu(i)
        BY <2>2, PressOrderStep, OpenOrderMenuStep DEF Known
  <2>3. CASE \E b \in {0} \cup DOMAIN baskets : OpenBasketMenu(b)
        BY <2>3, OpenBasketMenuStep
  <2>4. CASE \E kind \in {"modify", "split", "cancel", "add_orders", "cancel_basket"} :
               PickDialog(kind)
        BY <2>4, PickDialogStep
  <2>5. CASE \E venue \in Venues :
               PickRoute(venue) \/ \E b \in DOMAIN baskets : PickRouteBasket(b, venue)
        BY <2>5, PickRouteStep, PickRouteBasketStep
  <2>6. CASE \E kind \in {"new_basket", "add_orders", "cancel_basket"} : ToolbarDialog(kind)
        BY <2>6, ToolbarDialogStep
  <2>7. CASE \E qty \in 1..9, px \in 0..9 \cup {None}, tif \in Tifs :
               form # <<>> /\ SaveModify(qty, px, tif)
        BY <2>7, SaveModifyStep
  <2>8. CASE \E slices \in {2, 3} : SaveSplit(slices)
        BY <2>8, SaveSplitStep
  <2>9. CASE \E paste \in Pastes, venue \in Venues \cup {None} : SubmitTicket(paste, venue)
        BY <2>9, SubmitTicketStep
  <2>10. CASE ConfirmCancel \/ ConfirmCancelBasket \/ TicketRoutes \/ CloseDialog \/ Render
        BY <2>10, ConfirmCancelStep, ConfirmCancelBasketStep, TicketRoutesStep,
           CloseDialogStep, RenderStep
  <2>11. CASE VenueActs
        BY <2>11, VenueActsStep
  <2> QED BY <1>2, <2>1, <2>2, <2>3, <2>4, <2>5, <2>6, <2>7, <2>8, <2>9, <2>10, <2>11, Zenon
          DEF DeskNext, PageNext
<1>3. DeskStep
      BY <1>1, <1>2
<1>4. DeskSound'
      BY <1>3, DrawsSound DEF DeskStep, CoreStep, DeskSound
<1> QED BY <1>3, <1>4

\* The inductive invariant of the dashboard: the book is sound under the page's calls and a
\* venue's, and all that the page holds names orders that there are.
THEOREM DeskIsSound == DeskSpec => []DeskSound
<1>1. DeskInit => DeskSound
      BY DeskBegins
<1>2. DeskSound /\ [DeskNext]_desktopVars => DeskSound'
  <2> SUFFICES ASSUME DeskSound, [DeskNext]_desktopVars PROVE DeskSound'
      OBVIOUS
  <2> QED BY DeskSteps
<1> QED BY <1>1, <1>2, PTL DEF DeskSpec

\* At the dashboard, too, quantities add up and the tables show the core (dashboard.py: the
\* dialogs; core.py: fill, modify, split, _cancel; tables.py: on_order).
THEOREM DeskAddsUp == DeskSpec => [](QuantitiesAddUp /\ TablesAgree)
<1>1. DeskSound => QuantitiesAddUp /\ TablesAgree
      BY SoundAddsUp, SoundAgrees DEF DeskSound
<1> QED BY <1>1, DeskIsSound, PTL

\* An order that is done with stays as it is, whatever dialog was open on it, and a basket's
\* quantity changes only with new lines and modifications (dashboard.py: the dialogs; core.py:
\* _get_live_order, split).
THEOREM DeskKeeps == DeskSpec => DoneIsDone /\ SplitKeepsTotals
<1> DEFINE A == \A i \in DOMAIN orders :
                  orders[i].status \in Terminal \cup {"SPLIT"} => orders'[i] = orders[i]
           B == \A b \in DOMAIN baskets :
                  TotalQty(b)' # TotalQty(b) =>
                    \/ \E i \in DOMAIN orders : orders'[i].qty # orders[i].qty
                    \/ \E i \in DOMAIN orders' \ DOMAIN orders : orders'[i].parent = 0
<1>1. DeskSound /\ [DeskNext]_desktopVars => [A]_basketVars /\ [B]_basketVars
  <2> SUFFICES ASSUME DeskSound, [DeskNext]_desktopVars PROVE A /\ B
      OBVIOUS
  <2>1. Moves /\ KeepsTotals
        BY DeskSteps DEF DeskStep, CoreStep
  <2>2. A
        BY <2>1 DEF Moves, Done
  <2>3. B
        BY <2>1 DEF KeepsTotals, Requantified, NewLine
  <2> QED BY <2>2, <2>3
<1> HIDE DEF A, B
<1>2. DeskSpec => [][A]_basketVars /\ [][B]_basketVars
      BY <1>1, DeskIsSound, PTL DEF DeskSpec
<1>3. [][A]_basketVars => DoneIsDone
      BY DEF DoneIsDone, A
<1>4. [][B]_basketVars => SplitKeepsTotals
      BY DEF SplitKeepsTotals, B
<1> QED BY <1>2, <1>3, <1>4

\* A trader's gesture changes the order or the basket that the menu or the dialog names, or
\* asks for its dialog, whatever was selected meanwhile and however late the page is rendered
\* (dashboard.py: order_menu, route_action, basket_menu, the dialogs).
THEOREM GesturesActOnNamed == DeskSpec => ActsOnNamed
<1>1. DeskSound /\ [DeskNext]_desktopVars => [desk => OnlyTouched]_desktopVars
  <2> SUFFICES ASSUME DeskSound, [DeskNext]_desktopVars PROVE OnlyTouched
      OBVIOUS
  <2> QED BY DeskSteps DEF DeskStep
<1> QED BY <1>1, DeskIsSound, PTL DEF DeskSpec, ActsOnNamed

=============================================================================
