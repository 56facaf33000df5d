------------------------------ MODULE Arithmetic ------------------------------
(***************************************************************************)
(* Facts about numbers that the proofs about the components need.  Least   *)
(* stands in for induction, whose library theorem takes an operator: to    *)
(* prove something of every number, look at the least one it fails for.    *)
(***************************************************************************)
EXTENDS Integers, FiniteSetTheorems, TLAPS

\* A set of natural numbers that is not empty has a least one: 1..k shrinks with
\* k, and finite sets cannot shrink for ever.
LEMMA Least ==
    ASSUME NEW T \in SUBSET Nat, T # {}
    PROVE  \E m \in T : \A n \in T : m <= n
<1> DEFINE Up(k) == 1..k
           C == {Up(k) : k \in T}
<1>1. C # {} /\ C \subseteq FiniteSubsetsOf(Nat)
  <2>1. \A k \in T : Up(k) \in SUBSET Nat /\ IsFiniteSet(Up(k))
    BY FS_Interval
  <2> QED
    BY <2>1 DEF FiniteSubsetsOf
<1>2. PICK x \in C : \A y \in C : <<y, x>> \notin StrictSubsetOrdering(Nat)
  BY <1>1, WFMin, FS_StrictSubsetOrderingWellFounded, Zenon
<1>3. PICK m \in T : x = Up(m)
  BY <1>2
<1>4. ASSUME NEW n \in T, ~(m <= n) PROVE FALSE
  <2>1. Up(n) \subseteq Up(m) /\ Up(n) # Up(m)
    <3>1. m \in Up(m) /\ m \notin Up(n)
      BY <1>4
    <3> QED
      BY <1>4, <3>1
  <2>2. <<Up(n), Up(m)>> \in StrictSubsetOrdering(Nat)
    <3>1. Up(n) \in SUBSET Nat /\ Up(m) \in SUBSET Nat
      BY DEF Up
    <3> QED
      BY <2>1, <3>1 DEF StrictSubsetOrdering
  <2> QED
    BY <1>2, <1>3, <2>2
<1> QED
  BY <1>4

\* Functions that grow by the same amounts, as far as they are defined, grow by
\* the same amount altogether.
LEMMA SameDifferences ==
    ASSUME NEW n \in Nat, NEW g \in [0..n -> Int], NEW h \in [0..n -> Int],
           \A j \in 1..n : g[j] - g[j - 1] = h[j] - h[j - 1]
    PROVE  g[n] - g[0] = h[n] - h[0]
<1> DEFINE Bad == {k \in 0..n : g[k] - g[0] # h[k] - h[0]}
<1> SUFFICES ASSUME Bad # {} PROVE FALSE
  OBVIOUS
<1>1. PICK m \in Bad : \A k \in Bad : m <= k
  <2> HIDE DEF Bad
  <2>1. Bad \in SUBSET Nat
    BY DEF Bad
  <2> QED
    BY <2>1, Least
<1>2. m \in 1..n
  OBVIOUS
<1>3. m - 1 \in 0..n /\ m - 1 \notin Bad
  BY <1>1, <1>2
<1>4. g[m - 1] - g[0] = h[m - 1] - h[0] /\ g[m] - g[0] # h[m] - h[0]
  BY <1>3
<1>5. /\ g[m] \in Int /\ g[m - 1] \in Int /\ g[0] \in Int
      /\ h[m] \in Int /\ h[m - 1] \in Int /\ h[0] \in Int
  BY <1>2, <1>3
<1>6. g[m] - g[m - 1] = h[m] - h[m - 1]
  BY <1>2
<1> HIDE DEF Bad
<1>7. g[m] - g[0] = h[m] - h[0]
  <2> DEFINE a == g[m]
             b == g[m - 1]
             c == g[0]
             x == h[m]
             y == h[m - 1]
             z == h[0]
  <2>1. /\ a \in Int /\ b \in Int /\ c \in Int /\ x \in Int /\ y \in Int /\ z \in Int
        /\ b - c = y - z /\ a - b = x - y
    BY <1>4, <1>5, <1>6
  <2> HIDE DEF a, b, c, x, y, z
  <2>2. a - c = x - z
    BY <2>1
  <2> QED
    BY <2>2 DEF a, b, c, x, y, z
<1> QED
  BY <1>4, <1>7

-----------------------------------------------------------------------------
\* Division with a remainder.
LEMMA Divided == ASSUME NEW M \in Nat \ {0}, NEW a \in Int
  PROVE \E k \in Int : a = k * M + (a % M) /\ a % M \in 0..(M-1)
<1>1. a \div M \in Int
  OBVIOUS
<1>2. a = (a \div M) * M + (a % M) /\ a % M \in 0..(M-1)
  OBVIOUS
<1> QED
  BY <1>1, <1>2

\* The remainder is the only one of its size.
LEMMA OneRemainder == ASSUME NEW M \in Nat \ {0}, NEW k \in Int, NEW j \in Int, NEW r \in 0..(M-1), NEW s \in 0..(M-1),
   k * M + r = j * M + s PROVE r = s
<1>0. (k - j) * M = s - r
  OBVIOUS
<1>1. k = j \/ k - j >= 1 \/ j - k >= 1
  OBVIOUS
<1>2. CASE k - j >= 1
  <2>1. (k - j) * M >= M
    BY <1>2
  <2> QED BY <2>1, <1>0
<1>3. CASE j - k >= 1
  <2>1. (j - k) * M >= M
    BY <1>3
  <2>2. (j - k) * M = r - s
    BY <1>0
  <2> QED BY <2>1, <2>2
<1> QED BY <1>1, <1>2, <1>3, <1>0

\* A multiple of the divisor leaves the remainder alone.
LEMMA SameRemainder ==
    ASSUME NEW M \in Nat \ {0}, NEW x \in Int, NEW y \in Int, NEW k \in Int, x = y + k * M
    PROVE  x % M = y % M
<1>1. PICK i \in Int : x = i * M + (x % M) /\ x % M \in 0..(M - 1)
  BY Divided
<1>2. PICK j \in Int : y = j * M + (y % M) /\ y % M \in 0..(M - 1)
  BY Divided
<1> DEFINE r == x % M
           s == y % M
<1>3. r \in 0..(M - 1) /\ s \in 0..(M - 1) /\ x = i * M + r /\ y = j * M + s
  BY <1>1, <1>2
<1> HIDE DEF r, s
<1>4. (j + k) * M = j * M + k * M
  OBVIOUS
<1>5. i * M + r = (j + k) * M + s
  BY <1>3, <1>4
<1>6. r = s
  <2>1. j + k \in Int
    OBVIOUS
  <2>2. ASSUME NEW l \in Int, i * M + r = l * M + s PROVE r = s
    BY <1>3, <2>2, OneRemainder
  <2> QED
    BY <1>5, <2>1, <2>2
<1> QED
  BY <1>6 DEF r, s

\* Sums may be reduced before they are complete: a std::size_t that has wrapped
\* is as good as one that has not.
LEMMA AddAfterMod ==
    ASSUME NEW M \in Nat \ {0}, NEW a \in Int, NEW b \in Int
    PROVE  ((a % M) + b) % M = (a + b) % M
<1>1. PICK k \in Int : a = k * M + (a % M) /\ a % M \in 0..(M - 1)
  BY Divided
<1> DEFINE r == a % M
<1>2. r \in Int /\ a = k * M + r
  BY <1>1
<1> HIDE DEF r
<1>3. a + b \in Int /\ r + b \in Int /\ a + b = (r + b) + k * M
  BY <1>2
<1>4. (a + b) % M = (r + b) % M
  BY <1>2, <1>3, SameRemainder
<1> QED
  BY <1>4 DEF r

=============================================================================
