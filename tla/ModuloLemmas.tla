--------------------------- MODULE ModuloLemmas ---------------------------
(***************************************************************************)
(* Arithmetic modulo a positive number, for the rings of slots.             *)
(***************************************************************************)
EXTENDS Integers, TLAPS

\* Division with remainder, in both parts.
LEMMA DivMod ==
  ASSUME NEW n \in Nat \ {0}, NEW i \in Int
  PROVE  /\ i \div n \in Int
         /\ i % n \in 0..(n - 1)
         /\ i = n * (i \div n) + (i % n)
OBVIOUS

\* A larger quotient is a full divisor further on.
LEMMA MultipleStep ==
  ASSUME NEW n \in Nat \ {0}, NEW a \in Int, NEW b \in Int, a >= b + 1
  PROVE  n * a >= n * b + n
OBVIOUS

\* Quotient and remainder are determined by the number they make up.
LEMMA DivModUnique ==
  ASSUME NEW n \in Nat \ {0}, NEW i \in Int, NEW a \in Int,
         NEW r \in 0..(n - 1), i = n * a + r
  PROVE  i % n = r
<1> DEFINE b == i \div n
           s == i % n
<1>1. b \in Int /\ s \in 0..(n - 1) /\ i = n * b + s
  BY DivMod
<1> HIDE DEF b, s
<1>2. ~ (a >= b + 1)
  BY <1>1, MultipleStep
<1>3. ~ (b >= a + 1)
  BY <1>1, MultipleStep
<1>4. a = b
  BY <1>1, <1>2, <1>3
<1>5. s = r
  BY <1>1, <1>4
<1> QED
  BY <1>5 DEF s

\* Two numbers less than n apart with one remainder are equal.
LEMMA ModInjective ==
  ASSUME NEW n \in Nat \ {0}, NEW i \in Int, NEW j \in Int,
         i % n = j % n, i < j + n, j < i + n
  PROVE  i = j
<1> DEFINE a == i \div n
           b == j \div n
           r == i % n
<1>1. a \in Int /\ r \in 0..(n - 1) /\ i = n * a + r
  BY DivMod
<1>2. b \in Int /\ j = n * b + r
  BY DivMod
<1> HIDE DEF a, b, r
<1>3. ~ (a >= b + 1)
  BY <1>1, <1>2, MultipleStep
<1>4. ~ (b >= a + 1)
  BY <1>1, <1>2, MultipleStep
<1> QED
  BY <1>1, <1>2, <1>3, <1>4

\* Adding the divisor does not change the remainder.
LEMMA ModPeriodic ==
  ASSUME NEW n \in Nat \ {0}, NEW i \in Int
  PROVE  (i + n) % n = i % n
<1> DEFINE a == i \div n
           r == i % n
           j == i + n
<1>1. a \in Int /\ r \in 0..(n - 1) /\ i = n * a + r
  BY DivMod
<1> HIDE DEF a, r
<1>2. j \in Int /\ a + 1 \in Int /\ j = n * (a + 1) + r
  BY <1>1
<1> HIDE DEF j
<1>3. j % n = r
  BY <1>1, <1>2, DivModUnique
<1> QED
  BY <1>3 DEF j, r

\* A number in range is its own remainder.
LEMMA ModSmall ==
  ASSUME NEW n \in Nat \ {0}, NEW i \in 0..(n - 1)
  PROVE  i % n = i
<1>1. i \in Int /\ i = n * 0 + i
  OBVIOUS
<1> QED
  BY <1>1, DivModUnique

\* Reducing modulo a multiple first does not change the remainder.
LEMMA ModOfMod ==
  ASSUME NEW n \in Nat \ {0}, NEW k \in Nat \ {0}, NEW i \in Int
  PROVE  (i % (k * n)) % n = i % n
<1> DEFINE m == k * n
           q == i \div m
           r == i % m
           p == r \div n
           s == r % n
<1>1. m \in Nat \ {0}
  OBVIOUS
<1>2. q \in Int /\ r \in 0..(m - 1) /\ i = m * q + r
  BY <1>1, DivMod
<1>3. p \in Int /\ s \in 0..(n - 1) /\ r = n * p + s
  <2>1. r \in Int
    BY <1>1, <1>2
  <2> HIDE DEF r
  <2> QED
    BY <2>1, DivMod
<1> HIDE DEF q, r, p, s
<1>4. m * q = n * (k * q)
  BY <1>2
<1>5. k * q + p \in Int
  BY <1>2, <1>3
<1>6. i = n * (k * q + p) + s
  BY <1>2, <1>3, <1>4
<1>7. i % n = s
  BY <1>3, <1>5, <1>6, DivModUnique
<1> QED
  BY <1>7 DEF r, s

\* A summand can be reduced first.
LEMMA ModAdd ==
  ASSUME NEW n \in Nat \ {0}, NEW i \in Int, NEW j \in Int
  PROVE  ((i % n) + j) % n = (i + j) % n
<1> DEFINE a == i \div n
           r == i % n
           k == r + j
           b == k \div n
           s == k % n
<1>1. a \in Int /\ r \in 0..(n - 1) /\ i = n * a + r
  BY DivMod
<1> HIDE DEF a, r
<1>2. k \in Int
  BY <1>1
<1>3. b \in Int /\ s \in 0..(n - 1) /\ k = n * b + s
  <2> HIDE DEF k
  <2> QED
    BY <1>2, DivMod
<1>4. i + j = n * a + k /\ i + j \in Int
  BY <1>1
<1> HIDE DEF k, b, s
<1>5. n * a + (n * b + s) = n * (a + b) + s /\ a + b \in Int
  BY <1>1, <1>3
<1>6. i + j = n * (a + b) + s
  BY <1>3, <1>4, <1>5
<1>7. (i + j) % n = s
  BY <1>3, <1>4, <1>5, <1>6, DivModUnique
<1> QED
  BY <1>7 DEF s, k, r

\* The distance of two numbers less than n apart, from their remainders.
LEMMA ModDistance ==
  ASSUME NEW n \in Nat \ {0}, NEW i \in Int, NEW j \in Int, i - j \in 0..(n - 1)
  PROVE  ((i % n) + n - (j % n)) % n = i - j
<1> DEFINE a == i \div n
           r == i % n
           b == j \div n
           s == j % n
           k == r + n - s
<1>1. a \in Int /\ r \in 0..(n - 1) /\ i = n * a + r
  BY DivMod
<1>2. b \in Int /\ s \in 0..(n - 1) /\ j = n * b + s
  BY DivMod
<1> HIDE DEF a, r, b, s
<1>3. 1 - a + b \in Int /\ n * (1 - a + b) = n - n * a + n * b
  BY <1>1, <1>2
<1>4. k \in Int /\ k = n * (1 - a + b) + (i - j)
  BY <1>1, <1>2, <1>3
<1> HIDE DEF k
<1>5. k % n = i - j
  BY <1>3, <1>4, DivModUnique
<1> QED
  BY <1>5 DEF k, r, s
===========================================================================
