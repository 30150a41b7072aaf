----------------------------- MODULE Arithmetic -----------------------------
(***************************************************************************)
(* Arithmetic that the proofs about utils/math.c need: quotients and       *)
(* remainders, the words they are cut to, Newton's iteration for the       *)
(* square root, Euclid's algorithm, and powers by squaring.                *)
(***************************************************************************)
EXTENDS Integers, NaturalsInduction, WellFoundedInduction, TLAPS

(***************************************************************************)
(* Induction and recursion over the natural numbers, for a set and for a   *)
(* function where the library's theorems take operators.                   *)
(***************************************************************************)
LEMMA LeastNumber ==
  ASSUME NEW S \in SUBSET Nat, S # {}
  PROVE  \E x \in S : \A y \in S : x <= y
  <1>1. PICK x \in S : \A y \in S : <<y, x>> \notin OpToRel(<, Nat)
    BY NatLessThanWellFounded, WFMin, Zenon
  <1>2. \A y \in S : ~(y < x)
    BY <1>1 DEF OpToRel
  <1> QED  BY <1>2

LEMMA AllNumbers ==
  ASSUME NEW S \in SUBSET Nat, 0 \in S, \A n \in Nat : n \in S => n + 1 \in S
  PROVE  S = Nat
  <1> SUFFICES ASSUME Nat \ S # {} PROVE FALSE
    OBVIOUS
  <1>1. PICK n \in Nat \ S : \A m \in Nat \ S : n <= m
    BY LeastNumber
  <1>2. n - 1 \in Nat /\ ~(n <= n - 1) /\ n - 1 + 1 = n
    BY <1>1
  <1> QED  BY <1>1, <1>2

\* From a start in A, n steps of a function that stays in A.
StaysIn(A, start, step) == start \in A /\ \A n \in Nat, x \in A : step[<<n, x>>] \in A
Iterates(f, A, start, step) ==
  f \in [Nat -> A] /\ f[0] = start /\ \A n \in Nat : f[n + 1] = step[<<n, f[n]>>]

LEMMA Iteration ==
  ASSUME NEW A, NEW start, NEW step, StaysIn(A, start, step)
  PROVE  \E f : Iterates(f, A, start, step)
  <1> USE DEF StaysIn, Iterates
  <1> DEFINE Good(n, g) == /\ g \in [0..n -> A] /\ g[0] = start
                           /\ \A i \in 0..n-1 : g[i + 1] = step[<<i, g[i]>>]
             S == {n \in Nat : \E g : Good(n, g)}
  <1>1. 0 \in S
    <2> DEFINE g0 == [i \in 0..0 |-> start]
    <2>1. Good(0, g0)
      OBVIOUS
    <2> QED  BY <2>1
  <1>2. ASSUME NEW n \in Nat, n \in S PROVE n + 1 \in S
    <2>1. PICK g : Good(n, g)
      BY <1>2
    <2> DEFINE h == [i \in 0..n+1 |-> IF i = n + 1 THEN step[<<n, g[n]>>] ELSE g[i]]
    <2>2. step[<<n, g[n]>>] \in A
      <3>1. g[n] \in A
        BY <2>1
      <3> QED  BY <3>1
    <2>3. h \in [0..n+1 -> A]
      BY <2>1, <2>2
    <2>4. h[0] = start
      BY <2>1
    <2>5. \A i \in 0..n : h[i + 1] = step[<<i, h[i]>>]
      <3>1. ASSUME NEW i \in 0..n-1 PROVE h[i + 1] = step[<<i, h[i]>>]
        BY <2>1
      <3>2. h[n + 1] = step[<<n, h[n]>>]
        <4>1. n + 1 \in 0..n+1 /\ n \in 0..n+1 /\ n # n + 1
          OBVIOUS
        <4> QED  BY <4>1
      <3>3. \A i \in 0..n : i \in 0..n-1 \/ i = n
        OBVIOUS
      <3> HIDE DEF h
      <3> QED  BY <3>1, <3>2, <3>3
    <2> HIDE DEF h
    <2>6. Good(n + 1, h)
      BY <2>3, <2>4, <2>5
    <2> QED  BY <2>6
  <1>3. S = Nat
    <2> HIDE DEF S
    <2>1. S \in SUBSET Nat
      BY DEF S
    <2> QED  BY <1>1, <1>2, <2>1, AllNumbers
  \* Two of them agree where both are defined.
  <1>4. ASSUME NEW n \in Nat, NEW m \in Nat, n <= m, NEW g, NEW h, Good(n, g), Good(m, h)
        PROVE  \A i \in 0..n : g[i] = h[i]
    <2> DEFINE T == {i \in Nat : i <= n => g[i] = h[i]}
    <2>1. 0 \in T
      BY <1>4
    <2>2. ASSUME NEW i \in Nat, i \in T PROVE i + 1 \in T
      <3> SUFFICES ASSUME i + 1 <= n PROVE g[i + 1] = h[i + 1]
        OBVIOUS
      <3>1. i \in 0..n-1 /\ i \in 0..m-1 /\ g[i] = h[i]
        BY <1>4, <2>2
      <3> QED  BY <1>4, <3>1
    <2>3. T = Nat
      <3> HIDE DEF T
      <3>1. T \in SUBSET Nat
        BY DEF T
      <3> QED  BY <2>1, <2>2, <3>1, AllNumbers
    <2> QED  BY <2>3
  <1> DEFINE Chosen(n) == CHOOSE g : Good(n, g)
             f == [n \in Nat |-> Chosen(n)[n]]
  <1>5. ASSUME NEW n \in Nat PROVE Good(n, Chosen(n))
    <2>1. \E g : Good(n, g)
      BY <1>3
    <2> HIDE DEF Good
    <2> QED  BY <2>1
  <1> HIDE DEF Chosen
  <1>6. f \in [Nat -> A] /\ f[0] = start
    BY <1>5
  <1>7. ASSUME NEW n \in Nat PROVE f[n + 1] = step[<<n, f[n]>>]
    <2>1. Chosen(n + 1)[n + 1] = step[<<n, Chosen(n + 1)[n]>>]
      BY <1>5
    <2>2. Chosen(n)[n] = Chosen(n + 1)[n]
      <3>1. Good(n, Chosen(n)) /\ Good(n + 1, Chosen(n + 1)) /\ n <= n + 1 /\ n + 1 \in Nat
        BY <1>5
      <3> HIDE DEF Good
      <3> QED  BY <1>4, <3>1
    <2> QED  BY <2>1, <2>2
  <1> HIDE DEF f
  <1> QED  BY <1>6, <1>7

(***************************************************************************)
(* The folds of the community modules recurse over the sets of places of   *)
(* a sequence, taking the last place of each.  What they compute is again  *)
(* reached step by step.                                                   *)
(***************************************************************************)
FoldsUp(iter, A, n, start, step) ==
  /\ iter \in [SUBSET (1..n) -> A]
  /\ iter[{}] = start
  /\ \A t \in SUBSET (1..n), x \in 1..n :
       x \in t /\ (\A y \in t : y <= x) => iter[t] = step[<<x, iter[t \ {x}]>>]

LEMMA Folding ==
  ASSUME NEW A, NEW start, NEW step, StaysIn(A, start, step), NEW n \in Nat
  PROVE  \E iter : FoldsUp(iter, A, n, start, step)
  <1> DEFINE S == {k \in Nat : \E iter : FoldsUp(iter, A, k, start, step)}
  <1>1. 0 \in S
    <2> DEFINE g == [t \in SUBSET (1..0) |-> start]
    <2>1. 1..0 = {}
      OBVIOUS
    <2>2. FoldsUp(g, A, 0, start, step)
      BY <2>1 DEF FoldsUp, StaysIn
    <2> QED  BY <2>2
  <1>2. ASSUME NEW k \in Nat, k \in S PROVE k + 1 \in S
    <2>1. PICK g : FoldsUp(g, A, k, start, step)
      BY <1>2
    <2>2. \A t \in SUBSET (1..k+1) :
            /\ k + 1 \in t => t \ {k + 1} \in SUBSET (1..k)
            /\ k + 1 \notin t => t \in SUBSET (1..k)
      OBVIOUS
    <2> DEFINE h == [t \in SUBSET (1..k+1) |->
                       IF k + 1 \in t THEN step[<<k + 1, g[t \ {k + 1}]>>] ELSE g[t]]
    <2>3. h \in [SUBSET (1..k+1) -> A]
      <3>1. \A t \in SUBSET (1..k) : g[t] \in A
        BY <2>1 DEF FoldsUp
      <3>2. \A t \in SUBSET (1..k) : step[<<k + 1, g[t]>>] \in A
        BY <3>1 DEF StaysIn
      <3> QED  BY <2>2, <3>1, <3>2
    <2>4. h[{}] = start
      BY <2>1 DEF FoldsUp
    <2>5. ASSUME NEW t \in SUBSET (1..k+1), NEW x \in 1..k+1, x \in t, \A y \in t : y <= x
          PROVE  h[t] = step[<<x, h[t \ {x}]>>]
      <3>1. CASE k + 1 \in t
        <4>1. x = k + 1
          BY <3>1, <2>5
        <4>2. t \ {x} \in SUBSET (1..k+1) /\ k + 1 \notin t \ {x}
          BY <4>1
        <4>3. h[t \ {x}] = g[t \ {x}]
          BY <4>2
        <4> QED  BY <3>1, <4>1, <4>3
      <3>2. CASE k + 1 \notin t
        <4>1. t \in SUBSET (1..k) /\ x \in 1..k
          BY <3>2, <2>2, <2>5
        <4>2. t \ {x} \in SUBSET (1..k+1) /\ k + 1 \notin t \ {x}
          BY <3>2
        <4>3. h[t] = g[t] /\ h[t \ {x}] = g[t \ {x}]
          BY <3>2, <4>2
        <4>4. g[t] = step[<<x, g[t \ {x}]>>]
          BY <4>1, <2>1, <2>5 DEF FoldsUp
        <4> QED  BY <4>3, <4>4
      <3> QED  BY <3>1, <3>2
    <2> HIDE DEF h
    <2>6. FoldsUp(h, A, k + 1, start, step)
      BY <2>3, <2>4, <2>5 DEF FoldsUp
    <2> QED  BY <2>6
  <1>3. S = Nat
    <2> HIDE DEF S
    <2>1. S \in SUBSET Nat
      BY DEF S
    <2> QED  BY <1>1, <1>2, <2>1, AllNumbers
  <1> QED  BY <1>3
-----------------------------------------------------------------------------
(***************************************************************************)
(* Products, quotients and remainders.                                     *)
(***************************************************************************)
LEMMA Quotient ==
  ASSUME NEW x \in Nat, NEW d \in Nat \ {0}
  PROVE  x \div d \in Nat /\ x % d \in 0..d-1 /\ x = d * (x \div d) + (x % d)
  BY SMT

LEMMA ProductOfNats == ASSUME NEW x \in Nat, NEW y \in Nat PROVE x * y \in Nat /\ x * y = y * x
  BY SMT

LEMMA ProductGrows ==
  ASSUME NEW x \in Nat, NEW y \in Nat, NEW z \in Nat, y <= z
  PROVE  x * y <= x * z
  BY SMT

LEMMA ProductPositive ==
  ASSUME NEW x \in Nat, NEW y \in Nat, x * y # 0
  PROVE  x # 0 /\ y # 0
  BY SMT

LEMMA PositiveProduct ==
  ASSUME NEW x \in Nat \ {0}, NEW y \in Nat \ {0}
  PROVE  x * y \in Nat \ {0} /\ x <= x * y /\ y <= x * y
  BY SMT

\* Quotient and remainder are the only numbers that behave as they do.
LEMMA QuotientUnique ==
  ASSUME NEW x \in Nat, NEW d \in Nat \ {0}, NEW q \in Nat, NEW m \in 0..d-1, x = d * q + m
  PROVE  x \div d = q /\ x % d = m
  BY SMT
-----------------------------------------------------------------------------
(***************************************************************************)
(* Newton's iteration for the square root of x: the next estimate is the   *)
(* mean of r and of x over r.                                              *)
(***************************************************************************)
LEMMA NewtonSum ==
  ASSUME NEW x \in Nat \ {0}, NEW r \in 1..x
  PROVE  x \div r \in 1..x /\ r + x \div r \in 2..x+1
  <1> DEFINE q == x \div r
             m == x % r
  <1>1. q \in Nat /\ m \in 0..r-1 /\ x = r * q + m
    BY Quotient
  <1> HIDE DEF q, m
  <1>2. q # 0
    BY <1>1
  <1>3. (r - 1) * (q - 1) \in Nat /\ (r - 1) * (q - 1) = r * q - r - q + 1
    BY <1>1, <1>2
  <1>4. r * q \in Nat /\ r * q <= x
    BY <1>1
  <1>5. PICK p \in Nat : p = r * q
    BY <1>4
  <1>6. p - r - q + 1 \in Nat /\ p <= x
    BY <1>3, <1>4, <1>5
  <1>7. r + q <= x + 1 /\ r + q >= 2
    BY <1>1, <1>2, <1>6
  <1>8. q <= x
    BY <1>1, <1>7
  <1> QED  BY <1>1, <1>2, <1>7, <1>8 DEF q

\* The mean is never below the root, but for what the division cut off.
LEMMA NewtonAbove ==
  ASSUME NEW x \in Nat \ {0}, NEW r \in 1..x, NEW next \in Nat,
         next = (r + x \div r) \div 2
  PROVE  x < (next + 1) * (next + 1)
  <1> DEFINE q == x \div r
             m == x % r
  <1>1. q \in Nat /\ m \in 0..r-1 /\ x = r * q + m
    <2>1. r \in Nat \ {0}
      OBVIOUS
    <2> QED  BY ONLY <2>1, Quotient
  <1> HIDE DEF q, m
  <1>2. 2 * (next + 1) >= r + q + 1
    BY <1>1 DEF q
  <1>3. x < r * (q + 1)
    BY <1>1
  <1> DEFINE t == q + 1
             u == next + 1
  <1>4. t \in Nat /\ u \in Nat /\ r + t <= 2 * u /\ x < r * t
    BY <1>1, <1>2, <1>3
  <1> HIDE DEF t, u
  <1>5. (r + t) * (r + t) <= (2 * u) * (2 * u)
    <2>1. ASSUME NEW y \in Nat, NEW z \in Nat, y <= z PROVE y * y <= z * z
      BY <2>1, SMT
    <2>2. r + t \in Nat /\ 2 * u \in Nat
      BY <1>4
    <2> QED  BY <1>4, <2>1, <2>2
  <1>6. 4 * (r * t) <= (r + t) * (r + t)
    <2>1. (r - t) * (r - t) >= 0
      BY <1>4, SMT
    <2>2. (r + t) * (r + t) = (r - t) * (r - t) + 4 * (r * t)
      BY <1>4, SMT
    <2>3. (r - t) * (r - t) \in Int /\ r * t \in Int
      BY <1>4, SMT
    <2> QED  BY <2>1, <2>2, <2>3
  <1>7. (2 * u) * (2 * u) = 4 * (u * u)
    BY <1>4, SMT
  <1>8. r * t \in Nat /\ u * u \in Nat /\ (r + t) * (r + t) \in Nat
    BY <1>4, SMT
  <1>9. r * t <= u * u
    BY <1>5, <1>6, <1>7, <1>8
  <1> QED  BY <1>4, <1>8, <1>9 DEF u

\* An estimate that the mean does not lower is at most the root.
LEMMA NewtonStops ==
  ASSUME NEW x \in Nat \ {0}, NEW r \in 1..x, (r + x \div r) \div 2 >= r
  PROVE  r * r <= x
  <1> DEFINE q == x \div r
             m == x % r
  <1>1. q \in Nat /\ m \in 0..r-1 /\ x = r * q + m
    <2>1. r \in Nat \ {0}
      OBVIOUS
    <2> QED  BY ONLY <2>1, Quotient
  <1> HIDE DEF q, m
  <1>2. q >= r
    BY <1>1 DEF q
  <1>3. r * r <= r * q
    BY <1>1, <1>2, ProductGrows
  <1>4. r * q \in Nat /\ r * r \in Nat
    BY <1>1, SMT
  <1> QED  BY <1>1, <1>3, <1>4
-----------------------------------------------------------------------------
(***************************************************************************)
(* Divisors.                                                               *)
(***************************************************************************)
LEMMA DividesIff ==
  ASSUME NEW d \in Nat \ {0}, NEW n \in Nat
  PROVE  n % d = 0 <=> \E q \in Nat : n = d * q
  <1>1. ASSUME n % d = 0 PROVE \E q \in Nat : n = d * q
    <2>1. n \div d \in Nat /\ n = d * (n \div d) + (n % d)
      BY Quotient
    <2>2. d * (n \div d) \in Nat
      BY <2>1, ProductOfNats
    <2>3. n = d * (n \div d)
      BY <1>1, <2>1, <2>2
    <2> QED  BY <2>1, <2>3
  <1>2. ASSUME NEW q \in Nat, n = d * q PROVE n % d = 0
    <2>1. 0 \in 0..d-1 /\ n = d * q + 0
      BY <1>2, ProductOfNats
    <2> QED  BY <2>1, QuotientUnique
  <1> QED  BY <1>1, <1>2

\* The divisors of b and of a number are those of b and of its remainder.
LEMMA EuclidDivisors ==
  ASSUME NEW a \in Nat, NEW b \in Nat \ {0}, NEW d \in Nat \ {0}, b % d = 0
  PROVE  a % d = 0 <=> (a % b) % d = 0
  <1> DEFINE q == a \div b
             m == a % b
  <1>1. q \in Nat /\ m \in 0..b-1 /\ a = b * q + m
    BY Quotient
  <1> HIDE DEF q, m
  <1>2. PICK k \in Nat : b = d * k
    BY DividesIff
  <1>3. b * q = d * (k * q) /\ k * q \in Nat
    BY <1>1, <1>2, SMT
  <1>4. PICK j \in Nat : j = k * q /\ b * q = d * j
    BY <1>3
  <1>5. a = d * j + m
    BY <1>1, <1>4
  <1>6. ASSUME NEW i \in Nat, m = d * i PROVE a = d * (j + i) /\ j + i \in Nat
    BY <1>5, <1>6, SMT
  <1>7. ASSUME NEW i \in Nat, a = d * i PROVE \E l \in Nat : m = d * l
    <2>1. m = d * (i - j) /\ i - j \in Int
      BY <1>1, <1>5, <1>7, SMT
    <2>2. i - j \in Nat
      BY <1>1, <2>1, SMT
    <2> WITNESS i - j \in Nat
    <2> QED  BY <2>1
  <1>8. a % d = 0 <=> m % d = 0
    <2>1. a % d = 0 <=> \E i \in Nat : a = d * i
      BY DividesIff
    <2>2. m % d = 0 <=> \E i \in Nat : m = d * i
      <3>1. m \in Nat
        BY <1>1
      <3> QED  BY <3>1, DividesIff
    <2>3. ASSUME NEW i \in Nat, m = d * i PROVE \E l \in Nat : a = d * l
      BY <1>6, <2>3, Zenon
    <2> QED  BY <1>7, <2>1, <2>2, <2>3, Zenon
  <1> QED  BY <1>8 DEF m

Combination(x, a, b) == \E i, j \in Int : x = i * a + j * b

\* The step of Euclid's algorithm on a combination of a and b.
LEMMA EuclidCombination ==
  ASSUME NEW a \in Nat, NEW b \in Nat, NEW x \in Nat, NEW y \in Nat \ {0},
         Combination(x, a, b), Combination(y, a, b)
  PROVE  Combination(x % y, a, b)
  <1>a. PICK u \in Int, v \in Int : x = u * a + v * b
    BY DEF Combination
  <1>b. PICK s \in Int, t \in Int : y = s * a + t * b
    BY DEF Combination
  <1> DEFINE q == x \div y
             m == x % y
  <1>1. q \in Nat /\ m \in 0..y-1 /\ x = y * q + m
    <2>1. q \in Nat /\ m \in 0..y-1 /\ x = y * q + m
      BY ONLY Quotient
    <2> QED  BY <2>1
  <1> HIDE DEF q, m
  <1>2. m = x - y * q
    BY <1>1
  <1>3. y * q = (s * q) * a + (t * q) * b /\ s * q \in Int /\ t * q \in Int
    BY <1>1, <1>b, SMT
  <1>4. PICK i \in Int, j \in Int : i = s * q /\ j = t * q
    BY <1>3
  <1>5. m = (u * a + v * b) - (i * a + j * b)
    BY <1>2, <1>3, <1>4, <1>a
  <1>6. m = (u - i) * a + (v - j) * b
    BY <1>5, SMT
  <1>7. x % y = (u - i) * a + (v - j) * b
    BY <1>6 DEF m
  <1>8. \E h, k \in Int : x % y = h * a + k * b
    <2> WITNESS u - i \in Int, v - j \in Int
    <2> QED  BY <1>7
  <1> QED  BY <1>8 DEF Combination

\* What is a combination of a and b and divides both gives their least
\* common multiple.
IsLeastMultiple(l, a, b) ==
  /\ l \in 1..a*b /\ l % a = 0 /\ l % b = 0
  /\ \A m \in Nat \ {0} : m % a = 0 /\ m % b = 0 => l <= m

LEMMA LeastMultiple ==
  ASSUME NEW a \in Nat \ {0}, NEW b \in Nat \ {0}, NEW g \in Nat \ {0},
         a % g = 0, b % g = 0, Combination(g, a, b)
  PROVE  IsLeastMultiple((a * b) \div g, a, b)
  <1>a. PICK u \in Int, v \in Int : g = u * a + v * b
    BY DEF Combination
  <1> DEFINE l == (a * b) \div g
  <1>1. PICK c \in Nat : a = g * c
    BY DividesIff
  <1>2. PICK d \in Nat : b = g * d
    BY DividesIff
  <1>3. c # 0 /\ d # 0
    BY <1>1, <1>2, SMT
  <1>4. a * b = g * (c * b) /\ c * b = a * d /\ c * b \in Nat
    <2>1. a * b = (g * c) * b
      BY <1>1
    <2>2. (g * c) * b = g * (c * b)
      BY SMT
    <2>3. a * d = (g * c) * d
      BY <1>1
    <2>4. (g * c) * d = c * (g * d)
      BY SMT
    <2>5. c * (g * d) = c * b
      BY <1>2
    <2> QED  BY <2>1, <2>2, <2>3, <2>4, <2>5, ProductOfNats
  <1>5. PICK k \in Nat : k = c * b
    BY <1>4
  <1>6. l = k
    <2>1. a * b = g * k + 0 /\ 0 \in 0..g-1 /\ a * b \in Nat
      BY <1>4, <1>5, ProductOfNats
    <2> QED  BY <2>1, QuotientUnique
  <1>7. k % b = 0 /\ k % a = 0
    <2>1. k = b * c /\ k = a * d
      BY <1>4, <1>5, ProductOfNats
    <2> QED  BY <2>1, DividesIff
  <1>8. k \in 1..a*b
    <2>1. k # 0
      BY <1>3, <1>5, SMT
    <2>2. k <= g * k
      BY SMT
    <2>3. g * k \in Nat /\ a * b = g * k
      BY <1>4, <1>5, ProductOfNats
    <2> QED  BY <2>1, <2>2, <2>3
  <1>9. ASSUME NEW m \in Nat \ {0}, m % a = 0, m % b = 0 PROVE k <= m
    <2>1. PICK p \in Nat : m = a * p
      BY <1>9, DividesIff
    <2>2. PICK q \in Nat : m = b * q
      BY <1>9, DividesIff
    <2> DEFINE w == u * q + v * p
    <2>3. w \in Int
      BY SMT
    <2>4. g * m = (a * b) * w
      <3>1. g * m = u * (a * m) + v * (b * m)
        <4>1. g * m = (u * a + v * b) * m
          BY <1>a
        <4>2. (u * a + v * b) * m = u * (a * m) + v * (b * m)
          BY SMT
        <4> QED  BY <4>1, <4>2
      <3>2. a * m = a * (b * q) /\ b * m = b * (a * p)
        BY <2>1, <2>2
      <3>3. u * (a * (b * q)) + v * (b * (a * p)) = (a * b) * w
        BY SMT
      <3> QED  BY <3>1, <3>2, <3>3
    <2> HIDE DEF w
    <2>5. g * m = g * (k * w)
      <3>1. (a * b) * w = (g * k) * w
        BY <1>4, <1>5
      <3>2. (g * k) * w = g * (k * w)
        BY <2>3, SMT
      <3> QED  BY <2>4, <3>1, <3>2
    <2>6. m = k * w
      <3>1. k * w \in Int
        BY <2>3, SMT
      <3>2. PICK z \in Int : z = k * w
        BY <3>1
      <3>3. g * m = g * z
        BY <2>5, <3>2
      <3>4. m = z
        BY <3>3, SMT
      <3> QED  BY <3>2, <3>4
    <2>7. w >= 1
      BY <2>3, <2>6, SMT
    <2> QED  BY <2>3, <2>6, <2>7, SMT
  <1> QED  BY <1>6, <1>7, <1>8, <1>9 DEF IsLeastMultiple
-----------------------------------------------------------------------------
(***************************************************************************)
(* Powers in words of w values.                                            *)
(***************************************************************************)
LEMMA ReduceFactor ==
  ASSUME NEW w \in Nat \ {0}, NEW x \in Nat, NEW y \in Nat
  PROVE  ((x % w) * y) % w = (x * y) % w
  <1>1. PICK q \in Nat, m \in 0..w-1 : x = w * q + m /\ x % w = m
    BY Quotient
  <1>2. PICK p \in Nat : p = m * y
    BY ProductOfNats
  <1>3. PICK k \in Nat, r \in 0..w-1 : p = w * k + r /\ p % w = r
    BY Quotient
  <1>4. x * y = w * (q * y + k) + r
    <2>1. x * y = w * (q * y) + m * y
      BY <1>1, SMT
    <2>2. w * (q * y) + w * k = w * (q * y + k)
      BY SMT
    <2>3. w * (q * y) \in Nat /\ w * k \in Nat
      BY SMT
    <2> QED  BY <1>2, <1>3, <2>1, <2>2, <2>3
  <1>5. q * y + k \in Nat /\ x * y \in Nat
    BY SMT
  <1>6. (x * y) % w = r
    BY <1>4, <1>5, QuotientUnique
  <1> QED  BY <1>1, <1>2, <1>3, <1>6

IsPower(f, a, w) == f = [n \in Nat |-> IF n = 0 THEN 1 ELSE (f[n-1] * a) % w]

LEMMA PowersExist ==
  ASSUME NEW w \in Nat \ {0}, NEW a \in Nat
  PROVE  \E f : IsPower(f, a, w)
  <1> DEFINE step == [p \in Nat \X Nat |-> (p[2] * a) % w]
  <1>1. step \in [Nat \X Nat -> Nat]
    <2>1. ASSUME NEW p \in Nat \X Nat PROVE (p[2] * a) % w \in Nat
      <3>1. PICK y \in Nat : y = p[2] * a
        BY ProductOfNats
      <3>2. y % w \in 0..w-1
        BY Quotient
      <3> QED  BY <3>1, <3>2
    <2> QED  BY <2>1
  <1>2. \A n \in Nat, x \in Nat : step[<<n, x>>] = (x * a) % w
    OBVIOUS
  <1> HIDE DEF step
  <1>3. PICK f : Iterates(f, Nat, 1, step)
    <2>1. StaysIn(Nat, 1, step)
      BY <1>1 DEF StaysIn
    <2> QED  BY <2>1, Iteration
  <1>4. ASSUME NEW n \in Nat PROVE f[n] = IF n = 0 THEN 1 ELSE (f[n-1] * a) % w
    <2>1. CASE n # 0
      <3>1. n - 1 \in Nat /\ n - 1 + 1 = n
        BY <2>1
      <3>2. f[n] = (f[n-1] * a) % w
        BY <1>2, <1>3, <3>1 DEF Iterates
      <3> QED  BY <2>1, <3>2
    <2> QED  BY <1>3, <2>1 DEF Iterates
  <1>5. f = [n \in Nat |-> IF n = 0 THEN 1 ELSE (f[n-1] * a) % w]
    BY <1>3, <1>4 DEF Iterates
  <1> QED  BY <1>5 DEF IsPower

LEMMA PowerValues ==
  ASSUME NEW w \in Nat \ {0, 1}, NEW a \in Nat, NEW f, IsPower(f, a, w)
  PROVE  /\ f[0] = 1 /\ \A n \in Nat : f[n] \in 0..w-1
         /\ \A n \in Nat : f[n + 1] = (f[n] * a) % w
  <1>0. ASSUME NEW n \in Nat PROVE f[n] = IF n = 0 THEN 1 ELSE (f[n-1] * a) % w
    BY DEF IsPower
  <1>1. f[0] = 1
    BY <1>0
  <1>2. \A n \in Nat : f[n + 1] = (f[n] * a) % w
    <2>1. ASSUME NEW n \in Nat PROVE f[n + 1] = (f[n] * a) % w
      <3>1. n + 1 \in Nat /\ n + 1 # 0 /\ n + 1 - 1 = n
        OBVIOUS
      <3> QED  BY <1>0, <3>1
    <2> QED  BY <2>1
  <1> DEFINE S == {n \in Nat : f[n] \in 0..w-1}
  <1>3. 0 \in S
    BY <1>1
  <1>4. ASSUME NEW n \in Nat, n \in S PROVE n + 1 \in S
    <2>1. PICK y \in Nat : y = f[n] * a
      BY <1>4, ProductOfNats
    <2>2. y % w \in 0..w-1
      BY Quotient
    <2> QED  BY <1>2, <2>1, <2>2
  <1>5. S = Nat
    <2> HIDE DEF S
    <2>1. S \in SUBSET Nat
      BY DEF S
    <2> QED  BY <1>3, <1>4, <2>1, AllNumbers
  <1> QED  BY <1>1, <1>2, <1>5

\* The square has half the exponent.
LEMMA PowerOfSquare ==
  ASSUME NEW w \in Nat \ {0, 1}, NEW a \in Nat, NEW f, NEW g,
         IsPower(f, a, w), IsPower(g, (a * a) % w, w)
  PROVE  \A n \in Nat : f[2 * n] = g[n]
  <1>0. PICK c \in Nat : c = (a * a) % w
    <2>1. a * a \in Nat
      BY ProductOfNats
    <2> QED  BY <2>1, Quotient
  <1>1. /\ f[0] = 1 /\ \A n \in Nat : f[n] \in 0..w-1
        /\ \A n \in Nat : f[n + 1] = (f[n] * a) % w
    BY PowerValues
  <1>2. g[0] = 1 /\ \A n \in Nat : g[n + 1] = (g[n] * c) % w
    BY <1>0, PowerValues
  <1> DEFINE S == {n \in Nat : f[2 * n] = g[n]}
  <1>3. 0 \in S
    BY <1>1, <1>2
  <1>4. ASSUME NEW n \in Nat, n \in S PROVE n + 1 \in S
    <2>1. PICK x \in Nat : x = f[2 * n] /\ x = g[n]
      <3>1. 2 * n \in Nat
        OBVIOUS
      <3> QED  BY <1>1, <1>4, <3>1
    <2>2. f[2 * n + 1] = (x * a) % w /\ f[2 * n + 1 + 1] = (f[2 * n + 1] * a) % w
      <3>1. 2 * n \in Nat /\ 2 * n + 1 \in Nat
        OBVIOUS
      <3> QED  BY <1>1, <2>1, <3>1
    <2>3. 2 * (n + 1) = 2 * n + 1 + 1
      OBVIOUS
    <2>4. f[2 * (n + 1)] = ((x * a) * a) % w
      <3>1. x * a \in Nat
        BY ProductOfNats
      <3> QED  BY <2>2, <2>3, <3>1, ReduceFactor
    <2>5. g[n + 1] = (x * (a * a)) % w
      <3>1. a * a \in Nat
        BY ProductOfNats
      <3>2. ((a * a) % w) * x = x * ((a * a) % w)
        BY <1>0, ProductOfNats
      <3>3. (a * a) * x = x * (a * a)
        BY <3>1, ProductOfNats
      <3>4. (((a * a) % w) * x) % w = ((a * a) * x) % w
        BY <3>1, ReduceFactor
      <3> QED  BY <1>0, <1>2, <2>1, <3>2, <3>3, <3>4
    <2>6. (x * a) * a = x * (a * a)
      BY SMT
    <2> QED  BY <2>4, <2>5, <2>6
  <1>5. S = Nat
    <2> HIDE DEF S
    <2>1. S \in SUBSET Nat
      BY DEF S
    <2> QED  BY <1>3, <1>4, <2>1, AllNumbers
  <1> QED  BY <1>5

\* The step of the loop: what it has multiplied, times what is still to come.
Multiplied(r, a, n, w) == IF n % 2 = 1 THEN (r * a) % w ELSE r

LEMMA PowerStep ==
  ASSUME NEW w \in Nat \ {0, 1}, NEW a \in Nat, NEW f, NEW g,
         IsPower(f, a, w), IsPower(g, (a * a) % w, w), NEW n \in Nat, NEW r \in Nat
  PROVE  (r * f[n]) % w = (Multiplied(r, a, n, w) * g[n \div 2]) % w
  <1> USE DEF Multiplied
  <1>1. PICK k \in Nat : k = n \div 2 /\ (n = 2 * k \/ n = 2 * k + 1)
    OBVIOUS
  <1>2. f[2 * k] = g[k]
    BY PowerOfSquare
  <1>3. PICK x \in Nat : x = g[k]
    <2>1. PICK c \in Nat : c = (a * a) % w
      <3>1. a * a \in Nat
        BY ProductOfNats
      <3> QED  BY <3>1, Quotient
    <2> QED  BY <2>1, PowerValues
  <1>4. CASE n = 2 * k
    <2>1. n % 2 # 1
      BY <1>4
    <2> QED  BY <1>1, <1>2, <1>4, <2>1
  <1>5. CASE n = 2 * k + 1
    <2>1. n % 2 = 1 /\ 2 * k \in Nat
      BY <1>5
    <2>2. f[n] = (x * a) % w
      BY <1>2, <1>3, <1>5, <2>1, PowerValues
    <2>3. (r * ((x * a) % w)) % w = ((x * a) * r) % w
      <3>1. PICK y \in Nat : y = x * a
        BY ProductOfNats
      <3>2. y % w \in Nat
        BY Quotient
      <3>3. r * (y % w) = (y % w) * r
        BY <3>2, ProductOfNats
      <3> QED  BY <3>1, <3>3, ReduceFactor
    <2>4. (((r * a) % w) * x) % w = ((r * a) * x) % w
      <3>1. r * a \in Nat
        BY ProductOfNats
      <3> QED  BY <3>1, ReduceFactor
    <2>5. (x * a) * r = (r * a) * x
      BY SMT
    <2> QED  BY <1>1, <1>3, <2>1, <2>2, <2>3, <2>4, <2>5
  <1> QED  BY <1>1, <1>4, <1>5
=============================================================================
