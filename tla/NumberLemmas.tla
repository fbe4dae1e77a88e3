---------------------------- MODULE NumberLemmas ----------------------------
(***************************************************************************)
(* Facts about numbers that the proofs share.                              *)
(*                                                                         *)
(* Induction is stated about sets: a set of numbers has a least element,   *)
(* and a set with 0 in it that is closed under successor has all of them.  *)
(* What the project's recursive functions compute is proved with it.       *)
(*                                                                         *)
(* The provers know little of powers, products and remainders.  2^n is     *)
(* reached through the number of subsets of a set of n elements (the       *)
(* library's FS_SUBSET), remainders through the division's equation.  From *)
(* them follow Euclid's lemma, the laws of Exp, Fermat's little theorem    *)
(* for the base 2 and that Atoi undoes Itoa.                               *)
(***************************************************************************)
EXTENDS BigInt, FiniteSetTheorems, WellFoundedInduction, TLAPS

\* A set of numbers that is not empty has a least element.
LEMMA LeastNumber ==
  ASSUME NEW T, T \subseteq Nat, T # {}
  PROVE  \E x \in T : \A y \in T : x <= y
  <1> DEFINE R == OpToRel(<, Nat)
  <1>1. IsWellFoundedOn(R, Nat)
    BY NatLessThanWellFounded
  <1>2. \A x, y \in Nat : y < x => <<y, x>> \in R
    BY DEF OpToRel
  <1> HIDE DEF R
  <1>3. PICK x \in T : \A y \in T : ~(<<y, x>> \in R)
    BY <1>1, WFMin
  <1>4. \A y \in T : ~(y < x)
    BY <1>2, <1>3, Zenon
  <1>5. \A y \in T : y \in Nat /\ x \in Nat
    OBVIOUS
  <1>6. \A y \in T : x <= y
    BY <1>4, <1>5
  <1> QED BY <1>6

\* Induction from a to b, for the set S of the numbers that have the property.
LEMMA UpTo ==
  ASSUME NEW S, NEW a \in Nat, NEW b \in Nat, a \in S,
         \A n \in a..b : n \in S /\ n < b => n + 1 \in S
  PROVE  \A n \in a..b : n \in S
  <1> SUFFICES ASSUME (a..b) \ S # {} PROVE FALSE
    OBVIOUS
  <1>1. PICK x \in (a..b) \ S : \A y \in (a..b) \ S : x <= y
    <2>1. (a..b) \ S \subseteq Nat
      OBVIOUS
    <2> QED BY <2>1, LeastNumber
  <1>2. x # a /\ x - 1 \in a..b /\ x - 1 < b /\ ~(x <= x - 1)
    BY <1>1
  <1>3. x - 1 \in S
    BY <1>1, <1>2
  <1>4. x - 1 + 1 = x
    BY <1>1
  <1> QED BY <1>1, <1>2, <1>3, <1>4

\* Induction over all numbers.
LEMMA AllNumbers ==
  ASSUME NEW S, 0 \in S, \A n \in Nat : n \in S => n + 1 \in S
  PROVE  \A n \in Nat : n \in S
  <1> TAKE n \in Nat
  <1>1. \A k \in 0..n : k \in S
    BY UpTo
  <1> QED BY <1>1

-----------------------------------------------------------------------------
(* Powers of two, from the library's theorem about the subsets of a set    *)

\* A set with one element more has twice as many subsets.
LEMMA TwiceTheSubsets ==
  ASSUME NEW S, IsFiniteSet(S), NEW x, x \notin S
  PROVE  Cardinality(SUBSET (S \cup {x})) = 2 * Cardinality(SUBSET S)
  <1> DEFINE All     == SUBSET (S \cup {x})
             Without == SUBSET S
             With    == {T \cup {x} : T \in Without}
             f       == [T \in Without |-> T \cup {x}]
  <1>1. IsFiniteSet(Without) /\ Cardinality(Without) \in Nat
    BY FS_SUBSET, FS_CardinalityType
  <1>2. ExistsBijection(Without, With)
    <2>1. f \in [Without -> With]
      OBVIOUS
    <2>2. \A T, U \in Without : f[T] = f[U] => T = U
      OBVIOUS
    <2>3. \A V \in With : \E T \in Without : f[T] = V
      OBVIOUS
    <2> QED BY <2>1, <2>2, <2>3
         DEF ExistsBijection, Bijection, Injection, Surjection, IsInjective
  <1>3. \A V \in All : V \in Without \/ V \in With
    <2> TAKE V \in All
    <2>1. CASE x \in V
      <3>1. V \ {x} \in SUBSET S /\ V = (V \ {x}) \cup {x}
        BY <2>1
      <3> QED BY <3>1
    <2>2. CASE x \notin V
      BY <2>2
    <2> QED BY <2>1, <2>2
  <1>4. \A V \in Without : V \in All /\ x \notin V
    OBVIOUS
  <1>5. \A V \in With : V \in All /\ x \in V
    OBVIOUS
  <1> HIDE DEF All, With, Without
  <1>6. IsFiniteSet(With) /\ Cardinality(With) = Cardinality(Without)
    BY <1>1, <1>2, FS_Bijection
  <1>7. All = Without \cup With /\ Without \cap With = {}
    BY <1>3, <1>4, <1>5
  <1>8. Cardinality(Without \cup With) =
          Cardinality(Without) + Cardinality(With) - Cardinality(Without \cap With)
    BY <1>1, <1>6, FS_Union
  <1>9. Cardinality(Without \cap With) = 0
    BY <1>7, FS_EmptySet
  <1>10. Cardinality(All) = 2 * Cardinality(Without)
    BY <1>1, <1>6, <1>7, <1>8, <1>9
  <1> QED BY <1>10 DEF All, Without

\* The recurrence of 2^n.
LEMMA PowerOfTwo ==
  /\ 2^0 = 1
  /\ \A n \in Nat : 2^n \in Nat \ {0} /\ 2^(n + 1) = 2 * 2^n
  <1> DEFINE Subsets(n) == Cardinality(SUBSET (1..n))
  <1>1. \A n \in Nat : 2^n = Subsets(n) /\ Subsets(n) \in Nat
    <2> TAKE n \in Nat
    <2>1. IsFiniteSet(1..n) /\ Cardinality(1..n) = n
      BY FS_Interval
    <2> QED BY <2>1, FS_SUBSET, FS_CardinalityType
  <1>2. \A n \in Nat : Subsets(n + 1) = 2 * Subsets(n)
    <2> TAKE n \in Nat
    <2>1. 1..(n + 1) = (1..n) \cup {n + 1} /\ n + 1 \notin 1..n
      OBVIOUS
    <2>2. IsFiniteSet(1..n)
      BY FS_Interval
    <2> QED BY <2>1, <2>2, TwiceTheSubsets
  <1> HIDE DEF Subsets
  <1>3. 2^0 = 1
    OBVIOUS
  <1>4. \A n \in Nat : 2^(n + 1) = 2 * 2^n /\ 2^n \in Nat
    BY <1>1, <1>2
  <1> DEFINE P == {n \in Nat : 2^n # 0}
  <1>5. \A n \in Nat : n \in P
    <2>1. 0 \in P
      BY <1>3
    <2>2. \A n \in Nat : n \in P => n + 1 \in P
      BY <1>4
    <2> HIDE DEF P
    <2> QED BY <2>1, <2>2, AllNumbers
  <1> QED BY <1>3, <1>4, <1>5

-----------------------------------------------------------------------------
(* Remainders                                                              *)

\* Quotient and remainder.
LEMMA DivMod ==
  ASSUME NEW a \in Int, NEW m \in Nat \ {0}
  PROVE  a = m * (a \div m) + (a % m) /\ a \div m \in Int /\ a % m \in 0..(m - 1)
  <1>1. m \in Nat /\ m > 0
    OBVIOUS
  <1> QED BY <1>1

\* They are unique.
LEMMA ModUnique ==
  ASSUME NEW m \in Nat \ {0}, NEW q \in Int, NEW r \in 0..(m - 1)
  PROVE  (m * q + r) % m = r /\ (m * q + r) \div m = q
  OBVIOUS

\* Numbers that differ by a multiple of m have the same remainder.
LEMMA ModShift ==
  ASSUME NEW m \in Nat \ {0}, NEW a \in Int, NEW q \in Int
  PROVE  (a + m * q) % m = a % m
  <1>1. a = m * (a \div m) + (a % m) /\ a \div m \in Int /\ a % m \in 0..(m - 1)
    BY DivMod
  <1> DEFINE d == a \div m
             r == a % m
  <1>2. a + m * q = m * (d + q) + r
    BY <1>1
  <1>3. d + q \in Int /\ r \in 0..(m - 1)
    BY <1>1
  <1> HIDE DEF d, r
  <1>4. (m * (d + q) + r) % m = r
    BY <1>3, ModUnique
  <1> QED BY <1>2, <1>4 DEF r

\* A factor, or a summand, may be reduced first.
LEMMA ModMul ==
  ASSUME NEW m \in Nat \ {0}, NEW a \in Int, NEW b \in Int
  PROVE  (a * b) % m = ((a % m) * b) % m
  <1>1. a = m * (a \div m) + (a % m) /\ a \div m \in Int /\ a % m \in Int
    BY DivMod
  <1> DEFINE d == a \div m
             r == a % m
  <1>2. a * b = r * b + m * (d * b)
    BY <1>1
  <1>3. r * b \in Int /\ d * b \in Int
    BY <1>1
  <1> HIDE DEF d, r
  <1>4. (r * b + m * (d * b)) % m = (r * b) % m
    BY <1>3, ModShift
  <1> QED BY <1>2, <1>4 DEF r

LEMMA ModMulRight ==
  ASSUME NEW m \in Nat \ {0}, NEW a \in Int, NEW b \in Int
  PROVE  (a * (b % m)) % m = (a * b) % m
  <1>1. b % m \in Int
    BY DivMod
  <1>2. a * b = b * a /\ a * (b % m) = (b % m) * a
    BY <1>1
  <1> QED BY <1>2, ModMul

LEMMA ModAdd ==
  ASSUME NEW m \in Nat \ {0}, NEW a \in Int, NEW b \in Int
  PROVE  (a + b) % m = ((a % m) + b) % m
  <1>1. a = m * (a \div m) + (a % m) /\ a \div m \in Int /\ a % m \in Int
    BY DivMod
  <1> DEFINE d == a \div m
             r == a % m
  <1>2. a + b = (r + b) + m * d
    BY <1>1
  <1>3. r + b \in Int /\ d \in Int
    BY <1>1
  <1> HIDE DEF d, r
  <1>4. ((r + b) + m * d) % m = (r + b) % m
    BY <1>3, ModShift
  <1> QED BY <1>2, <1>4 DEF r

\* A number that is smaller than m is its own remainder.
LEMMA ModSmall ==
  ASSUME NEW m \in Nat \ {0}, NEW a \in 0..(m - 1)
  PROVE  a % m = a
  <1>1. (m * 0 + a) % m = a
    BY ModUnique
  <1> QED BY <1>1

LEMMA ModMultiple ==
  ASSUME NEW m \in Nat \ {0}, NEW q \in Int
  PROVE  (m * q) % m = 0
  <1>1. (m * q + 0) % m = 0
    BY ModUnique
  <1>2. m * q + 0 = m * q
    OBVIOUS
  <1> QED BY <1>1, <1>2

\* Equal remainders: the difference is a multiple of m.
LEMMA ModEqual ==
  ASSUME NEW m \in Nat \ {0}, NEW a \in Int, NEW b \in Int
  PROVE  a % m = b % m <=> (a - b) % m = 0
  <1>1. ASSUME a % m = b % m PROVE (a - b) % m = 0
    <2>1. a = m * (a \div m) + (a % m) /\ a \div m \in Int /\ a % m \in Int
      BY DivMod
    <2>2. b = m * (b \div m) + (b % m) /\ b \div m \in Int
      BY DivMod
    <2> DEFINE d == a \div m
               e == b \div m
    <2>3. a - b = m * (d - e) /\ d - e \in Int
      BY <1>1, <2>1, <2>2
    <2> HIDE DEF d, e
    <2>4. (m * (d - e)) % m = 0
      BY <2>3, ModMultiple
    <2> QED BY <2>3, <2>4
  <1>2. ASSUME (a - b) % m = 0 PROVE a % m = b % m
    <2>1. a - b = m * ((a - b) \div m) + ((a - b) % m) /\ (a - b) \div m \in Int
      BY DivMod
    <2> DEFINE d == (a - b) \div m
    <2>2. a = b + m * d /\ d \in Int
      BY <1>2, <2>1
    <2> HIDE DEF d
    <2> QED BY <2>2, ModShift
  <1> QED BY <1>1, <1>2

-----------------------------------------------------------------------------
(* Primes                                                                  *)

Prime(p) == \A d \in 2..(p - 1) : p % d # 0

\* Euclid's lemma: a prime that divides i * c, with i below it, divides c.
LEMMA EuclidsLemma ==
  ASSUME NEW p \in Nat, p > 1, Prime(p), NEW c \in Int,
         NEW i \in 1..(p - 1), (i * c) % p = 0
  PROVE  c % p = 0
  <1> SUFFICES ASSUME c % p # 0 PROVE FALSE
    OBVIOUS
  <1> DEFINE T == {k \in 1..(p - 1) : (k * c) % p = 0}
  <1>1. i \in T /\ T \subseteq Nat
    OBVIOUS
  <1>2. PICK k \in T : \A j \in T : k <= j
    <2> HIDE DEF T
    <2> QED BY <1>1, LeastNumber
  <1>3. k \in 1..(p - 1) /\ (k * c) % p = 0
    BY <1>2
  <1>4. k # 1
    BY <1>3
  <1> HIDE DEF T
  <1>5. p = k * (p \div k) + (p % k) /\ p \div k \in Int /\ p % k \in 0..(k - 1)
    <2>1. k \in Nat \ {0} /\ p \in Int
      BY <1>3
    <2> QED BY <2>1, DivMod
  <1> DEFINE q == p \div k
             r == p % k
  <1>6. r # 0
    BY <1>3, <1>4 DEF Prime
  <1>7. r \in 1..(p - 1) /\ r < k /\ q \in Int /\ p = k * q + r
    BY <1>3, <1>5, <1>6
  <1> HIDE DEF q, r
  <1>8. (r * c) % p = 0
    <2> DEFINE e == (k * c) \div p
    <2>1. k * c = p * e /\ e \in Int
      <3>1. k * c \in Int /\ p \in Nat \ {0}
        BY <1>3
      <3>2. k * c = p * e + ((k * c) % p) /\ e \in Int
        BY <3>1, DivMod
      <3> QED BY <1>3, <3>1, <3>2
    <2> HIDE DEF e
    <2>2. r * c = p * (c - e * q)
      <3>1. r = p - k * q
        BY <1>3, <1>7
      <3>2. r * c = p * c - (k * c) * q
        BY <1>3, <1>7, <3>1
      <3>3. (p * e) * q = p * (e * q)
        BY <1>7, <2>1
      <3> QED BY <1>7, <2>1, <3>2, <3>3
    <2>3. c - e * q \in Int
      BY <1>7, <2>1
    <2>4. (p * (c - e * q)) % p = 0
      BY <2>3, ModMultiple
    <2> QED BY <2>2, <2>4
  <1>9. r \in T
    BY <1>7, <1>8 DEF T
  <1> QED BY <1>2, <1>3, <1>7, <1>9

-----------------------------------------------------------------------------
(* Exp                                                                     *)

PowerStep(x, m, f, i) == IF i = 0 THEN 1 % m ELSE (f[i - 1] * x) % m
IsPower(x, m, n, f) == f = [i \in 0..n |-> PowerStep(x, m, f, i)]

\* The function that Exp defines exists.
LEMMA PowerExists ==
  ASSUME NEW x, NEW m, NEW n \in Nat
  PROVE  \E f : IsPower(x, m, n, f)
  <1> DEFINE S == {k \in 0..n : \E f : IsPower(x, m, k, f)}
  <1>1. 0 \in S
    <2> DEFINE f == [i \in 0..0 |-> 1 % m]
    <2>1. f = [i \in 0..0 |-> PowerStep(x, m, f, i)]
      BY DEF PowerStep
    <2> HIDE DEF f
    <2>2. IsPower(x, m, 0, f) /\ 0 \in 0..n
      BY <2>1 DEF IsPower
    <2> QED BY <2>2
  <1>2. ASSUME NEW k \in 0..n, k \in S, k < n PROVE k + 1 \in S
    <2>1. PICK f : IsPower(x, m, k, f)
      BY <1>2
    <2> DEFINE g == [i \in 0..(k + 1) |-> IF i \in 0..k THEN f[i] ELSE (f[k] * x) % m]
    <2>2. \A i \in 0..k : f[i] = PowerStep(x, m, f, i)
      BY <2>1 DEF IsPower
    <2>3. \A i \in 0..(k + 1) : g[i] = PowerStep(x, m, g, i)
      <3> TAKE i \in 0..(k + 1)
      <3>1. CASE i \in 0..k
        <4>1. g[i] = f[i] /\ (i # 0 => i - 1 \in 0..(k + 1) /\ g[i - 1] = f[i - 1])
          BY <3>1
        <4> HIDE DEF g
        <4> QED BY <2>2, <3>1, <4>1 DEF PowerStep
      <3>2. CASE i = k + 1
        <4>1. g[i] = (f[k] * x) % m /\ i # 0 /\ i - 1 = k /\ g[k] = f[k]
          BY <3>2
        <4> HIDE DEF g
        <4> QED BY <4>1 DEF PowerStep
      <3> QED BY <3>1, <3>2
    <2>4. g = [i \in 0..(k + 1) |-> g[i]]
      OBVIOUS
    <2> HIDE DEF g
    <2>5. IsPower(x, m, k + 1, g)
      BY <2>3, <2>4 DEF IsPower
    <2>6. k + 1 \in 0..n
      BY <1>2
    <2> QED BY <2>5, <2>6
  <1> HIDE DEF S
  <1>3. \A k \in 0..n : k \in S
    BY <1>1, <1>2, UpTo
  <1> QED BY <1>3 DEF S

\* So Exp is the last value of that function.
LEMMA ExpIsLast ==
  ASSUME NEW x, NEW m, NEW n \in Nat
  PROVE  \E f : IsPower(x, m, n, f) /\ Exp(x, n, m) = f[n]
  <1>1. IsPower(x, m, n, CHOOSE f : IsPower(x, m, n, f))
    BY PowerExists, Zenon
  <1>2. Exp(x, n, m) = (CHOOSE f : IsPower(x, m, n, f))[n]
    BY Zenon DEF Exp, IsPower, PowerStep
  <1> QED BY <1>1, <1>2

\* The defining equations of Exp.
LEMMA ExpEquations ==
  ASSUME NEW x, NEW m
  PROVE  /\ Exp(x, 0, m) = 1 % m
         /\ \A n \in Nat : Exp(x, n + 1, m) = (Exp(x, n, m) * x) % m
  <1>1. Exp(x, 0, m) = 1 % m
    <2>1. PICK f : IsPower(x, m, 0, f) /\ Exp(x, 0, m) = f[0]
      BY ExpIsLast
    <2>2. f[0] = PowerStep(x, m, f, 0)
      BY <2>1 DEF IsPower
    <2> QED BY <2>1, <2>2 DEF PowerStep
  <1>2. ASSUME NEW n \in Nat PROVE Exp(x, n + 1, m) = (Exp(x, n, m) * x) % m
    <2>1. PICK f : IsPower(x, m, n, f) /\ Exp(x, n, m) = f[n]
      BY ExpIsLast
    <2>2. PICK g : IsPower(x, m, n + 1, g) /\ Exp(x, n + 1, m) = g[n + 1]
      BY ExpIsLast
    <2>3. \A i \in 0..n : f[i] = PowerStep(x, m, f, i)
      BY <2>1 DEF IsPower
    <2>4. \A i \in 0..(n + 1) : g[i] = PowerStep(x, m, g, i)
      BY <2>2 DEF IsPower
    <2> DEFINE S == {i \in 0..n : f[i] = g[i]}
    <2>5. 0 \in S
      BY <2>3, <2>4 DEF PowerStep
    <2>6. ASSUME NEW i \in 0..n, i \in S, i < n PROVE i + 1 \in S
      <3>1. i + 1 \in 0..n /\ i + 1 \in 0..(n + 1) /\ i + 1 # 0 /\ (i + 1) - 1 = i
        BY <2>6
      <3> QED BY <2>3, <2>4, <2>6, <3>1 DEF PowerStep
    <2> HIDE DEF S
    <2>7. \A i \in 0..n : i \in S
      BY <2>5, <2>6, UpTo
    <2>8. f[n] = g[n]
      BY <2>7 DEF S
    <2>9. n + 1 \in 0..(n + 1) /\ n + 1 # 0 /\ (n + 1) - 1 = n
      OBVIOUS
    <2>10. g[n + 1] = (g[n] * x) % m
      BY <2>4, <2>9 DEF PowerStep
    <2> QED BY <2>1, <2>2, <2>8, <2>10
  <1> QED BY <1>1, <1>2

\* Powers are remainders.
LEMMA ExpType ==
  ASSUME NEW x \in Nat, NEW m \in Nat \ {0}
  PROVE  \A n \in Nat : Exp(x, n, m) \in 0..(m - 1)
  <1> DEFINE S == {n \in Nat : Exp(x, n, m) \in 0..(m - 1)}
  <1>1. 0 \in S
    <2>1. 1 % m \in 0..(m - 1)
      BY DivMod
    <2> QED BY <2>1, ExpEquations
  <1>2. ASSUME NEW n \in Nat, n \in S PROVE n + 1 \in S
    <2>1. Exp(x, n, m) * x \in Int
      BY <1>2
    <2>2. (Exp(x, n, m) * x) % m \in 0..(m - 1)
      BY <2>1, DivMod
    <2>3. Exp(x, n + 1, m) = (Exp(x, n, m) * x) % m
      BY ExpEquations
    <2> QED BY <2>2, <2>3
  <1> HIDE DEF S
  <1>3. \A n \in Nat : n \in S
    BY <1>1, <1>2, AllNumbers
  <1> QED BY <1>3 DEF S


\* A power of a sum of exponents is the product of the powers.
LEMMA ExpAdd ==
  ASSUME NEW x \in Nat, NEW m \in Nat \ {0}, NEW a \in Nat
  PROVE  \A b \in Nat : Exp(x, a + b, m) = (Exp(x, a, m) * Exp(x, b, m)) % m
  <1> DEFINE E(n) == Exp(x, n, m)
             S    == {b \in Nat : E(a + b) = (E(a) * E(b)) % m}
  <1>1. \A n \in Nat : E(n) \in Nat /\ E(n) % m = E(n) /\ E(n + 1) = (E(n) * x) % m
    <2> TAKE n \in Nat
    <2>1. E(n) \in 0..(m - 1)
      BY ExpType
    <2>2. E(n) % m = E(n)
      BY <2>1, ModSmall
    <2>3. E(n + 1) = (E(n) * x) % m
      BY ExpEquations
    <2>4. E(n) \in Nat
      BY <2>1
    <2> QED BY <2>2, <2>3, <2>4
  <1>2. E(0) = 1 % m
    BY ExpEquations
  <1> HIDE DEF E
  <1>3. 0 \in S
    <2>1. (E(a) * (1 % m)) % m = (E(a) * 1) % m
      <3>1. E(a) \in Int /\ 1 \in Int
        BY <1>1
      <3> QED BY <3>1, ModMulRight, Zenon
    <2>2. E(a) * 1 = E(a) /\ a + 0 = a
      BY <1>1
    <2> QED BY <1>1, <1>2, <2>1, <2>2
  <1>4. ASSUME NEW b \in Nat, b \in S PROVE b + 1 \in S
    <2> DEFINE u == E(a)
               v == E(b)
    <2>1. u \in Int /\ v \in Int /\ x \in Int /\ u * v \in Int /\ v * x \in Int
      BY <1>1
    <2>2. E(a + b) = (u * v) % m /\ E(b + 1) = (v * x) % m
      BY <1>1, <1>4
    <2>3. E((a + b) + 1) = (E(a + b) * x) % m
      BY <1>1
    <2>4. a + (b + 1) = (a + b) + 1
      OBVIOUS
    <2> HIDE DEF u, v
    <2>5. (((u * v) % m) * x) % m = ((u * v) * x) % m
      BY <2>1, ModMul, Zenon
    <2>6. (u * ((v * x) % m)) % m = (u * (v * x)) % m
      BY <2>1, ModMulRight, Zenon
    <2>7. (u * v) * x = u * (v * x)
      BY <2>1
    <2>8. E(a + (b + 1)) = (u * E(b + 1)) % m
      BY <2>2, <2>3, <2>4, <2>5, <2>6, <2>7
    <2> QED BY <2>8 DEF u
  <1> HIDE DEF S
  <1>5. \A b \in Nat : b \in S
    BY <1>3, <1>4, AllNumbers
  <1> QED BY <1>5 DEF S, E

\* A power of a power is the power of the product.
LEMMA ExpMul ==
  ASSUME NEW x \in Nat, NEW m \in Nat \ {0}, NEW a \in Nat
  PROVE  \A b \in Nat : Exp(Exp(x, a, m), b, m) = Exp(x, a * b, m)
  <1> DEFINE S == {b \in Nat : Exp(Exp(x, a, m), b, m) = Exp(x, a * b, m)}
  <1>1. 0 \in S
    <2>1. a * 0 = 0
      OBVIOUS
    <2> QED BY <2>1, ExpEquations
  <1>2. ASSUME NEW b \in Nat, b \in S PROVE b + 1 \in S
    <2>1. Exp(Exp(x, a, m), b + 1, m) = (Exp(Exp(x, a, m), b, m) * Exp(x, a, m)) % m
      BY ExpEquations
    <2>2. a * (b + 1) = a * b + a /\ a * b \in Nat
      OBVIOUS
    <2>3. Exp(x, a * b + a, m) = (Exp(x, a * b, m) * Exp(x, a, m)) % m
      BY <2>2, ExpAdd
    <2> QED BY <1>2, <2>1, <2>2, <2>3
  <1> HIDE DEF S
  <1>3. \A b \in Nat : b \in S
    BY <1>1, <1>2, AllNumbers
  <1> QED BY <1>3 DEF S

\* Two exponents may change places.
LEMMA ExpSwap ==
  ASSUME NEW x \in Nat, NEW m \in Nat \ {0}, NEW a \in Nat, NEW b \in Nat
  PROVE  Exp(Exp(x, a, m), b, m) = Exp(Exp(x, b, m), a, m)
  <1>1. a * b = b * a
    OBVIOUS
  <1> QED BY <1>1, ExpMul

\* The base may be reduced first.
LEMMA ExpBase ==
  ASSUME NEW x \in Nat, NEW m \in Nat \ {0}
  PROVE  \A n \in Nat : Exp(x % m, n, m) = Exp(x, n, m)
  <1> DEFINE S == {n \in Nat : Exp(x % m, n, m) = Exp(x, n, m)}
  <1>1. 0 \in S
    BY ExpEquations
  <1>2. ASSUME NEW n \in Nat, n \in S PROVE n + 1 \in S
    <2>1. Exp(x, n, m) \in Int /\ x \in Int
      BY ExpType
    <2>2. (Exp(x, n, m) * (x % m)) % m = (Exp(x, n, m) * x) % m
      BY <2>1, ModMulRight, Zenon
    <2>3. /\ Exp(x % m, n + 1, m) = (Exp(x % m, n, m) * (x % m)) % m
          /\ Exp(x, n + 1, m) = (Exp(x, n, m) * x) % m
      BY ExpEquations
    <2> QED BY <1>2, <2>2, <2>3
  <1> HIDE DEF S
  <1>3. \A n \in Nat : n \in S
    BY <1>1, <1>2, AllNumbers
  <1> QED BY <1>3 DEF S


\* One remains one.
LEMMA ExpOfOne ==
  ASSUME NEW m \in Nat, m > 1
  PROVE  \A n \in Nat : Exp(1, n, m) = 1
  <1> DEFINE S == {n \in Nat : Exp(1, n, m) = 1}
  <1>1. 1 % m = 1 /\ (1 * 1) % m = 1
    BY ModSmall
  <1>2. 0 \in S
    BY <1>1, ExpEquations
  <1>3. ASSUME NEW n \in Nat, n \in S PROVE n + 1 \in S
    <2>1. Exp(1, n + 1, m) = (Exp(1, n, m) * 1) % m
      BY ExpEquations
    <2> QED BY <1>1, <1>3, <2>1
  <1> HIDE DEF S
  <1>4. \A n \in Nat : n \in S
    BY <1>2, <1>3, AllNumbers
  <1> QED BY <1>4 DEF S

-----------------------------------------------------------------------------
(* Fermat's little theorem for the base 2, the generator of srp.go.  With  *)
(* p = 2h + 1 the factors 2i of 2^(p-1) * (p-1)! are, modulo p, the even   *)
(* numbers up to p - 1 (i <= h) and the odd ones (i > h): all factors of   *)
(* (p-1)!, by which a prime p lets us divide.                              *)

\* F has the products of the first values of g.
IsProduct(F, g, n) ==
  /\ F[0] = 1 /\ \A i \in 0..n : F[i] \in Int
  /\ \A i \in 1..n : F[i] = F[i - 1] * g[i]

LEMMA ProductExists ==
  ASSUME NEW n \in Nat, NEW g, \A i \in 1..n : g[i] \in Int
  PROVE  \E F : IsProduct(F, g, n)
  <1> DEFINE S == {k \in 0..n : \E F : IsProduct(F, g, k)}
  <1>1. 0 \in S
    <2> DEFINE F == [i \in 0..0 |-> 1]
    <2>1. IsProduct(F, g, 0) /\ 0 \in 0..n
      BY DEF IsProduct
    <2> QED BY <2>1
  <1>2. ASSUME NEW k \in 0..n, k \in S, k < n PROVE k + 1 \in S
    <2>1. PICK F : IsProduct(F, g, k)
      BY <1>2
    <2> DEFINE G == [i \in 0..(k + 1) |-> IF i \in 0..k THEN F[i] ELSE F[k] * g[k + 1]]
    <2>2. \A i \in 0..k : G[i] = F[i] /\ F[i] \in Int
      BY <2>1 DEF IsProduct
    <2>3. G[k + 1] = F[k] * g[k + 1] /\ G[k + 1] \in Int
      <3>1. k + 1 \in 1..n /\ k \in 0..k
        BY <1>2
      <3>2. g[k + 1] \in Int /\ F[k] \in Int
        BY <2>2, <3>1
      <3> QED BY <3>2
    <2> HIDE DEF G
    <2>4. \A i \in 1..k : G[i] = G[i - 1] * g[i]
      <3> TAKE i \in 1..k
      <3>1. i \in 0..k /\ i - 1 \in 0..k
        OBVIOUS
      <3> QED BY <2>1, <2>2, <3>1 DEF IsProduct
    <2>5. \A i \in 1..(k + 1) : i \in 1..k \/ (i = k + 1 /\ i - 1 = k)
      OBVIOUS
    <2>6. \A i \in 0..(k + 1) : i \in 0..k \/ i = k + 1
      OBVIOUS
    <2>7. 0 \in 0..k /\ k \in 0..k /\ k + 1 \in 0..n
      BY <1>2
    <2>8. IsProduct(G, g, k + 1)
      BY <2>1, <2>2, <2>3, <2>4, <2>5, <2>6, <2>7 DEF IsProduct
    <2> QED BY <2>7, <2>8
  <1> HIDE DEF S
  <1>3. \A k \in 0..n : k \in S
    BY <1>1, <1>2, UpTo
  <1> QED BY <1>3 DEF S

\* A prime that divides c * k!, with k below it, divides c.
LEMMA CancelFactorial ==
  ASSUME NEW p \in Nat, p > 1, Prime(p), NEW c \in Int, NEW F,
         IsProduct(F, [i \in 1..(p - 1) |-> i], p - 1), (c * F[p - 1]) % p = 0
  PROVE  c % p = 0
  <1>0. /\ F[0] = 1 /\ \A i \in 0..(p - 1) : F[i] \in Int
        /\ \A i \in 1..(p - 1) : F[i] = F[i - 1] * i
    BY DEF IsProduct
  <1> DEFINE S == {k \in 0..(p - 1) : (c * F[k]) % p = 0 => c % p = 0}
  <1>1. 0 \in S
    <2>1. c * F[0] = c /\ 0 \in 0..(p - 1)
      BY <1>0
    <2> QED BY <2>1
  <1>2. ASSUME NEW k \in 0..(p - 1), k \in S, k < p - 1 PROVE k + 1 \in S
    <2>1. k + 1 \in 1..(p - 1) /\ (k + 1) - 1 = k /\ k + 1 \in 0..(p - 1)
      BY <1>2
    <2>2. F[k + 1] = F[k] * (k + 1) /\ F[k] \in Int
      BY <1>0, <2>1
    <2> DEFINE d == c * F[k]
    <2>3. c * F[k + 1] = (k + 1) * d /\ d \in Int
      BY <2>2
    <2> HIDE DEF d
    <2>4. ((k + 1) * d) % p = 0 => d % p = 0
      BY <2>1, <2>3, EuclidsLemma
    <2>5. d % p = 0 => c % p = 0
      BY <1>2 DEF d
    <2> QED BY <2>1, <2>3, <2>4, <2>5
  <1> HIDE DEF S
  <1>3. p - 1 \in Nat /\ p - 1 \in 0..(p - 1)
    OBVIOUS
  <1>4. \A k \in 0..(p - 1) : k \in S
    BY <1>1, <1>2, <1>3, UpTo
  <1> QED BY <1>3, <1>4 DEF S

\* (2k)! is 2^k * k! times the odd numbers below 2k.
LEMMA EvenAndOdd ==
  ASSUME NEW h \in Nat, NEW F, IsProduct(F, [i \in 1..(2 * h) |-> i], 2 * h),
         NEW O, IsProduct(O, [i \in 1..h |-> 2 * i - 1], h)
  PROVE  F[2 * h] = (2^h * F[h]) * O[h]
  <1>0. /\ F[0] = 1 /\ \A i \in 0..(2 * h) : F[i] \in Int
        /\ \A i \in 1..(2 * h) : F[i] = F[i - 1] * i
    BY DEF IsProduct
  <1>1. /\ O[0] = 1 /\ \A i \in 0..h : O[i] \in Int
        /\ \A i \in 1..h : O[i] = O[i - 1] * (2 * i - 1)
    BY DEF IsProduct
  <1> DEFINE S == {k \in 0..h : F[2 * k] = (2^k * F[k]) * O[k]}
  <1>2. 0 \in S
    BY <1>0, <1>1, PowerOfTwo
  <1>3. ASSUME NEW k \in 0..h, k \in S, k < h PROVE k + 1 \in S
    <2>1. /\ k + 1 \in 1..h /\ (k + 1) - 1 = k /\ k + 1 \in 1..(2 * h) /\ k + 1 \in 0..h
          /\ 2 * k + 1 \in 1..(2 * h) /\ (2 * k + 1) - 1 = 2 * k
          /\ 2 * k + 2 \in 1..(2 * h) /\ (2 * k + 2) - 1 = 2 * k + 1
          /\ 2 * (k + 1) = 2 * k + 2 /\ 2 * (k + 1) - 1 = 2 * k + 1
          /\ 2 * k \in 0..(2 * h) /\ k \in 0..(2 * h) /\ k \in Nat
      BY <1>3
    <2> DEFINE f == F[k]
               e == F[2 * k]
               o == O[k]
               t == 2^k
    <2>2. f \in Int /\ e \in Int /\ o \in Int /\ t \in Int
      BY <1>0, <1>1, <2>1, PowerOfTwo
    <2>3. F[2 * k + 1] = e * (2 * k + 1)
      BY <1>0, <2>1
    <2>4. F[2 * k + 2] = (e * (2 * k + 1)) * (2 * k + 2)
      BY <1>0, <2>1, <2>3
    <2>5. F[k + 1] = f * (k + 1) /\ O[k + 1] = o * (2 * k + 1) /\ 2^(k + 1) = 2 * t
      BY <1>0, <1>1, <2>1, PowerOfTwo
    <2>6. e = (t * f) * o
      BY <1>3
    <2> HIDE DEF f, e, o, t
    <2>7. (((t * f) * o) * (2 * k + 1)) * (2 * k + 2)
            = ((2 * t) * (f * (k + 1))) * (o * (2 * k + 1))
      BY <2>1, <2>2
    <2>8. F[2 * k + 2] = (2^(k + 1) * F[k + 1]) * O[k + 1]
      BY <2>4, <2>5, <2>6, <2>7
    <2> QED BY <2>1, <2>8
  <1> HIDE DEF S
  <1>4. \A k \in 0..h : k \in S
    BY <1>2, <1>3, UpTo
  <1> QED BY <1>4 DEF S

\* Modulo p = 2h + 1, the doubles of h + 1, ..., h + j are 1, 3, ..., 2j - 1.
LEMMA DoublesAreOdd ==
  ASSUME NEW h \in Nat, NEW F, IsProduct(F, [i \in 1..(2 * h) |-> i], 2 * h),
         NEW O, IsProduct(O, [i \in 1..h |-> 2 * i - 1], h)
  PROVE  (2^(2 * h) * F[2 * h]) % (2 * h + 1) = ((2^h * F[h]) * O[h]) % (2 * h + 1)
  <1>0. /\ F[0] = 1 /\ \A i \in 0..(2 * h) : F[i] \in Int
        /\ \A i \in 1..(2 * h) : F[i] = F[i - 1] * i
    BY DEF IsProduct
  <1>1. /\ O[0] = 1 /\ \A i \in 0..h : O[i] \in Int
        /\ \A i \in 1..h : O[i] = O[i - 1] * (2 * i - 1)
    BY DEF IsProduct
  <1> DEFINE p == 2 * h + 1
             b == 2^h * F[h]
             S == {j \in 0..h : (2^(h + j) * F[h + j]) % p = (b * O[j]) % p}
  <1>2. p \in Nat \ {0} /\ b \in Int
    <2>1. h \in 0..(2 * h)
      OBVIOUS
    <2>2. F[h] \in Int /\ 2^h \in Int
      BY <1>0, <2>1, PowerOfTwo
    <2> QED BY <2>2
  <1>3. 0 \in S
    <2>1. h + 0 = h /\ b * 1 = b
      BY <1>2
    <2> QED BY <1>1, <2>1
  <1>4. ASSUME NEW j \in 0..h, j \in S, j < h PROVE j + 1 \in S
    <2>1. /\ h + j \in Nat /\ h + j \in 0..(2 * h) /\ h + j + 1 \in 1..(2 * h)
          /\ h + (j + 1) = (h + j) + 1 /\ ((h + j) + 1) - 1 = h + j
          /\ j + 1 \in 1..h /\ (j + 1) - 1 = j /\ j + 1 \in 0..h
          /\ 2 * (j + 1) - 1 = 2 * j + 1
      BY <1>4
    <2> DEFINE t == 2^(h + j)
               f == F[h + j]
               o == O[j]
    <2>2. t \in Int /\ f \in Int /\ o \in Int
      BY <1>0, <1>1, <2>1, PowerOfTwo
    <2>3. 2^((h + j) + 1) = 2 * t
      BY <2>1, PowerOfTwo
    <2>4. F[(h + j) + 1] = f * (h + j + 1)
      BY <1>0, <2>1
    <2>5. O[j + 1] = o * (2 * j + 1)
      BY <1>1, <2>1
    <2>6. (t * f) % p = (b * o) % p
      BY <1>4
    <2> HIDE DEF t, f, o, b, p
    <2>7. (2 * t) * (f * (h + j + 1)) = (t * f) * (2 * j + 1) + p * (t * f)
      BY <2>2 DEF p
    <2>8. ((t * f) * (2 * j + 1) + p * (t * f)) % p = ((t * f) * (2 * j + 1)) % p
      <3>1. (t * f) * (2 * j + 1) \in Int /\ t * f \in Int
        BY <2>2
      <3> QED BY <1>2, <3>1, ModShift, Zenon
    <2>9. ((t * f) * (2 * j + 1)) % p = ((b * o) * (2 * j + 1)) % p
      <3>1. t * f \in Int /\ b * o \in Int /\ 2 * j + 1 \in Int
        BY <1>2, <2>2
      <3>2. ((t * f) * (2 * j + 1)) % p = (((t * f) % p) * (2 * j + 1)) % p
        BY <1>2, <3>1, ModMul, Zenon
      <3>3. ((b * o) * (2 * j + 1)) % p = (((b * o) % p) * (2 * j + 1)) % p
        BY <1>2, <3>1, ModMul, Zenon
      <3> QED BY <2>6, <3>2, <3>3
    <2>10. (b * o) * (2 * j + 1) = b * (o * (2 * j + 1))
      BY <1>2, <2>2
    <2>11. (2^(h + (j + 1)) * F[h + (j + 1)]) % p = (b * O[j + 1]) % p
      BY <2>1, <2>3, <2>4, <2>5, <2>7, <2>8, <2>9, <2>10
    <2> QED BY <2>1, <2>11
  <1> HIDE DEF S
  <1>5. \A j \in 0..h : j \in S
    BY <1>3, <1>4, UpTo
  <1>6. h \in S /\ h + h = 2 * h
    BY <1>5
  <1> QED BY <1>6 DEF S

\* Exp with base 2 is the remainder of the power.
LEMMA ExpOfTwo ==
  ASSUME NEW m \in Nat \ {0}
  PROVE  \A n \in Nat : Exp(2, n, m) = 2^n % m
  <1> DEFINE S == {n \in Nat : Exp(2, n, m) = 2^n % m}
  <1>1. 0 \in S
    BY ExpEquations, PowerOfTwo
  <1>2. ASSUME NEW n \in Nat, n \in S PROVE n + 1 \in S
    <2>1. 2^n \in Int /\ 2 \in Int /\ 2^(n + 1) = 2^n * 2
      BY PowerOfTwo
    <2>2. (2^n * 2) % m = ((2^n % m) * 2) % m
      BY <2>1, ModMul, Zenon
    <2>3. Exp(2, n + 1, m) = (Exp(2, n, m) * 2) % m
      BY ExpEquations
    <2> QED BY <1>2, <2>1, <2>2, <2>3
  <1> HIDE DEF S
  <1>3. \A n \in Nat : n \in S
    BY <1>1, <1>2, AllNumbers
  <1> QED BY <1>3 DEF S

\* Fermat's little theorem for the base 2.
LEMMA Fermat ==
  ASSUME NEW p \in Nat, p > 2, Prime(p)
  PROVE  Exp(2, p - 1, p) = 1
  <1>1. PICK h \in Nat : p = 2 * h + 1
    <2>1. p % 2 # 0
      BY DEF Prime
    <2>2. p = 2 * (p \div 2) + (p % 2) /\ p % 2 \in 0..1 /\ p \div 2 \in Nat
      OBVIOUS
    <2> QED BY <2>1, <2>2
  <1>2. p - 1 = 2 * h /\ 2 * h \in Nat /\ p \in Nat \ {0}
    BY <1>1
  <1>3. PICK F : IsProduct(F, [i \in 1..(2 * h) |-> i], 2 * h)
    <2>1. \A i \in 1..(2 * h) : [j \in 1..(2 * h) |-> j][i] \in Int
      OBVIOUS
    <2> QED BY <1>2, <2>1, ProductExists
  <1>4. PICK O : IsProduct(O, [i \in 1..h |-> 2 * i - 1], h)
    <2>1. \A i \in 1..h : [j \in 1..h |-> 2 * j - 1][i] \in Int
      OBVIOUS
    <2> QED BY <2>1, ProductExists
  <1> DEFINE t == 2^(2 * h)
             f == F[2 * h]
  <1>5. t \in Int /\ f \in Int
    BY <1>2, <1>3, PowerOfTwo DEF IsProduct
  <1>6. (t * f) % p = f % p
    <2> DEFINE c == (2^h * F[h]) * O[h]
    <2>1. f = c
      BY <1>3, <1>4, EvenAndOdd, Zenon
    <2>2. (t * f) % (2 * h + 1) = c % (2 * h + 1)
      BY <1>3, <1>4, DoublesAreOdd, Zenon
    <2> HIDE DEF c, t, f
    <2> QED BY <1>1, <2>1, <2>2, Zenon
  <1> HIDE DEF t, f
  <1>7. (t * f - f) % p = 0
    <2>1. t * f \in Int
      BY <1>5
    <2> QED BY <1>2, <1>5, <1>6, <2>1, ModEqual
  <1>8. t * f - f = (t - 1) * f /\ t - 1 \in Int
    BY <1>5
  <1>9. (t - 1) % p = 0
    BY <1>2, <1>3, <1>7, <1>8, CancelFactorial DEF f
  <1>10. t % p = 1 % p
    <2>1. 1 \in Int
      OBVIOUS
    <2> QED BY <1>2, <1>5, <1>9, <2>1, ModEqual, Zenon
  <1>11. 1 % p = 1
    BY <1>2, ModSmall
  <1> QED BY <1>2, <1>10, <1>11, ExpOfTwo DEF t

\* So exponents of 2 may be reduced modulo p - 1.
LEMMA ExpReduce ==
  ASSUME NEW p \in Nat, p > 2, Prime(p), NEW n \in Nat
  PROVE  Exp(2, n, p) = Exp(2, n % (p - 1), p)
  <1> DEFINE q == n \div (p - 1)
             e == n % (p - 1)
  <1>1. p \in Nat \ {0} /\ p - 1 \in Nat \ {0} /\ n \in Int
    OBVIOUS
  <1>2. n = (p - 1) * q + e /\ q \in Int /\ e \in 0..(p - 2)
    <2>1. n = (p - 1) * q + e /\ q \in Int /\ e \in 0..((p - 1) - 1)
      BY <1>1, DivMod, Zenon
    <2> QED BY <2>1
  <1>3. q \in Nat
    BY <1>1
  <1> HIDE DEF q, e
  <1>4. (p - 1) * q \in Nat /\ e \in Nat
    BY <1>1, <1>2, <1>3
  <1>5. Exp(2, (p - 1) * q + e, p) = (Exp(2, (p - 1) * q, p) * Exp(2, e, p)) % p
    BY <1>1, <1>4, ExpAdd
  <1>6. Exp(2, (p - 1) * q, p) = 1
    <2>1. Exp(Exp(2, p - 1, p), q, p) = Exp(2, (p - 1) * q, p)
      BY <1>1, <1>3, ExpMul
    <2>2. Exp(1, q, p) = 1
      BY <1>1, <1>3, ExpOfOne
    <2> QED BY <2>1, <2>2, Fermat
  <1>7. Exp(2, e, p) \in 0..(p - 1)
    BY <1>1, <1>4, ExpType
  <1>8. (1 * Exp(2, e, p)) % p = Exp(2, e, p)
    <2>1. 1 * Exp(2, e, p) = Exp(2, e, p)
      BY <1>7
    <2> QED BY <1>1, <1>7, <2>1, ModSmall
  <1>9. Exp(2, n, p) = Exp(2, e, p)
    BY <1>2, <1>5, <1>6, <1>8
  <1> QED BY <1>9 DEF e

-----------------------------------------------------------------------------
(* Itoa and Atoi                                                           *)

SumStep(b, f, j) == IF j = 0 THEN 0 ELSE f[j - 1] + b[j] * 2^(j - 1)
IsSum(b, n, f) == f = [j \in 0..n |-> SumStep(b, f, j)]

\* One digit more of a number, with t for the power of two.
LEMMA NextDigit ==
  ASSUME NEW i \in Nat, NEW t \in Nat \ {0}
  PROVE  i % (2 * t) = (i % t) + ((i \div t) % 2) * t
  <1> DEFINE q == i \div t
             r == i % t
             d == q \div 2
             e == q % 2
  <1>1. i = t * q + r /\ q \in Int /\ r \in 0..(t - 1)
    BY DivMod
  <1> HIDE DEF q, r
  <1>2. q = 2 * d + e /\ d \in Int /\ e \in 0..1
    BY <1>1, DivMod
  <1> HIDE DEF d, e
  <1>3. i = (2 * t) * d + (r + e * t)
    <2>1. t * (2 * d + e) = (2 * t) * d + e * t
      BY <1>2
    <2>2. (2 * t) * d \in Int /\ e * t \in Int
      BY <1>2
    <2> QED BY <1>1, <1>2, <2>1, <2>2
  <1>4. r + e * t \in 0..(2 * t - 1) /\ 2 * t \in Nat \ {0}
    <2>1. e = 0 \/ e = 1
      BY <1>2
    <2> QED BY <1>1, <2>1
  <1>5. ((2 * t) * d + (r + e * t)) % (2 * t) = r + e * t
    BY <1>2, <1>4, ModUnique, Zenon
  <1>6. i % (2 * t) = r + e * t
    BY <1>3, <1>5
  <1> QED BY <1>6 DEF r, e, q

\* The function that Atoi defines exists: the remainders of the number.
LEMMA SumExists ==
  ASSUME NEW i \in Nat, NEW l \in Nat
  PROVE  /\ IsSum(Itoa(i, l), l, [j \in 0..l |-> i % 2^j])
         /\ \A f : IsSum(Itoa(i, l), l, f) => f[l] = i % 2^l
  <1> DEFINE g == [j \in 0..l |-> i % 2^j]
             b == Itoa(i, l)
  <1>1. \A j \in 0..l : g[j] = i % 2^j
    OBVIOUS
  <1>2. \A j \in 1..l : b[j] = (i \div 2^(j - 1)) % 2
    BY DEF Itoa
  <1>3. g[0] = 0
    <2>1. i % 1 = 0
      OBVIOUS
    <2> QED BY <1>1, <2>1, PowerOfTwo
  <1>4. \A j \in 1..l : g[j] = g[j - 1] + b[j] * 2^(j - 1)
    <2> TAKE j \in 1..l
    <2>1. j - 1 \in Nat /\ (j - 1) + 1 = j /\ j \in 0..l /\ j - 1 \in 0..l
      OBVIOUS
    <2>2. 2^(j - 1) \in Nat \ {0} /\ 2^j = 2 * 2^(j - 1)
      BY <2>1, PowerOfTwo
    <2>3. i % (2 * 2^(j - 1)) = (i % 2^(j - 1)) + ((i \div 2^(j - 1)) % 2) * 2^(j - 1)
      BY <2>2, NextDigit
    <2> HIDE DEF g, b
    <2> QED BY <1>1, <1>2, <2>1, <2>2, <2>3
  <1>5. g = [j \in 0..l |-> g[j]]
    OBVIOUS
  <1> HIDE DEF g, b
  <1>6. \A j \in 0..l : j = 0 \/ j \in 1..l
    OBVIOUS
  <1>7. IsSum(b, l, g)
    BY <1>3, <1>4, <1>5, <1>6 DEF IsSum, SumStep
  <1>8. ASSUME NEW f, IsSum(b, l, f) PROVE f[l] = g[l]
    <2>1. \A j \in 0..l : f[j] = SumStep(b, f, j)
      BY <1>8 DEF IsSum
    <2> DEFINE S == {j \in 0..l : f[j] = g[j]}
    <2>2. 0 \in S
      BY <1>3, <2>1 DEF SumStep
    <2>3. ASSUME NEW j \in 0..l, j \in S, j < l PROVE j + 1 \in S
      <3>1. j + 1 \in 0..l /\ j + 1 \in 1..l /\ j + 1 # 0 /\ (j + 1) - 1 = j
        BY <2>3
      <3>2. f[j + 1] = f[j] + b[j + 1] * 2^j
        BY <2>1, <3>1 DEF SumStep
      <3>3. g[j + 1] = g[j] + b[j + 1] * 2^j
        BY <1>4, <3>1
      <3> QED BY <2>3, <3>1, <3>2, <3>3
    <2> HIDE DEF S
    <2>4. \A j \in 0..l : j \in S
      BY <2>2, <2>3, UpTo
    <2> QED BY <2>4 DEF S
  <1>9. l \in 0..l
    OBVIOUS
  <1> QED BY <1>1, <1>7, <1>8, <1>9 DEF b, g

\* What itoa sends is the number's last l digits: atoi (srp.go) reads back every
\* number that fits, for every length.
THEOREM AtoiOfItoa ==
  ASSUME NEW i \in Nat, NEW l \in Nat
  PROVE  /\ Atoi(Itoa(i, l)) = i % 2^l /\ Atoi(Itoa(i, l)) \in 0..(2^l - 1)
         /\ i < 2^l => Atoi(Itoa(i, l)) = i
  <1> DEFINE b == Itoa(i, l)
  <1>1. Len(b) = l
    BY DEF Itoa
  <1>2. IsSum(b, l, [j \in 0..l |-> i % 2^j])
    BY SumExists
  <1> HIDE DEF b
  <1>3. IsSum(b, l, CHOOSE f : IsSum(b, l, f))
    BY <1>2, Zenon
  <1>4. Atoi(b) = (CHOOSE f : IsSum(b, l, f))[l]
    <2>1. Atoi(b) = (CHOOSE f : IsSum(b, Len(b), f))[Len(b)]
      BY Zenon DEF Atoi, IsSum, SumStep
    <2> QED BY <1>1, <2>1, Zenon
  <1>5. Atoi(b) = i % 2^l
    BY <1>3, <1>4, SumExists DEF b
  <1>6. 2^l \in Nat \ {0}
    BY PowerOfTwo
  <1>7. i % 2^l \in 0..(2^l - 1)
    BY <1>6, DivMod
  <1>8. i < 2^l => i % 2^l = i
    <2>1. i < 2^l => i \in 0..(2^l - 1)
      BY <1>6
    <2> QED BY <1>6, <2>1, ModSmall
  <1> QED BY <1>5, <1>7, <1>8 DEF b
=============================================================================
