--------------------------- MODULE IntegerLemmas ---------------------------
(***************************************************************************)
(* Facts about integers that several proofs need: induction over naturals  *)
(* and intervals, floored division of either sign, arithmetic modulo n,    *)
(* and what a floor loses of a product or a quotient.                      *)
(***************************************************************************)
EXTENDS Integers, WellFoundedInduction, TLAPS

-----------------------------------------------------------------------------
(* Induction, stated of sets rather than of predicates.                    *)

LEMMA LeastNatural ==
  ASSUME NEW S \in SUBSET Nat, S # {}
  PROVE  \E n \in S : \A m \in S : n <= m
<1> DEFINE Below == OpToRel(<, Nat)
<1>1. \E n \in S : \A m \in S : ~(<<m, n>> \in Below)
  <2>1. IsWellFoundedOn(Below, Nat)
    BY NatLessThanWellFounded
  <2> HIDE DEF Below
  <2> QED BY <2>1, WFMin
<1>2. \A m, n \in Nat : m < n => <<m, n>> \in Below
  BY DEF OpToRel
<1> QED
  <2> HIDE DEF Below
  <2>1. PICK n \in S : \A m \in S : ~(<<m, n>> \in Below)
    BY <1>1
  <2>2. \A m \in S : ~(m < n)
    BY <1>2, <2>1
  <2> QED BY <2>2

LEMMA IntervalInduction ==
  ASSUME NEW S, NEW first \in Int, NEW last \in Int,
         first \in S,
         \A i \in first .. last - 1 : i \in S => i + 1 \in S
  PROVE  first .. last \subseteq S
<1> DEFINE Missed == {k \in Nat : first + k <= last /\ first + k \notin S}
<1> SUFFICES ASSUME Missed # {} PROVE FALSE
  <2> SUFFICES ASSUME NEW i \in first .. last, i \notin S PROVE Missed # {}
    OBVIOUS
  <2>1. i - first \in Missed
    OBVIOUS
  <2> QED BY <2>1
<1>1. PICK k \in Missed : \A j \in Missed : k <= j
  <2> Missed \in SUBSET Nat
    OBVIOUS
  <2> HIDE DEF Missed
  <2> QED BY LeastNatural
<1>2. k # 0
  OBVIOUS
<1>3. k - 1 \in Nat /\ k - 1 \notin Missed
  BY <1>1, <1>2
<1>4. first + (k - 1) \in S
  BY <1>3
<1>5. first + (k - 1) + 1 \in S
  BY <1>3, <1>4
<1> QED BY <1>5

-----------------------------------------------------------------------------
(* Floored division.                                                       *)

LEMMA FloorDiv ==
  ASSUME NEW a \in Int, NEW b \in Nat \ {0}
  PROVE  /\ a \div b \in Int /\ (a \div b) * b <= a /\ a < (a \div b + 1) * b
         /\ a % b \in 0 .. b - 1 /\ a = (a \div b) * b + (a % b)
  OBVIOUS

LEMMA FloorUnique ==
  ASSUME NEW a \in Int, NEW b \in Nat \ {0}, NEW q \in Int, q * b <= a, a < (q + 1) * b
  PROVE  a \div b = q
<1> DEFINE r == a \div b
<1>1. r \in Int /\ r * b <= a /\ a < (r + 1) * b
  BY FloorDiv
<1> HIDE DEF r
<1>2. (r - q) * b < b /\ (q - r) * b < b
  BY <1>1
<1>3. r - q < 1 /\ q - r < 1
  BY <1>1, <1>2
<1>4. r = q
  BY <1>1, <1>3
<1> QED BY <1>4 DEF r

LEMMA ExactDiv ==
  ASSUME NEW a \in Int, NEW b \in Nat \ {0}
  PROVE  (a * b) \div b = a /\ (a * b) % b = 0
<1>1. (a * b) \div b = a
  BY FloorUnique
<1> QED BY <1>1, FloorDiv

-----------------------------------------------------------------------------
(* Arithmetic modulo n.                                                    *)

LEMMA ModUnique ==
  ASSUME NEW a \in Int, NEW n \in Nat \ {0}, NEW r \in 0 .. n - 1, NEW q \in Int, a = q * n + r
  PROVE  a % n = r
<1>1. a \div n = q
  BY FloorUnique
<1> QED BY <1>1, FloorDiv

LEMMA ModAdd ==
  ASSUME NEW a \in Int, NEW b \in Int, NEW n \in Nat \ {0}
  PROVE  ((a % n) + b) % n = (a + b) % n
<1> DEFINE q == a \div n
           r == a % n
           s == (a + b) \div n
           t == (a + b) % n
<1>1. q \in Int /\ r \in 0 .. n - 1 /\ a = q * n + r
  BY FloorDiv
<1>2. s \in Int /\ t \in 0 .. n - 1 /\ a + b = s * n + t
  BY FloorDiv
<1> HIDE DEF q, r, s, t
<1>3. r + b \in Int /\ s - q \in Int /\ r + b = (s - q) * n + t
  BY <1>1, <1>2
<1>4. (r + b) % n = t
  BY <1>2, <1>3, ModUnique
<1> QED BY <1>4 DEF r, t

LEMMA ModPeriod ==
  ASSUME NEW a \in Int, NEW k \in Int, NEW n \in Nat \ {0}
  PROVE  (a + k * n) % n = a % n
<1> DEFINE q == a \div n
           r == a % n
<1>1. q \in Int /\ r \in 0 .. n - 1 /\ a = q * n + r
  BY FloorDiv
<1> HIDE DEF q, r
<1>2. a + k * n = (q + k) * n + r
  BY <1>1
<1>3. (a + k * n) % n = r
  BY <1>1, <1>2, ModUnique
<1> QED BY <1>3 DEF r

LEMMA ModSmall ==
  ASSUME NEW n \in Nat \ {0}, NEW a \in 0 .. n - 1
  PROVE  a % n = a
<1> a = 0 * n + a
  OBVIOUS
<1> QED BY ModUnique

LEMMA ModApart ==
  ASSUME NEW a \in Int, NEW b \in Int, NEW n \in Nat \ {0}, a < b, b < a + n
  PROVE  a % n # b % n
<1> DEFINE q == a \div n
           s == b \div n
<1> SUFFICES ASSUME a % n = b % n PROVE FALSE
  OBVIOUS
<1>1. q \in Int /\ s \in Int /\ b - a = (s - q) * n
  BY FloorDiv
<1> HIDE DEF q, s
<1>2. (s - q) * n > 0 /\ (s - q) * n < n
  BY <1>1
<1>3. s - q > 0 /\ s - q < 1
  BY <1>1, <1>2
<1> QED BY <1>1, <1>3

(* What lies between two numbers keeps them apart.                         *)
LEMMA KeptApart ==
  ASSUME NEW a \in Int, NEW b \in Int, NEW between \in Int,
         \/ a <= between /\ between < b
         \/ a < between /\ between <= b
  PROVE  ~(b <= a)
OBVIOUS

-----------------------------------------------------------------------------
(* Floor division, in the three forms the proofs use. *)

LEMMA DivFloor ==
  ASSUME NEW a \in Nat, NEW b \in Nat \ {0}
  PROVE  a \div b \in Nat /\ (a \div b) * b <= a /\ a < (a \div b) * b + b
  OBVIOUS

LEMMA DivAtMost ==
  ASSUME NEW a \in Nat, NEW b \in Nat, NEW c \in Nat \ {0}, a <= b * c
  PROVE  a \div c \in Nat /\ a \div c <= b
  OBVIOUS

LEMMA DivAtLeast ==
  ASSUME NEW a \in Nat, NEW b \in Nat, NEW c \in Nat \ {0}, b * c <= a
  PROVE  a \div c \in Nat /\ b <= a \div c
  OBVIOUS

LEMMA DivMonotone ==
  ASSUME NEW a \in Nat, NEW b \in Nat, NEW c \in Nat \ {0}, a <= b
  PROVE  a \div c <= b \div c
  OBVIOUS

LEMMA DivExact ==
  ASSUME NEW a \in Nat, NEW c \in Nat \ {0}
  PROVE  (a * c) \div c = a
  OBVIOUS

LEMMA MulMonotone ==
  ASSUME NEW a \in Nat, NEW b \in Nat, NEW c \in Nat, a <= b
  PROVE  a * c \in Nat /\ b * c \in Nat /\ a * c <= b * c
  OBVIOUS

(* Negation turns a floor into a ceiling and a remainder into its rest.    *)
LEMMA NegatedFloor ==
  ASSUME NEW a \in Nat, NEW b \in Nat \ {0}
  PROVE  /\ a % b = 0 => (-a) \div b = -(a \div b) /\ (-a) % b = 0
         /\ a % b # 0 => (-a) \div b = -(a \div b + 1) /\ (-a) % b = b - (a % b)
<1> DEFINE q == a \div b
           r == a % b
<1>1. q \in Int /\ r \in 0 .. b - 1 /\ a = q * b + r
  BY FloorDiv
<1> HIDE DEF q, r
<1>2. ASSUME r = 0 PROVE (-a) \div b = -q /\ (-a) % b = 0
  <2>1. -a = (-q) * b + 0 /\ 0 \in 0 .. b - 1 /\ -q \in Int /\ -a \in Int
    BY <1>1, <1>2
  <2>2. (-a) % b = 0
    BY <2>1, ModUnique
  <2>3. (-q) * b <= -a /\ -a < (-q + 1) * b
    BY <1>1, <1>2
  <2> QED BY <2>1, <2>2, <2>3, FloorUnique
<1>3. ASSUME r # 0 PROVE (-a) \div b = -(q + 1) /\ (-a) % b = b - r
  <2>1. -a = (-(q + 1)) * b + (b - r) /\ b - r \in 0 .. b - 1 /\ -(q + 1) \in Int /\ -a \in Int
    BY <1>1, <1>3
  <2>2. (-a) % b = b - r
    BY <2>1, ModUnique
  <2>3. (-(q + 1)) * b <= -a /\ -a < (-(q + 1) + 1) * b
    BY <1>1, <1>3
  <2> QED BY <2>1, <2>2, <2>3, FloorUnique
<1> QED BY <1>2, <1>3 DEF q, r

(* What multiplies by ten at each number is the powers of ten.             *)
LEMMA TenfoldPositive ==
  ASSUME NEW f, f = [n \in Nat |-> IF n = 0 THEN 1 ELSE 10 * f[n - 1]]
  PROVE  f[0] = 1 /\ \A n \in Nat : f[n] \in Nat \ {0}
<1> DEFINE S == {n \in Nat : f[n] \in Nat \ {0}}
<1>1. f[0] = 1 /\ 0 \in S
  OBVIOUS
<1>2. ASSUME NEW n \in Nat, n \in S PROVE n + 1 \in S
  <2>1. n + 1 \in Nat /\ n + 1 # 0 /\ (n + 1) - 1 = n
    OBVIOUS
  <2>2. f[n + 1] = 10 * f[n]
    BY <2>1, Zenon
  <2> QED BY <1>2, <2>1, <2>2
<1> HIDE DEF S
<1>3. ASSUME NEW n \in Nat PROVE 0 .. n \subseteq S
  BY <1>1, <1>2, IntervalInduction
<1>4. \A n \in Nat : n \in S
  BY <1>3
<1> QED BY <1>1, <1>4 DEF S

-----------------------------------------------------------------------------
(* What a floored quotient of at least `least` loses is no more than one   *)
(* part in `least` of what it was taken of.                                *)

LEMMA FloorLoses ==
  ASSUME NEW a \in Nat, NEW b \in Nat \ {0}, NEW least \in Nat \ {0}, least <= a \div b
  PROVE  /\ 0 <= a - (a \div b) * b
         /\ (a - (a \div b) * b) * least <= a
<1> DEFINE q == a \div b
           r == a % b
<1>1. q \in Int /\ r \in 0 .. b - 1 /\ a = q * b + r /\ least <= q
  BY FloorDiv
<1> HIDE DEF q, r
<1>2. r * least <= b * least /\ b * least <= b * q /\ b * q = q * b /\ r * least \in Int
  BY <1>1
<1>3. a - q * b = r /\ q * b \in Int
  BY <1>1
<1>4. r * least <= a
  BY <1>1, <1>2, <1>3
<1> QED BY <1>1, <1>3, <1>4 DEF q

(* The inverse one * one \div p of p = one * d.                            *)
LEMMA InverseOfMultiple ==
  ASSUME NEW one \in Nat \ {0}, NEW d \in Nat \ {0}, NEW least \in Nat \ {0},
         NEW v \in Int, v = (one * one) \div (one * d), least <= v
  PROVE  0 <= one - v * d /\ (one - v * d) * least <= one
<1> DEFINE n == one * one
           p == one * d
<1>1. n \in Nat /\ p \in Nat \ {0}
  OBVIOUS
<1>2. v * p <= n /\ n < (v + 1) * p
  <2> HIDE DEF n, p
  <2>1. v = n \div p
    BY DEF n, p
  <2> QED BY <1>1, <2>1, FloorDiv
<1>3. v * p = one * (v * d) /\ (v + 1) * p = one * ((v + 1) * d) /\ v * d \in Int /\ (v + 1) * d \in Int
  OBVIOUS
<1>4. v * d <= one /\ one < (v + 1) * d
  <2> DEFINE x == v * d
             y == (v + 1) * d
  <2>1. one * x <= one * one /\ one * one < one * y /\ x \in Int /\ y \in Int
    BY <1>2, <1>3
  <2> HIDE DEF x, y
  <2>2. x <= one
    BY <2>1
  <2>3. one < y
    BY <2>1
  <2> QED BY <2>2, <2>3 DEF x, y
<1>5. v = one \div d
  BY <1>4, FloorUnique
<1>6. least <= one \div d
  BY <1>5
<1> QED BY <1>5, <1>6, FloorLoses

LEMMA ProductOfThree ==
  \A a, b, c \in Int : /\ a * (b * c) = (a * b) * c /\ (b * c) * a = (a * b) * c
                       /\ a * (b * c) \in Int
  OBVIOUS

(* The inverse v of p, itself the floored quotient of raw * one by down:   *)
(* the two roundings pull apart, and each is held by both floors.          *)
LEMMA InverseOfQuotient ==
  ASSUME NEW one \in Nat \ {0}, NEW raw \in Nat \ {0}, NEW down \in Nat \ {0}, NEW least \in Nat \ {0},
         NEW p \in Int, p = (raw * one) \div down, least <= p,
         NEW v \in Int, v = (one * one) \div p, least <= v
  PROVE  /\ (v * raw - one * down) * least <= one * down
         /\ (one * down - v * raw) * least <= one * down
<1> DEFINE n == raw * one
           r == n % down
           m == one * one
           s == m % p
<1>1. n \in Nat /\ m \in Nat /\ p \in Nat \ {0} /\ v \in Nat \ {0}
  OBVIOUS
<1>2. n = p * down + r /\ r \in 0 .. down - 1
  <2> HIDE DEF n
  <2>1. p = n \div down
    BY DEF n
  <2>2. n = (n \div down) * down + (n % down) /\ n % down \in 0 .. down - 1
    <3>1. n \in Int
      BY <1>1
    <3> QED BY <3>1, FloorDiv, Zenon
  <2> QED BY <2>1, <2>2, Zenon
<1>3. m = v * p + s /\ s \in 0 .. p - 1
  <2> HIDE DEF m
  <2>1. v = m \div p
    BY DEF m
  <2>2. m = (m \div p) * p + (m % p) /\ m % p \in 0 .. p - 1
    <3>1. m \in Int
      BY <1>1
    <3> QED BY <1>1, <3>1, FloorDiv, Zenon
  <2> QED BY <2>1, <2>2, Zenon
<1> HIDE DEF r, s
<1> DEFINE diff == v * raw - one * down
           bound == m * down
<1>4. diff * one = v * r - s * down /\ diff \in Int
  <2>1. diff * one = v * n - m * down
    BY SMTT(40)
  <2>2. v * n = v * (p * down) + v * r /\ m * down = (v * p) * down + s * down
    <3> HIDE DEF n, m
    <3> QED BY <1>1, <1>2, <1>3
  <2>3. v * (p * down) = (v * p) * down /\ v * (p * down) \in Int
    <3>1. down \in Int
      OBVIOUS
    <3> QED BY <3>1, ProductOfThree, ZenonT(60)
  <2>5. v * r \in Int /\ s * down \in Int
    BY <1>2, <1>3
  <2> HIDE DEF n, m, diff
  <2>4. diff * one = v * r - s * down
    BY <2>1, <2>2, <2>3, <2>5
  <2> QED BY <2>4 DEF diff
<1>5. (v * p) * down <= bound /\ bound \in Nat
  <2> HIDE DEF m
  <2>1. v * p <= m /\ v * p \in Nat
    BY <1>1, <1>3
  <2> QED BY <1>1, <2>1
<1>6. (v * r) * least <= bound /\ v * r \in Nat
  <2>1. v * r \in Nat /\ v * r <= v * down /\ v * down \in Nat
    BY <1>1, <1>2
  <2>2. (v * r) * least <= (v * down) * least /\ (v * down) * least <= (v * down) * p
    BY <1>1, <2>1
  <2>3. (v * down) * p = (v * p) * down
    BY <1>1
  <2> HIDE DEF bound
  <2> QED BY <1>1, <1>5, <2>1, <2>2, <2>3
<1>7. (s * down) * least <= bound /\ s * down \in Nat
  <2>1. s * down \in Nat /\ s * down <= p * down /\ p * down \in Nat
    BY <1>1, <1>3
  <2>2. (s * down) * least <= (p * down) * least /\ (p * down) * least <= (p * down) * v
    BY <1>1, <2>1
  <2>3. (p * down) * v = (v * p) * down
    <3>1. down \in Int
      OBVIOUS
    <3> QED BY <3>1, ProductOfThree, ZenonT(60)
  <2> HIDE DEF bound
  <2> QED BY <1>1, <1>5, <2>1, <2>2, <2>3
<1>8. bound = (one * down) * one
  OBVIOUS
<1> HIDE DEF diff, bound
<1>9. (diff * least) * one <= (one * down) * one
  <2>1. (diff * least) * one = (v * r - s * down) * least
    BY <1>4
  <2>2. (v * r - s * down) * least = (v * r) * least - (s * down) * least /\ (s * down) * least >= 0
    BY <1>6, <1>7
  <2> QED BY <1>5, <1>6, <1>7, <1>8, <2>1, <2>2
<1>10. ((-diff) * least) * one <= (one * down) * one
  <2>1. ((-diff) * least) * one = (s * down - v * r) * least
    <3>1. (-diff) * one = s * down - v * r
      BY <1>4, <1>6, <1>7
    <3>2. ((-diff) * least) * one = ((-diff) * one) * least
      BY <1>4
    <3> QED BY <3>1, <3>2
  <2>2. (s * down - v * r) * least = (s * down) * least - (v * r) * least /\ (v * r) * least >= 0
    BY <1>6, <1>7
  <2> QED BY <1>5, <1>6, <1>7, <1>8, <2>1, <2>2
<1>11. \A x, y \in Int : x * one <= y * one => x <= y
  OBVIOUS
<1>12. diff * least <= one * down /\ (-diff) * least <= one * down
  BY <1>4, <1>9, <1>10, <1>11
<1>13. one * down - v * raw = -diff
  BY DEF diff
<1> QED BY <1>12, <1>13 DEF diff

=============================================================================
