----------------------------- MODULE NatLemmas -----------------------------
(***************************************************************************)
(* Well-foundedness of the natural numbers in the form the proofs of this  *)
(* project use it: as a statement about sets, from which an induction over *)
(* heights, list positions or subsets is made where it is needed.  And     *)
(* the arithmetic of numbers written in two limbs of any base: quotients,  *)
(* remainders, products with their carries and the error of a trial        *)
(* quotient.                                                               *)
(***************************************************************************)
EXTENDS Integers, WellFoundedInduction, TLAPS

\* Every nonempty set of numbers has a least one.
LEMMA LeastNat ==
  ASSUME NEW T, T \subseteq Nat, T # {}
  PROVE  \E x \in T : \A y \in T : x <= y
<1> DEFINE R == OpToRel(<, Nat)
<1>1. IsWellFoundedOn(R, Nat)
  BY NatLessThanWellFounded
<1>2. \A x, y \in Nat : <<x, y>> \in R <=> x < y
  BY DEF OpToRel
<1> HIDE DEF R
<1>3. PICK x \in T : \A y \in T : ~(<<y, x>> \in R)
  BY <1>1, WFMin
<1>4. \A y \in T : ~(y < x)
  BY <1>2, <1>3
<1>5. x \in Nat /\ \A y \in T : y \in Nat
  BY <1>3
<1>6. \A y \in T : x <= y
  BY <1>4, <1>5
<1> QED BY <1>6

\* Induction, for a set of numbers.
LEMMA NatSetInduction ==
  ASSUME NEW S, 0 \in S, \A i \in Nat : i \in S => i + 1 \in S
  PROVE  Nat \subseteq S
<1> SUFFICES ASSUME Nat \ S # {} PROVE FALSE
  OBVIOUS
<1>1. PICK x \in Nat \ S : \A y \in Nat \ S : x <= y
  BY LeastNat
<1>2. x # 0 /\ x - 1 \in Nat
  BY <1>1
<1>3. x - 1 \notin S /\ (x - 1) + 1 = x
  BY <1>1, <1>2
<1>4. x <= x - 1
  BY <1>1, <1>2, <1>3
<1> QED BY <1>2, <1>4

-----------------------------------------------------------------------------
(* Products, quotients and remainders                                      *)

\* The type of a product.
LEMMA MulType ==
  ASSUME NEW a \in Nat, NEW b \in Nat
  PROVE  a * b \in Nat /\ a * b = b * a /\ (a > 0 /\ b > 0 => a * b > 0)
OBVIOUS

\* Products distribute over sums.
LEMMA MulOver ==
  ASSUME NEW a \in Nat, NEW b \in Nat, NEW c \in Nat
  PROVE  (a + b) * c = a * c + b * c
OBVIOUS

\* A larger factor gives a larger product.
LEMMA MulMono ==
  ASSUME NEW a \in Nat, NEW b \in Nat, NEW c \in Nat, a <= b
  PROVE  a * c <= b * c
<1>1. PICK d \in Nat : b = a + d
  <2>1. b - a \in Nat /\ b = a + (b - a)
    OBVIOUS
  <2> QED BY <2>1
<1>2. b * c = a * c + d * c /\ d * c \in Nat
  BY <1>1
<1>3. a * c \in Nat
  OBVIOUS
<1> QED BY <1>2, <1>3

\* A factor may be cancelled.
LEMMA MulCancel ==
  ASSUME NEW a \in Nat, NEW b \in Nat, NEW c \in Nat \ {0}, a * c < b * c
  PROVE  a < b
<1> SUFFICES ASSUME b <= a PROVE FALSE
  OBVIOUS
<1>1. b * c <= a * c
  BY MulMono
<1>2. a * c \in Nat /\ b * c \in Nat
  OBVIOUS
<1> QED BY <1>1, <1>2

\* Quotient and remainder.
LEMMA DivMod ==
  ASSUME NEW a \in Nat, NEW b \in Nat \ {0}
  PROVE  a \div b \in Nat /\ a % b \in 0 .. b - 1 /\ a = (a \div b) * b + (a % b)
<1>1. a \div b \in Nat /\ a % b \in 0 .. b - 1
  OBVIOUS
<1>2. a = b * (a \div b) + (a % b)
  OBVIOUS
<1>3. b * (a \div b) = (a \div b) * b
  BY <1>1, MulType
<1> QED BY <1>1, <1>2, <1>3

\* Quotient and remainder are the only numbers that divide like them.
LEMMA DivUnique ==
  ASSUME NEW a \in Nat, NEW b \in Nat \ {0}, NEW q \in Nat, NEW r \in 0 .. b - 1, a = q * b + r
  PROVE  a \div b = q /\ a % b = r
<1>1. PICK p, s : p = a \div b /\ s = a % b
  OBVIOUS
<1>2. p \in Nat /\ s \in 0 .. b - 1 /\ a = p * b + s
  BY <1>1, DivMod
<1>3. ASSUME p < q PROVE FALSE
  <2>1. (p + 1) * b <= q * b
    BY <1>2, <1>3, MulMono
  <2>2. (p + 1) * b = p * b + b
    BY <1>2
  <2>3. p * b \in Nat /\ q * b \in Nat
    BY <1>2
  <2> QED BY <1>2, <2>1, <2>2, <2>3
<1>4. ASSUME q < p PROVE FALSE
  <2>1. (q + 1) * b <= p * b
    BY <1>2, <1>4, MulMono
  <2>2. (q + 1) * b = q * b + b
    OBVIOUS
  <2>3. p * b \in Nat /\ q * b \in Nat
    BY <1>2
  <2> QED BY <1>2, <2>1, <2>2, <2>3
<1>5. p = q
  BY <1>2, <1>3, <1>4
<1>6. s = r
  <2>1. q * b \in Nat
    OBVIOUS
  <2> QED BY <1>2, <1>5, <2>1
<1> QED BY <1>1, <1>5, <1>6

\* A dividend below a multiple of the divisor bounds the quotient.
LEMMA DivBelow ==
  ASSUME NEW a \in Nat, NEW b \in Nat \ {0}, NEW m \in Nat, a < m * b
  PROVE  a \div b < m
<1>1. PICK q, r : q = a \div b /\ r = a % b
  OBVIOUS
<1>2. q \in Nat /\ r \in Nat /\ a = q * b + r
  BY <1>1, DivMod
<1>3. q * b \in Nat /\ m * b \in Nat
  BY <1>2
<1>4. q * b < m * b
  BY <1>2, <1>3
<1> QED BY <1>1, <1>2, <1>4, MulCancel

\* A quotient is at least q if q times the divisor fits.
LEMMA DivAbove ==
  ASSUME NEW a \in Nat, NEW b \in Nat \ {0}, NEW q \in Nat, q * b <= a
  PROVE  q <= a \div b
<1>1. PICK p, r : p = a \div b /\ r = a % b
  OBVIOUS
<1>2. p \in Nat /\ r \in Nat /\ r < b /\ a = p * b + r
  BY <1>1, DivMod
<1>3. (p + 1) * b = p * b + b /\ p * b \in Nat /\ q * b \in Nat
  BY <1>2
<1>4. q * b < (p + 1) * b
  BY <1>2, <1>3
<1>5. q < p + 1
  BY <1>2, <1>4, MulCancel
<1> QED BY <1>1, <1>2, <1>5

\* Dividing twice divides by the product.
LEMMA DivDiv ==
  ASSUME NEW a \in Nat, NEW b \in Nat \ {0}, NEW c \in Nat \ {0}
  PROVE  b * c \in Nat \ {0} /\ (a \div b) \div c = a \div (b * c)
<1>1. PICK q, r : q = a \div b /\ r = a % b
  OBVIOUS
<1>2. q \in Nat /\ r \in Nat /\ r < b /\ a = q * b + r
  BY <1>1, DivMod
<1>3. PICK p, s : p = q \div c /\ s = q % c
  OBVIOUS
<1>4. p \in Nat /\ s \in Nat /\ s < c /\ q = p * c + s
  BY <1>2, <1>3, DivMod
<1>5. PICK m \in Nat : m = b * c /\ m # 0
  BY MulType
<1>6. a = p * m + (s * b + r)
  <2>1. (p * c + s) * b = p * (b * c) + s * b
    BY <1>4
  <2> QED BY <1>2, <1>4, <1>5, <2>1
<1>7. s * b + r < m /\ s * b + r \in Nat
  <2>1. (s + 1) * b <= c * b
    BY <1>4, MulMono
  <2>2. (s + 1) * b = s * b + b /\ s * b \in Nat /\ c * b = m
    BY <1>4, <1>5
  <2> QED BY <1>2, <1>5, <2>1, <2>2
<1>8. a \div m = p
  <2>1. s * b + r \in 0 .. m - 1
    BY <1>5, <1>7
  <2> QED BY <1>4, <1>5, <1>6, <2>1, DivUnique
<1> QED BY <1>1, <1>3, <1>5, <1>8

\* A larger dividend has no smaller quotient, a larger divisor no larger one.
LEMMA DivMono ==
  ASSUME NEW a \in Nat, NEW b \in Nat \ {0}, NEW c \in Nat, NEW d \in Nat \ {0}, a <= c, d <= b
  PROVE  a \div b <= c \div d
<1>1. PICK q, r : q = a \div b /\ r = a % b
  OBVIOUS
<1>2. q \in Nat /\ r \in Nat /\ a = q * b + r
  BY <1>1, DivMod
<1>3. d * q <= b * q
  BY <1>2, MulMono
<1>4. d * q = q * d /\ b * q = q * b /\ q * b \in Nat /\ q * d \in Nat
  BY <1>2
<1>5. q * d <= c
  BY <1>2, <1>3, <1>4
<1> QED BY <1>1, <1>2, <1>5, DivAbove

\* Schoolbook division by one limb.
LEMMA LimbDivision ==
  ASSUME NEW base \in Nat \ {0}, NEW hi \in Nat, NEW lo \in 0 .. base - 1, NEW n \in Nat \ {0}
  PROVE  /\ (hi * base + lo) \div n = (hi \div n) * base + ((hi % n) * base + lo) \div n
         /\ (hi * base + lo) % n = ((hi % n) * base + lo) % n
         /\ ((hi % n) * base + lo) \div n < base
<1>1. PICK q, r : q = hi \div n /\ r = hi % n
  OBVIOUS
<1>2. q \in Nat /\ r \in Nat /\ r < n /\ hi = q * n + r
  BY <1>1, DivMod
<1>3. PICK a \in Nat : a = r * base + lo
  BY <1>2
<1>4. PICK p, s : p = a \div n /\ s = a % n
  OBVIOUS
<1>5. p \in Nat /\ s \in 0 .. n - 1 /\ a = p * n + s
  BY <1>3, <1>4, DivMod
<1>6. PICK b \in Nat : b = hi * base + lo
  BY MulType
<1>7. b = (q * base + p) * n + s
  <2>1. hi * base = (q * base) * n + r * base
    BY <1>2
  <2>2. PICK m \in Nat : m = q * base
    BY <1>2
  <2>3. (m + p) * n = m * n + p * n /\ m * n \in Nat /\ p * n \in Nat /\ r * base \in Nat
    BY <1>2, <1>5, <2>2
  <2>4. PICK k, l, j : k = m * n /\ l = p * n /\ j = r * base
    OBVIOUS
  <2>5. b = (k + j) + lo /\ j + lo = l + s /\ (m + p) * n = k + l
    BY <1>3, <1>5, <1>6, <2>1, <2>2, <2>3, <2>4
  <2>6. k \in Nat /\ l \in Nat /\ j \in Nat
    BY <2>3, <2>4
  <2>7. b = (k + l) + s
    BY <1>5, <2>5, <2>6
  <2> QED BY <2>2, <2>5, <2>7
<1>8. q * base + p \in Nat
  BY <1>2, <1>5
<1>9. b \div n = q * base + p /\ b % n = s
  BY <1>5, <1>6, <1>7, <1>8, DivUnique
<1>10. p < base
  <2>1. (r + 1) * base <= n * base
    BY <1>2, MulMono
  <2>2. (r + 1) * base = r * base + base /\ r * base \in Nat /\ n * base = base * n /\ base * n \in Nat
    BY <1>2
  <2>3. a < base * n
    BY <1>3, <2>1, <2>2
  <2> QED BY <1>3, <1>4, <2>3, DivBelow
<1> QED BY <1>1, <1>3, <1>4, <1>6, <1>9, <1>10

\* Numbers of two limbs are in lexical order.
LEMMA LimbOrder ==
  ASSUME NEW base \in Nat \ {0}, NEW h1 \in Nat, NEW l1 \in 0 .. base - 1, NEW h2 \in Nat, NEW l2 \in 0 .. base - 1
  PROVE  /\ h1 * base + l1 < h2 * base + l2 <=> h1 < h2 \/ (h1 = h2 /\ l1 < l2)
         /\ h1 * base + l1 = h2 * base + l2 <=> h1 = h2 /\ l1 = l2
<1>1. PICK x \in Nat, y \in Nat : x = h1 * base /\ y = h2 * base
  BY MulType
<1>2. ASSUME h1 < h2 PROVE x + l1 < y + l2
  <2>1. (h1 + 1) * base <= h2 * base /\ (h1 + 1) * base = h1 * base + base
    BY <1>2, MulMono
  <2> QED BY <1>1, <2>1
<1>3. ASSUME h2 < h1 PROVE y + l2 < x + l1
  <2>1. (h2 + 1) * base <= h1 * base /\ (h2 + 1) * base = h2 * base + base
    BY <1>3, MulMono
  <2> QED BY <1>1, <2>1
<1>4. CASE h1 < h2
  <2>1. x + l1 < y + l2
    BY <1>2, <1>4
  <2> QED BY <1>1, <1>4, <2>1
<1>5. CASE h2 < h1
  <2>1. y + l2 < x + l1
    BY <1>3, <1>5
  <2> QED BY <1>1, <1>5, <2>1
<1>6. CASE h1 = h2
  <2>1. x = y
    BY <1>1, <1>6
  <2> QED BY <1>1, <1>6, <2>1
<1> QED BY <1>4, <1>5, <1>6

\* The limbs of the product of uh * base + ul and n: hi and lo of ul * n, ph and p1 of
\* uh * n.
LimbsOf(base, uh, ul, n, hi, lo, ph, p1) ==
  /\ hi = (ul * n) \div base /\ lo = (ul * n) % base
  /\ ph = (uh * n) \div base /\ p1 = (uh * n) % base

\* The product fits two limbs exactly when no limb of it carries.
Carries(base, uh, ul, n, hi, lo, ph, p1) ==
  /\ hi \in Nat /\ lo \in 0 .. base - 1 /\ ph \in Nat /\ p1 \in 0 .. base - 1
  /\ (uh * base + ul) * n < base * base <=> ph = 0 /\ hi + p1 < base
  /\ ph = 0 => (uh * base + ul) * n = (hi + p1) * base + lo

\* A product fits two limbs exactly when no carry is left, and is then the sum of its limbs.
LEMMA LimbProduct ==
  ASSUME NEW base \in Nat \ {0}, NEW uh \in Nat, NEW ul \in Nat, NEW n \in Nat,
         NEW hi, NEW lo, NEW ph, NEW p1, LimbsOf(base, uh, ul, n, hi, lo, ph, p1)
  PROVE  Carries(base, uh, ul, n, hi, lo, ph, p1)
<1>0. hi = (ul * n) \div base /\ lo = (ul * n) % base /\ ph = (uh * n) \div base /\ p1 = (uh * n) % base
  BY DEF LimbsOf
<1>1. PICK x \in Nat, y \in Nat : x = uh * n /\ y = ul * n
  BY MulType
<1>2. /\ hi \in Nat /\ lo \in 0 .. base - 1 /\ y = hi * base + lo
      /\ ph \in Nat /\ p1 \in 0 .. base - 1 /\ x = ph * base + p1
  BY <1>0, <1>1, DivMod
<1>3. PICK a \in Nat : a = (uh * base + ul) * n
  BY MulType
<1>4. a = x * base + y
  BY <1>1, <1>3
<1>5. PICK m \in Nat : m = x + hi
  BY <1>1, <1>2
<1>10. m = (ph * base + p1) + hi
  BY <1>2, <1>5
<1>6. a = m * base + lo
  <2>0. hi \in Nat /\ base \in Nat
    BY <1>2
  <2>1. (x + hi) * base = x * base + hi * base
    BY <2>0, MulOver
  <2>2. PICK j, k : j = x * base /\ k = hi * base
    OBVIOUS
  <2>3. j \in Nat /\ k \in Nat /\ a = j + (k + lo) /\ m = x + hi /\ (x + hi) * base = j + k
    BY <1>1, <1>2, <1>4, <1>5, <2>1, <2>2, MulType
  <2> QED BY <1>2, <2>3
<1>7. a < base * base <=> m < base
  <2>1. 0 \in 0 .. base - 1 /\ base * base = base * base + 0 /\ base * base \in Nat
    OBVIOUS
  <2>2. m * base + lo < base * base + 0 <=> m < base \/ (m = base /\ lo < 0)
    BY <1>2, <1>5, <2>1, LimbOrder
  <2> QED BY <1>2, <1>6, <2>1, <2>2
<1>8. m < base <=> ph = 0 /\ hi + p1 < base
  <2>1. CASE ph = 0
    BY <1>2, <1>5, <1>10, <2>1
  <2>2. CASE ph # 0
    <3>1. 1 * base <= ph * base
      BY <1>2, <2>2, MulMono
    <3>2. ph * base \in Nat
      BY <1>2, MulType
    <3> QED BY <1>2, <1>5, <1>10, <2>2, <3>1, <3>2
  <2> QED BY <2>1, <2>2
<1>9. ph = 0 => a = (hi + p1) * base + lo
  <2>1. ph = 0 => m = hi + p1
    BY <1>2, <1>5, <1>10
  <2> QED BY <1>6, <2>1
<1> QED BY <1>2, <1>3, <1>7, <1>8, <1>9 DEF Carries

\* The quotient by the leading half of a divisor that was shifted to its highest bit
\* is the quotient by the divisor, or one more.
LEMMA TrialBound ==
  ASSUME NEW base \in Nat \ {0}, NEW a \in Nat, a < base * base, NEW v1 \in Nat, base <= 2 * v1,
         NEW p \in Nat, p >= 2, NEW e \in 0 .. p - 1, NEW v, v = v1 * p + e
  PROVE  /\ v \in Nat \ {0} /\ v1 * p \in Nat \ {0}
         /\ a \div v <= a \div (v1 * p) /\ a \div (v1 * p) <= (a \div v) + 1
<1>0. v1 > 0
  OBVIOUS
<1>1. PICK d \in Nat : d = v1 * p /\ d > 0
  BY <1>0, MulType
<1>2. v \in Nat /\ v >= d /\ v > 0
  BY <1>1
<1>3. a \div v <= a \div d
  BY <1>1, <1>2, DivMono
<1>4. PICK t, r : t = a \div d /\ r = a % d
  OBVIOUS
<1>5. t \in Nat /\ r \in Nat /\ a = t * d + r
  BY <1>1, <1>4, DivMod
<1>6. CASE t = 0
  <2>1. a \div v \in Nat
    BY <1>2, DivMod
  <2> QED BY <1>1, <1>2, <1>3, <1>4, <1>6, <2>1
<1>7. CASE t # 0
  <2>1. PICK s \in Nat : s + 1 = t
    BY <1>5, <1>7
  <2>2. base * base <= (2 * v1) * (2 * v1)
    <3>1. base * base <= (2 * v1) * base /\ base * (2 * v1) <= (2 * v1) * (2 * v1)
      BY MulMono
    <3>2. (2 * v1) * base = base * (2 * v1) /\ (2 * v1) * base \in Nat /\ base * base \in Nat /\ (2 * v1) * (2 * v1) \in Nat
      BY MulType
    <3> QED BY <3>1, <3>2
  <2>3. (t * p) * v1 < (4 * v1) * v1
    <3>1. (2 * v1) * (2 * v1) = (4 * v1) * v1
      OBVIOUS
    <3>2. t * d = (t * p) * v1
      BY <1>1, <1>5
    <3>3. PICK i, j, k, l : i = t * d /\ j = base * base /\ k = (2 * v1) * (2 * v1) /\ l = (4 * v1) * v1
      OBVIOUS
    <3>4. i \in Nat /\ j \in Nat /\ k \in Nat /\ l \in Nat
      BY <1>1, <1>5, <3>3, MulType
    <3>5. i <= a /\ a < j /\ j <= k /\ k = l
      BY <1>5, <2>2, <3>1, <3>3, <3>4
    <3> QED BY <3>2, <3>3, <3>4, <3>5
  <2>4. t * p < 4 * v1
    <3>1. t * p \in Nat /\ 4 * v1 \in Nat
      BY <1>5, MulType
    <3> QED BY <1>0, <2>3, <3>1, MulCancel
  <2>5. s * e <= d
    <3>1. PICK m \in Nat : p = m + 1
      <4>1. p - 1 \in Nat /\ p = (p - 1) + 1
        OBVIOUS
      <4> QED BY <4>1
    <3>2. 4 * m <= p * p
      <4>1. PICK k \in Nat : m = k + 1
        <5>1. m - 1 \in Nat /\ m = (m - 1) + 1
          BY <3>1
        <5> QED BY <5>1
      <4>2. p * p = (k * k + 4 * k) + 4 /\ 4 * m = 4 * k + 4 /\ k * k \in Nat
        BY <3>1, <4>1
      <4> QED BY <4>1, <4>2
    <3>3. (t * m) * p <= d * p
      <4>1. (t * p) * m <= (4 * v1) * m
        <5>1. t * p \in Nat /\ 4 * v1 \in Nat /\ t * p <= 4 * v1
          BY <1>5, <2>4, MulType
        <5> QED BY <3>1, <5>1, MulMono
      <4>2. (4 * m) * v1 <= (p * p) * v1
        <5>1. 4 * m \in Nat /\ p * p \in Nat
          BY <3>1, MulType
        <5> QED BY <3>2, <5>1, MulMono
      <4>3. (t * p) * m = (t * m) * p
        BY <1>5, <3>1
      <4>4. (4 * v1) * m = (4 * m) * v1
        BY <3>1
      <4>5. (p * p) * v1 = d * p
        BY <1>1
      <4>6. PICK i, j, k : i = (t * m) * p /\ j = (4 * m) * v1 /\ k = d * p
        OBVIOUS
      <4>7. i \in Nat /\ j \in Nat /\ k \in Nat
        BY <1>1, <1>5, <3>1, <4>6, MulType
      <4> QED BY <4>1, <4>2, <4>3, <4>4, <4>5, <4>6, <4>7
    <3>4. t * m <= d
      <4>1. t * m \in Nat
        BY <1>5, <3>1, MulType
      <4>2. ASSUME d < t * m PROVE FALSE
        <5>1. (d + 1) * p <= (t * m) * p /\ (d + 1) * p = d * p + p
          BY <1>1, <4>1, <4>2, MulMono
        <5>2. d * p \in Nat /\ (t * m) * p \in Nat
          BY <1>1, <4>1, MulType
        <5> QED BY <3>3, <5>1, <5>2
      <4> QED BY <1>1, <4>1, <4>2
    <3>5. s * e <= t * m
      <4>1. s * e <= t * e
        BY <1>5, <2>1, MulMono
      <4>2. e * t <= m * t
        BY <1>5, <3>1, MulMono
      <4>3. t * e = e * t /\ m * t = t * m /\ t * e \in Nat /\ t * m \in Nat /\ s * e \in Nat
        BY <1>5, <2>1, <3>1, MulType
      <4> QED BY <4>1, <4>2, <4>3
    <3>6. s * e \in Nat /\ t * m \in Nat
      BY <1>5, <2>1, <3>1, MulType
    <3> QED BY <1>1, <3>4, <3>5, <3>6
  <2>6. s * v <= a
    <3>1. s * v = s * d + s * e
      BY <1>1, <2>1
    <3>2. t * d = s * d + d
      BY <1>1, <2>1
    <3>3. s * d \in Nat /\ s * e \in Nat
      BY <1>1, <2>1, MulType
    <3> QED BY <1>1, <1>5, <2>5, <3>1, <3>2, <3>3
  <2>7. s <= a \div v
    BY <1>2, <2>1, <2>6, DivAbove
  <2>8. a \div v \in Nat
    BY <1>2, DivMod
  <2> QED BY <1>1, <1>2, <1>3, <1>4, <2>1, <2>7, <2>8
<1> QED BY <1>5, <1>6, <1>7
=============================================================================
