-------------------------- MODULE KeyTransfer_proofs --------------------------
(***************************************************************************)
(* Theorems about KeyTransfer and mod_inverse, for every set of keys, of   *)
(* lists and of commands.                                                  *)
(***************************************************************************)
EXTENDS KeyTransfer, Encodings_proofs

\* The states of the loop: unsigned numbers and two signs.
LoopStates ==
  [a: Nat, m: Nat \ {0}, old_r: Nat \ {0}, r: Nat, old_s: Nat, s: Nat,
   old_neg: BOOLEAN, neg: BOOLEAN]

\* Distributivity, for the products that Bounded is about.
LEMMA CrossSum ==
  ASSUME NEW s \in Nat, NEW t \in Nat, NEW q \in Nat, NEW r \in Nat, NEW p \in Nat, p - q * r \in Nat
  PROVE  (t + q * s) * r + s * (p - q * r) = s * p + t * r
<1>1. (t + q * s) * r = t * r + q * s * r
  OBVIOUS
<1>2. s * (p - q * r) = s * p - s * (q * r)
  OBVIOUS
<1>3. q * s * r = s * (q * r)
  OBVIOUS
<1> QED
  BY <1>1, <1>2, <1>3

\* A product of naturals bounds its factors.
LEMMA FactorBound ==
  ASSUME NEW s \in Nat, NEW p \in Nat \ {0}
  PROVE  s <= s * p
OBVIOUS

\* The quotient and the remainder of the loop are naturals, the new remainder
\* is below the old one.
LEMMA Remainder ==
  ASSUME NEW p \in Nat, NEW r \in Nat \ {0}
  PROVE  /\ p \div r \in Nat
         /\ p - (p \div r) * r \in Nat
         /\ p - (p \div r) * r < r
OBVIOUS

\* The fields of a state of the loop.
LEMMA Fields ==
  ASSUME NEW x \in LoopStates
  PROVE  /\ x.m \in Nat \ {0} /\ x.a \in Nat /\ x.old_r \in Nat \ {0} /\ x.r \in Nat
         /\ x.old_s \in Nat /\ x.s \in Nat /\ x.old_neg \in BOOLEAN /\ x.neg \in BOOLEAN
BY DEF LoopStates

\* old_s - qs as a magnitude and a sign.
LEMMA Difference ==
  ASSUME NEW x \in LoopStates, NEW qs \in Nat
  PROVE  /\ SignedDifference(x, qs).s \in Nat
         /\ SignedDifference(x, qs).neg \in BOOLEAN
<1>1. CASE x.old_neg # x.neg
  <2>1. SignedDifference(x, qs) = [s |-> x.old_s + qs, neg |-> x.old_neg]
    BY <1>1, Zenon DEF SignedDifference
  <2> QED
    BY <2>1, Fields
<1>2. CASE x.old_neg = x.neg /\ x.old_s >= qs
  <2>1. SignedDifference(x, qs) = [s |-> x.old_s - qs, neg |-> x.old_neg]
    BY <1>2, Zenon DEF SignedDifference
  <2> QED
    BY <1>2, <2>1, Fields
<1>3. CASE x.old_neg = x.neg /\ ~(x.old_s >= qs)
  <2> DEFINE other == ~x.old_neg
  <2>1. SignedDifference(x, qs) = [s |-> qs - x.old_s, neg |-> other]
    BY <1>3, Zenon DEF SignedDifference
  <2>2. other \in BOOLEAN
    BY Zenon
  <2> HIDE DEF other
  <2> QED
    BY <1>3, <2>1, <2>2, Fields
<1> QED
  BY <1>1, <1>2, <1>3

\* One turn of the loop keeps the types and Bounded: the coefficients never
\* outgrow the modulus, though the code subtracts unsigned numbers.
LEMMA StepBounded ==
  ASSUME NEW x \in LoopStates, Bounded(x), ~EuclidDone(x)
  PROVE  EuclidStep(x) \in LoopStates /\ Bounded(EuclidStep(x))
<1> DEFINE q == x.old_r \div x.r
           y == EuclidStep(x)
           new == SignedDifference(x, q * x.s)
<1>1. /\ x.m \in Nat \ {0} /\ x.a \in Nat /\ x.old_r \in Nat \ {0} /\ x.r \in Nat \ {0}
      /\ x.old_s \in Nat /\ x.s \in Nat /\ x.old_neg \in BOOLEAN /\ x.neg \in BOOLEAN
  BY DEF LoopStates, EuclidDone
<1>2. q \in Nat /\ x.old_r - q * x.r \in Nat
  BY <1>1, Remainder
<1>3. q * x.s \in Nat
  BY <1>1, <1>2
<1>4. new.s \in Nat /\ new.neg \in BOOLEAN
  BY <1>3, Difference
<1>5. /\ y.a = x.a /\ y.m = x.m /\ y.old_r = x.r /\ y.r = x.old_r - q * x.r
      /\ y.old_s = x.s /\ y.s = new.s /\ y.old_neg = x.neg /\ y.neg = new.neg
      /\ y \in LoopStates
  BY <1>1, <1>2, <1>4 DEF EuclidStep, LoopStates
<1>6. x.s <= x.m
  <2>1. x.s <= x.s * x.old_r
    BY <1>1, FactorBound
  <2>2. x.old_s * x.r \in Nat /\ x.s * x.old_r \in Nat
    BY <1>1
  <2> QED
    BY <1>1, <2>1, <2>2 DEF Bounded
\* The signs differ, or one of the two is zero: the magnitudes add up.
<1>7. /\ new.s = x.old_s + q * x.s
      /\ x.neg = new.neg => x.s = 0 \/ new.s = 0
  <2>1. CASE x.old_neg # x.neg
    BY <1>1, <2>1 DEF SignedDifference
  <2>2. CASE x.old_neg = x.neg /\ x.s = 0
    <3>1. q * x.s = 0
      BY <2>2, <1>2
    <3> QED
      BY <1>1, <2>2, <3>1 DEF SignedDifference
  <2>3. CASE x.old_neg = x.neg /\ x.old_s = 0
    BY <1>1, <1>3, <2>3 DEF SignedDifference
  <2> QED
    BY <2>1, <2>2, <2>3 DEF Bounded
<1>8. new.s * x.r + x.s * (x.old_r - q * x.r) = x.m
  BY <1>1, <1>2, <1>7, CrossSum DEF Bounded
<1> QED
  BY <1>5, <1>6, <1>7, <1>8 DEF Bounded

\* A multiple of m has the remainder zero.
LEMMA Multiple ==
  ASSUME NEW k \in Int, NEW m \in Nat \ {0}
  PROVE  (k * m) % m = 0
OBVIOUS

\* And the other way round.
LEMMA NoRemainder ==
  ASSUME NEW n \in Int, NEW m \in Nat \ {0}, n % m = 0
  PROVE  \E k \in Int : n = k * m
OBVIOUS

\* The magnitude and the sign that SignedDifference returns are those of the
\* difference of the signed numbers.
LEMMA DifferenceIsSigned ==
  ASSUME NEW x \in LoopStates, NEW q \in Nat
  PROVE  LET d == SignedDifference(x, q * x.s)
         IN Signed(d.neg, d.s) = Signed(x.old_neg, x.old_s) - q * Signed(x.neg, x.s)
<1> DEFINE d == SignedDifference(x, q * x.s)
<1>0. x.s \in Nat /\ x.old_s \in Nat /\ q * x.s \in Nat /\ q * (0 - x.s) = 0 - q * x.s
  BY Fields
<1>1. CASE x.old_neg # x.neg /\ x.neg
  <2>1. x.old_neg \in BOOLEAN /\ x.neg \in BOOLEAN
    BY Fields
  <2>2. x.old_neg = FALSE
    BY <1>1, <2>1, Zenon
  <2>3. d = [s |-> x.old_s + q * x.s, neg |-> FALSE]
    BY <1>1, <2>2, Zenon DEF SignedDifference
  <2> QED
    BY <1>0, <1>1, <2>2, <2>3 DEF Signed
<1>2. CASE x.old_neg # x.neg /\ ~x.neg
  BY <1>0, <1>2, Fields DEF SignedDifference, Signed
<1>3. CASE x.old_neg = x.neg /\ x.old_s >= q * x.s
  BY <1>0, <1>3, Fields DEF SignedDifference, Signed
<1>4. CASE x.old_neg = x.neg /\ ~(x.old_s >= q * x.s)
  <2>1. d = [s |-> q * x.s - x.old_s, neg |-> ~x.old_neg]
    BY <1>4, Zenon DEF SignedDifference
  <2>2. CASE x.neg
    <3>1. d = [s |-> q * x.s - x.old_s, neg |-> FALSE]
      BY <1>4, <2>1, <2>2, Zenon
    <3> QED
      BY <1>0, <1>4, <2>2, <3>1, Fields DEF Signed
  <2>3. CASE ~x.neg
    <3>1. d = [s |-> q * x.s - x.old_s, neg |-> TRUE]
      BY <1>4, <2>1, <2>3, Zenon
    <3> QED
      BY <1>0, <1>4, <2>3, <3>1, Fields DEF Signed
  <2> QED
    BY <2>2, <2>3, Fields
<1> QED
  BY <1>1, <1>2, <1>3, <1>4

\* One turn of the loop keeps the remainders congruent to their coefficients.
LEMMA StepCongruent ==
  ASSUME NEW x \in LoopStates, Congruent(x), ~EuclidDone(x)
  PROVE  Congruent(EuclidStep(x))
<1> DEFINE q == x.old_r \div x.r
           y == EuclidStep(x)
           new == SignedDifference(x, q * x.s)
           before == Signed(x.old_neg, x.old_s)
           now == Signed(x.neg, x.s)
<1>1. /\ x.m \in Nat \ {0} /\ x.a \in Nat /\ x.old_r \in Nat /\ x.r \in Nat \ {0}
      /\ before \in Int /\ now \in Int
  BY Fields DEF EuclidDone, Signed
<1>2. q \in Nat
  BY <1>1, Remainder
<1>3. /\ y.a = x.a /\ y.m = x.m /\ y.old_r = x.r /\ y.r = x.old_r - q * x.r
      /\ y.old_s = x.s /\ y.s = new.s /\ y.old_neg = x.neg /\ y.neg = new.neg
  BY DEF EuclidStep, LoopStates
<1>4. Signed(y.neg, y.s) = before - q * now
  BY <1>2, <1>3, DifferenceIsSigned
<1> HIDE DEF q, y, new, before, now
<1>5. PICK k \in Int : before * x.a - x.old_r = k * x.m
  <2>1. (before * x.a - x.old_r) % x.m = 0 /\ before * x.a - x.old_r \in Int
    BY <1>1 DEF Congruent, before
  <2> QED
    BY <1>1, <2>1, NoRemainder
<1>6. PICK l \in Int : now * x.a - x.r = l * x.m
  <2>1. (now * x.a - x.r) % x.m = 0 /\ now * x.a - x.r \in Int
    BY <1>1 DEF Congruent, now
  <2> QED
    BY <1>1, <2>1, NoRemainder
<1>7. (before - q * now) * x.a - (x.old_r - q * x.r) = (k - q * l) * x.m
  <2>1. (before - q * now) * x.a = before * x.a - q * (now * x.a)
    BY <1>1, <1>2
  <2>2. q * (now * x.a) - q * x.r = q * (now * x.a - x.r)
    BY <1>1, <1>2
  <2>3. q * (l * x.m) = (q * l) * x.m
    BY <1>1, <1>2
  <2>4. (k - q * l) * x.m = k * x.m - (q * l) * x.m
    BY <1>1, <1>2
  <2> QED
    BY <1>1, <1>2, <1>5, <1>6, <2>1, <2>2, <2>3, <2>4
<1>8. k - q * l \in Int
  BY <1>2
<1>9. ((before - q * now) * x.a - (x.old_r - q * x.r)) % x.m = 0
  BY <1>1, <1>7, <1>8, Multiple
<1>10. Signed(y.old_neg, y.old_s) = now
  BY <1>3 DEF now
<1>11. (now * x.a - x.r) % x.m = 0
  BY DEF Congruent, now
<1>12. Congruent(y)
  BY <1>3, <1>4, <1>9, <1>10, <1>11 DEF Congruent
<1> QED
  BY <1>12 DEF y

\* m - s stands for -s: their products with a differ by a multiple of m.
LEMMA Complement ==
  ASSUME NEW a \in Nat, NEW m \in Nat \ {0}, NEW s \in Nat, NEW k \in Int,
         (0 - s) * a - 1 = k * m
  PROVE  (m - s) * a - 1 = (a + k) * m
<1>1. (m - s) * a = a * m + (0 - s) * a
  OBVIOUS
<1>2. (a + k) * m = a * m + k * m
  OBVIOUS
<1>3. a * m \in Int /\ k * m \in Int /\ (0 - s) * a \in Int
  OBVIOUS
<1> QED
  BY <1>1, <1>2, <1>3


-----------------------------------------------------------------------------
(* The divisors: the loop keeps the common divisors of its two remainders. *)

Divides(d, n) == n % d = 0
SameDivisors(x) ==
  \A d \in Nat \ {0} : Divides(d, x.old_r) /\ Divides(d, x.r) <=> Divides(d, x.a) /\ Divides(d, x.m)

LEMMA Divided ==
  ASSUME NEW d \in Nat \ {0}, NEW n \in Nat, Divides(d, n)
  PROVE  \E k \in Int : n = k * d
<1>1. n \in Int /\ n % d = 0
  BY DEF Divides
<1> QED
  BY <1>1, NoRemainder

\* A common divisor of p and r is one of r and p - q * r, and back.
LEMMA DivisorsKept ==
  ASSUME NEW d \in Nat \ {0}, NEW p \in Nat, NEW r \in Nat, NEW q \in Nat, p - q * r \in Nat
  PROVE  Divides(d, p) /\ Divides(d, r) <=> Divides(d, r) /\ Divides(d, p - q * r)
<1>1. ASSUME Divides(d, p), Divides(d, r) PROVE Divides(d, p - q * r)
  <2>1. PICK k \in Int : p = k * d
    BY <1>1, Divided, Zenon
  <2>2. PICK l \in Int : r = l * d
    BY <1>1, Divided, Zenon
  <2>3. q * (l * d) = (q * l) * d /\ k * d - (q * l) * d = (k - q * l) * d
    OBVIOUS
  <2>4. p - q * r = (k - q * l) * d /\ k - q * l \in Int
    BY <2>1, <2>2, <2>3
  <2> QED
    BY <2>4, Multiple DEF Divides
<1>2. ASSUME Divides(d, p - q * r), Divides(d, r) PROVE Divides(d, p)
  <2>1. PICK k \in Int : p - q * r = k * d
    BY <1>2, Divided, Zenon
  <2>2. PICK l \in Int : r = l * d
    BY <1>2, Divided, Zenon
  <2>3. q * (l * d) = (q * l) * d /\ k * d + (q * l) * d = (k + q * l) * d
    OBVIOUS
  <2>4. p = (k + q * l) * d /\ k + q * l \in Int
    <3>1. q * r \in Int /\ k * d \in Int
      OBVIOUS
    <3>2. p = k * d + q * r
      BY <2>1, <3>1
    <3> QED
      BY <2>2, <2>3, <3>2
  <2> QED
    BY <2>4, Multiple DEF Divides
<1> QED
  BY <1>1, <1>2

LEMMA StepDivisors ==
  ASSUME NEW x \in LoopStates, SameDivisors(x), ~EuclidDone(x)
  PROVE  SameDivisors(EuclidStep(x))
<1> DEFINE q == x.old_r \div x.r
           y == EuclidStep(x)
<1>1. x.old_r \in Nat /\ x.r \in Nat \ {0}
  BY Fields DEF EuclidDone
<1>2. q \in Nat /\ x.old_r - q * x.r \in Nat
  BY <1>1, Remainder
<1>3. y.a = x.a /\ y.m = x.m /\ y.old_r = x.r /\ y.r = x.old_r - q * x.r
  BY DEF EuclidStep, LoopStates
<1> HIDE DEF q, y
<1>4. ASSUME NEW d \in Nat \ {0}
      PROVE  Divides(d, y.old_r) /\ Divides(d, y.r) <=> Divides(d, y.a) /\ Divides(d, y.m)
  <2>1. Divides(d, x.old_r) /\ Divides(d, x.r) <=> Divides(d, x.r) /\ Divides(d, x.old_r - q * x.r)
    BY <1>1, <1>2, DivisorsKept
  <2>2. Divides(d, x.old_r) /\ Divides(d, x.r) <=> Divides(d, x.a) /\ Divides(d, x.m)
    BY DEF SameDivisors
  <2> QED
    BY <1>3, <2>1, <2>2
<1>5. SameDivisors(y)
  BY <1>4, Zenon DEF SameDivisors
<1> QED
  BY <1>5 DEF y

\* At the end the last remainder is the greatest common divisor: it is one
\* exactly when the exponent and the modulus have no common divisor.
LEMMA EndDivisors ==
  ASSUME NEW x \in LoopStates, SameDivisors(x), EuclidDone(x)
  PROVE  Coprime(x.a, x.m) <=> x.old_r = 1
<1> DEFINE g == x.old_r
<1>1. g \in Nat \ {0} /\ x.m \in Nat \ {0} /\ x.a \in Nat /\ x.r = 0
  BY Fields DEF EuclidDone
<1>2. ASSUME NEW d \in Nat \ {0} PROVE Divides(d, x.r)
  BY <1>1 DEF Divides
<1> HIDE DEF g
<1>3. ASSUME Coprime(x.a, x.m), g # 1 PROVE FALSE
  <2>1. Divides(g, g)
    BY <1>1 DEF Divides
  <2>2. Divides(g, x.a) /\ Divides(g, x.m)
    BY <1>1, <1>2, <2>1 DEF SameDivisors, g
  <2>3. PICK k \in Int : x.m = k * g
    BY <1>1, <2>2, Divided
  <2>4. k > 0
    BY <1>1, <2>3
  <2>5. k \in Nat \ {0} /\ k * g = g * k
    BY <1>1, <2>4
  <2>6. g <= x.m
    BY <1>1, <2>3, <2>5, FactorBound
  <2>7. g \in 2..x.m
    BY <1>1, <1>3, <2>6
  <2> QED
    BY <1>3, <2>2, <2>7 DEF Coprime, Divides
<1>4. ASSUME g = 1, NEW d \in 2..x.m, x.a % d = 0, x.m % d = 0 PROVE FALSE
  <2>1. d \in Nat \ {0} /\ d > 1
    BY <1>1
  <2>2. Divides(d, g)
    BY <1>4, <2>1 DEF SameDivisors, Divides, g
  <2>3. 1 % d = 1
    BY <2>1
  <2> QED
    BY <1>4, <2>2, <2>3 DEF Divides
<1> QED
  BY <1>3, <1>4 DEF Coprime, g

-----------------------------------------------------------------------------
(* mod_inverse as a whole, for every exponent and every modulus above zero. *)

LoopInv(x) == x \in LoopStates /\ Bounded(x) /\ Congruent(x) /\ SameDivisors(x)

LEMMA LoopStarts ==
  ASSUME NEW a \in Nat, NEW m \in Nat \ {0}
  PROVE  LoopInv(EuclidStart(a, m))
<1> DEFINE x == EuclidStart(a, m)
<1>1. x \in LoopStates /\ x.a = a /\ x.m = m
  BY DEF EuclidStart, LoopStates
<1>2. Bounded(x)
  BY DEF EuclidStart, Bounded
<1>3. (0 * a - m) = (-1) * m /\ 1 * a - a = 0 * m
  OBVIOUS
<1>4. ((-1) * m) % m = 0 /\ (0 * m) % m = 0
  BY Multiple
<1>5. Congruent(x)
  BY <1>3, <1>4 DEF EuclidStart, Congruent, Signed
<1>6. x.old_r = m /\ x.r = a
  BY DEF EuclidStart
<1> HIDE DEF x
<1>7. SameDivisors(x)
  BY <1>1, <1>6, Zenon DEF SameDivisors
<1>8. LoopInv(x)
  BY <1>1, <1>2, <1>5, <1>7 DEF LoopInv
<1> QED
  BY <1>8 DEF x

LEMMA LoopGoesOn ==
  ASSUME NEW x, LoopInv(x), ~EuclidDone(x)
  PROVE  LoopInv(EuclidStep(x)) /\ EuclidStep(x).m = x.m
<1>1. x \in LoopStates /\ Bounded(x) /\ Congruent(x) /\ SameDivisors(x)
  BY DEF LoopInv
<1>2. EuclidStep(x).m = x.m
  BY <1>1 DEF EuclidStep, LoopStates
<1> QED
  BY <1>1, <1>2, StepBounded, StepCongruent, StepDivisors DEF LoopInv

LEMMA LoopIsRight ==
  ASSUME NEW x, LoopInv(x)
  PROVE  RightInverse(x)
<1>0. x \in LoopStates /\ Bounded(x) /\ Congruent(x) /\ SameDivisors(x)
  BY DEF LoopInv
<1> DEFINE a == x.a
           m == x.m
<1>1. a \in Nat /\ m \in Nat \ {0} /\ x.old_s \in Nat /\ x.old_s <= m /\ x.old_neg \in BOOLEAN
  BY <1>0, Fields DEF Bounded
<1>2. EuclidResult(x) # NoInverse <=> x.old_r = 1
  <2>1. NoInverse # [d |-> IF x.old_neg THEN x.m - x.old_s ELSE x.old_s]
    BY DEF NoInverse
  <2> QED
    BY <2>1, Zenon DEF EuclidResult
<1>3. ASSUME EuclidDone(x), EuclidResult(x) # NoInverse
      PROVE  InverseOf(EuclidResult(x), a, m)
  <2> DEFINE s == Signed(x.old_neg, x.old_s)
  <2>2. EuclidResult(x) = [d |-> IF x.old_neg THEN m - x.old_s ELSE x.old_s]
    BY <1>2, <1>3, Zenon DEF EuclidResult
  <2>3. s \in Int /\ (s * a - 1) % m = 0 /\ s * a - 1 \in Int
    BY <1>0, <1>1, <1>2, <1>3 DEF Congruent, Signed
  <2>4. PICK k \in Int : s * a - 1 = k * m
    BY <1>1, <2>3, NoRemainder
  <2>5. CASE x.old_neg
    <3>1. EuclidResult(x).d = m - x.old_s /\ s = 0 - x.old_s
      BY <2>2, <2>5 DEF Signed
    <3>2. (m - x.old_s) * a - 1 = (a + k) * m
      <4>1. (0 - x.old_s) * a - 1 = k * m
        BY <2>4, <3>1, Zenon
      <4>2. a \in Nat /\ m \in Nat \ {0} /\ x.old_s \in Nat
        BY <1>1
      <4> HIDE DEF a, m
      <4> QED
        BY <4>1, <4>2, Complement, Zenon
    <3>3. m - x.old_s \in 0..m /\ ((m - x.old_s) * a - 1) % m = 0
      <4>1. a + k \in Int /\ m - x.old_s \in 0..m /\ m \in Nat \ {0}
        BY <1>1
      <4> DEFINE j == a + k
      <4> HIDE DEF j
      <4>2. (j * m) % m = 0
        BY <4>1, Multiple DEF j
      <4> QED
        BY <3>2, <4>1, <4>2, Zenon DEF j
    <3> QED
      BY <3>1, <3>3, Zenon DEF InverseOf
  <2>6. CASE ~x.old_neg
    BY <1>1, <2>2, <2>3, <2>6 DEF Signed, InverseOf
  <2> QED
    BY <1>1, <2>5, <2>6
<1>4. EuclidDone(x) => (Coprime(a, m) <=> x.old_r = 1)
  BY <1>0, EndDivisors
<1> QED
  BY <1>0, <1>2, <1>3, <1>4, Zenon DEF RightInverse

\* The remainder falls in every turn, so the loop ends.
LEMMA LoopDescends ==
  ASSUME NEW x, LoopInv(x), ~EuclidDone(x)
  PROVE  EuclidStep(x).r \in Nat /\ EuclidStep(x).r < x.r
<1>1. x \in LoopStates /\ x.old_r \in Nat /\ x.r \in Nat \ {0}
  BY Fields DEF LoopInv, EuclidDone
<1>2. EuclidStep(x).r = x.old_r - (x.old_r \div x.r) * x.r
  BY <1>1 DEF EuclidStep, LoopStates
<1> QED
  BY <1>1, <1>2, Remainder

-----------------------------------------------------------------------------
(* What a host sends: commands that each form carries as they are. *)

LEMMA ApduTyped ==
  ASSUME NEW h \in HeaderBytes, NEW d \in Seq(Octets), NEW le \in LeValues
  PROVE  APDU(h, d, le) \in Commands
BY DEF APDU, Commands

LEMMA HeaderTyped ==
  ASSUME NEW a \in Octets, NEW b \in Octets, NEW c \in Octets, NEW d \in Octets
  PROVE  <<a, b, c, d>> \in HeaderBytes /\ <<a, b, c, d>>[2] = b
BY DEF HeaderBytes

LEMMA KnownOctets ==
  /\ {0, 42, 63, 71, 128, 129, 154, 158, 202, 218, 219, 255, 1} \subseteq Octets
  /\ \A s : CrtTag(s) \in Octets /\ AttributesTag(s) \in Octets /\ FingerprintTag(s) \in Octets
<1>1. {0, 42, 63, 71, 128, 129, 154, 158, 202, 218, 219, 255, 1} \subseteq Octets
  BY DEF Octets
<1>2. {182, 184, 164, 193, 194, 195, 199, 200, 201} \subseteq Octets
  BY DEF Octets
<1>3. \A s : CrtTag(s) \in {182, 184, 164}
  BY DEF CrtTag, OfSlot
<1>4. \A s : AttributesTag(s) \in {193, 194, 195}
  BY DEF AttributesTag, OfSlot
<1>5. \A s : FingerprintTag(s) \in {199, 200, 201}
  BY DEF FingerprintTag, OfSlot
<1> QED
  BY <1>1, <1>2, <1>3, <1>4, <1>5

LEMMA LesTyped == NoLe \in LeValues /\ 256 \in LeValues /\ Lengths \subseteq LeValues
<1>1. NoLe \in LeValues /\ 256 \in LeValues
  BY SMT DEF LeValues, NoLe
<1>2. Lengths \subseteq LeValues
  BY CommandsAssumption, SMT DEF LeValues
<1> QED
  BY <1>1, <1>2

LEMMA CutTyped ==
  ASSUME NEW b \in Seq(Octets), NEW i \in Nat
  PROVE  /\ Cut(b, i) \in Seq(Octets)
         /\ i <= Len(b) => Len(Cut(b, i)) = Len(b) - i /\ \A j \in 1..(Len(b) - i) : Cut(b, i)[j] = b[j]
         /\ Len(b) <= i => Cut(b, i) = <<>>
<1> DEFINE n == Len(b) - i
           c == SubSeq(b, 1, n)
<1>0. Len(b) \in Nat /\ n \in Int
  BY LenProperties
<1>1. ASSUME i <= Len(b)
      PROVE  c \in Seq(Octets) /\ Len(c) = n /\ \A j \in 1..n : c[j] = b[j]
  <2>1. n \in Nat /\ n <= Len(b) /\ 1 \in Nat \ {0}
    BY <1>0, <1>1
  <2> HIDE DEF n
  <2>2. /\ c \in Seq(Octets) /\ Len(c) = IF 1 <= n THEN n - 1 + 1 ELSE 0
        /\ \A j \in 1..Len(c) : c[j] = b[1 + j - 1]
    BY <2>1, SubBytes
  <2> HIDE DEF c
  <2>3. Len(c) = n /\ \A j \in 1..n : 1 + j - 1 = j
    BY <2>1, <2>2
  <2> QED
    BY <2>2, <2>3
<1>2. ASSUME Len(b) <= i PROVE c = <<>>
  <2>1. n < 1
    BY <1>0, <1>2
  <2> QED
    BY <1>0, <2>1, SubSeqEmpty
<1>3. <<>> \in Seq(Octets)
  OBVIOUS
<1>4. i <= Len(b) \/ Len(b) <= i
  BY <1>0
<1> QED
  BY <1>1, <1>2, <1>3, <1>4, Zenon DEF Cut

\* The tags of an import and of a public key are read as they are written.
LEMMA TagOfOne ==
  ASSUME NEW n \in Nat, n < 255, n > 0, n % 32 # 31
  PROVE  IsTag(n) /\ FirstTagByte(n) = n
<1>1. encode_tag(n) = <<Octet(n, 0)>>
  BY SMT DEF encode_tag
<1>2. Octet(n, 0) = n
  BY OctetsOf, SMT
<1>3. encode_tag(n) = <<n>>
  BY <1>1, <1>2, SMT
<1>4. FirstTagByte(n) = n
  BY <1>3 DEF FirstTagByte
<1>5. ~IsFiller(n)
  BY DEF IsFiller
<1> QED
  BY <1>4, <1>5, SMT DEF IsTag

LEMMA TagOfTwo ==
  ASSUME NEW h \in {95, 127}, NEW l \in 0..127
  PROVE  IsTag(256 * h + l) /\ FirstTagByte(256 * h + l) = h
<1> DEFINE n == 256 * h + l
<1>1. n \in Nat /\ n > 255 /\ n < 65536 /\ n < 16777216 /\ ~(n < 256) /\ ~(n > 65535)
  BY SMT
<1>2. (n \div 256) % 256 = h /\ n % 256 = l
  BY SMT
<1> HIDE DEF n
<1>3. Octet(n, 1) = h /\ Octet(n, 0) = l
  <2>1. Octet(n, 1) = (n \div 256) % 256
    BY <1>1, Octet1, SMT
  <2>2. Octet(n, 0) = n % 256
    BY <1>1, Octet0, SMT
  <2> QED
    BY <1>2, <2>1, <2>2, SMT
<1>4. encode_tag(n) = <<Octet(n, 1), Octet(n, 0)>>
  BY <1>1, SMT DEF encode_tag
<1>5. encode_tag(n) = <<h, l>>
  BY <1>3, <1>4, SMT
<1>6. FirstTagByte(n) = h /\ encode_tag(n)[2] = l
  BY <1>5, SMT DEF FirstTagByte
<1>7. ~IsFiller(h) /\ h % 32 = 31 /\ l < 128
  BY SMT DEF IsFiller
<1>8. IsTag(n)
  BY <1>1, <1>6, <1>7, SMT DEF IsTag
<1> QED
  BY <1>6, <1>8 DEF n

LEMMA KnownTags ==
  /\ IsTag(77) /\ IsTag(129) /\ IsTag(130) /\ IsTag(134) /\ \A s : IsTag(CrtTag(s))
  /\ IsTag(LengthsTag) /\ IsTag(KeyDataTag) /\ IsTag(PublicKeyTag)
  /\ ~IsConstructed(129) /\ ~IsConstructed(130) /\ ~IsConstructed(134) /\ IsConstructed(PublicKeyTag)
<1>1. IsTag(77) /\ IsTag(129) /\ IsTag(130) /\ IsTag(134)
  BY TagOfOne
<1>2. IsTag(182) /\ IsTag(184) /\ IsTag(164)
  BY TagOfOne
<1>3. \A s : CrtTag(s) \in {182, 184, 164}
  BY DEF CrtTag, OfSlot
<1>4. 256 * 127 + 72 = LengthsTag /\ 256 * 95 + 72 = KeyDataTag /\ 256 * 127 + 73 = PublicKeyTag
  BY SMT DEF LengthsTag, KeyDataTag, PublicKeyTag
<1>5. IsTag(256 * 127 + 72) /\ IsTag(256 * 95 + 72)
  BY TagOfTwo
<1>6. IsTag(256 * 127 + 73) /\ FirstTagByte(256 * 127 + 73) = 127
  BY TagOfTwo
<1>7. FirstTagByte(129) = 129 /\ FirstTagByte(130) = 130 /\ FirstTagByte(134) = 134
  BY TagOfOne
<1>8. ~IsConstructed(129) /\ ~IsConstructed(130) /\ ~IsConstructed(134)
  BY <1>7 DEF IsConstructed
<1>9. IsConstructed(PublicKeyTag)
  BY <1>4, <1>6 DEF IsConstructed
<1>10. \A s : IsTag(CrtTag(s))
  BY <1>2, <1>3
<1> QED
  BY <1>1, <1>4, <1>5, <1>6, <1>8, <1>9, <1>10

\* The bytes of a host are those of the card.
LEMMA HostEncodes ==
  ASSUME NEW tag, IsTag(tag), NEW v \in Seq(Octets), Len(v) \in ThreeBytes
  PROVE  /\ HostTlv(tag, v) = encode(tag, v) /\ encode(tag, v) \in Seq(Octets)
         /\ Len(encode(tag, v)) \in Nat /\ Len(encode(tag, v)) <= Len(v) + 7
<1>1. tag \in ThreeBytes
  BY SMT DEF IsTag, ThreeBytes
<1>2. ToBytes(tag) = encode_tag(tag)
  BY <1>1, TagEncoded
<1>3. BerLength(Len(v)) = encode_length(Len(v))
  <2> DEFINE n == Len(v)
  <2>1. encode_length(n) = IF n < 128 THEN <<n>> ELSE <<128 + Len(ToBytes(n))>> \o ToBytes(n)
    BY LengthEncoded
  <2> HIDE DEF n
  <2>2. BerLength(n) = encode_length(n)
    BY <2>1, Zenon DEF BerLength
  <2> QED
    BY <2>2 DEF n
<1>4. HostTlv(tag, v) = encode(tag, v)
  BY <1>2, <1>3, Zenon DEF HostTlv, encode
<1> DEFINE e == encode(tag, v)
           p == encode_tag(tag)
           q == encode_length(Len(v))
<1>5. /\ e \in Seq(Octets) /\ Len(e) = Len(p) + Len(q) + Len(v)
      /\ Len(p) \in Nat \ {0} /\ Len(q) \in Nat \ {0} /\ Len(v) \in Nat
  BY EncodeParts
<1>6. Len(p) <= 3
  <2>1. CASE Len(p) = 1 /\ p[1] = tag /\ p[1] % 32 # 31
    BY <2>1
  <2>2. CASE /\ Len(p) = 2 /\ 256 * p[1] + p[2] = tag /\ p[1] % 32 = 31 /\ p[2] < 128
    BY <2>2
  <2>3. CASE /\ Len(p) = 3 /\ 256 * (256 * p[1] + p[2]) + p[3] = tag
             /\ p[1] % 32 = 31 /\ ~(p[2] < 128)
    BY <2>3
  <2> QED
    BY <2>1, <2>2, <2>3, TagBytes
<1>7. Len(q) <= 4
  <2> DEFINE n == Len(v)
  <2>1. CASE Len(q) = 1 /\ q[1] = n /\ q[1] < 128
    BY <2>1
  <2>2. CASE Len(q) = 2 /\ q[1] = 129 /\ q[2] = n
    BY <2>2
  <2>3. CASE Len(q) = 3 /\ q[1] = 130 /\ 256 * q[2] + q[3] = n
    BY <2>3
  <2>4. CASE Len(q) = 4 /\ q[1] = 131 /\ 256 * (256 * q[2] + q[3]) + q[4] = n
    BY <2>4
  <2> QED
    BY <2>1, <2>2, <2>3, <2>4, LengthBytes
<1> HIDE DEF e, p, q
<1>8. Len(e) \in Nat /\ Len(e) <= Len(v) + 7
  BY <1>5, <1>6, <1>7
<1> QED
  BY <1>4, <1>5, <1>8 DEF e

-----------------------------------------------------------------------------
(* The commands of the host. *)

\* Lengths that BER writes in at most four bytes.
LEMMA BerTyped ==
  ASSUME NEW n \in ThreeBytes
  PROVE  /\ BerLength(n) = encode_length(n)
         /\ BerLength(n) \in Seq(Octets) /\ Len(BerLength(n)) \in Nat /\ Len(BerLength(n)) >= 1 /\ Len(BerLength(n)) <= 4
<1>1. encode_length(n) = IF n < 128 THEN <<n>> ELSE <<128 + Len(ToBytes(n))>> \o ToBytes(n)
  BY LengthEncoded
<1>2. BerLength(n) = encode_length(n)
  BY <1>1, Zenon DEF BerLength
<1> DEFINE p == encode_length(n)
<1>3. p \in Seq(Octets)
  BY LengthBytes
<1>4. Len(p) \in Nat /\ Len(p) >= 1 /\ Len(p) <= 4
  <2>1. CASE Len(p) = 1 /\ p[1] = n /\ p[1] < 128
    BY <2>1
  <2>2. CASE Len(p) = 2 /\ p[1] = 129 /\ p[2] = n
    BY <2>2
  <2>3. CASE Len(p) = 3 /\ p[1] = 130 /\ 256 * p[2] + p[3] = n
    BY <2>3
  <2>4. CASE Len(p) = 4 /\ p[1] = 131 /\ 256 * (256 * p[2] + p[3]) + p[4] = n
    BY <2>4
  <2> QED
    BY <2>1, <2>2, <2>3, <2>4, LengthBytes
<1> QED
  BY <1>2, <1>3, <1>4

LEMMA Joins ==
  ASSUME NEW a \in Seq(Octets), NEW b \in Seq(Octets)
  PROVE  /\ a \o b \in Seq(Octets) /\ Len(a) \in Nat /\ Len(b) \in Nat
         /\ Len(a \o b) = Len(a) + Len(b)
  BY LenProperties, ConcatProperties

\* A byte and a length behind it.
LEMMA TaggedLength ==
  ASSUME NEW t \in Octets, NEW n \in ThreeBytes
  PROVE  /\ <<t>> \o BerLength(n) \in Seq(Octets)
         /\ Len(<<t>> \o BerLength(n)) \in Nat /\ Len(<<t>> \o BerLength(n)) >= 2 /\ Len(<<t>> \o BerLength(n)) <= 5
<1>1. BerLength(n) \in Seq(Octets) /\ Len(BerLength(n)) \in Nat /\ Len(BerLength(n)) >= 1 /\ Len(BerLength(n)) <= 4
  BY BerTyped
<1> DEFINE b == BerLength(n)
<1> HIDE DEF b
<1>2. b \in Seq(Octets) /\ Len(b) \in Nat /\ Len(b) >= 1 /\ Len(b) <= 4
  BY <1>1 DEF b
<1>3. <<t>> \in Seq(Octets) /\ Len(<<t>>) = 1
  OBVIOUS
<1> DEFINE w == <<t>> \o b
<1>4. w \in Seq(Octets) /\ Len(w) = 1 + Len(b)
  BY <1>2, <1>3, Joins, Zenon
<1> HIDE DEF w
<1>5. Len(w) \in Nat /\ Len(w) >= 2 /\ Len(w) <= 5
  BY <1>2, <1>4
<1> QED
  BY <1>4, <1>5, Zenon DEF b, w

LEMMA ComponentTyped ==
  ASSUME NEW b \in Component
  PROVE  b \in Seq(Octets) /\ b # <<>> /\ Len(b) \in Nat /\ Len(b) < 65536 /\ Len(b) \in ThreeBytes
<1>1. b \in Seq(Octets) /\ b # <<>> /\ Len(b) < 65536
  BY DEF Component
<1>2. Len(b) \in Nat
  BY <1>1, LenProperties
<1> QED
  BY <1>1, <1>2, SMT DEF ThreeBytes

LEMMA KeysTyped ==
  /\ RsaKeys \subseteq [e: Component, p: Component, q: Component]
  /\ NewRsaKeys \subseteq RsaKeys /\ Scalars \subseteq Component
  /\ Slots \subseteq {"SIG", "DEC", "AUT"}
BY KeysAssumption, SMT

\* Keys are RSA keys or scalars, and their fields tell which.
LEMMA KeyCases ==
  ASSUME NEW key \in Keys
  PROVE  \/ /\ IsRsaKey(key) /\ key \in RsaKeys
            /\ key.e \in Component /\ key.p \in Component /\ key.q \in Component
         \/ ~IsRsaKey(key) /\ key.scalar \in Component /\ key.scalar \in Scalars
<1>1. CASE key \in RsaKeys
  <2>1. key \in [e: Component, p: Component, q: Component]
    BY <1>1, KeysTyped, Zenon
  <2>2. key.e \in Component /\ key.p \in Component /\ key.q \in Component /\ "e" \in DOMAIN key
    BY <2>1
  <2> QED
    BY <1>1, <2>2 DEF IsRsaKey
<1>2. ASSUME NEW x \in Scalars, key = [scalar |-> x]
      PROVE  ~IsRsaKey(key) /\ key.scalar \in Component /\ key.scalar \in Scalars
  <2>1. x \in Component
    BY KeysTyped, Zenon
  <2>2. key.scalar = x /\ "e" \notin DOMAIN key
    BY <1>2
  <2> QED
    BY <2>1, <2>2 DEF IsRsaKey
<1> QED
  BY <1>1, <1>2 DEF Keys

\* The bytes of a key and the template of its lengths.
KeyLengths == {n \in Nat : n < 200000}

LEMMA KeyBytesTyped ==
  ASSUME NEW key \in Keys
  PROVE  KeyBytes(key) \in Seq(Octets) /\ Len(KeyBytes(key)) \in KeyLengths
<1>1. CASE IsRsaKey(key) /\ key.e \in Component /\ key.p \in Component /\ key.q \in Component
  <2> DEFINE e == key.e
             p == key.p
             q == key.q
  <2>1. /\ e \in Seq(Octets) /\ Len(e) \in Nat /\ Len(e) < 65536
        /\ p \in Seq(Octets) /\ Len(p) \in Nat /\ Len(p) < 65536
        /\ q \in Seq(Octets) /\ Len(q) \in Nat /\ Len(q) < 65536
    BY <1>1, ComponentTyped
  <2>2. KeyBytes(key) = (e \o p) \o q
    BY <1>1, Zenon DEF KeyBytes
  <2> HIDE DEF e, p, q
  <2>3. e \o p \in Seq(Octets) /\ Len(e \o p) = Len(e) + Len(p)
    BY <2>1, Joins
  <2>4. (e \o p) \o q \in Seq(Octets) /\ Len((e \o p) \o q) = Len(e \o p) + Len(q)
    BY <2>1, <2>3, Joins
  <2> DEFINE a == e \o p
             b == a \o q
  <2>5. b \in Seq(Octets) /\ Len(b) = Len(a) + Len(q) /\ Len(a) = Len(e) + Len(p)
    BY <2>3, <2>4
  <2> HIDE DEF a, b
  <2>6. Len(b) \in KeyLengths
    BY <2>1, <2>5, SMT DEF KeyLengths
  <2> QED
    BY <2>2, <2>5, <2>6, Zenon DEF a, b
<1>2. CASE ~IsRsaKey(key) /\ key.scalar \in Component
  <2>1. KeyBytes(key) = key.scalar
    BY <1>2, Zenon DEF KeyBytes
  <2>2. key.scalar \in Seq(Octets) /\ Len(key.scalar) \in Nat /\ Len(key.scalar) < 65536
    BY <1>2, ComponentTyped
  <2>3. Len(key.scalar) \in KeyLengths
    BY <2>2, SMT DEF KeyLengths
  <2> QED
    BY <2>1, <2>2, <2>3, SMT
<1> QED
  BY <1>1, <1>2, KeyCases, Zenon

LEMMA LengthTemplateTyped ==
  ASSUME NEW key \in Keys
  PROVE  LengthTemplate(key) \in Seq(Octets) /\ Len(LengthTemplate(key)) \in Nat /\ Len(LengthTemplate(key)) >= 0 /\ Len(LengthTemplate(key)) <= 15
<1>0. 145 \in Octets /\ 146 \in Octets /\ 147 \in Octets
  BY DEF Octets
<1>1. CASE IsRsaKey(key) /\ key.e \in Component /\ key.p \in Component /\ key.q \in Component
  <2> DEFINE e == BerLength(Len(key.e))
             p == BerLength(Len(key.p))
             q == BerLength(Len(key.q))
  <2>1. Len(key.e) \in ThreeBytes /\ Len(key.p) \in ThreeBytes /\ Len(key.q) \in ThreeBytes
    BY <1>1, ComponentTyped
  <2>2. /\ <<145>> \o e \in Seq(Octets) /\ Len(<<145>> \o e) \in Nat /\ Len(<<145>> \o e) >= 2 /\ Len(<<145>> \o e) <= 5
        /\ e \in Seq(Octets) /\ p \in Seq(Octets) /\ q \in Seq(Octets)
        /\ Len(p) \in Nat /\ Len(p) >= 1 /\ Len(p) <= 4 /\ Len(q) \in Nat /\ Len(q) >= 1 /\ Len(q) <= 4
    BY <1>0, <2>1, TaggedLength, BerTyped, SMTT(40)
  <2>3. LengthTemplate(key) = ((((<<145>> \o e) \o <<146>>) \o p) \o <<147>>) \o q
    BY <1>1, Zenon DEF LengthTemplate
  <2> DEFINE a == <<145>> \o e
  <2>4. /\ <<146>> \in Seq(Octets) /\ Len(<<146>>) = 1
        /\ <<147>> \in Seq(Octets) /\ Len(<<147>>) = 1
    BY <1>0
  <2> DEFINE y == <<146>>
             z == <<147>>
  <2>5. /\ y \in Seq(Octets) /\ Len(y) = 1
        /\ z \in Seq(Octets) /\ Len(z) = 1
    BY <2>4
  <2>6. a \in Seq(Octets) /\ Len(a) \in Nat /\ Len(a) >= 2 /\ Len(a) <= 5
    BY <2>2
  <2> DEFINE b == a \o y
             c == b \o p
             d == c \o z
             w == d \o q
  <2> HIDE DEF e, p, q, a, y, z, b, c, d, w
  <2>7. b \in Seq(Octets) /\ Len(b) = Len(a) + Len(y)
    BY <2>5, <2>6, Joins, Zenon DEF b
  <2>8. c \in Seq(Octets) /\ Len(c) = Len(b) + Len(p)
    BY <2>2, <2>7, Joins, Zenon DEF c
  <2>9. d \in Seq(Octets) /\ Len(d) = Len(c) + Len(z)
    BY <2>5, <2>8, Joins, Zenon DEF d
  <2>10. w \in Seq(Octets) /\ Len(w) = Len(d) + Len(q)
    BY <2>2, <2>9, Joins, Zenon DEF w
  <2>11. LengthTemplate(key) = w
    BY <2>3, Zenon DEF a, b, c, d, y, z, w
  <2>12. Len(w) \in Nat /\ Len(w) >= 0 /\ Len(w) <= 15
    BY <2>2, <2>5, <2>6, <2>7, <2>8, <2>9, <2>10
  <2> QED
    BY <2>10, <2>11, <2>12
<1>2. CASE ~IsRsaKey(key) /\ key.scalar \in Component
  <2>1. LengthTemplate(key) = <<146>> \o BerLength(Len(key.scalar))
    BY <1>2, Zenon DEF LengthTemplate
  <2>2. Len(key.scalar) \in ThreeBytes
    BY <1>2, ComponentTyped
  <2>3. /\ <<146>> \o BerLength(Len(key.scalar)) \in Seq(Octets)
        /\ Len(<<146>> \o BerLength(Len(key.scalar))) \in Nat /\ Len(<<146>> \o BerLength(Len(key.scalar))) >= 2 /\ Len(<<146>> \o BerLength(Len(key.scalar))) <= 5
    BY <1>0, <2>2, TaggedLength
  <2>4. \A x \in Nat : x >= 2 /\ x <= 5 => x >= 0 /\ x <= 15
    OBVIOUS
  <2> QED
    BY <2>1, <2>3, <2>4, Zenon
<1> QED
  BY <1>1, <1>2, KeyCases

ListLengths == {n \in Nat : n < 300000}

LEMMA LengthSets ==
  /\ 0 \in ThreeBytes /\ KeyLengths \subseteq ThreeBytes /\ ListLengths \subseteq ThreeBytes
  /\ \A n \in Nat : n <= 15 => n \in ThreeBytes
  /\ \A m \in Nat, n \in KeyLengths : m <= n => m \in KeyLengths
  /\ \A m \in Nat, n \in ListLengths : m <= n => m \in ListLengths
<1>1. 0 \in ThreeBytes /\ KeyLengths \subseteq ThreeBytes /\ ListLengths \subseteq ThreeBytes
  BY SMT DEF ThreeBytes, KeyLengths, ListLengths
<1>2. \A n \in Nat : n <= 15 => n \in ThreeBytes
  BY SMT DEF ThreeBytes
<1>3. \A m \in Nat, n \in KeyLengths : m <= n => m \in KeyLengths
  BY SMT DEF KeyLengths
<1>4. \A m \in Nat, n \in ListLengths : m <= n => m \in ListLengths
  BY SMT DEF ListLengths
<1> QED
  BY <1>1, <1>2, <1>3, <1>4

\* The header list of an import, as the card would encode it.
LEMMA ImportValueTyped ==
  ASSUME NEW s, NEW t \in Seq(Octets), Len(t) <= 15, NEW b \in Seq(Octets), Len(b) \in KeyLengths
  PROVE  LET v == ImportValue(s, t, b)
         IN /\ v = (encode(CrtTag(s), <<>>) \o encode(LengthsTag, t)) \o encode(KeyDataTag, b)
            /\ v \in Seq(Octets) /\ Len(v) \in ListLengths
            /\ Len(t) \in ThreeBytes /\ Len(b) \in ThreeBytes
<1>0. Len(t) \in Nat /\ Len(b) \in Nat
  BY LenProperties
<1>2. Len(t) \in ThreeBytes /\ Len(b) \in ThreeBytes
  BY <1>0, LengthSets
<1>3. <<>> \in Seq(Octets) /\ Len(<<>>) = 0
  OBVIOUS
<1>4. Len(<<>>) \in ThreeBytes
  BY <1>3, LengthSets
<1> DEFINE x == encode(CrtTag(s), <<>>)
           y == encode(LengthsTag, t)
           z == encode(KeyDataTag, b)
           w == x \o y
           v == w \o z
<1>5. /\ HostTlv(CrtTag(s), <<>>) = x /\ x \in Seq(Octets) /\ Len(x) \in Nat /\ Len(x) <= Len(<<>>) + 7
      /\ HostTlv(LengthsTag, t) = y /\ y \in Seq(Octets) /\ Len(y) \in Nat /\ Len(y) <= Len(t) + 7
      /\ HostTlv(KeyDataTag, b) = z /\ z \in Seq(Octets) /\ Len(z) \in Nat /\ Len(z) <= Len(b) + 7
  <2>1. IsTag(CrtTag(s)) /\ IsTag(LengthsTag) /\ IsTag(KeyDataTag)
    BY KnownTags
  <2> QED
    BY <1>2, <1>3, <1>4, <2>1, HostEncodes
<1>6. ImportValue(s, t, b) = v
  BY <1>5, Zenon DEF ImportValue
<1> HIDE DEF x, y, z, w, v
<1>7. w \in Seq(Octets) /\ Len(w) = Len(x) + Len(y)
  BY <1>5, Joins, Zenon DEF w
<1>8. v \in Seq(Octets) /\ Len(v) = Len(w) + Len(z)
  BY <1>5, <1>7, Joins, Zenon DEF v
<1>9. Len(v) \in ListLengths
  <2>1. Len(b) < 200000
    BY SMT DEF KeyLengths
  <2> QED
    BY <1>0, <1>3, <1>5, <1>7, <1>8, <2>1, SMT DEF ListLengths
<1>10. ImportValue(s, t, b) = (encode(CrtTag(s), <<>>) \o encode(LengthsTag, t)) \o encode(KeyDataTag, b)
  BY <1>6, Zenon DEF v, w, x, y, z
<1> QED
  BY <1>2, <1>6, <1>8, <1>9, <1>10, Zenon

LEMMA CutShorter ==
  ASSUME NEW b \in Seq(Octets), NEW i \in Nat
  PROVE  Cut(b, i) \in Seq(Octets) /\ Len(Cut(b, i)) \in Nat /\ Len(Cut(b, i)) <= Len(b)
<1>1. Cut(b, i) \in Seq(Octets)
  BY CutTyped
<1>2. Len(Cut(b, i)) \in Nat /\ Len(b) \in Nat
  BY <1>1, LenProperties
<1>3. CASE i <= Len(b)
  <2>1. Len(Cut(b, i)) = Len(b) - i
    BY <1>3, CutTyped
  <2> QED
    BY <1>1, <1>2, <2>1
<1>4. CASE Len(b) <= i
  <2>1. Cut(b, i) = <<>>
    BY <1>4, CutTyped
  <2>2. Len(Cut(b, i)) = 0
    BY <2>1
  <2> QED
    BY <1>1, <1>2, <2>2
<1> QED
  BY <1>2, <1>3, <1>4

\* The data of an import, with bytes missing at one of three places.
SentBytes(key, where, missing) == IF where = "key" THEN Cut(KeyBytes(key), missing) ELSE KeyBytes(key)
SentValue(s, key, where, missing) == ImportValue(s, LengthTemplate(key), SentBytes(key, where, missing))
SentList(s, key, where, missing) ==
  IF where = "list" THEN Cut(SentValue(s, key, where, missing), missing) ELSE SentValue(s, key, where, missing)
SentObject(s, key, where, missing) == HostTlv(77, SentList(s, key, where, missing))
ImportData(s, key, where, missing) ==
  IF where = "4D" THEN Cut(SentObject(s, key, where, missing), missing) ELSE SentObject(s, key, where, missing)

\* What an element 5F48 holds that is known to arrive whole.
WholeBytes(key, where, missing) == IF where = "key" THEN SentBytes(key, where, missing) ELSE <<>>

LEMMA SendImportIs ==
  ASSUME NEW s, NEW key, NEW where, NEW missing
  PROVE  SendImport(s, key, where, missing) <=>
           /\ missing > 0 \/ where = "key"
           /\ where = "key" => missing <= Len(KeyBytes(key))
           /\ Send(Meaning("import", s, key, WholeBytes(key, where, missing), <<>>, missing),
                   APDU(<<0, 219, 63, 255>>, ImportData(s, key, where, missing), NoLe))
BY Zenon DEF SendImport, ImportData, SentObject, SentList, SentValue, SentBytes, WholeBytes

LEMMA ImportDataTyped ==
  ASSUME NEW s, NEW key \in Keys, NEW where, NEW missing \in Nat
  PROVE  /\ SentBytes(key, where, missing) \in Seq(Octets)
         /\ Len(SentBytes(key, where, missing)) \in KeyLengths
         /\ SentValue(s, key, where, missing) \in Seq(Octets)
         /\ SentList(s, key, where, missing) \in Seq(Octets)
         /\ Len(SentList(s, key, where, missing)) \in ThreeBytes
         /\ SentObject(s, key, where, missing) = encode(77, SentList(s, key, where, missing))
         /\ SentObject(s, key, where, missing) \in Seq(Octets)
         /\ ImportData(s, key, where, missing) \in Seq(Octets)
<1> DEFINE k == KeyBytes(key)
           b == SentBytes(key, where, missing)
           t == LengthTemplate(key)
           v == SentValue(s, key, where, missing)
           l == SentList(s, key, where, missing)
           o == SentObject(s, key, where, missing)
           d == ImportData(s, key, where, missing)
<1>1. k \in Seq(Octets) /\ Len(k) \in KeyLengths
  BY KeyBytesTyped
<1>2. t \in Seq(Octets) /\ Len(t) <= 15
  BY LengthTemplateTyped
<1>3. b = IF where = "key" THEN Cut(k, missing) ELSE k
  BY DEF SentBytes
<1>4. v = ImportValue(s, t, b)
  BY DEF SentValue
<1>5. l = IF where = "list" THEN Cut(v, missing) ELSE v
  BY DEF SentList
<1>6. o = HostTlv(77, l)
  BY DEF SentObject
<1>7. d = IF where = "4D" THEN Cut(o, missing) ELSE o
  BY DEF ImportData
<1> HIDE DEF k, b, t, v, l, o, d
<1>8. b \in Seq(Octets) /\ Len(b) \in KeyLengths
  <2>1. Cut(k, missing) \in Seq(Octets) /\ Len(Cut(k, missing)) \in Nat /\ Len(Cut(k, missing)) <= Len(k)
    BY <1>1, CutShorter, Zenon
  <2>2. Len(Cut(k, missing)) \in KeyLengths
    BY <1>1, <2>1, LengthSets, Zenon
  <2> QED
    BY <1>1, <1>3, <2>1, <2>2, Zenon
<1>9. v \in Seq(Octets) /\ Len(v) \in ListLengths
  BY <1>2, <1>4, <1>8, ImportValueTyped
<1>10. l \in Seq(Octets) /\ Len(l) \in ListLengths
  <2>1. Cut(v, missing) \in Seq(Octets) /\ Len(Cut(v, missing)) \in Nat /\ Len(Cut(v, missing)) <= Len(v)
    BY <1>9, CutShorter, Zenon
  <2>2. Len(Cut(v, missing)) \in ListLengths
    BY <1>9, <2>1, LengthSets, Zenon
  <2> QED
    BY <1>5, <1>9, <2>1, <2>2, Zenon
<1>11. Len(l) \in ThreeBytes
  BY <1>10, LengthSets
<1>12. o = encode(77, l) /\ o \in Seq(Octets)
  BY <1>6, <1>10, <1>11, KnownTags, HostEncodes
<1>13. d \in Seq(Octets)
  BY <1>7, <1>12, CutShorter, Zenon
<1> QED
  BY <1>8, <1>9, <1>10, <1>11, <1>12, <1>13 DEF b, v, l, o, d

-----------------------------------------------------------------------------
(* The requests a host makes. *)

Asking(meaning, cmd) == [meaning EXCEPT !.cmd = cmd]

PutDataOddCommand(data) == APDU(<<0, 219, 63, 255>>, data, NoLe)
AttributesCommand(s, b) == APDU(<<0, 218, 0, AttributesTag(s)>>, b, NoLe)
ReadAttributesCommand(s) == APDU(<<0, 202, 0, AttributesTag(s)>>, <<>>, 256)
FingerprintCommand(s, n) == APDU(<<0, 218, 0, FingerprintTag(s)>>, [i \in 1..n |-> 1], NoLe)
GenerateCommand(s) == APDU(<<0, 71, 128, 0>>, <<CrtTag(s), 0>>, 256)
ReadCommand(s) == APDU(<<0, 71, 129, 0>>, <<CrtTag(s), 0>>, 256)
SignCommand == APDU(<<0, 42, 158, 154>>, <<1>>, NoLe)

IsImport(r, s, key, where, missing) ==
  /\ missing > 0 \/ where = "key"
  /\ where = "key" => missing <= Len(KeyBytes(key))
  /\ r = Asking(Meaning("import", s, key, WholeBytes(key, where, missing), <<>>, missing),
                PutDataOddCommand(ImportData(s, key, where, missing)))

IsList(r, list, missing) ==
  /\ missing <= Len(HostList(list))
  /\ r = Asking(Meaning("list", "none", Nothing, <<>>, list, missing), PutDataOddCommand(Cut(HostList(list), missing)))

IsAttributes(r, s, b) == r = Asking(Plain("attributes", s), AttributesCommand(s, b))
IsReadAttributes(r, s) == r = Asking(Plain("read attributes", s), ReadAttributesCommand(s))
IsFingerprint(r, s, n) == r = Asking(Plain("fingerprint", s), FingerprintCommand(s, n))
IsGenerate(r, s) == r = Asking(Plain("generate", s), GenerateCommand(s))
IsRead(r, s) == r = Asking(Plain("read", s), ReadCommand(s))
IsSign(r) == r = Asking(Plain("sign", "SIG"), SignCommand)
IsOther(r, h, d, le) == r = Asking(Plain("other", "none"), APDU(h, d, le))

Asked(r) ==
  \/ \E s \in Slots, k \in Keys, w \in {"key", "list", "4D"}, i \in ImportCuts : IsImport(r, s, k, w, i)
  \/ \E l \in Lists, i \in ListCuts : IsList(r, l, i)
  \/ \E s \in Slots, b \in AttributeBytes : IsAttributes(r, s, b)
  \/ \E s \in Slots : IsReadAttributes(r, s) \/ IsGenerate(r, s) \/ IsRead(r, s)
  \/ \E s \in Slots, n \in {19, 20} : IsFingerprint(r, s, n)
  \/ IsSign(r) /\ "SIG" \in Slots
  \/ \E h \in Headers, d \in Payloads, le \in Lengths : IsOther(r, h, d, le)

OnTheWay(w, cmd) ==
  cmd \in Commands /\ \E form \in Forms : Carries(form, cmd) /\ w = EncodeApdu(form, cmd)

\* What is on the wire is what the request says.
Sent ==
  /\ request = NoRequest \/ request = Plain("broken", "none") \/ Asked(request)
  /\ wire # <<>> =>
       \/ wire \in Broken /\ request = Plain("broken", "none")
       \/ Asked(request) /\ OnTheWay(wire, request.cmd)

LEMMA AskingFields ==
  ASSUME NEW kind, NEW s, NEW key, NEW bytes, NEW list, NEW missing, NEW cmd, NEW r,
         r = Asking(Meaning(kind, s, key, bytes, list, missing), cmd)
  PROVE  /\ r.kind = kind /\ r.slot = s /\ r.key = key /\ r.bytes = bytes
         /\ r.list = list /\ r.missing = missing /\ r.cmd = cmd
BY DEF Asking, Meaning

LEMMA PlainFields ==
  ASSUME NEW kind, NEW s, NEW cmd, NEW r, r = Asking(Plain(kind, s), cmd)
  PROVE  r.kind = kind /\ r.slot = s /\ r.cmd = cmd
BY AskingFields DEF Plain

LEMMA FixedKinds == NoRequest.kind = "none" /\ Plain("broken", "none").kind = "broken"
BY DEF NoRequest, Plain, Meaning

\* Every list of the host is made of elements in bytes.
LEMMA ListsTyped ==
  ASSUME NEW l \in Lists
  PROVE  /\ l \in Seq(Elements) /\ l # <<>> /\ Len(l) \in Nat
         /\ \A i \in 1..Len(l) :
              /\ l[i] \in Elements /\ IsElement(l[i]) /\ IsTag(l[i].tag)
              /\ l[i].value \in Seq(Octets) /\ Len(l[i].value) \in ThreeBytes
<1>1. l \in Seq(Elements) /\ l # <<>> /\ \A t \in Range(l) : IsElement(t)
  BY ListsAssumption, SMT
<1>2. Len(l) \in Nat /\ DOMAIN l = 1..Len(l)
  BY <1>1
<1>3. \A i \in 1..Len(l) : l[i] \in Elements /\ l[i] \in Range(l)
  <2>1. \A i \in 1..Len(l) : l[i] \in Elements
    BY <1>1, ElementOfSeq, Zenon
  <2>2. \A i \in 1..Len(l) : l[i] \in Range(l)
    BY <1>2, Zenon DEF Range
  <2> QED
    BY <2>1, <2>2
<1>4. \A i \in 1..Len(l) : IsElement(l[i])
  BY <1>1, <1>3, Zenon
<1>5. ASSUME NEW t, IsElement(t)
      PROVE  IsTag(t.tag) /\ t.value \in Seq(Octets) /\ Len(t.value) \in ThreeBytes
  <2>1. IsTag(t.tag) /\ t.value \in Seq(Octets) /\ Len(t.value) < 65536
    BY <1>5, SMT DEF IsElement
  <2>2. Len(t.value) \in Nat
    BY <2>1, LenProperties, SMT
  <2>3. Len(t.value) \in ThreeBytes
    BY <2>1, <2>2, SMT DEF ThreeBytes
  <2> QED
    BY <2>1, <2>3, SMT
<1> QED
  BY <1>1, <1>2, <1>3, <1>4, <1>5, Zenon

\* Elements that have an encoding, and the bytes of a list of them.
Encodable(t) == IsTag(t.tag) /\ t.value \in Seq(Octets) /\ Len(t.value) \in ThreeBytes

LEMMA TreeBytes ==
  ASSUME NEW t, Encodable(t)
  PROVE  HostTree(t) = ElementBytes(t) /\ ElementBytes(t) \in Seq(Octets)
<1>1. HostTlv(t.tag, t.value) = encode(t.tag, t.value) /\ encode(t.tag, t.value) \in Seq(Octets)
  BY HostEncodes, Zenon DEF Encodable
<1> QED
  BY <1>1, Zenon DEF HostTree, ElementBytes

LEMMA HostListParts ==
  ASSUME NEW S, NEW list \in Seq(S), \A i \in 1..Len(list) : Encodable(list[i])
  PROVE  /\ PartsOf(list) \in Seq(Seq(Octets)) /\ Len(PartsOf(list)) = Len(list)
         /\ \A i \in 1..Len(list) : PartsOf(list)[i] = ElementBytes(list[i])
         /\ HostList(list) = FlattenSeq(PartsOf(list))
<1>0. Len(list) \in Nat /\ DOMAIN list = 1..Len(list)
  OBVIOUS
<1>1. \A i \in 1..Len(list) : HostTree(list[i]) = ElementBytes(list[i]) /\ ElementBytes(list[i]) \in Seq(Octets)
  BY TreeBytes, Zenon
<1>2. PartsOf(list) \in [1..Len(list) -> Seq(Octets)]
  BY <1>1, Zenon DEF PartsOf
<1>3. \A i \in 1..Len(list) : PartsOf(list)[i] = ElementBytes(list[i])
  BY Zenon DEF PartsOf
<1>4. PartsOf(list) \in Seq(Seq(Octets)) /\ Len(PartsOf(list)) = Len(list)
  <2> DEFINE p == PartsOf(list)
             B == Seq(Octets)
             n == Len(list)
  <2>1. p \in [1..n -> B] /\ n \in Nat
    BY <1>0, <1>2
  <2> HIDE DEF p, B, n
  <2>2. p \in Seq(B)
    BY <2>1
  <2>3. Len(p) = n
    BY <2>1, <2>2, LenProperties
  <2> QED
    BY <2>2, <2>3 DEF p, B, n
<1>5. [i \in DOMAIN list |-> HostTree(list[i])] = PartsOf(list)
  BY <1>0, <1>1, Zenon DEF PartsOf
<1>6. HostList(list) = FlattenSeq(PartsOf(list))
  BY <1>5, Zenon DEF HostList
<1> QED
  BY <1>3, <1>4, <1>6

LEMMA PrefixTyped ==
  ASSUME NEW S, NEW list \in Seq(S), NEW n \in 0..Len(list)
  PROVE  /\ SubSeq(list, 1, n) \in Seq(S) /\ Len(SubSeq(list, 1, n)) = n
         /\ \A i \in 1..n : SubSeq(list, 1, n)[i] = list[i]
<1>1. Len(list) \in Nat /\ n \in Nat /\ n <= Len(list)
  OBVIOUS
<1>2. \A i \in 1..n : list[i] \in S
  BY <1>1, ElementOfSeq
<1>3. SubSeq(list, 1, n) = [i \in 1..n |-> list[i]]
  <2>1. \A i \in 1..n : 1 + i - 1 = i
    BY <1>1
  <2>2. 1..(n - 1 + 1) = 1..n
    BY <1>1
  <2> QED
    BY <1>1, <2>1, <2>2
<1>4. [i \in 1..n |-> list[i]] \in [1..n -> S]
  BY <1>2
<1>5. SubSeq(list, 1, n) \in [1..n -> S]
  BY <1>3, <1>4
<1>6. SubSeq(list, 1, n) \in Seq(S)
  BY <1>1, <1>5
<1>7. Len(SubSeq(list, 1, n)) = n
  BY <1>1, <1>5, <1>6, LenProperties
<1> QED
  BY <1>3, <1>6, <1>7

\* Where the elements of a list end: the bytes of its prefixes.
LEMMA HostListSums ==
  ASSUME NEW S, NEW list \in Seq(S), \A i \in 1..Len(list) : Encodable(list[i]),
         NEW f, Sums(PartsOf(list), f), NEW n \in 0..Len(list)
  PROVE  HostList(SubSeq(list, 1, n)) = f[n] /\ f[n] \in Seq(Octets)
<1> DEFINE l == SubSeq(list, 1, n)
<1>0. Len(list) \in Nat /\ n \in Nat /\ n <= Len(list) /\ 1..n \subseteq 1..Len(list) /\ 0..n \subseteq 0..Len(list)
  OBVIOUS
<1>1. l \in Seq(S) /\ Len(l) = n /\ \A i \in 1..n : l[i] = list[i]
  BY PrefixTyped
<1>2. \A i \in 1..Len(l) : Encodable(l[i])
  BY <1>0, <1>1, Zenon
<1> HIDE DEF l
<1>3. /\ PartsOf(l) \in Seq(Seq(Octets)) /\ Len(PartsOf(l)) = n
      /\ \A i \in 1..n : PartsOf(l)[i] = ElementBytes(l[i])
      /\ HostList(l) = FlattenSeq(PartsOf(l))
  BY <1>1, <1>2, HostListParts, Zenon
<1>4. /\ Len(PartsOf(list)) = Len(list)
      /\ \A i \in 1..Len(list) : PartsOf(list)[i] = ElementBytes(list[i])
  BY HostListParts, Zenon
<1>5. \A i \in 1..n : PartsOf(l)[i] = PartsOf(list)[i]
  BY <1>0, <1>1, <1>3, <1>4, Zenon
<1>6. SumsUpTo(PartsOf(list), Len(list), f)
  BY <1>4, Zenon DEF Sums
<1>7. SumsUpTo(PartsOf(l), n, f)
  BY <1>0, <1>5, <1>6, Zenon DEF SumsUpTo
<1>8. Sums(PartsOf(l), f)
  BY <1>3, <1>7, Zenon DEF Sums
<1>9. FlattenSeq(PartsOf(l)) = f[n]
  BY <1>3, <1>8, FlattenIs, Zenon
<1>10. f[n] \in Seq(Octets)
  BY <1>6, Zenon DEF SumsUpTo
<1> QED
  BY <1>3, <1>9, <1>10, Zenon DEF l

LEMMA HostListTyped ==
  ASSUME NEW S, NEW list \in Seq(S), \A i \in 1..Len(list) : Encodable(list[i])
  PROVE  HostList(list) \in Seq(Octets)
<1>1. PICK f : Sums(PartsOf(list), f)
  BY HostListParts, SumsExist, Zenon
<1>2. Len(list) \in 0..Len(list)
  OBVIOUS
<1>3. SubSeq(list, 1, Len(list)) = list
  OBVIOUS
<1> QED
  BY <1>1, <1>2, <1>3, HostListSums, Zenon

LEMMA ListsEncodable ==
  ASSUME NEW l \in Lists
  PROVE  /\ l \in Seq(Elements) /\ \A i \in 1..Len(l) : Encodable(l[i])
         /\ HostList(l) \in Seq(Octets)
<1>1. l \in Seq(Elements) /\ \A i \in 1..Len(l) : Encodable(l[i])
  BY ListsTyped, Zenon DEF Encodable
<1> QED
  BY <1>1, HostListTyped, Zenon

\* A command of one of the host's actions is a command for every form.
LEMMA HostHeaders ==
  /\ <<0, 219, 63, 255>> \in HeaderBytes /\ <<0, 71, 128, 0>> \in HeaderBytes
  /\ <<0, 71, 129, 0>> \in HeaderBytes /\ <<0, 42, 158, 154>> \in HeaderBytes
  /\ \A s : /\ <<0, 218, 0, AttributesTag(s)>> \in HeaderBytes
            /\ <<0, 202, 0, AttributesTag(s)>> \in HeaderBytes
            /\ <<0, 218, 0, FingerprintTag(s)>> \in HeaderBytes
BY HeaderTyped, KnownOctets

LEMMA SmallData ==
  /\ <<1>> \in Seq(Octets)
  /\ \A s : <<CrtTag(s), 0>> \in Seq(Octets)
  /\ \A n \in Nat : [i \in 1..n |-> 1] \in Seq(Octets)
<1>1. 1 \in Octets /\ 0 \in Octets /\ \A s : CrtTag(s) \in Octets
  BY KnownOctets
<1> HIDE DEF Octets
<1>2. ASSUME NEW n \in Nat PROVE [i \in 1..n |-> 1] \in Seq(Octets)
  <2>1. [i \in 1..n |-> 1] \in [1..n -> Octets]
    BY <1>1
  <2> QED
    BY <2>1
<1> QED
  BY <1>1, <1>2

LEMMA HostCommands ==
  /\ \A d \in Seq(Octets) : PutDataOddCommand(d) \in Commands
  /\ \A s : \A b \in Seq(Octets) : AttributesCommand(s, b) \in Commands
  /\ \A s : \A n \in Nat : FingerprintCommand(s, n) \in Commands
  /\ \A s : /\ ReadAttributesCommand(s) \in Commands /\ GenerateCommand(s) \in Commands
            /\ ReadCommand(s) \in Commands
  /\ SignCommand \in Commands
<1>0. NoLe \in LeValues /\ 256 \in LeValues /\ <<>> \in Seq(Octets)
  BY LesTyped
<1>1. \A d \in Seq(Octets) : PutDataOddCommand(d) \in Commands
  BY <1>0, HostHeaders, ApduTyped, ZenonT(40) DEF PutDataOddCommand
<1>2. \A s : \A b \in Seq(Octets) : AttributesCommand(s, b) \in Commands
  BY <1>0, HostHeaders, ApduTyped, ZenonT(40) DEF AttributesCommand
<1>3. \A s : \A n \in Nat : FingerprintCommand(s, n) \in Commands
  BY <1>0, HostHeaders, SmallData, ApduTyped, ZenonT(40) DEF FingerprintCommand
<1>4. \A s : ReadAttributesCommand(s) \in Commands
  BY <1>0, HostHeaders, ApduTyped, ZenonT(40) DEF ReadAttributesCommand
<1>5. \A s : GenerateCommand(s) \in Commands
  BY <1>0, HostHeaders, SmallData, ApduTyped, ZenonT(40) DEF GenerateCommand
<1>6. \A s : ReadCommand(s) \in Commands
  BY <1>0, HostHeaders, SmallData, ApduTyped, ZenonT(40) DEF ReadCommand
<1>7. SignCommand \in Commands
  BY <1>0, HostHeaders, SmallData, ApduTyped, ZenonT(40) DEF SignCommand
<1> QED
  BY <1>1, <1>2, <1>3, <1>4, <1>5, <1>6, <1>7

LEMMA AskedCommand ==
  ASSUME NEW r, Asked(r)
  PROVE  r.cmd \in Commands
<1>1. ASSUME NEW s \in Slots, NEW k \in Keys, NEW w, NEW i \in ImportCuts, IsImport(r, s, k, w, i)
      PROVE  r.cmd \in Commands
  <2>1. i \in Nat
    BY CommandsAssumption, SMT
  <2>2. ImportData(s, k, w, i) \in Seq(Octets)
    BY <2>1, ImportDataTyped, Zenon
  <2>3. r.cmd = PutDataOddCommand(ImportData(s, k, w, i))
    BY <1>1, AskingFields DEF IsImport
  <2> QED
    BY <2>2, <2>3, HostCommands, Zenon
<1>2. ASSUME NEW l \in Lists, NEW i \in ListCuts, IsList(r, l, i)
      PROVE  r.cmd \in Commands
  <2>1. i \in Nat
    BY CommandsAssumption, SMT
  <2>2. Cut(HostList(l), i) \in Seq(Octets)
    BY <2>1, ListsEncodable, CutShorter, Zenon
  <2>3. r.cmd = PutDataOddCommand(Cut(HostList(l), i))
    BY <1>2, AskingFields DEF IsList
  <2> QED
    BY <2>2, <2>3, HostCommands, Zenon
<1>3. ASSUME NEW s \in Slots, NEW b \in AttributeBytes, IsAttributes(r, s, b)
      PROVE  r.cmd \in Commands
  <2>1. b \in Seq(Octets)
    BY CommandsAssumption, SMT
  <2>2. r.cmd = AttributesCommand(s, b)
    BY <1>3, PlainFields DEF IsAttributes
  <2> QED
    BY <2>1, <2>2, HostCommands, Zenon
<1>4. ASSUME NEW s \in Slots, IsReadAttributes(r, s) \/ IsGenerate(r, s) \/ IsRead(r, s)
      PROVE  r.cmd \in Commands
  <2>1. IsReadAttributes(r, s) => r.cmd = ReadAttributesCommand(s)
    <3> DEFINE kind == "read attributes"
    <3>1. IsReadAttributes(r, s) <=> r = Asking(Plain(kind, s), ReadAttributesCommand(s))
      BY Zenon DEF IsReadAttributes
    <3> HIDE DEF kind
    <3> QED
      BY <3>1, PlainFields
  <2>2. IsGenerate(r, s) => r.cmd = GenerateCommand(s)
    BY PlainFields DEF IsGenerate
  <2>3. IsRead(r, s) => r.cmd = ReadCommand(s)
    BY PlainFields DEF IsRead
  <2> QED
    BY <1>4, <2>1, <2>2, <2>3, HostCommands, Zenon
<1>5. ASSUME NEW s \in Slots, NEW n \in {19, 20}, IsFingerprint(r, s, n)
      PROVE  r.cmd \in Commands
  <2>1. n \in Nat
    OBVIOUS
  <2>2. r.cmd = FingerprintCommand(s, n)
    BY <1>5, PlainFields DEF IsFingerprint
  <2> QED
    BY <2>1, <2>2, HostCommands, Zenon
<1>6. ASSUME IsSign(r)
      PROVE  r.cmd \in Commands
  BY <1>6, PlainFields, HostCommands DEF IsSign
<1>7. ASSUME NEW h \in Headers, NEW d \in Payloads, NEW le \in Lengths, IsOther(r, h, d, le)
      PROVE  r.cmd \in Commands
  <2>1. h \in HeaderBytes
    BY CommandsAssumption, SMT DEF HeaderBytes
  <2>2. d \in Seq(Octets)
    BY CommandsAssumption, SMT
  <2>3. r.cmd = APDU(h, d, le)
    BY <1>7, PlainFields DEF IsOther
  <2> QED
    BY <2>1, <2>2, <2>3, LesTyped, ApduTyped, Zenon
<1> QED
  BY <1>1, <1>2, <1>3, <1>4, <1>5, <1>6, <1>7, Zenon DEF Asked

-----------------------------------------------------------------------------
(* The steps of the host. *)

\* What Send leaves on the wire is never empty: the parser refuses no bytes.
LEMMA CommandsNotEmpty ==
  ASSUME NEW form \in Forms, NEW cmd \in Commands, Carries(form, cmd)
  PROVE  EncodeApdu(form, cmd) # <<>>
<1>1. IsError(parse_apdu(<<>>))
  BY DEF parse_apdu, APDUError, IsError
<1>2. parse_apdu(EncodeApdu(form, cmd)) = cmd /\ ~IsError(cmd)
  BY EveryFormArrives, NoError, Zenon
<1> QED
  BY <1>1, <1>2, Zenon

\* After a step of the host its command is on the wire, if it sent one.
Underway == wire # <<>> \/ request = NoRequest \/ request = Plain("broken", "none")

LEMMA SendSends ==
  ASSUME NEW m, NEW cmd, Send(m, cmd), Asked(Asking(m, cmd)), Asking(m, cmd).cmd = cmd
  PROVE  Sent' /\ Underway'
<1>1. request' = Asking(m, cmd)
  BY DEF Send, Asking
<1>2. \E form \in Forms : Carries(form, cmd) /\ wire' = EncodeApdu(form, cmd)
  BY Zenon DEF Send
<1>3. cmd \in Commands
  BY AskedCommand, Zenon
<1>4. OnTheWay(wire', cmd) /\ wire' # <<>>
  BY <1>2, <1>3, CommandsNotEmpty, Zenon DEF OnTheWay
<1>5. (Asked(request) /\ OnTheWay(wire, request.cmd))'
  BY <1>1, <1>4, Zenon
<1> QED
  BY <1>4, <1>5, Zenon DEF Sent, Underway

LEMMA HostSends ==
  ASSUME Sent, Host
  PROVE  Sent' /\ Underway'
<1>1. CASE TakeAnswer
  <2>1. wire = <<>> /\ wire' = wire /\ request' = NoRequest
    BY <1>1 DEF TakeAnswer
  <2> QED
    BY <2>1, Zenon DEF Sent, Underway
<1>2. ASSUME NEW s \in Slots, NEW k \in Keys, NEW w \in {"key", "list", "4D"}, NEW i \in ImportCuts,
             SendImport(s, k, w, i)
      PROVE  Sent' /\ Underway'
  <2> DEFINE m == Meaning("import", s, k, WholeBytes(k, w, i), <<>>, i)
             cmd == PutDataOddCommand(ImportData(s, k, w, i))
  <2>1. Send(m, cmd) /\ (i > 0 \/ w = "key") /\ (w = "key" => i <= Len(KeyBytes(k)))
    BY <1>2, SendImportIs, Zenon DEF PutDataOddCommand
  <2>2. IsImport(Asking(m, cmd), s, k, w, i)
    BY <2>1, Zenon DEF IsImport
  <2>3. Asked(Asking(m, cmd))
    BY <2>2, Zenon DEF Asked
  <2>4. Asking(m, cmd).cmd = cmd
    BY AskingFields
  <2> QED
    BY <2>1, <2>3, <2>4, SendSends, Zenon
<1>3. ASSUME NEW l \in Lists, NEW i \in ListCuts, SendList(l, i)
      PROVE  Sent' /\ Underway'
  <2> DEFINE m == Meaning("list", "none", Nothing, <<>>, l, i)
             cmd == PutDataOddCommand(Cut(HostList(l), i))
  <2>1. Send(m, cmd) /\ i <= Len(HostList(l))
    BY <1>3, Zenon DEF SendList, PutDataOddCommand
  <2>2. IsList(Asking(m, cmd), l, i)
    BY <2>1, Zenon DEF IsList
  <2>3. Asked(Asking(m, cmd))
    BY <2>2, Zenon DEF Asked
  <2>4. Asking(m, cmd).cmd = cmd
    BY AskingFields
  <2> QED
    BY <2>1, <2>3, <2>4, SendSends, Zenon
<1>4. ASSUME NEW kind, NEW s, NEW cmd, Send(Plain(kind, s), cmd), Asked(Asking(Plain(kind, s), cmd))
      PROVE  Sent' /\ Underway'
  <2>1. Asking(Plain(kind, s), cmd).cmd = cmd
    BY PlainFields
  <2> QED
    BY <1>4, <2>1, SendSends, Zenon
<1>5. ASSUME NEW s \in Slots, NEW b \in AttributeBytes, SendAttributes(s, b)
      PROVE  Sent' /\ Underway'
  BY <1>4, <1>5, ZenonT(40) DEF SendAttributes, AttributesCommand, Asked, IsAttributes
<1>6. ASSUME NEW s \in Slots, NEW n \in {19, 20}, SendFingerprint(s, n)
      PROVE  Sent' /\ Underway'
  BY <1>4, <1>6, ZenonT(40) DEF SendFingerprint, FingerprintCommand, Asked, IsFingerprint
<1>7. ASSUME NEW s \in Slots, SendReadAttributes(s) \/ SendGenerate(s) \/ SendRead(s)
      PROVE  Sent' /\ Underway'
  <2>1. CASE SendReadAttributes(s)
    BY <1>4, <2>1, ZenonT(40) DEF SendReadAttributes, ReadAttributesCommand, Asked, IsReadAttributes
  <2>2. CASE SendGenerate(s)
    BY <1>4, <2>2, ZenonT(40) DEF SendGenerate, GenerateCommand, Asked, IsGenerate
  <2>3. CASE SendRead(s)
    BY <1>4, <2>3, ZenonT(40) DEF SendRead, ReadCommand, Asked, IsRead
  <2> QED
    BY <1>7, <2>1, <2>2, <2>3
<1>8. ASSUME SendSign
      PROVE  Sent' /\ Underway'
  BY <1>4, <1>8, ZenonT(40) DEF SendSign, SignCommand, Asked, IsSign
<1>9. ASSUME NEW h \in Headers, NEW d \in Payloads, NEW le \in Lengths, SendOther(h, d, le)
      PROVE  Sent' /\ Underway'
  BY <1>4, <1>9, Zenon DEF SendOther, Asked, IsOther
<1>10. ASSUME NEW b \in Broken, SendBroken(b)
       PROVE  Sent' /\ Underway'
  BY <1>10, Zenon DEF SendBroken, Sent, Underway
<1> QED
  BY <1>1, <1>2, <1>3, <1>5, <1>6, <1>7, <1>8, <1>9, <1>10, Zenon DEF Host

-----------------------------------------------------------------------------
(* The steps of the card. *)

LEMMA AnswerKeeps ==
  ASSUME NEW r, Answer(r)
  PROVE  wire' = <<>> /\ request' = request /\ reply' = r
BY Zenon DEF Answer

\* The card changes no request, and takes the command from the wire at most.
LEMMA CardKeeps ==
  ASSUME Card
  PROVE  request' = request /\ (wire' = wire \/ wire' = <<>>)
<1>1. ASSUME NEW r, AnswerOnly(r)
      PROVE  request' = request /\ wire' = <<>>
  BY <1>1, AnswerKeeps, Zenon DEF AnswerOnly
<1>2. CASE Malformed
  BY <1>1, <1>2, Zenon DEF Malformed
<1>3. CASE PutDataOdd
  BY <1>3, AnswerKeeps, Zenon DEF PutDataOdd, Imported
<1>4. ASSUME NEW s \in Slots, PutData(s)
      PROVE  request' = request /\ wire' = <<>>
  BY <1>4, AnswerKeeps, Zenon DEF PutData
<1>5. ASSUME NEW s \in Slots, GetData(s)
      PROVE  request' = request /\ wire' = <<>>
  BY <1>1, <1>5, Zenon DEF GetData
<1>6. ASSUME NEW s \in Slots, Generate(s)
      PROVE  request' = request /\ wire' = <<>>
  BY <1>1, <1>6, AnswerKeeps, Zenon DEF Generate, Generated
<1>7. ASSUME NEW s \in Slots, ReadPublicKey(s)
      PROVE  request' = request /\ wire' = <<>>
  BY <1>1, <1>7, Zenon DEF ReadPublicKey
<1>8. CASE UnknownInstruction
  BY <1>1, <1>8, Zenon DEF UnknownInstruction
<1>9. CASE SignBegins
  <2>1. ASSUME NEW n, NEW fields, DecodePrivateKey(n, fields)
        PROVE  request' = request /\ (wire' = wire \/ wire' = <<>>)
    BY <1>1, <2>1, Zenon DEF DecodePrivateKey
  <2> QED
    BY <1>1, <1>9, <2>1, Zenon DEF SignBegins
<1>10. CASE InverseStep
  BY <1>10, Zenon DEF InverseStep
<1>11. CASE SignEnds
  BY <1>11, AnswerKeeps, Zenon DEF SignEnds
<1> QED
  BY <1>2, <1>3, <1>4, <1>5, <1>6, <1>7, <1>8, <1>9, <1>10, <1>11, Zenon DEF Card

LEMMA SentStarts == Init => Sent
BY Zenon DEF Init, Sent

LEMMA SentKept == Sent /\ [Next]_vars => Sent'
<1> SUFFICES ASSUME Sent, [Next]_vars PROVE Sent'
  OBVIOUS
<1>1. ASSUME request' = request, wire' = wire \/ wire' = <<>>
      PROVE  Sent'
  <2>1. CASE wire' = <<>>
    BY <1>1, <2>1, Zenon DEF Sent
  <2>2. CASE wire' = wire
    BY <1>1, <2>2, Zenon DEF Sent
  <2> QED
    BY <1>1, <2>1, <2>2
<1>2. CASE Host
  BY <1>2, HostSends
<1>3. CASE Card
  BY <1>1, <1>3, CardKeeps
<1>4. CASE UNCHANGED vars
  BY <1>1, <1>4 DEF vars
<1> QED
  BY <1>2, <1>3, <1>4 DEF Next

\* What is on the wire is parsed as it was meant.
LEMMA WireParses ==
  ASSUME Sent, wire # <<>>
  PROVE  \/ request = Plain("broken", "none") /\ IsError(Command)
         \/ Asked(request) /\ Command = request.cmd /\ request.cmd \in Commands /\ ~IsError(Command)
<1>1. CASE wire \in Broken /\ request = Plain("broken", "none")
  <2>1. IsError(Command)
    BY <1>1, CommandsAssumption, SMT DEF Command
  <2> QED
    BY <1>1, <2>1
<1>2. CASE Asked(request) /\ OnTheWay(wire, request.cmd)
  <2>1. request.cmd \in Commands /\ parse_apdu(wire) = request.cmd
    BY <1>2, EveryFormArrives, Zenon DEF OnTheWay
  <2> QED
    BY <1>2, <2>1, NoError, Zenon DEF Command
<1> QED
  BY <1>1, <1>2 DEF Sent

\* Every command that a host sends reaches the applets as it was built, for
\* every set of keys, lists, payloads and lengths and in every form of APDU.
THEOREM CommandsArrive == Spec => []CommandArrives
<1>1. Sent => CommandArrives
  BY WireParses, FixedKinds, Zenon DEF CommandArrives
<1> QED
  BY <1>1, SentStarts, SentKept, PTL DEF Spec

-----------------------------------------------------------------------------
(* What a slot holds is bytes. *)

IsSlot(k) ==
  /\ k = [alg |-> k.alg, private |-> k.private, public |-> k.public, fingerprint |-> k.fingerprint]
  /\ k.private \in Seq(Octets) /\ k.public \in Seq(Octets)

LEMMA SlotRecord ==
  ASSUME NEW d, NEW u \in Seq(Octets), NEW v \in Seq(Octets), NEW e
  PROVE  LET m == [alg |-> d, private |-> u, public |-> v, fingerprint |-> e]
         IN IsSlot(m) /\ m.alg = d /\ m.private = u /\ m.public = v /\ m.fingerprint = e
<1> DEFINE B == Seq(Octets)
<1>1. u \in B /\ v \in B
  OBVIOUS
<1> HIDE DEF B
<1>2. IsSlot([alg |-> d, private |-> u, public |-> v, fingerprint |-> e])
  BY <1>1 DEF IsSlot, B
<1> QED
  BY <1>2

LEMMA SlotPrivate ==
  ASSUME NEW k, IsSlot(k), NEW x \in Seq(Octets),
         NEW m, m = [k EXCEPT !.private = x]
  PROVE  IsSlot(m) /\ m.private = x /\ m.public = k.public /\ m.alg = k.alg /\ m.fingerprint = k.fingerprint
<1> DEFINE g == k.alg
           p == k.private
           q == k.public
           h == k.fingerprint
<1>1. k = [alg |-> g, private |-> p, public |-> q, fingerprint |-> h] /\ p \in Seq(Octets) /\ q \in Seq(Octets)
  BY DEF IsSlot
<1> HIDE DEF g, p, q, h
<1>2. m = [alg |-> g, private |-> x, public |-> q, fingerprint |-> h]
  BY <1>1
<1>3. IsSlot([alg |-> g, private |-> x, public |-> q, fingerprint |-> h])
  BY <1>1, SlotRecord
<1> QED
  BY <1>2, <1>3 DEF g, p, q, h

LEMMA SlotPair ==
  ASSUME NEW k, IsSlot(k), NEW x \in Seq(Octets), NEW y \in Seq(Octets)
  PROVE  /\ IsSlot(Holding(k, x, y)) /\ Holding(k, x, y).private = x /\ Holding(k, x, y).public = y
         /\ Holding(k, x, y).alg = k.alg /\ Holding(k, x, y).fingerprint = k.fingerprint
<1> DEFINE g == k.alg
           p == k.private
           q == k.public
           h == k.fingerprint
           m == Holding(k, x, y)
           n == [k EXCEPT !.private = x]
<1>1. k = [alg |-> g, private |-> p, public |-> q, fingerprint |-> h] /\ p \in Seq(Octets) /\ q \in Seq(Octets)
  BY DEF IsSlot
<1> HIDE DEF g, p, q, h
<1>2. m = [n EXCEPT !.public = y]
  BY <1>1 DEF Holding
<1>3. n = [alg |-> g, private |-> x, public |-> q, fingerprint |-> h]
  BY <1>1
<1> HIDE DEF n, m
<1>4. m = [alg |-> g, private |-> x, public |-> y, fingerprint |-> h]
  BY <1>2, <1>3
<1>5. IsSlot([alg |-> g, private |-> x, public |-> y, fingerprint |-> h])
  BY SlotRecord
<1> QED
  BY <1>4, <1>5 DEF g, p, q, h, m

LEMMA SlotFingerprint ==
  ASSUME NEW k, IsSlot(k), NEW f,
         NEW m, m = [k EXCEPT !.fingerprint = f]
  PROVE  IsSlot(m) /\ m.private = k.private /\ m.public = k.public /\ m.alg = k.alg /\ m.fingerprint = f
<1> DEFINE g == k.alg
           p == k.private
           q == k.public
           h == k.fingerprint
<1>1. k = [alg |-> g, private |-> p, public |-> q, fingerprint |-> h] /\ p \in Seq(Octets) /\ q \in Seq(Octets)
  BY DEF IsSlot
<1> HIDE DEF g, p, q, h
<1>2. m = [alg |-> g, private |-> p, public |-> q, fingerprint |-> f]
  BY <1>1
<1>3. IsSlot([alg |-> g, private |-> p, public |-> q, fingerprint |-> f])
  BY <1>1, SlotRecord
<1> QED
  BY <1>2, <1>3 DEF g, p, q, h

LEMMA SlotAlg ==
  ASSUME NEW k, IsSlot(k), NEW a,
         NEW m, m = [k EXCEPT !.alg = a]
  PROVE  IsSlot(m) /\ m.private = k.private /\ m.public = k.public /\ m.alg = a /\ m.fingerprint = k.fingerprint
<1> DEFINE g == k.alg
           p == k.private
           q == k.public
           h == k.fingerprint
<1>1. k = [alg |-> g, private |-> p, public |-> q, fingerprint |-> h] /\ p \in Seq(Octets) /\ q \in Seq(Octets)
  BY DEF IsSlot
<1> HIDE DEF g, p, q, h
<1>2. m = [alg |-> a, private |-> p, public |-> q, fingerprint |-> h]
  BY <1>1
<1>3. IsSlot([alg |-> a, private |-> p, public |-> q, fingerprint |-> h])
  BY <1>1, SlotRecord
<1> QED
  BY <1>2, <1>3 DEF g, p, q, h

\* Lengths and fields of the stored form.
LEMMA PairTyped == \A n \in Nat : Pair(n) \in Seq(Octets) /\ Len(Pair(n)) = 2
<1> TAKE n \in Nat
<1>1. Octet(n, 1) \in Octets /\ Octet(n, 0) \in Octets
  BY OctetTyped
<1> DEFINE a == Octet(n, 1)
           b == Octet(n, 0)
<1> HIDE DEF a, b
<1>2. <<a, b>> \in Seq(Octets) /\ Len(<<a, b>>) = 2
  BY <1>1 DEF a, b
<1> QED
  BY <1>2, Zenon DEF Pair, a, b

LEMMA SizedTyped ==
  ASSUME NEW b \in Seq(Octets)
  PROVE  Sized(b) \in Seq(Octets) /\ Len(Sized(b)) = Len(b) + 2 /\ Len(b) \in Nat
<1>1. Len(b) \in Nat
  BY LenProperties
<1> DEFINE p == Pair(Len(b))
           w == p \o b
<1>2. p \in Seq(Octets) /\ Len(p) = 2
  BY <1>1, PairTyped
<1> HIDE DEF p, w
<1>3. w \in Seq(Octets) /\ Len(w) = Len(p) + Len(b)
  BY <1>2, Joins, Zenon DEF w
<1>4. Len(w) = Len(b) + 2
  BY <1>1, <1>2, <1>3
<1> QED
  BY <1>1, <1>3, <1>4, Zenon DEF Sized, w, p

LEMMA StoredTyped ==
  ASSUME NEW e \in Seq(Octets), NEW p \in Seq(Octets), NEW q \in Seq(Octets)
  PROVE  encode_private_key(e, p, q) \in Seq(Octets) /\ encode_public_key(p, q) \in Seq(Octets)
<1>1. Sized(e) \in Seq(Octets) /\ Sized(p) \in Seq(Octets) /\ Sized(q) \in Seq(Octets)
  BY SizedTyped
<1>2. Sized(e) \o Sized(p) \in Seq(Octets) /\ Sized(p) \o Sized(q) \in Seq(Octets)
  BY <1>1, Joins, Zenon
<1>3. (Sized(e) \o Sized(p)) \o Sized(q) \in Seq(Octets)
  BY <1>1, <1>2, Joins, Zenon
<1> QED
  BY <1>2, <1>3, Zenon DEF encode_private_key, encode_public_key

LEMMA MinimalTyped ==
  ASSUME NEW p \in Seq(Octets), NEW q \in Seq(Octets)
  PROVE  Minimal(p) \in Seq(Octets) /\ ToBytes(FromBytes(p) * FromBytes(q)) \in Seq(Octets)
<1>1. FromBytes(p) \in Nat /\ FromBytes(q) \in Nat
  BY FromBytesType
<1>2. FromBytes(p) * FromBytes(q) \in Nat
  BY <1>1
<1> QED
  BY <1>1, <1>2, ToBytesTyped, Zenon DEF Minimal

LEMMA FieldTyped ==
  ASSUME NEW b \in Seq(Octets), NEW i \in Nat \ {0}
  PROVE  \/ FieldAt(b, i) = Failed
         \/ \E c \in Seq(Octets), n \in Nat \ {0} : FieldAt(b, i) = [bytes |-> c, next |-> n]
<1>0. Len(b) \in Nat
  BY LenProperties
<1>1. CASE i + 1 > Len(b)
  BY <1>1, Zenon DEF FieldAt
<1>2. CASE ~(i + 1 > Len(b))
  <2> DEFINE n == FromBytes(SubSeq(b, i, i + 1))
  <2>1. i + 1 \in Nat /\ i + 1 <= Len(b)
    BY <1>0, <1>2
  <2>2. SubSeq(b, i, i + 1) \in Seq(Octets)
    BY <2>1, SubBytes, Zenon
  <2>3. n \in Nat
    BY <2>2, FromBytesType
  <2>4. FieldAt(b, i) = FieldOf(b, i, n)
    BY <1>2, Zenon DEF FieldAt
  <2> HIDE DEF n
  <2>5. CASE i + 1 + n > Len(b)
    BY <2>4, <2>5, Zenon DEF FieldOf
  <2>6. CASE ~(i + 1 + n > Len(b))
    <3>1. i + 1 + n \in Nat /\ i + 1 + n <= Len(b) /\ i + 2 \in Nat \ {0} /\ i + 2 + n \in Nat \ {0}
      BY <1>0, <2>3, <2>6
    <3>2. SubSeq(b, i + 2, i + 1 + n) \in Seq(Octets)
      BY <3>1, SubBytes, Zenon
    <3>3. FieldAt(b, i) = [bytes |-> SubSeq(b, i + 2, i + 1 + n), next |-> i + 2 + n]
      BY <2>4, <2>6, Zenon DEF FieldOf
    <3> QED
      BY <3>1, <3>2, <3>3, Zenon
  <2> QED
    BY <2>5, <2>6
<1> QED
  BY <1>1, <1>2

LEMMA FieldFails ==
  /\ IsFailed(Failed) /\ \A c, n : ~IsFailed([bytes |-> c, next |-> n])
  /\ \A c, n : [bytes |-> c, next |-> n].bytes = c /\ [bytes |-> c, next |-> n].next = n
  /\ \A e, p, q : ~IsFailed([e |-> e, p |-> p, q |-> q])
BY DEF IsFailed, Failed

\* The components of a private key are numbers when it has components.
LEMMA PrivateTyped ==
  ASSUME NEW b \in Seq(Octets), ~IsFailed(PrivateFields(b))
  PROVE  LET x == PrivateFields(b) IN x.e \in Nat /\ x.p \in Nat /\ x.q \in Nat
<1>1. ~(Len(b) < 6) /\ PrivateFields(b) = FirstField(b, FieldAt(b, 1))
  BY FieldFails, Zenon DEF PrivateFields
<1>2. PICK ce \in Seq(Octets), ne \in Nat \ {0} : FieldAt(b, 1) = [bytes |-> ce, next |-> ne]
  <2>1. FieldAt(b, 1) # Failed
    BY <1>1, FieldFails, Zenon DEF FirstField
  <2>2. 1 \in Nat \ {0}
    OBVIOUS
  <2> QED
    BY <2>1, <2>2, FieldTyped, Zenon
<1> DEFINE fe == FieldAt(b, 1)
<1>3. ~IsFailed(fe) /\ fe.bytes = ce /\ fe.next = ne
  BY <1>2, FieldFails, Zenon
<1>4. PrivateFields(b) = SecondField(b, fe, FieldAt(b, ne))
  BY <1>1, <1>3, ZenonT(40) DEF FirstField
<1>5. PICK cp \in Seq(Octets), np \in Nat \ {0} : FieldAt(b, ne) = [bytes |-> cp, next |-> np]
  <2>1. FieldAt(b, ne) # Failed
    BY <1>4, FieldFails, Zenon DEF SecondField
  <2> QED
    BY <2>1, FieldTyped, Zenon
<1> DEFINE fp == FieldAt(b, ne)
<1>6. ~IsFailed(fp) /\ fp.bytes = cp /\ fp.next = np
  BY <1>5, FieldFails, Zenon
<1>7. PrivateFields(b) = ThirdField(fe, fp, FieldAt(b, np))
  BY <1>4, <1>6, ZenonT(40) DEF SecondField
<1>8. PICK cq \in Seq(Octets), nq \in Nat \ {0} : FieldAt(b, np) = [bytes |-> cq, next |-> nq]
  <2>1. FieldAt(b, np) # Failed
    BY <1>7, FieldFails, Zenon DEF ThirdField
  <2> QED
    BY <2>1, FieldTyped, Zenon
<1> DEFINE fq == FieldAt(b, np)
<1>9. ~IsFailed(fq) /\ fq.bytes = cq
  BY <1>8, FieldFails, Zenon
<1>10. PrivateFields(b) = [e |-> FromBytes(ce), p |-> FromBytes(cp), q |-> FromBytes(cq)]
  BY <1>3, <1>6, <1>7, <1>9, Zenon DEF ThirdField
<1>11. FromBytes(ce) \in Nat /\ FromBytes(cp) \in Nat /\ FromBytes(cq) \in Nat
  BY FromBytesType
<1> QED
  BY <1>10, <1>11

-----------------------------------------------------------------------------
(* The lengths of the components (parse_crt_lengths). *)

LEMMA BerRead ==
  ASSUME NEW b \in Seq(Octets)
  PROVE  \E n \in Nat, k \in Nat : k <= Len(b) /\ parse_ber_length(b) = [n |-> n, took |-> k]
<1>0. Len(b) \in Nat
  BY LenProperties
<1>1. CASE b = <<>>
  <2>1. parse_ber_length(b) = [n |-> 0, took |-> 0]
    BY <1>1, Zenon DEF parse_ber_length
  <2>2. 0 \in Nat /\ 0 <= Len(b)
    BY <1>0
  <2> QED
    BY <2>1, <2>2
<1>2. CASE b # <<>>
  <2>0. Len(b) >= 1
    BY <1>0, <1>2, EmptySeq
  <2>1. b[1] \in Nat /\ b[1] < 256
    BY <1>0, <2>0, OctetAt
  <2>2. CASE b[1] < 128
    <3>1. parse_ber_length(b) = [n |-> b[1], took |-> 1]
      BY <1>2, <2>2, Zenon DEF parse_ber_length
    <3> QED
      BY <2>0, <2>1, <3>1
  <2>3. CASE ~(b[1] < 128) /\ Len(b) < b[1] - 127
    <3>1. parse_ber_length(b) = [n |-> 0, took |-> 1]
      BY <1>2, <2>3, Zenon DEF parse_ber_length
    <3> QED
      BY <2>0, <3>1
  <2>4. CASE ~(b[1] < 128) /\ ~(Len(b) < b[1] - 127)
    <3> DEFINE k == b[1] - 127
    <3>1. k \in Nat /\ k <= Len(b) /\ 2 \in Nat \ {0}
      BY <1>0, <2>1, <2>4
    <3>2. parse_ber_length(b) = [n |-> FromBytes(SubSeq(b, 2, k)), took |-> k]
      BY <1>2, <2>4, Zenon DEF parse_ber_length
    <3> HIDE DEF k
    <3>3. FromBytes(SubSeq(b, 2, k)) \in Nat
      BY <3>1, SubBytes, FromBytesType, Zenon
    <3> QED
      BY <3>1, <3>2, <3>3, Zenon
  <2> QED
    BY <2>2, <2>3, <2>4
<1> QED
  BY <1>1, <1>2

\* The lengths found from byte i on, where f tells those found from later ones on.
FoundAt(f, bytes, i) ==
  IF i >= Len(bytes) THEN <<>>
  ELSE LET l == parse_ber_length(From(bytes, i + 1))
       IN WithEarlier(f[i + 1 + l.took], bytes[i], l.n)
FoundFrom(f, bytes) == f = [i \in 1..(Len(bytes) + 1) |-> FoundAt(f, bytes, i)]
Counts(found) == \A t \in DOMAIN found : found[t] \in Nat

LEMMA FoundStep ==
  ASSUME NEW bytes \in Seq(Octets), NEW i \in 1..(Len(bytes) + 1), i < Len(bytes)
  PROVE  \E n \in Nat, k \in Nat :
           /\ i + 1 + k \in 1..(Len(bytes) + 1) /\ i + 1 + k > i
           /\ parse_ber_length(From(bytes, i + 1)) = [n |-> n, took |-> k]
           /\ \A f : FoundAt(f, bytes, i) = WithEarlier(f[i + 1 + k], bytes[i], n)
<1>0. Len(bytes) \in Nat /\ i \in Nat /\ i <= Len(bytes) /\ i >= 1
  BY LenProperties
<1> DEFINE c == From(bytes, i + 1)
<1>1. c \in Seq(Octets) /\ Len(c) = Len(bytes) - i
  <2>1. i + 1 = 1 + i
    BY <1>0
  <2>2. From(bytes, 1 + i) \in Seq(Octets) /\ Len(From(bytes, 1 + i)) = Len(bytes) - i
    BY <1>0, After
  <2> QED
    BY <2>1, <2>2
<1> HIDE DEF c
<1>2. PICK n \in Nat, k \in Nat : k <= Len(c) /\ parse_ber_length(c) = [n |-> n, took |-> k]
  BY <1>1, BerRead, Zenon
<1>3. i + 1 + k \in 1..(Len(bytes) + 1) /\ i + 1 + k > i
  BY <1>0, <1>1, <1>2
<1>4. parse_ber_length(c).took = k /\ parse_ber_length(c).n = n
  BY <1>2
<1>5. ~(i >= Len(bytes))
  BY <1>0
<1>6. \A f : FoundAt(f, bytes, i) = WithEarlier(f[i + 1 + k], bytes[i], n)
  BY <1>4, <1>5, Zenon DEF FoundAt, c
<1> QED
  BY <1>2, <1>3, <1>6, Zenon DEF c

LEMMA CountsJoined ==
  ASSUME NEW g, Counts(g), NEW t, NEW n \in Nat, NEW j, j = WithEarlier(g, t, n)
  PROVE  /\ Counts(j) /\ DOMAIN j = DOMAIN g \cup {t}
         /\ \A x \in DOMAIN g : j[x] = g[x]
         /\ t \notin DOMAIN g => j[t] = n
<1>3. j = [x \in DOMAIN g \cup {t} |-> IF x \in DOMAIN g THEN g[x] ELSE n]
  BY Zenon DEF WithEarlier
<1>4. DOMAIN j = DOMAIN g \cup {t}
  BY <1>3, Zenon
<1>5. \A x \in DOMAIN j : j[x] = IF x \in DOMAIN g THEN g[x] ELSE n
  BY <1>3, <1>4, Zenon
<1>6. \A x \in DOMAIN j : j[x] \in Nat
  BY <1>4, <1>5, Zenon DEF Counts
<1>7. \A x \in DOMAIN g : j[x] = g[x]
  BY <1>4, <1>5, Zenon
<1>8. t \notin DOMAIN g => j[t] = n
  BY <1>4, <1>5, Zenon
<1> QED
  BY <1>4, <1>6, <1>7, <1>8, Zenon DEF Counts

LEMMA FoundAlike ==
  ASSUME NEW bytes \in Seq(Octets), NEW i \in 1..(Len(bytes) + 1), NEW f, NEW g,
         \A j \in 1..(Len(bytes) + 1) : j > i => f[j] = g[j]
  PROVE  FoundAt(f, bytes, i) = FoundAt(g, bytes, i)
<1>0. Len(bytes) \in Nat /\ i \in Nat
  BY LenProperties
<1>1. CASE i >= Len(bytes)
  BY <1>1, Zenon DEF FoundAt
<1>2. CASE i < Len(bytes)
  <2>1. PICK n \in Nat, k \in Nat :
           /\ i + 1 + k \in 1..(Len(bytes) + 1) /\ i + 1 + k > i
           /\ \A h : FoundAt(h, bytes, i) = WithEarlier(h[i + 1 + k], bytes[i], n)
    BY <1>2, FoundStep, Zenon
  <2>2. f[i + 1 + k] = g[i + 1 + k]
    BY <2>1, Zenon
  <2> QED
    BY <2>1, <2>2, Zenon
<1> QED
  BY <1>0, <1>1, <1>2

FoundUpTo(f, bytes, k) ==
  \A i \in 1..(Len(bytes) + 1) : i + k > Len(bytes) => f[i] = FoundAt(f, bytes, i)

LEMMA FoundGoesOn ==
  ASSUME NEW bytes \in Seq(Octets), NEW k \in Nat, NEW f, FoundUpTo(f, bytes, k)
  PROVE  \E g : FoundUpTo(g, bytes, k + 1)
<1> DEFINE D == 1..(Len(bytes) + 1)
           g == [i \in D |-> IF i + k = Len(bytes) THEN FoundAt(f, bytes, i) ELSE f[i]]
<1>0. Len(bytes) \in Nat
  BY LenProperties
<1>1. \A i \in D : i + k = Len(bytes) => g[i] = FoundAt(f, bytes, i)
  BY Zenon
<1>2. \A i \in D : i + k # Len(bytes) => g[i] = f[i]
  BY Zenon
<1>3. \A i \in D : i + k > Len(bytes) => f[i] = FoundAt(f, bytes, i)
  BY Zenon DEF FoundUpTo
<1>4. D = 1..(Len(bytes) + 1)
  OBVIOUS
<1>5. \A i \in D : i \in Nat
  BY <1>0
<1> HIDE DEF g, D
<1>6. ASSUME NEW i \in D, i + (k + 1) > Len(bytes)
      PROVE  g[i] = FoundAt(g, bytes, i)
  <2>0. i \in Nat
    BY <1>5
  <2>1. \A j \in D : j > i => j + k # Len(bytes)
    BY <1>0, <1>5, <1>6, <2>0
  <2>2. \A j \in D : j > i => f[j] = g[j]
    BY <1>2, <2>1, Zenon
  <2>3. FoundAt(f, bytes, i) = FoundAt(g, bytes, i)
    BY <1>4, <2>2, FoundAlike
  <2>4. CASE i + k = Len(bytes)
    BY <1>1, <2>3, <2>4, Zenon
  <2>5. CASE i + k # Len(bytes)
    <3>1. i + k > Len(bytes)
      BY <1>0, <1>6, <2>0, <2>5
    <3> QED
      BY <1>2, <1>3, <2>3, <2>5, <3>1, Zenon
  <2> QED
    BY <2>4, <2>5
<1>7. FoundUpTo(g, bytes, k + 1)
  BY <1>4, <1>6, Zenon DEF FoundUpTo
<1> QED
  BY <1>7, Zenon

LEMMA FoundExists ==
  ASSUME NEW bytes \in Seq(Octets)
  PROVE  \E f : FoundFrom(f, bytes)
<1> DEFINE S == {k \in Nat : \E f : FoundUpTo(f, bytes, k)}
           D == 1..(Len(bytes) + 1)
<1>0. Len(bytes) \in Nat
  BY LenProperties
<1>1. 0 \in S
  <2> DEFINE f == [i \in D |-> <<>>]
  <2>1. \A i \in D : f[i] = <<>>
    BY Zenon
  <2>2. \A i \in D : i + 0 > Len(bytes) => i >= Len(bytes)
    BY <1>0
  <2> HIDE DEF f
  <2>3. FoundUpTo(f, bytes, 0)
    BY <2>1, <2>2, Zenon DEF FoundUpTo, FoundAt
  <2> QED
    BY <2>3
<1>2. ASSUME NEW k \in Nat, k \in S PROVE k + 1 \in S
  BY <1>2, FoundGoesOn
<1>3. \A k \in Nat : k \in S => \E f : FoundUpTo(f, bytes, k)
  OBVIOUS
<1> HIDE DEF S
<1>4. \A k \in Nat : k \in S
  BY <1>1, <1>2, Induction
<1>5. PICK f : FoundUpTo(f, bytes, Len(bytes))
  BY <1>0, <1>3, <1>4, Zenon
<1> DEFINE g == [i \in D |-> f[i]]
<1>6. \A i \in D : g[i] = f[i]
  BY Zenon
<1>7. \A i \in D : i + Len(bytes) > Len(bytes)
  BY <1>0
<1>8. \A i \in D : f[i] = FoundAt(f, bytes, i)
  BY <1>5, <1>7, Zenon DEF FoundUpTo
<1>9. \A i \in D : FoundAt(f, bytes, i) = FoundAt(g, bytes, i)
  <2> TAKE i \in D
  <2>1. \A j \in D : j > i => f[j] = g[j]
    BY <1>6, Zenon
  <2> HIDE DEF g
  <2> QED
    BY <2>1, FoundAlike
<1>10. g = [i \in D |-> FoundAt(g, bytes, i)]
  BY <1>8, <1>9, Zenon
<1> QED
  BY <1>10, Zenon DEF FoundFrom

LEMMA FoundCounts ==
  ASSUME NEW bytes \in Seq(Octets), NEW f, FoundFrom(f, bytes)
  PROVE  \A i \in 1..(Len(bytes) + 1) : f[i] = FoundAt(f, bytes, i) /\ Counts(f[i])
<1> DEFINE D == 1..(Len(bytes) + 1)
           S == {k \in Nat : \A i \in D : i + k > Len(bytes) => Counts(f[i])}
<1>0. Len(bytes) \in Nat /\ \A i \in D : i \in Nat
  BY LenProperties
<1>1. \A i \in D : f[i] = FoundAt(f, bytes, i)
  BY Zenon DEF FoundFrom
<1>2. Counts(<<>>)
  BY DEF Counts
<1>3. ASSUME NEW i \in D, i >= Len(bytes) PROVE Counts(f[i])
  <2>1. f[i] = <<>>
    BY <1>1, <1>3, Zenon DEF FoundAt
  <2> QED
    BY <1>2, <2>1
<1>4. 0 \in S
  <2>1. \A i \in D : i + 0 > Len(bytes) => i >= Len(bytes)
    BY <1>0
  <2> QED
    BY <1>3, <2>1
<1>5. ASSUME NEW k \in Nat, k \in S PROVE k + 1 \in S
  <2>1. \A i \in D : i + k > Len(bytes) => Counts(f[i])
    BY <1>5, Zenon
  <2>2. ASSUME NEW i \in D, i + (k + 1) > Len(bytes), i < Len(bytes) PROVE Counts(f[i])
    <3>1. PICK n \in Nat, m \in Nat :
             /\ i + 1 + m \in D /\ i + 1 + m > i
             /\ \A h : FoundAt(h, bytes, i) = WithEarlier(h[i + 1 + m], bytes[i], n)
      BY <2>2, FoundStep, Zenon
    <3>2. i + 1 + m + k > Len(bytes)
      BY <1>0, <2>2
    <3>3. Counts(f[i + 1 + m])
      BY <2>1, <3>1, <3>2, Zenon
    <3>4. f[i] = WithEarlier(f[i + 1 + m], bytes[i], n)
      BY <1>1, <3>1, Zenon
    <3> DEFINE g == f[i + 1 + m]
    <3> HIDE DEF g
    <3>5. Counts(WithEarlier(g, bytes[i], n))
      BY <3>3, CountsJoined DEF g
    <3> QED
      BY <3>4, <3>5, Zenon DEF g
  <2>3. \A i \in D : i < Len(bytes) \/ i >= Len(bytes)
    BY <1>0
  <2>4. \A i \in D : i + (k + 1) > Len(bytes) => Counts(f[i])
    BY <1>3, <2>2, <2>3, Zenon
  <2> QED
    BY <2>4
<1>6. \A k \in Nat : k \in S => \A i \in D : i + k > Len(bytes) => Counts(f[i])
  BY Zenon
<1> HIDE DEF S
<1>7. \A k \in Nat : k \in S
  BY <1>4, <1>5, Induction
<1>8. \A i \in D : i + Len(bytes) > Len(bytes)
  BY <1>0
<1>9. \A i \in D : Counts(f[i])
  BY <1>0, <1>6, <1>7, <1>8, Zenon
<1> QED
  BY <1>1, <1>9, Zenon

LEMMA CrtFound ==
  ASSUME NEW bytes \in Seq(Octets)
  PROVE  \E f : /\ CrtLengths(bytes) = f[1]
                /\ \A i \in 1..(Len(bytes) + 1) : f[i] = FoundAt(f, bytes, i) /\ Counts(f[i])
<1> DEFINE f == CHOOSE f : FoundFrom(f, bytes)
<1>1. FoundFrom(f, bytes)
  BY FoundExists, Zenon
<1>2. CrtLengths(bytes) = f[1]
  BY Zenon DEF CrtLengths, FoundFrom, FoundAt
<1> HIDE DEF f
<1> QED
  BY <1>1, <1>2, FoundCounts, Zenon

LEMMA LengthsTyped ==
  ASSUME NEW bytes \in Seq(Octets)
  PROVE  LET l == parse_crt_lengths(bytes)
         IN DOMAIN l = {145, 146, 147} /\ l[145] \in Nat /\ l[146] \in Nat /\ l[147] \in Nat
<1>1. PICK f : /\ CrtLengths(bytes) = f[1]
               /\ \A i \in 1..(Len(bytes) + 1) : f[i] = FoundAt(f, bytes, i) /\ Counts(f[i])
  BY CrtFound, Zenon
<1>2. 1 \in 1..(Len(bytes) + 1)
  BY LenProperties
<1> DEFINE c == CrtLengths(bytes)
<1>3. Counts(c)
  BY <1>1, <1>2, Zenon
<1> HIDE DEF c
<1>4. parse_crt_lengths(bytes) = [t \in {145, 146, 147} |-> IF t \in DOMAIN c THEN c[t] ELSE 0]
  BY DEF parse_crt_lengths, OnlyComponents, c
<1>5. \A t \in DOMAIN c : c[t] \in Nat
  BY <1>3 DEF Counts
<1> QED
  BY <1>4, <1>5

-----------------------------------------------------------------------------
(* Every key that the card stores is bytes. *)

LEMMA Repeated ==
  ASSUME NEW n \in Nat, NEW x \in Octets
  PROVE  [i \in 1..n |-> x] \in Seq(Octets) /\ Len([i \in 1..n |-> x]) = n
<1> DEFINE B == Octets
           f == [i \in 1..n |-> x]
<1>0. x \in B
  OBVIOUS
<1> HIDE DEF B
<1>1. f \in [1..n -> B]
  BY <1>0
<1>2. f \in Seq(B)
  BY <1>1
<1>3. Len(f) = n
  BY <1>1, <1>2, LenProperties
<1> QED
  BY <1>2, <1>3 DEF B

LEMMA Sizes == \A alg : ScalarSize(alg) \in {32, 48, 66}
BY Zenon DEF ScalarSize

LEMMA PublicKeyTyped ==
  ASSUME NEW alg, NEW x \in Seq(Octets), x # <<>>
  PROVE  PublicKey(alg, x) \in Seq(Octets) /\ Len(PublicKey(alg, x)) \in Nat /\ Len(PublicKey(alg, x)) <= 133
<1>1. x[1] \in Octets
  <2>1. 1 \in 1..Len(x)
    BY LenProperties, EmptySeq
  <2> QED
    BY <2>1, OctetAt
<1> DEFINE b == x[1]
<1> HIDE DEF b
<1>0. b \in Octets
  BY <1>1 DEF b
<1>2. CASE Is25519(alg)
  <2>1. PublicKey(alg, x) = [i \in 1..32 |-> b]
    BY <1>2, Zenon DEF PublicKey, b
  <2>2. [i \in 1..32 |-> b] \in Seq(Octets) /\ Len([i \in 1..32 |-> b]) = 32
    BY <1>0, Repeated
  <2> QED
    BY <2>1, <2>2
<1>3. CASE ~Is25519(alg)
  <2> DEFINE n == 2 * ScalarSize(alg)
             f == [i \in 1..n |-> b]
             w == <<4>> \o f
  <2>1. PublicKey(alg, x) = w
    BY <1>3, Zenon DEF PublicKey, b
  <2>2. n \in Nat /\ n <= 132
    BY Sizes
  <2> HIDE DEF n
  <2>3. f \in Seq(Octets) /\ Len(f) = n
    BY <1>0, <2>2, Repeated
  <2>4. <<4>> \in Seq(Octets) /\ Len(<<4>>) = 1
    BY DEF Octets
  <2> HIDE DEF f
  <2>5. w \in Seq(Octets) /\ Len(w) = 1 + Len(f)
    BY <2>3, <2>4, Joins, Zenon
  <2> HIDE DEF w
  <2>6. Len(w) \in Nat /\ Len(w) <= 133
    BY <2>2, <2>3, <2>5
  <2> QED
    BY <2>1, <2>5, <2>6
<1> QED
  BY <1>2, <1>3

LEMMA PublicTemplateTyped ==
  ASSUME NEW pk \in Seq(Octets), Len(pk) \in Nat, Len(pk) <= 133
  PROVE  /\ PublicTemplate(pk) \in Seq(Octets) /\ Len(pk) \in ThreeBytes
         /\ encode(134, pk) \in Seq(Octets) /\ Len(encode(134, pk)) \in ThreeBytes
<1>1. \A n \in Nat : n <= 140 => n \in ThreeBytes
  BY SMT DEF ThreeBytes
<1>2. Len(pk) \in ThreeBytes
  BY <1>1
<1> DEFINE v == encode(134, pk)
<1>3. v \in Seq(Octets) /\ Len(v) \in Nat /\ Len(v) <= Len(pk) + 7
  BY <1>2, KnownTags, HostEncodes
<1> HIDE DEF v
<1>4. Len(v) \in ThreeBytes
  <2>1. Len(v) <= 140
    BY <1>3
  <2> QED
    BY <1>1, <1>3, <2>1
<1>5. encode(PublicKeyTag, v) \in Seq(Octets)
  BY <1>3, <1>4, KnownTags, HostEncodes, Zenon
<1> QED
  BY <1>2, <1>3, <1>4, <1>5, Zenon DEF PublicTemplate, v

LEMMA StoredScalarTyped ==
  ASSUME NEW alg, NEW b \in Seq(Octets)
  PROVE  /\ StoredScalar(alg, b) \in Seq(Octets) /\ Len(StoredScalar(alg, b)) = Len(b)
         /\ StoredScalar(alg, StoredScalar(alg, b)) = b
<1>0. Len(b) \in Nat
  BY LenProperties
<1> DEFINE r == Reverse(b)
           D == 1..Len(b)
<1>1. r = [i \in D |-> b[(Len(b) - i) + 1]]
  BY Zenon DEF Reverse
<1>2. \A i \in D : (Len(b) - i) + 1 \in D /\ (Len(b) - ((Len(b) - i) + 1)) + 1 = i
  BY <1>0
<1>3. \A i \in D : b[i] \in Octets
  BY OctetAt
<1>4. r \in [D -> Octets] /\ \A i \in D : r[i] = b[(Len(b) - i) + 1]
  <2>1. \A i \in D : b[(Len(b) - i) + 1] \in Octets
    BY <1>2, <1>3, Zenon
  <2> HIDE DEF D, r
  <2> QED
    BY <1>1, <2>1, Zenon
<1> HIDE DEF r
<1>5. r \in Seq(Octets) /\ Len(r) = Len(b)
  <2> DEFINE B == Octets
             n == Len(b)
  <2>1. r \in [1..n -> B] /\ n \in Nat
    BY <1>0, <1>4
  <2> HIDE DEF B, n
  <2>2. r \in Seq(B)
    BY <2>1
  <2>3. Len(r) = n
    BY <2>1, <2>2, LenProperties
  <2> QED
    BY <2>2, <2>3 DEF B, n
<1>6. Reverse(r) = b
  <2>1. Reverse(r) = [i \in D |-> r[(Len(b) - i) + 1]]
    BY <1>5, Zenon DEF Reverse
  <2>2. \A i \in D : r[(Len(b) - i) + 1] = b[(Len(b) - ((Len(b) - i) + 1)) + 1]
    BY <1>2, <1>4, Zenon
  <2>3. \A i \in D : r[(Len(b) - i) + 1] = b[i]
    BY <1>2, <2>2
  <2>4. b = [i \in D |-> b[i]]
    OBVIOUS
  <2> HIDE DEF D
  <2> QED
    BY <2>1, <2>3, <2>4, Zenon
<1>7. CASE alg.id = ECDH /\ IsCurve(alg, "X25519")
  BY <1>5, <1>6, <1>7, Zenon DEF StoredScalar, r
<1>8. CASE ~(alg.id = ECDH /\ IsCurve(alg, "X25519"))
  BY <1>8, Zenon DEF StoredScalar
<1> QED
  BY <1>7, <1>8

LEMMA StoreScalarTyped ==
  ASSUME NEW k, IsSlot(k), NEW x \in Seq(Octets), x # <<>>
  PROVE  IsSlot(StoreScalar(k, x).slot)
<1> DEFINE y == PublicTemplate(PublicKey(k.alg, x))
           p == Holding(k, x, y)
           q == [k EXCEPT !.private = x]
<1>1. y \in Seq(Octets)
  BY PublicKeyTyped, PublicTemplateTyped
<1> HIDE DEF y
<1>3. StoreScalar(k, x) \in {[sw |-> "9000", slot |-> p], [sw |-> "6400", slot |-> q]}
  BY Zenon DEF StoreScalar, y
<1>5. q = [k EXCEPT !.private = x]
  OBVIOUS
<1> HIDE DEF q
<1>2. IsSlot(p) /\ IsSlot(q)
  BY <1>1, <1>5, SlotPair, SlotPrivate
<1> HIDE DEF p
<1>4. StoreScalar(k, x).slot \in {p, q}
  BY <1>3
<1> QED
  BY <1>2, <1>4

LEMMA ImportScalarTyped ==
  ASSUME NEW k, IsSlot(k), NEW b \in Seq(Octets)
  PROVE  IsSlot(ImportScalar(k, b).slot)
<1> DEFINE x == StoredScalar(k.alg, b)
<1>1. CASE ImportScalar(k, b) = [sw |-> "6A80", slot |-> k]
  BY <1>1
<1>2. CASE ImportScalar(k, b) = StoreScalar(k, x) /\ Len(b) = ScalarSize(k.alg)
  <2>1. x \in Seq(Octets) /\ Len(x) = Len(b)
    BY StoredScalarTyped
  <2>2. Len(b) > 0
    BY <1>2, Sizes
  <2> HIDE DEF x
  <2>3. x # <<>>
    BY <2>1, <2>2
  <2> QED
    BY <1>2, <2>1, <2>3, StoreScalarTyped, Zenon
<1> QED
  BY <1>1, <1>2, Zenon DEF ImportScalar

LEMMA ImportRsaTyped ==
  ASSUME NEW k, IsSlot(k), NEW t \in Seq(Octets), NEW b \in Seq(Octets)
  PROVE  IsSlot(ImportRsa(k, parse_crt_lengths(t), b).slot)
<1> DEFINE l == parse_crt_lengths(t)
           x == l[145]
           y == l[146]
           z == l[147]
<1>1. DOMAIN l = {145, 146, 147} /\ x \in Nat /\ y \in Nat /\ z \in Nat
  BY LengthsTyped
<1> HIDE DEF l
<1>2. CASE ~LengthsMatch(l, b)
  <2>1. ImportRsa(k, l, b) = [sw |-> "6A80", slot |-> k]
    BY <1>2, Zenon DEF ImportRsa
  <2> QED
    BY <2>1 DEF l
<1>3. CASE LengthsMatch(l, b)
  <2>0. Len(b) = x + y + z
    BY <1>3 DEF LengthsMatch
  <2> HIDE DEF x, y, z
  <2>1. x <= Len(b) /\ x + y <= Len(b) /\ x + y \in Nat /\ x + 1 \in Nat \ {0} /\ 1 \in Nat \ {0}
        /\ x + y + 1 \in Nat \ {0} /\ x + y + 1 <= Len(b) + 1
    BY <1>1, <2>0
  <2> DEFINE e == SubSeq(b, 1, x)
             p == SubSeq(b, x + 1, x + y)
             q == From(b, x + y + 1)
             v == encode_private_key(e, p, q)
             w == encode_public_key(ToBytes(FromBytes(p) * FromBytes(q)), e)
  <2>2. e \in Seq(Octets) /\ p \in Seq(Octets)
    BY <1>1, <2>1, SubBytes, Zenon
  <2>3. q \in Seq(Octets)
    BY <1>1, <2>1, FromTyped, Zenon
  <2> HIDE DEF e, p, q
  <2>4. v \in Seq(Octets) /\ w \in Seq(Octets)
    BY <2>2, <2>3, StoredTyped, MinimalTyped, Zenon
  <2>5. ImportRsa(k, l, b) = [sw |-> "9000", slot |-> Holding(k, v, w)]
    BY <1>3, Zenon DEF ImportRsa, StoreRsa, e, p, q, x, y
  <2> HIDE DEF v, w
  <2>6. IsSlot(Holding(k, v, w))
    BY <2>4, SlotPair
  <2>7. ImportRsa(k, l, b).slot = Holding(k, v, w)
    BY <2>5
  <2> QED
    BY <2>6, <2>7, Zenon DEF l
<1> QED
  BY <1>2, <1>3

AreSlots(f) == f = [s \in Slots |-> f[s]] /\ \A s \in Slots : IsSlot(f[s])

LEMMA SlotChanged ==
  ASSUME NEW f, AreSlots(f), NEW s \in Slots, NEW k, IsSlot(k)
  PROVE  /\ AreSlots([f EXCEPT ![s] = k]) /\ [f EXCEPT ![s] = k][s] = k
         /\ \A r \in Slots : r # s => [f EXCEPT ![s] = k][r] = f[r]
<1> DEFINE g == [f EXCEPT ![s] = k]
<1>1. DOMAIN f = Slots
  BY Zenon DEF AreSlots
<1>2. g = [r \in Slots |-> IF r = s THEN k ELSE f[r]]
  BY <1>1
<1>3. \A r \in Slots : g[r] = IF r = s THEN k ELSE f[r]
  BY <1>2, Zenon
<1>4. g = [r \in Slots |-> g[r]]
  BY <1>2, <1>3, Zenon
<1> HIDE DEF g
<1> QED
  BY <1>3, <1>4, Zenon DEF AreSlots, g

\* The list that an import is read from.
LEMMA ImportElementsRead ==
  ASSUME NEW d \in Seq(Octets)
  PROVE  \E v \in Seq(Octets) : ImportElements(read_list(d)) = read_list(v)
<1> DEFINE outer == read_list(d)
<1>1. PICK S : HaveValues(S) /\ outer \in Seq(S)
  BY ReadListTyped, Zenon
<1>2. <<>> \in Seq(Octets) /\ read_list(<<>>) = <<>>
  BY ListEmpty
<1> HIDE DEF outer
<1>3. CASE outer = <<>>
  <2>1. ImportElements(outer) = <<>>
    BY <1>3, Zenon DEF ImportElements
  <2> QED
    BY <1>2, <2>1, Zenon DEF outer
<1>4. CASE outer # <<>> /\ outer[1].tag # 77
  <2>1. ImportElements(outer) = <<>>
    BY <1>4, Zenon DEF ImportElements
  <2> QED
    BY <1>2, <2>1, Zenon DEF outer
<1>5. CASE outer # <<>> /\ outer[1].tag = 77
  <2>1. ImportElements(outer) = read_list(outer[1].value)
    BY <1>5, Zenon DEF ImportElements
  <2>2. outer[1] \in S
    BY <1>1, <1>5
  <2>3. outer[1].value \in Seq(Octets)
    BY <1>1, <2>2, Zenon DEF HaveValues
  <2> QED
    BY <2>1, <2>3, Zenon DEF outer
<1> QED
  BY <1>3, <1>4, <1>5

ImportSlot(v) == SlotOf(SlotTemplates(read_list(v))[1])
ImportBytes(v) == find(read_list(v), {KeyDataTag})[1].value

\* An import is refused, or goes into the slot of its first template.
LEMMA ImportCases ==
  ASSUME NEW v \in Seq(Octets)
  PROVE  \/ ImportParts(read_list(v)) = [sw |-> "6A80", slot |-> slot]
         \/ /\ ImportSlot(v) \in Slots /\ ImportBytes(v) \in Seq(Octets)
            /\ ImportParts(read_list(v)) =
                 WithSlot(ImportSlot(v),
                          ImportInto(slot[ImportSlot(v)], find(read_list(v), {LengthsTag}), ImportBytes(v)))
<1> DEFINE list == read_list(v)
           crts == SlotTemplates(list)
           data == find(list, {KeyDataTag})
<1>1. CASE crts = <<>> \/ data = <<>>
  BY <1>1, Zenon DEF ImportParts, ImportList
<1>2. CASE crts # <<>> /\ data # <<>>
  <2>1. ImportBytes(v) \in Seq(Octets)
    BY <1>2, FoundTyped, Zenon DEF ImportBytes
  <2>2. crts[1].tag \in {CrtTag(s) : s \in Slots}
    BY <1>2, FoundTyped, Zenon DEF SlotTemplates
  <2>3. \E s \in Slots : CrtTag(s) = crts[1].tag
    BY <2>2, Zenon
  <2>4. ImportSlot(v) \in Slots
    BY <2>3, Zenon DEF ImportSlot, SlotOf
  <2>5. ImportParts(list) =
           WithSlot(ImportSlot(v), ImportInto(slot[ImportSlot(v)], find(list, {LengthsTag}), ImportBytes(v)))
    BY <1>2, Zenon DEF ImportParts, ImportList, ImportSlot, ImportBytes
  <2> QED
    BY <2>1, <2>4, <2>5
<1> QED
  BY <1>1, <1>2

LEMMA ImportIntoTyped ==
  ASSUME NEW k, IsSlot(k), NEW v \in Seq(Octets), NEW b \in Seq(Octets)
  PROVE  IsSlot(ImportInto(k, find(read_list(v), {LengthsTag}), b).slot)
<1> DEFINE t == find(read_list(v), {LengthsTag})
<1>1. CASE k.alg.id # RSA
  BY <1>1, ImportScalarTyped, Zenon DEF ImportInto
<1>2. CASE k.alg.id = RSA /\ t = <<>>
  <2>1. ImportInto(k, t, b) = [sw |-> "6A80", slot |-> k]
    BY <1>2, Zenon DEF ImportInto
  <2> QED
    BY <2>1
<1>3. CASE k.alg.id = RSA /\ t # <<>>
  <2>1. t[1].value \in Seq(Octets)
    BY <1>3, FoundTyped, Zenon
  <2>2. ImportInto(k, t, b) = ImportRsa(k, parse_crt_lengths(t[1].value), b)
    BY <1>3, Zenon DEF ImportInto
  <2> QED
    BY <2>1, <2>2, ImportRsaTyped, Zenon
<1> QED
  BY <1>1, <1>2, <1>3

LEMMA ImportTyped ==
  ASSUME AreSlots(slot), NEW d \in Seq(Octets)
  PROVE  AreSlots(handle_key_import(d).slot)
<1>1. PICK v \in Seq(Octets) : ImportElements(read_list(d)) = read_list(v)
  BY ImportElementsRead, Zenon
<1>2. handle_key_import(d) = ImportParts(read_list(v))
  BY <1>1, Zenon DEF handle_key_import
<1>3. CASE ImportParts(read_list(v)) = [sw |-> "6A80", slot |-> slot]
  BY <1>2, <1>3
<1>4. CASE /\ ImportSlot(v) \in Slots /\ ImportBytes(v) \in Seq(Octets)
           /\ ImportParts(read_list(v)) =
                WithSlot(ImportSlot(v),
                         ImportInto(slot[ImportSlot(v)], find(read_list(v), {LengthsTag}), ImportBytes(v)))
  <2> DEFINE s == ImportSlot(v)
             done == ImportInto(slot[s], find(read_list(v), {LengthsTag}), ImportBytes(v))
  <2>1. s \in Slots /\ ImportParts(read_list(v)) = WithSlot(s, done)
    BY <1>4
  <2>2. IsSlot(slot[s])
    BY <1>4, Zenon DEF AreSlots
  <2>3. IsSlot(done.slot)
    BY <1>4, <2>2, ImportIntoTyped, Zenon
  <2> HIDE DEF s, done
  <2>4. WithSlot(s, done).slot = [slot EXCEPT ![s] = done.slot]
    BY DEF WithSlot
  <2>5. AreSlots([slot EXCEPT ![s] = done.slot])
    BY <2>1, <2>3, SlotChanged, Zenon
  <2> QED
    BY <1>2, <2>1, <2>4, <2>5, Zenon
<1> QED
  BY <1>3, <1>4, ImportCases, Zenon

\* The pairs that the card generates.
LEMMA PairsTyped ==
  ASSUME NEW alg, NEW pair \in KeyPairs(alg)
  PROVE  pair.private \in Seq(Octets) /\ pair.public \in Seq(Octets)
<1>1. CASE alg.id = RSA
  <2>1. PICK k \in NewRsaKeys :
           pair = [private |-> encode_private_key(Minimal(k.e), Minimal(k.p), Minimal(k.q)),
                   public |-> encode_public_key(Product(k), Minimal(k.e)),
                   elements |-> <<TLV(129, Product(k), <<>>), TLV(130, Minimal(k.e), <<>>)>>]
    BY <1>1, Zenon DEF KeyPairs
  <2>2. k \in [e: Component, p: Component, q: Component]
    BY KeysTyped, Zenon
  <2>3. k.e \in Component /\ k.p \in Component /\ k.q \in Component
    BY <2>2
  <2>4. k.e \in Seq(Octets) /\ k.p \in Seq(Octets) /\ k.q \in Seq(Octets)
    BY <2>3, ComponentTyped
  <2>5. /\ Minimal(k.e) \in Seq(Octets) /\ Minimal(k.p) \in Seq(Octets) /\ Minimal(k.q) \in Seq(Octets)
        /\ Product(k) \in Seq(Octets)
    BY <2>4, MinimalTyped, Zenon DEF Product
  <2>6. /\ encode_private_key(Minimal(k.e), Minimal(k.p), Minimal(k.q)) \in Seq(Octets)
        /\ encode_public_key(Product(k), Minimal(k.e)) \in Seq(Octets)
    BY <2>5, StoredTyped, Zenon
  <2>7. /\ pair.private = encode_private_key(Minimal(k.e), Minimal(k.p), Minimal(k.q))
        /\ pair.public = encode_public_key(Product(k), Minimal(k.e))
    BY <2>1
  <2> QED
    BY <2>6, <2>7, Zenon
<1>2. CASE alg.id # RSA
  <2>1. PICK x \in Scalars :
           /\ Len(x) = ScalarSize(alg) /\ IsScalar(alg, x)
           /\ pair = [private |-> x, public |-> PublicTemplate(PublicKey(alg, x)),
                      elements |-> <<TLV(134, PublicKey(alg, x), <<>>)>>]
    BY <1>2, Zenon DEF KeyPairs
  <2>2. x \in Seq(Octets) /\ x # <<>>
    <3>1. x \in Component
      BY KeysTyped, Zenon
    <3> QED
      BY <3>1, ComponentTyped
  <2>3. PublicTemplate(PublicKey(alg, x)) \in Seq(Octets)
    BY <2>2, PublicKeyTyped, PublicTemplateTyped
  <2>4. pair.private = x /\ pair.public = PublicTemplate(PublicKey(alg, x))
    BY <2>1
  <2> QED
    BY <2>2, <2>3, <2>4, Zenon
<1> QED
  BY <1>1, <1>2

LEMMA WithPairTyped ==
  ASSUME NEW k, IsSlot(k), NEW pair \in KeyPairs(k.alg)
  PROVE  /\ IsSlot(WithPair(k, pair)) /\ WithPair(k, pair).alg = k.alg
         /\ WithPair(k, pair).private = pair.private /\ WithPair(k, pair).public = pair.public
<1> DEFINE x == pair.private
           y == pair.public
           m == Holding(k, x, y)
<1>1. x \in Seq(Octets) /\ y \in Seq(Octets)
  BY PairsTyped, Zenon
<1> HIDE DEF x, y
<1>2. IsSlot(m) /\ m.private = x /\ m.public = y /\ m.alg = k.alg
  BY <1>1, SlotPair
<1>3. WithPair(k, pair) = [m EXCEPT !.fingerprint = FingerprintOf(m)]
  BY Zenon DEF WithPair, WithFingerprint, x, y
<1> HIDE DEF m
<1> DEFINE f == FingerprintOf(m)
<1> HIDE DEF f
<1> DEFINE n == WithPair(k, pair)
<1>4. n = [m EXCEPT !.fingerprint = f]
  BY <1>3, Zenon DEF f
<1> HIDE DEF n
<1>5. IsSlot(n) /\ n.private = m.private /\ n.public = m.public /\ n.alg = m.alg
  BY <1>2, <1>4, SlotFingerprint
<1> QED
  BY <1>2, <1>5, Zenon DEF x, y, n

-----------------------------------------------------------------------------
(* Which request a command on the wire belongs to. *)

LEMMA Instructions ==
  /\ \A d : PutDataOddCommand(d).header[2] = 219 /\ PutDataOddCommand(d).data = d
  /\ \A s, b : /\ AttributesCommand(s, b).header[2] = 218 /\ AttributesCommand(s, b).data = b
               /\ AttributesCommand(s, b).header[3] = 0
               /\ AttributesCommand(s, b).header[4] = AttributesTag(s)
  /\ \A s : ReadAttributesCommand(s).header[2] = 202
  /\ \A s, n : FingerprintCommand(s, n).header[2] = 218 /\ FingerprintCommand(s, n).header[4] = FingerprintTag(s)
  /\ \A s : /\ GenerateCommand(s).header[2] = 71 /\ GenerateCommand(s).header[3] = 128
            /\ GenerateCommand(s).data[1] = CrtTag(s)
  /\ \A s : /\ ReadCommand(s).header[2] = 71 /\ ReadCommand(s).header[3] = 129
            /\ ReadCommand(s).data[1] = CrtTag(s)
  /\ SignCommand.header[2] = 42
  /\ \A h, d, le : APDU(h, d, le).header = h
<1>1. \A d : PutDataOddCommand(d).header[2] = 219 /\ PutDataOddCommand(d).data = d
  BY DEF PutDataOddCommand, APDU
<1>2. \A s, b : /\ AttributesCommand(s, b).header[2] = 218 /\ AttributesCommand(s, b).data = b
                /\ AttributesCommand(s, b).header[3] = 0
                /\ AttributesCommand(s, b).header[4] = AttributesTag(s)
  BY DEF AttributesCommand, APDU
<1>3. \A s : ReadAttributesCommand(s).header[2] = 202
  BY DEF ReadAttributesCommand, APDU
<1>4. \A s, n : FingerprintCommand(s, n).header[2] = 218 /\ FingerprintCommand(s, n).header[4] = FingerprintTag(s)
  BY DEF FingerprintCommand, APDU
<1>5. \A s : /\ GenerateCommand(s).header[2] = 71 /\ GenerateCommand(s).header[3] = 128
             /\ GenerateCommand(s).data[1] = CrtTag(s)
  BY DEF GenerateCommand, APDU
<1>6. \A s : /\ ReadCommand(s).header[2] = 71 /\ ReadCommand(s).header[3] = 129
             /\ ReadCommand(s).data[1] = CrtTag(s)
  BY DEF ReadCommand, APDU
<1>7. SignCommand.header[2] = 42
  BY DEF SignCommand, APDU
<1>8. \A h, d, le : APDU(h, d, le).header = h
  BY DEF APDU
<1> QED
  BY <1>1, <1>2, <1>3, <1>4, <1>5, <1>6, <1>7, <1>8

\* The kinds of requests, and the instruction of each.
AsImport(r, w) ==
  /\ r.kind = "import" /\ r.cmd.header[2] = 219
  /\ r.slot \in Slots /\ r.key \in Keys /\ r.missing \in ImportCuts
  /\ r.missing > 0 \/ w = "key"
  /\ w = "key" => r.missing <= Len(KeyBytes(r.key))
  /\ r.bytes = WholeBytes(r.key, w, r.missing)
  /\ r.cmd.data = ImportData(r.slot, r.key, w, r.missing)
AsList(r) ==
  /\ r.kind = "list" /\ r.cmd.header[2] = 219 /\ r.slot = "none"
  /\ r.list \in Lists /\ r.missing \in ListCuts /\ r.missing <= Len(HostList(r.list))
  /\ r.cmd.data = Cut(HostList(r.list), r.missing)
AsAttributes(r) ==
  /\ r.kind = "attributes" /\ r.cmd.header[2] = 218 /\ r.cmd.header[3] = 0
  /\ r.slot \in Slots /\ r.cmd.header[4] = AttributesTag(r.slot) /\ r.cmd.data \in AttributeBytes
AsReadAttributes(r, kind) == r.kind = kind /\ r.cmd.header[2] = 202
AsFingerprint(r) ==
  /\ r.kind = "fingerprint" /\ r.cmd.header[2] = 218
  /\ r.slot \in Slots /\ r.cmd.header[4] = FingerprintTag(r.slot)
AsGenerate(r) ==
  /\ r.kind = "generate" /\ r.cmd.header[2] = 71 /\ r.cmd.header[3] = 128
  /\ r.slot \in Slots /\ r.cmd.data[1] = CrtTag(r.slot)
AsRead(r) ==
  /\ r.kind = "read" /\ r.cmd.header[2] = 71 /\ r.cmd.header[3] = 129
  /\ r.slot \in Slots /\ r.cmd.data[1] = CrtTag(r.slot)
AsSign(r) == r.kind = "sign" /\ r.cmd.header[2] = 42 /\ "SIG" \in Slots
AsOther(r) == r.kind = "other" /\ r.cmd.header[2] \notin {42, 71, 202, 218, 219}

AskedAs(r) ==
  \/ \E w \in {"key", "list", "4D"} : AsImport(r, w)
  \/ AsList(r) \/ AsAttributes(r) \/ AsReadAttributes(r, "read attributes") \/ AsFingerprint(r)
  \/ AsGenerate(r) \/ AsRead(r) \/ AsSign(r) \/ AsOther(r)

LEMMA AskedIs ==
  ASSUME NEW r, Asked(r)
  PROVE  AskedAs(r)
<1>1. ASSUME NEW s \in Slots, NEW k \in Keys, NEW w \in {"key", "list", "4D"}, NEW i \in ImportCuts,
             IsImport(r, s, k, w, i)
      PROVE  AsImport(r, w)
  <2> DEFINE c == PutDataOddCommand(ImportData(s, k, w, i))
  <2>1. /\ r.kind = "import" /\ r.slot = s /\ r.key = k /\ r.missing = i /\ r.cmd = c
        /\ r.bytes = WholeBytes(k, w, i)
        /\ i > 0 \/ w = "key"
        /\ w = "key" => i <= Len(KeyBytes(k))
    BY <1>1, AskingFields DEF IsImport
  <2>2. c.header[2] = 219 /\ c.data = ImportData(s, k, w, i)
    BY Instructions
  <2> HIDE DEF c
  <2> QED
    BY <2>1, <2>2 DEF AsImport
<1>2. ASSUME NEW l \in Lists, NEW i \in ListCuts, IsList(r, l, i)
      PROVE  AsList(r)
  <2> DEFINE c == PutDataOddCommand(Cut(HostList(l), i))
  <2>1. /\ r.kind = "list" /\ r.slot = "none" /\ r.list = l /\ r.missing = i /\ r.cmd = c
        /\ i <= Len(HostList(l))
    BY <1>2, AskingFields DEF IsList
  <2>2. c.header[2] = 219 /\ c.data = Cut(HostList(l), i)
    BY Instructions
  <2> HIDE DEF c
  <2> QED
    BY <2>1, <2>2 DEF AsList
<1>3. ASSUME NEW s \in Slots, NEW b \in AttributeBytes, IsAttributes(r, s, b)
      PROVE  AsAttributes(r)
  <2>1. r.kind = "attributes" /\ r.slot = s /\ r.cmd = AttributesCommand(s, b)
    BY <1>3, PlainFields DEF IsAttributes
  <2> QED
    BY <2>1, Instructions DEF AsAttributes
<1>4. ASSUME NEW s \in Slots, IsReadAttributes(r, s)
      PROVE  AsReadAttributes(r, "read attributes")
  <2> DEFINE kind == "read attributes"
  <2>1. r = Asking(Plain(kind, s), ReadAttributesCommand(s))
    BY <1>4, Zenon DEF IsReadAttributes
  <2> HIDE DEF kind
  <2>2. r.kind = kind /\ r.cmd = ReadAttributesCommand(s)
    BY <2>1, PlainFields
  <2>3. AsReadAttributes(r, kind)
    BY <2>2, Instructions DEF AsReadAttributes
  <2> QED
    BY <2>3 DEF kind
<1>5. ASSUME NEW s \in Slots, IsGenerate(r, s)
      PROVE  AsGenerate(r)
  <2>1. r.kind = "generate" /\ r.slot = s /\ r.cmd = GenerateCommand(s)
    BY <1>5, PlainFields DEF IsGenerate
  <2> QED
    BY <2>1, Instructions DEF AsGenerate
<1>6. ASSUME NEW s \in Slots, IsRead(r, s)
      PROVE  AsRead(r)
  <2>1. r.kind = "read" /\ r.slot = s /\ r.cmd = ReadCommand(s)
    BY <1>6, PlainFields DEF IsRead
  <2> QED
    BY <2>1, Instructions DEF AsRead
<1>7. ASSUME NEW s \in Slots, NEW n \in {19, 20}, IsFingerprint(r, s, n)
      PROVE  AsFingerprint(r)
  <2>1. r.kind = "fingerprint" /\ r.slot = s /\ r.cmd = FingerprintCommand(s, n)
    BY <1>7, PlainFields DEF IsFingerprint
  <2> QED
    BY <2>1, Instructions DEF AsFingerprint
<1>8. ASSUME IsSign(r), "SIG" \in Slots
      PROVE  AsSign(r)
  <2>1. r.kind = "sign" /\ r.cmd = SignCommand
    BY <1>8, PlainFields DEF IsSign
  <2> QED
    BY <1>8, <2>1, Instructions DEF AsSign
<1>9. ASSUME NEW h \in Headers, NEW d \in Payloads, NEW le \in Lengths, IsOther(r, h, d, le)
      PROVE  AsOther(r)
  <2>1. r.kind = "other" /\ r.cmd = APDU(h, d, le)
    BY <1>9, PlainFields DEF IsOther
  <2>2. h[2] \notin {42, 71, 202, 218, 219}
    BY CommandsAssumption, SMT
  <2> QED
    BY <2>1, <2>2, Instructions DEF AsOther
<1> QED
  BY <1>1, <1>2, <1>3, <1>4, <1>5, <1>6, <1>7, <1>8, <1>9, Zenon DEF Asked, AskedAs

LEMMA ArrivedIs ==
  ASSUME Sent, NEW ins, Arrived(ins)
  PROVE  /\ Asked(request) /\ AskedAs(request) /\ Command = request.cmd
         /\ Command.header[2] = ins /\ Command.data \in Seq(Octets)
<1>1. wire # <<>> /\ ~IsError(Command) /\ Command.header[2] = ins
  BY Zenon DEF Arrived, Is
<1>2. Asked(request) /\ Command = request.cmd /\ request.cmd \in Commands
  BY <1>1, WireParses, Zenon
<1>3. Command.data \in Seq(Octets)
  BY <1>2, CommandFields
<1> QED
  BY <1>1, <1>2, <1>3, AskedIs, Zenon

\* The instruction tells the kinds apart.
LEMMA Instruction ==
  ASSUME NEW r
  PROVE  /\ \A w : AsImport(r, w) => r.cmd.header[2] = 219
         /\ AsList(r) => r.cmd.header[2] = 219
         /\ AsAttributes(r) \/ AsFingerprint(r) => r.cmd.header[2] = 218
         /\ \A kind : AsReadAttributes(r, kind) => r.cmd.header[2] = 202
         /\ AsGenerate(r) \/ AsRead(r) => r.cmd.header[2] = 71
         /\ AsSign(r) => r.cmd.header[2] = 42
         /\ AsOther(r) => r.cmd.header[2] \notin {42, 71, 202, 218, 219}
<1>1. \A w : AsImport(r, w) => r.cmd.header[2] = 219
  BY DEF AsImport
<1>2. AsList(r) => r.cmd.header[2] = 219
  BY DEF AsList
<1>3. AsAttributes(r) \/ AsFingerprint(r) => r.cmd.header[2] = 218
  BY DEF AsAttributes, AsFingerprint
<1>4. \A kind : AsReadAttributes(r, kind) => r.cmd.header[2] = 202
  BY DEF AsReadAttributes
<1>5. AsGenerate(r) \/ AsRead(r) => r.cmd.header[2] = 71
  BY DEF AsGenerate, AsRead
<1>6. AsSign(r) => r.cmd.header[2] = 42
  BY DEF AsSign
<1>7. AsOther(r) => r.cmd.header[2] \notin {42, 71, 202, 218, 219}
  BY DEF AsOther
<1> QED
  BY <1>1, <1>2, <1>3, <1>4, <1>5, <1>6, <1>7

LEMMA ByInstruction ==
  ASSUME NEW r, AskedAs(r)
  PROVE  /\ r.cmd.header[2] = 219 => AsList(r) \/ \E w \in {"key", "list", "4D"} : AsImport(r, w)
         /\ r.cmd.header[2] = 218 => AsAttributes(r) \/ AsFingerprint(r)
         /\ r.cmd.header[2] = 71 => AsGenerate(r) \/ AsRead(r)
         /\ r.cmd.header[2] = 42 => AsSign(r)
<1> DEFINE kind == "read attributes"
<1>1. \/ \E w \in {"key", "list", "4D"} : AsImport(r, w)
      \/ AsList(r) \/ AsAttributes(r) \/ AsReadAttributes(r, kind) \/ AsFingerprint(r)
      \/ AsGenerate(r) \/ AsRead(r) \/ AsSign(r) \/ AsOther(r)
  BY Zenon DEF AskedAs
<1> HIDE DEF kind
<1> QED
  BY <1>1, Instruction

LEMMA SignArrives ==
  ASSUME Sent, Arrived(42)
  PROVE  "SIG" \in Slots
<1>1. AskedAs(request) /\ request.cmd.header[2] = 42
  BY ArrivedIs
<1> QED
  BY <1>1, ByInstruction DEF AsSign

-----------------------------------------------------------------------------
(* The slots hold bytes in every state. *)

\* The host waits for the answer, and writes to the wire alone.
LEMMA SendKeeps ==
  ASSUME NEW m, NEW cmd, Send(m, cmd)
  PROVE  wire = <<>> /\ slot' = slot /\ held' = held /\ euclid' = euclid
BY Zenon DEF Send, Quiet

LEMMA HostKeeps ==
  ASSUME Host
  PROVE  wire = <<>> /\ slot' = slot /\ held' = held /\ euclid' = euclid
<1>1. CASE TakeAnswer
  BY <1>1, Zenon DEF TakeAnswer
<1>2. ASSUME NEW s \in Slots, NEW k \in Keys, NEW w \in {"key", "list", "4D"}, NEW i \in ImportCuts,
             SendImport(s, k, w, i)
      PROVE  wire = <<>> /\ slot' = slot /\ held' = held /\ euclid' = euclid
  BY <1>2, SendImportIs, SendKeeps, Zenon
<1>3. ASSUME NEW l \in Lists, NEW i \in ListCuts, SendList(l, i)
      PROVE  wire = <<>> /\ slot' = slot /\ held' = held /\ euclid' = euclid
  BY <1>3, SendKeeps, Zenon DEF SendList
<1>4. ASSUME NEW s \in Slots, NEW b \in AttributeBytes, SendAttributes(s, b)
      PROVE  wire = <<>> /\ slot' = slot /\ held' = held /\ euclid' = euclid
  BY <1>4, SendKeeps, Zenon DEF SendAttributes
<1>5. ASSUME NEW s \in Slots, NEW n \in {19, 20}, SendFingerprint(s, n)
      PROVE  wire = <<>> /\ slot' = slot /\ held' = held /\ euclid' = euclid
  BY <1>5, SendKeeps, Zenon DEF SendFingerprint
<1>6. ASSUME NEW s \in Slots, SendReadAttributes(s) \/ SendGenerate(s) \/ SendRead(s)
      PROVE  wire = <<>> /\ slot' = slot /\ held' = held /\ euclid' = euclid
  BY <1>6, SendKeeps, Zenon DEF SendReadAttributes, SendGenerate, SendRead
<1>7. CASE SendSign
  BY <1>7, SendKeeps, Zenon DEF SendSign
<1>8. ASSUME NEW h \in Headers, NEW d \in Payloads, NEW le \in Lengths, SendOther(h, d, le)
      PROVE  wire = <<>> /\ slot' = slot /\ held' = held /\ euclid' = euclid
  BY <1>8, SendKeeps, Zenon DEF SendOther
<1>9. ASSUME NEW b \in Broken, SendBroken(b)
      PROVE  wire = <<>> /\ slot' = slot /\ held' = held /\ euclid' = euclid
  BY <1>9, Zenon DEF SendBroken, Quiet
<1> QED
  BY <1>1, <1>2, <1>3, <1>4, <1>5, <1>6, <1>7, <1>8, <1>9, Zenon DEF Host

LEMMA FactorySlots ==
  AreSlots([s \in Slots |-> FactorySlot]) /\ FactorySlot.private = <<>> /\ FactorySlot.public = <<>>
<1>1. <<>> \in Seq(Octets)
  OBVIOUS
<1>2. IsSlot(FactorySlot) /\ FactorySlot.private = <<>> /\ FactorySlot.public = <<>>
  <2> DEFINE r == Rsa(2048)
  <2> HIDE DEF r
  <2>1. FactorySlot = [alg |-> r, private |-> <<>>, public |-> <<>>, fingerprint |-> Zeros]
    BY DEF FactorySlot, r
  <2> QED
    BY <1>1, <2>1, SlotRecord
<1> QED
  BY <1>2, Zenon DEF AreSlots

\* The actions of the card that change a slot.
LEMMA PutDataChanges ==
  ASSUME AreSlots(slot), NEW s \in Slots, PutData(s)
  PROVE  \/ slot' = slot
         \/ /\ slot' = [slot EXCEPT ![s].alg = attributes_from_bytes(Command.data)]
            /\ ~IsFailed(attributes_from_bytes(Command.data))
            /\ Parameters = <<0, AttributesTag(s)>>
         \/ slot' = [slot EXCEPT ![s].fingerprint = Written(Command.data)]
BY Zenon DEF PutData

LEMMA PutDataSlots ==
  ASSUME AreSlots(slot), NEW s \in Slots, PutData(s)
  PROVE  AreSlots(slot')
<1>1. IsSlot(slot[s])
  BY Zenon DEF AreSlots
<1>2. ASSUME NEW a, slot' = [slot EXCEPT ![s].alg = a]
      PROVE  AreSlots(slot')
  <2> DEFINE m == [slot[s] EXCEPT !.alg = a]
  <2>1. slot' = [slot EXCEPT ![s] = m]
    BY <1>2, Zenon
  <2>2. IsSlot(m)
    BY <1>1, SlotAlg
  <2> HIDE DEF m
  <2> QED
    BY <2>1, <2>2, SlotChanged, Zenon
<1>3. ASSUME NEW a, slot' = [slot EXCEPT ![s].fingerprint = a]
      PROVE  AreSlots(slot')
  <2> DEFINE m == [slot[s] EXCEPT !.fingerprint = a]
  <2>1. slot' = [slot EXCEPT ![s] = m]
    BY <1>3, Zenon
  <2>2. IsSlot(m)
    BY <1>1, SlotFingerprint
  <2> HIDE DEF m
  <2> QED
    BY <2>1, <2>2, SlotChanged, Zenon
<1> QED
  BY <1>2, <1>3, PutDataChanges, Zenon

LEMMA GenerateSlots ==
  ASSUME AreSlots(slot), NEW s \in Slots, Generate(s)
  PROVE  AreSlots(slot')
<1>1. CASE slot' = slot
  BY <1>1, Zenon
<1>2. ASSUME NEW pair \in KeyPairs(slot[s].alg), slot' = [slot EXCEPT ![s] = WithPair(slot[s], pair)]
      PROVE  AreSlots(slot')
  <2>1. IsSlot(slot[s])
    BY Zenon DEF AreSlots
  <2>2. IsSlot(WithPair(slot[s], pair))
    BY <2>1, WithPairTyped, Zenon
  <2> QED
    BY <1>2, <2>2, SlotChanged, Zenon
<1>3. \/ slot' = slot
      \/ \E pair \in KeyPairs(slot[s].alg) : slot' = [slot EXCEPT ![s] = WithPair(slot[s], pair)]
  BY Zenon DEF Generate, Generated, AnswerOnly
<1> QED
  BY <1>1, <1>2, <1>3, Zenon

LEMMA CardSlots ==
  ASSUME Sent, AreSlots(slot), Card
  PROVE  AreSlots(slot')
<1>1. ASSUME slot' = slot PROVE AreSlots(slot')
  BY <1>1, Zenon
<1>2. CASE Malformed
  BY <1>1, <1>2, Zenon DEF Malformed, AnswerOnly
<1>3. CASE PutDataOdd
  <2>1. Command.data \in Seq(Octets)
    BY <1>3, ArrivedIs, Zenon DEF PutDataOdd
  <2>2. slot' = handle_key_import(Command.data).slot
    BY <1>3, Zenon DEF PutDataOdd, Imported
  <2> QED
    BY <2>1, <2>2, ImportTyped, Zenon
<1>4. ASSUME NEW s \in Slots, PutData(s) \/ Generate(s)
      PROVE  AreSlots(slot')
  BY <1>4, PutDataSlots, GenerateSlots, Zenon
<1>5. ASSUME NEW s \in Slots, GetData(s) \/ ReadPublicKey(s)
      PROVE  AreSlots(slot')
  BY <1>1, <1>5, Zenon DEF GetData, ReadPublicKey, AnswerOnly
<1>6. CASE UnknownInstruction
  BY <1>1, <1>6, Zenon DEF UnknownInstruction, AnswerOnly
<1>7. CASE SignBegins
  BY <1>1, <1>7, Zenon DEF SignBegins, DecodePrivateKey, AnswerOnly
<1>8. CASE InverseStep
  BY <1>1, <1>8, Zenon DEF InverseStep
<1>9. CASE SignEnds
  BY <1>1, <1>9, Zenon DEF SignEnds
<1> QED
  BY <1>2, <1>3, <1>4, <1>5, <1>6, <1>7, <1>8, <1>9, Zenon DEF Card

-----------------------------------------------------------------------------
(* mod_inverse in the card. *)

\* A loop that has no modulus, which a prime of value one makes.
NoModulus(x) == "m" \in DOMAIN x /\ x.m = 0
Inverting == euclid = Nothing \/ LoopInv(euclid) \/ NoModulus(euclid)

LEMMA EuclidBegins ==
  ASSUME NEW e \in Nat, NEW p \in Nat, NEW q \in Nat, p > 0, q > 0
  PROVE  LET x == EuclidStart(e, (p - 1) * (q - 1)) IN LoopInv(x) \/ NoModulus(x)
<1>0. p - 1 \in Nat /\ q - 1 \in Nat
  OBVIOUS
<1> DEFINE m == (p - 1) * (q - 1)
<1>1. m \in Nat
  BY <1>0
<1> HIDE DEF m
<1>2. CASE m = 0
  BY <1>2 DEF NoModulus, EuclidStart, m
<1>3. CASE m # 0
  <2>1. m \in Nat \ {0}
    BY <1>1, <1>3
  <2>2. LoopInv(EuclidStart(e, m))
    BY <2>1, LoopStarts, Zenon
  <2> QED
    BY <2>2, Zenon DEF m
<1> QED
  BY <1>2, <1>3

LEMMA EuclidContinues ==
  ASSUME NEW x, NoModulus(x)
  PROVE  NoModulus(EuclidStep(x))
BY DEF NoModulus, EuclidStep

LEMMA InvertingKept ==
  ASSUME Sent, AreSlots(slot), Inverting, Card
  PROVE  Inverting'
<1>1. ASSUME euclid' = euclid PROVE Inverting'
  BY <1>1, Zenon DEF Inverting
<1>2. CASE SignBegins
  <2>1. CASE euclid' = euclid
    BY <1>1, <2>1
  <2>2. ASSUME NEW fields, fields = PrivateFields(slot["SIG"].private), ~IsFailed(fields),
               fields.p > 0, fields.q > 0,
               euclid' = EuclidStart(fields.e, (fields.p - 1) * (fields.q - 1))
        PROVE  Inverting'
    <3>1. "SIG" \in Slots
      BY <1>2, SignArrives, Zenon DEF SignBegins
    <3>2. slot["SIG"].private \in Seq(Octets)
      BY <3>1, Zenon DEF AreSlots, IsSlot
    <3>3. fields.e \in Nat /\ fields.p \in Nat /\ fields.q \in Nat
      BY <2>2, <3>2, PrivateTyped
    <3>4. LoopInv(euclid') \/ NoModulus(euclid')
      BY <2>2, <3>3, EuclidBegins
    <3> QED
      BY <3>4, Zenon DEF Inverting
  <2>3. ASSUME NEW n, NEW fields, DecodePrivateKey(n, fields)
        PROVE  \/ euclid' = euclid
               \/ /\ ~IsFailed(fields) /\ fields.p > 0 /\ fields.q > 0
                  /\ euclid' = EuclidStart(fields.e, (fields.p - 1) * (fields.q - 1))
    BY <2>3, Zenon DEF DecodePrivateKey, AnswerOnly
  <2>4. \/ euclid' = euclid
        \/ \E n : DecodePrivateKey(n, PrivateFields(slot["SIG"].private))
    BY <1>2, Zenon DEF SignBegins, AnswerOnly
  <2> QED
    BY <2>1, <2>2, <2>3, <2>4, Zenon
<1>3. CASE InverseStep
  <2>1. euclid # Nothing /\ ~EuclidDone(euclid) /\ euclid' = EuclidStep(euclid)
    BY <1>3, Zenon DEF InverseStep
  <2>2. LoopInv(euclid) \/ NoModulus(euclid)
    BY <2>1, Zenon DEF Inverting
  <2>3. LoopInv(euclid') \/ NoModulus(euclid')
    BY <2>1, <2>2, LoopGoesOn, EuclidContinues, Zenon
  <2> QED
    BY <2>3, Zenon DEF Inverting
<1>4. CASE SignEnds
  BY <1>4, Zenon DEF SignEnds, Inverting
<1>5. CASE Malformed \/ UnknownInstruction
  BY <1>1, <1>5, Zenon DEF Malformed, UnknownInstruction, AnswerOnly
<1>6. CASE PutDataOdd
  BY <1>1, <1>6, Zenon DEF PutDataOdd, Imported
<1>7. ASSUME NEW s \in Slots, PutData(s)
      PROVE  Inverting'
  BY <1>1, <1>7, Zenon DEF PutData
<1>8. ASSUME NEW s \in Slots, GetData(s) \/ ReadPublicKey(s)
      PROVE  Inverting'
  BY <1>1, <1>8, Zenon DEF GetData, ReadPublicKey, AnswerOnly
<1>9. ASSUME NEW s \in Slots, Generate(s)
      PROVE  Inverting'
  BY <1>1, <1>9, Zenon DEF Generate, Generated, AnswerOnly
<1> QED
  BY <1>2, <1>3, <1>4, <1>5, <1>6, <1>7, <1>8, <1>9, Zenon DEF Card

\* What the slots, the wire and the loop hold in every state.
TransferInv == Sent /\ AreSlots(slot) /\ Inverting

LEMMA TransferStarts == Init => TransferInv
<1> SUFFICES ASSUME Init PROVE TransferInv
  OBVIOUS
<1>1. Sent
  BY SentStarts
<1>2. slot = [s \in Slots |-> FactorySlot] /\ euclid = Nothing
  BY Zenon DEF Init
<1> QED
  BY <1>1, <1>2, FactorySlots, Zenon DEF TransferInv, Inverting

LEMMA TransferKept == TransferInv /\ [Next]_vars => TransferInv'
<1> SUFFICES ASSUME TransferInv, [Next]_vars PROVE TransferInv'
  OBVIOUS
<1>0. Sent /\ AreSlots(slot) /\ Inverting
  BY Zenon DEF TransferInv
<1>1. Sent'
  BY <1>0, SentKept
<1>2. ASSUME slot' = slot, euclid' = euclid
      PROVE  TransferInv'
  BY <1>0, <1>1, <1>2, Zenon DEF TransferInv, Inverting
<1>3. CASE Host
  BY <1>2, <1>3, HostKeeps, Zenon
<1>4. CASE Card
  BY <1>0, <1>1, <1>4, CardSlots, InvertingKept, Zenon DEF TransferInv
<1>5. CASE UNCHANGED vars
  BY <1>2, <1>5, Zenon DEF vars
<1> QED
  BY <1>3, <1>4, <1>5 DEF Next

\* mod_inverse is right whenever the card decodes a private key: for every key
\* that reached the slot by import or generation, in every turn of its loop.
THEOREM InverseAlwaysRight == Spec => []InverseIsRight
<1>1. TransferInv => InverseIsRight
  <2> SUFFICES ASSUME Inverting, euclid # Nothing, euclid.m > 0
               PROVE  RightInverse(euclid)
    BY Zenon DEF TransferInv, InverseIsRight
  <2>1. LoopInv(euclid) \/ NoModulus(euclid)
    BY Zenon DEF Inverting
  <2>2. ~NoModulus(euclid)
    BY DEF NoModulus
  <2> QED
    BY <2>1, <2>2, LoopIsRight, Zenon
<1> QED
  BY <1>1, TransferStarts, TransferKept, PTL DEF Spec

-----------------------------------------------------------------------------
(* Lists are read as they were built. *)

LEMMA ElementIs ==
  ASSUME NEW t \in Elements
  PROVE  /\ t = TLV(t.tag, t.value, t.subs) /\ Encodable(t)
         /\ t.value \in Seq(Octets) /\ Len(t.value) \in Nat
         /\ IF IsConstructed(t.tag) /\ t.value # <<>>
            THEN t.subs \in Lists /\ t.value = HostList(t.subs)
            ELSE t.subs = <<>>
<1>1. PICK l \in Lists : t \in Range(l)
  BY Zenon DEF Elements
<1>2. IsElement(t)
  BY <1>1, ListsAssumption, SMT
<1>3. PICK i \in 1..Len(l) : t = l[i]
  <2>1. l \in Seq(Elements)
    BY ListsTyped, Zenon
  <2>2. DOMAIN l = 1..Len(l)
    BY <2>1
  <2> QED
    BY <1>1, <2>2, Zenon DEF Range
<1>4. Encodable(t)
  BY <1>3, ListsEncodable, Zenon
<1>5. t.value \in Seq(Octets) /\ Len(t.value) \in Nat
  BY <1>4, LenProperties, SMT DEF Encodable
<1>6. /\ t = TLV(t.tag, t.value, t.subs)
      /\ IF IsConstructed(t.tag) /\ t.value # <<>>
         THEN t.subs \in Lists /\ t.value = HostList(t.subs)
         ELSE t.subs = <<>>
  <2> DEFINE S == {b \in Seq(Octets) : Len(b) < 65536}
  <2> HIDE DEF S
  <2>1. IsElement(t) <=>
          /\ t = TLV(t.tag, t.value, t.subs) /\ IsTag(t.tag)
          /\ t.value \in S
          /\ IF IsConstructed(t.tag) /\ t.value # <<>>
             THEN t.subs \in Lists /\ t.value = HostList(t.subs)
             ELSE t.subs = <<>>
    BY SMT DEF IsElement, S
  <2> QED
    BY <1>2, <2>1, Zenon
<1> QED
  BY <1>4, <1>5, <1>6, Zenon

\* The sums of the parts of a list.
LEMMA ListSums ==
  ASSUME NEW l \in Lists
  PROVE  \E f : /\ Sums(PartsOf(l), f)
                /\ \A n \in 0..Len(l) : HostList(SubSeq(l, 1, n)) = f[n] /\ f[n] \in Seq(Octets)
                /\ HostList(l) = f[Len(l)]
<1>1. l \in Seq(Elements) /\ \A i \in 1..Len(l) : Encodable(l[i])
  BY ListsEncodable, Zenon
<1>2. PICK f : Sums(PartsOf(l), f)
  BY <1>1, HostListParts, SumsExist, Zenon
<1>3. \A n \in 0..Len(l) : HostList(SubSeq(l, 1, n)) = f[n] /\ f[n] \in Seq(Octets)
  BY <1>1, <1>2, HostListSums, Zenon
<1>4. SubSeq(l, 1, Len(l)) = l /\ Len(l) \in 0..Len(l)
  BY <1>1
<1>5. HostList(l) = f[Len(l)]
  BY <1>3, <1>4, Zenon
<1> QED
  BY <1>2, <1>3, <1>5, Zenon

LEMMA SubShorter ==
  ASSUME NEW l \in Lists, NEW i \in 1..Len(l)
  PROVE  l[i] \in Elements /\ Len(l[i].value) \in Nat /\ Len(l[i].value) < Len(HostList(l))
<1>1. l \in Seq(Elements) /\ Len(l) \in Nat /\ l[i] \in Elements
  BY ListsTyped, Zenon
<1>2. /\ PartsOf(l) \in Seq(Seq(Octets)) /\ Len(PartsOf(l)) = Len(l)
      /\ PartsOf(l)[i] = ElementBytes(l[i])
  BY ListsEncodable, HostListParts, Zenon
<1>3. PICK f : Sums(PartsOf(l), f) /\ HostList(l) = f[Len(l)]
  BY ListSums, Zenon
<1> DEFINE e == ElementBytes(l[i])
           v == l[i].value
<1>4. e \in Seq(Octets) /\ Len(v) \in Nat /\ Len(v) < Len(e)
  <2>1. Encodable(l[i])
    BY <1>1, ElementIs, Zenon
  <2>2. IsTag(l[i].tag) /\ v \in Seq(Octets) /\ Len(v) \in ThreeBytes
    BY <2>1, Zenon DEF Encodable
  <2> DEFINE t == l[i].tag
             k == Len(encode_tag(t))
             m == Len(encode_length(Len(v)))
  <2>3. e = encode(t, v)
    BY Zenon DEF ElementBytes
  <2> HIDE DEF v, e, t
  <2>4. e \in Seq(Octets) /\ Len(e) = k + m + Len(v) /\ k \in Nat \ {0} /\ m \in Nat \ {0} /\ Len(v) \in Nat
    BY <2>2, <2>3, EncodeParts DEF t
  <2> HIDE DEF k, m
  <2> QED
    BY <2>4
<1>5. f[i] = f[i - 1] \o e /\ f[i - 1] \in Seq(Octets) /\ f[i] \in Seq(Octets) /\ f[Len(l)] \in Seq(Octets)
  <2>1. i \in 1..Len(PartsOf(l)) /\ i \in 0..Len(PartsOf(l)) /\ i - 1 \in 0..Len(PartsOf(l)) /\ Len(l) \in 0..Len(PartsOf(l))
    BY <1>1, <1>2
  <2> QED
    BY <1>2, <1>3, <2>1, Zenon DEF Sums, SumsUpTo
<1>6. Len(f[i]) <= Len(f[Len(l)])
  <2>1. i \in 0..Len(PartsOf(l))
    BY <1>1, <1>2
  <2> QED
    BY <1>2, <1>3, <2>1, SumsStart, Zenon DEF Starts
<1> DEFINE g == f[i - 1]
           h == f[i]
           w == f[Len(l)]
<1> HIDE DEF e, v, g, h, w
<1>7. Len(h) = Len(g) + Len(e) /\ Len(g) \in Nat /\ Len(w) \in Nat /\ Len(e) \in Nat
  BY <1>4, <1>5, ConcatProperties, LenProperties DEF g, h, w
<1> QED
  BY <1>1, <1>3, <1>4, <1>6, <1>7 DEF v, h, w

\* What the subs of an element say is what read_list reads in its value.
LEMMA SubsRead ==
  ASSUME NEW l \in Lists, \A i \in 1..Len(l) : Readable(l[i])
  PROVE  read_list(HostList(l)) = l
<1>1. l \in Seq(Elements) /\ Len(l) \in Nat
  BY ListsTyped, Zenon
<1>2. PICK f : /\ Sums(PartsOf(l), f)
               /\ \A n \in 0..Len(l) : f[n] \in Seq(Octets)
               /\ HostList(l) = f[Len(l)]
  BY ListSums, Zenon
<1> DEFINE n == Len(l)
           w == f[n]
           c == Len(w)
<1>3. n \in 0..n
  BY <1>1
<1>4. w \in Seq(Octets) /\ c \in Nat /\ c <= c
  BY <1>2, <1>3, LenProperties
<1>5. read_list(SubSeq(w, 1, c)) = SubSeq(l, 1, n)
  BY <1>1, <1>2, <1>3, <1>4, CutListRead
<1>6. SubSeq(w, 1, c) = w /\ SubSeq(l, 1, n) = l
  BY <1>1, <1>4
<1> QED
  BY <1>2, <1>5, <1>6, Zenon

LEMMA ElementsReadable == \A t \in Elements : Readable(t)
<1> DEFINE S == {n \in Nat : \A t \in Elements : Len(t.value) = n => Readable(t)}
<1>1. ASSUME NEW n \in Nat, \A m \in Nat : m < n => m \in S PROVE n \in S
  <2>1. ASSUME NEW t \in Elements, Len(t.value) = n PROVE Readable(t)
    <3>1. /\ t = TLV(t.tag, t.value, t.subs) /\ Encodable(t)
          /\ IF IsConstructed(t.tag) /\ t.value # <<>>
             THEN t.subs \in Lists /\ t.value = HostList(t.subs)
             ELSE t.subs = <<>>
      BY ElementIs, Zenon
    <3>2. CASE IsConstructed(t.tag) /\ t.value # <<>>
      <4> DEFINE l == t.subs
      <4>1. l \in Lists /\ t.value = HostList(l)
        BY <3>1, <3>2, Zenon
      <4>2. ASSUME NEW i \in 1..Len(l) PROVE Readable(l[i])
        <5>1. l[i] \in Elements /\ Len(l[i].value) \in Nat /\ Len(l[i].value) < n
          BY <2>1, <4>1, SubShorter, Zenon
        <5>2. Len(l[i].value) \in S
          BY <1>1, <5>1, Zenon
        <5>3. \A m \in S : \A u \in Elements : Len(u.value) = m => Readable(u)
          BY Zenon
        <5> QED
          BY <5>1, <5>2, <5>3, Zenon
      <4>3. read_list(HostList(l)) = l
        BY <4>1, <4>2, SubsRead, Zenon
      <4>4. t.subs = InnerList(t.tag, t.value)
        BY <3>2, <4>1, <4>3, Zenon DEF InnerList
      <4> QED
        BY <3>1, <4>4, Zenon DEF Readable, Encodable
    <3>3. CASE ~(IsConstructed(t.tag) /\ t.value # <<>>)
      <4>1. t.subs = InnerList(t.tag, t.value)
        BY <3>1, <3>3, Zenon DEF InnerList
      <4> QED
        BY <3>1, <4>1, Zenon DEF Readable, Encodable
    <3> QED
      BY <3>2, <3>3
  <2> QED
    BY <2>1, Zenon
<1>2. \A n \in S : \A t \in Elements : Len(t.value) = n => Readable(t)
  BY Zenon
<1> HIDE DEF S
<1>3. \A n \in Nat : n \in S
  BY <1>1, StrongInduction
<1>4. \A t \in Elements : Len(t.value) \in Nat
  BY ElementIs, Zenon
<1> QED
  BY <1>2, <1>3, <1>4, Zenon

\* A list that is cut: the elements that are whole.
LEMMA CutRead ==
  ASSUME NEW l \in Lists, NEW missing \in Nat, missing <= Len(HostList(l)), NEW n \in 0..Len(l),
         Len(HostList(SubSeq(l, 1, n))) <= Len(HostList(l)) - missing,
         n = Len(l) \/ ~(Len(HostList(SubSeq(l, 1, n + 1))) <= Len(HostList(l)) - missing)
  PROVE  read_list(Cut(HostList(l), missing)) = SubSeq(l, 1, n)
<1>1. l \in Seq(Elements) /\ Len(l) \in Nat /\ \A i \in 1..Len(l) : Readable(l[i])
  BY ListsTyped, ElementsReadable, Zenon
<1>2. PICK f : /\ Sums(PartsOf(l), f)
               /\ \A k \in 0..Len(l) : HostList(SubSeq(l, 1, k)) = f[k] /\ f[k] \in Seq(Octets)
               /\ HostList(l) = f[Len(l)]
  BY ListSums, Zenon
<1> DEFINE w == f[Len(l)]
           c == Len(w) - missing
<1>3. Len(l) \in 0..Len(l) /\ (n # Len(l) => n + 1 \in 0..Len(l))
  BY <1>1
<1>4. w \in Seq(Octets) /\ Len(w) \in Nat /\ missing <= Len(w)
  BY <1>2, <1>3, LenProperties
<1>5. c \in Nat /\ c <= Len(w)
  <2> HIDE DEF w
  <2> QED
    BY <1>4
<1>6. Len(f[n]) <= c /\ (n = Len(l) \/ ~(Len(f[n + 1]) <= c))
  BY <1>2, <1>3, Zenon
<1>7. n = Len(l) \/ Len(f[n + 1]) > c
  <2>1. CASE n # Len(l)
    <3> DEFINE g == f[n + 1]
    <3>1. g \in Seq(Octets) /\ ~(Len(g) <= c)
      BY <1>2, <1>3, <1>6, <2>1
    <3> HIDE DEF g, c
    <3>2. Len(g) \in Nat /\ Len(g) > c
      BY <1>5, <3>1, LenProperties
    <3> QED
      BY <3>2 DEF g
  <2> QED
    BY <2>1
<1> HIDE DEF c
<1>8. read_list(SubSeq(f[Len(l)], 1, c)) = SubSeq(l, 1, n)
  BY <1>1, <1>2, <1>5, <1>6, <1>7, CutListRead
<1> QED
  BY <1>2, <1>8, Zenon DEF Cut, c

\* encode_tlv, where f encodes the elements in the element.
EncodedBy(f, t) ==
  encode(t.tag, IF t.subs = <<>> THEN t.value
                ELSE FlattenSeq([i \in DOMAIN t.subs |-> f[t.subs[i]]]))
IsEncoder(f) == f = [t \in Elements |-> EncodedBy(f, t)]

\* An encoder that is right for the elements in an element is right for it.
LEMMA EncodedRight ==
  ASSUME NEW f, NEW t \in Elements,
         \A s \in Elements : Len(s.value) < Len(t.value) => f[s] = HostTree(s)
  PROVE  EncodedBy(f, t) = HostTree(t)
<1>1. /\ Encodable(t)
      /\ IF IsConstructed(t.tag) /\ t.value # <<>>
         THEN t.subs \in Lists /\ t.value = HostList(t.subs)
         ELSE t.subs = <<>>
  BY ElementIs, Zenon
<1>2. HostTree(t) = encode(t.tag, t.value)
  BY <1>1, TreeBytes, Zenon DEF ElementBytes
<1>3. CASE t.subs = <<>>
  BY <1>2, <1>3, Zenon DEF EncodedBy
<1>4. CASE t.subs # <<>>
  <2> DEFINE l == t.subs
  <2>1. l \in Lists /\ t.value = HostList(l)
    BY <1>1, <1>4, Zenon
  <2>2. DOMAIN l = 1..Len(l)
    <3>1. l \in Seq(Elements)
      BY <2>1, ListsTyped, Zenon
    <3> HIDE DEF l
    <3> QED
      BY <3>1
  <2>3. \A i \in DOMAIN l : f[l[i]] = HostTree(l[i])
    BY <2>1, <2>2, SubShorter, Zenon
  <2>4. [i \in DOMAIN l |-> f[l[i]]] = [i \in DOMAIN l |-> HostTree(l[i])]
    BY <2>3, Zenon
  <2>5. FlattenSeq([i \in DOMAIN l |-> f[l[i]]]) = t.value
    BY <2>1, <2>4, Zenon DEF HostList
  <2> QED
    BY <1>2, <1>4, <2>5, Zenon DEF EncodedBy
<1> QED
  BY <1>3, <1>4

LEMMA EncoderExists == \E f : IsEncoder(f)
<1> DEFINE f == [t \in Elements |-> HostTree(t)]
<1>1. \A t \in Elements : f[t] = HostTree(t)
  BY Zenon
<1>2. f = [t \in Elements |-> f[t]]
  BY Zenon
<1> HIDE DEF f
<1>3. \A t \in Elements : EncodedBy(f, t) = f[t]
  BY <1>1, EncodedRight, Zenon
<1>4. IsEncoder(f)
  BY <1>2, <1>3, Zenon DEF IsEncoder
<1> QED
  BY <1>4, Zenon

LEMMA EncoderRight ==
  ASSUME NEW f, IsEncoder(f)
  PROVE  \A t \in Elements : f[t] = HostTree(t)
<1>0. \A t \in Elements : f[t] = EncodedBy(f, t)
  BY Zenon DEF IsEncoder
<1> DEFINE S == {n \in Nat : \A t \in Elements : Len(t.value) = n => f[t] = HostTree(t)}
<1>2. \A n \in S : \A t \in Elements : Len(t.value) = n => f[t] = HostTree(t)
  BY Zenon
<1>4. \A t \in Elements : Len(t.value) \in Nat
  BY ElementIs, Zenon
<1>1. ASSUME NEW n \in Nat, \A m \in Nat : m < n => m \in S PROVE n \in S
  <2>1. ASSUME NEW t \in Elements, Len(t.value) = n PROVE f[t] = HostTree(t)
    <3>1. \A s \in Elements : Len(s.value) < Len(t.value) => f[s] = HostTree(s)
      BY <1>1, <1>2, <1>4, <2>1, Zenon
    <3> QED
      BY <1>0, <3>1, EncodedRight, Zenon
  <2> QED
    BY <2>1, Zenon
<1> HIDE DEF S
<1>3. \A n \in Nat : n \in S
  BY <1>1, StrongInduction
<1> QED
  BY <1>2, <1>3, <1>4, Zenon

\* The card builds the bytes that the host builds, for elements of any depth.
LEMMA CardEncodes == \A t \in Elements : encode_tlv(Elements, t) = HostTree(t)
<1> DEFINE f == CHOOSE f : IsEncoder(f)
<1>1. IsEncoder(f)
  BY EncoderExists, Zenon
<1>2. \A t : encode_tlv(Elements, t) = f[t]
  BY Zenon DEF encode_tlv, IsEncoder, EncodedBy
<1> HIDE DEF f
<1> QED
  BY <1>1, <1>2, EncoderRight, Zenon

\* Every list that a host sends is read back.
LEMMA ListReadsBack ==
  ASSUME NEW l \in Lists, NEW missing \in ListCuts, missing <= Len(HostList(l))
  PROVE  LET bytes == HostList(l)
             whole(n) == Len(HostList(SubSeq(l, 1, n))) <= Len(bytes) - missing
         IN /\ \A i \in DOMAIN l : encode_tlv(Elements, l[i]) = HostTree(l[i])
            /\ \A n \in 0..Len(l) :
                 whole(n) /\ (n = Len(l) \/ ~whole(n + 1)) =>
                   read_list(Cut(bytes, missing)) = SubSeq(l, 1, n)
<1>1. missing \in Nat
  BY CommandsAssumption, SMT
<1>2. DOMAIN l = 1..Len(l)
  <2>1. l \in Seq(Elements)
    BY ListsTyped, Zenon
  <2> QED
    BY <2>1
<1>3. \A i \in DOMAIN l : encode_tlv(Elements, l[i]) = HostTree(l[i])
  BY <1>2, ListsTyped, CardEncodes, Zenon
<1>4. ASSUME NEW n \in 0..Len(l),
             Len(HostList(SubSeq(l, 1, n))) <= Len(HostList(l)) - missing,
             n = Len(l) \/ ~(Len(HostList(SubSeq(l, 1, n + 1))) <= Len(HostList(l)) - missing)
      PROVE  read_list(Cut(HostList(l), missing)) = SubSeq(l, 1, n)
  BY <1>1, <1>4, CutRead, Zenon
<1> QED
  BY <1>3, <1>4, Zenon

\* The kind of a request tells the kinds apart, too.
LEMMA ListKind ==
  ASSUME Sent, request.kind = "list"
  PROVE  AsList(request)
<1>1. request # NoRequest /\ request # Plain("broken", "none")
  BY FixedKinds, Zenon
<1>2. Asked(request)
  BY <1>1, Zenon DEF Sent
<1>3. AskedAs(request)
  BY <1>2, AskedIs
<1> DEFINE kind == "read attributes"
<1>4. \/ \E w \in {"key", "list", "4D"} : AsImport(request, w)
      \/ AsList(request) \/ AsAttributes(request) \/ AsReadAttributes(request, kind) \/ AsFingerprint(request)
      \/ AsGenerate(request) \/ AsRead(request) \/ AsSign(request) \/ AsOther(request)
  BY <1>3, Zenon DEF AskedAs
<1>5. kind # "list"
  BY Zenon
<1> HIDE DEF kind
<1> QED
  BY <1>4, <1>5 DEF AsImport, AsAttributes, AsReadAttributes, AsFingerprint, AsGenerate, AsRead, AsSign, AsOther

\* Every list of elements, nested to any depth, is read as it was built, the
\* card encodes it to the same bytes, and of a list that is cut exactly the
\* elements that are whole are read.
THEOREM ListsAlwaysReadBack == Spec => []ListsReadBack
<1>1. Sent => ListsReadBack
  <2> SUFFICES ASSUME Sent, request.kind = "list" PROVE ListsReadBack
    BY Zenon DEF ListsReadBack
  <2>1. request.list \in Lists /\ request.missing \in ListCuts /\ request.missing <= Len(HostList(request.list))
    BY ListKind DEF AsList
  <2> QED
    BY <2>1, ListReadsBack, Zenon DEF ListsReadBack
<1> QED
  BY <1>1, SentStarts, SentKept, PTL DEF Spec

-----------------------------------------------------------------------------
(* Bytes in the middle of other bytes. *)

HoldsAt(w, o, s) == o + Len(s) <= Len(w) /\ \A i \in 1..Len(s) : w[o + i] = s[i]

LEMMA HoldsAll == \A w \in Seq(Octets) : HoldsAt(w, 0, w)
<1> TAKE w \in Seq(Octets)
<1>1. Len(w) \in Nat
  BY LenProperties
<1> QED
  BY <1>1 DEF HoldsAt

LEMMA HoldsParts ==
  ASSUME NEW w \in Seq(Octets), NEW o \in Nat, NEW a \in Seq(Octets), NEW b \in Seq(Octets),
         HoldsAt(w, o, a \o b)
  PROVE  HoldsAt(w, o, a) /\ HoldsAt(w, o + Len(a), b)
<1> DEFINE s == a \o b
           m == Len(a)
           n == Len(b)
<1>1. m \in Nat /\ n \in Nat /\ Len(w) \in Nat /\ Len(s) = m + n
  BY LenProperties, ConcatProperties
<1>2. \A i \in 1..(m + n) : s[i] = IF i <= m THEN a[i] ELSE b[i - m]
  BY ConcatProperties
<1>3. o + Len(s) <= Len(w) /\ \A i \in 1..Len(s) : w[o + i] = s[i]
  BY Zenon DEF HoldsAt
<1> HIDE DEF s, m, n
<1>4. \A i \in 1..m : w[o + i] = a[i]
  BY <1>1, <1>2, <1>3
<1>5. ASSUME NEW i \in 1..n PROVE w[(o + m) + i] = b[i]
  <2> DEFINE j == m + i
  <2>1. j \in 1..(m + n) /\ ~(j <= m) /\ j - m = i /\ o + j = (o + m) + i
    BY <1>1
  <2> HIDE DEF j
  <2> QED
    BY <1>1, <1>2, <1>3, <2>1
<1>6. o + m <= Len(w) /\ (o + m) + n <= Len(w)
  BY <1>1, <1>3
<1> QED
  BY <1>4, <1>5, <1>6 DEF HoldsAt, m, n

LEMMA HoldsSlice ==
  ASSUME NEW w \in Seq(Octets), NEW o \in Nat, NEW s \in Seq(Octets), HoldsAt(w, o, s)
  PROVE  SubSeq(w, o + 1, o + Len(s)) = s
<1> DEFINE n == Len(s)
           f == SubSeq(w, o + 1, o + n)
<1>1. n \in Nat /\ o + n <= Len(w) /\ \A i \in 1..n : w[o + i] = s[i]
  BY LenProperties DEF HoldsAt
<1>2. f \in Seq(Octets) /\ Len(f) = n /\ \A i \in 1..n : f[i] = w[o + i]
  BY <1>1, Within
<1> HIDE DEF f
<1>3. f = s
  BY <1>1, <1>2, SeqEqual
<1> QED
  BY <1>3 DEF f

\* The lengths that two bytes can say.
PairLengths == {n \in Nat : n < 65536}

\* A component behind its length is read as it was written.
LEMMA PairRead ==
  ASSUME NEW n \in PairLengths
  PROVE  n \in Nat /\ FromBytes(Pair(n)) = n
<1>0. n \in Nat /\ n < 65536
  BY SMT DEF PairLengths
<1> DEFINE p == Pair(n)
<1>1. p \in Seq(Octets) /\ Len(p) = 2
  BY <1>0, PairTyped
<1>2. p[1] = Octet(n, 1) /\ p[2] = Octet(n, 0)
  BY DEF Pair
<1> HIDE DEF p
<1>3. FromBytes(p) = 256 * p[1] + p[2]
  BY <1>1, FromFewBytes
<1>4. 256 * Octet(n, 1) + Octet(n, 0) = n
  BY <1>0, OctetsOf, SMT
<1>5. FromBytes(p) = n
  BY <1>2, <1>3, <1>4
<1> QED
  BY <1>0, <1>5 DEF p

LEMMA FieldRead ==
  ASSUME NEW w \in Seq(Octets), NEW o \in Nat, NEW b \in Seq(Octets), Len(b) \in PairLengths,
         HoldsAt(w, o, Sized(b))
  PROVE  /\ FieldAt(w, o + 1) = [bytes |-> b, next |-> o + (Len(b) + 2) + 1]
         /\ FromBytes(SubSeq(w, o + 1, o + 2)) = Len(b)
<1> DEFINE n == Len(b)
           p == Pair(n)
<1>1. n \in Nat /\ Len(w) \in Nat
  BY LenProperties
<1>2. p \in Seq(Octets) /\ Len(p) = 2 /\ Sized(b) = p \o b
  BY <1>1, PairTyped DEF Sized
<1>3. FromBytes(p) = n
  BY PairRead
<1> HIDE DEF p, n
<1>4. HoldsAt(w, o, p) /\ HoldsAt(w, o + Len(p), b)
  <2>1. HoldsAt(w, o, p \o b)
    BY <1>2, Zenon
  <2> QED
    BY <1>2, <2>1, HoldsParts, Zenon
<1>5. SubSeq(w, o + 1, o + Len(p)) = p
  BY <1>2, <1>4, HoldsSlice
<1>6. SubSeq(w, (o + 2) + 1, (o + 2) + n) = b
  <2>1. o + 2 \in Nat /\ HoldsAt(w, o + 2, b)
    BY <1>2, <1>4
  <2> QED
    BY <2>1, HoldsSlice DEF n
<1>7. (o + 2) + n <= Len(w)
  BY <1>2, <1>4 DEF HoldsAt, n
<1> DEFINE i == o + 1
<1>8. /\ i + 1 = o + 2 /\ i + 2 = (o + 2) + 1 /\ i + 1 + n = (o + 2) + n /\ i + 2 + n = o + (n + 2) + 1
      /\ ~(i + 1 > Len(w)) /\ ~(i + 1 + n > Len(w))
  BY <1>1, <1>7
<1>9. FromBytes(SubSeq(w, i, i + 1)) = n
  BY <1>2, <1>3, <1>5, <1>8, Zenon
<1> HIDE DEF i
<1>10. FieldAt(w, i) = FieldOf(w, i, n)
  BY <1>8, <1>9, Zenon DEF FieldAt
<1>11. FieldOf(w, i, n) = [bytes |-> SubSeq(w, i + 2, i + 1 + n), next |-> i + 2 + n]
  BY <1>8, Zenon DEF FieldOf
<1>12. FieldAt(w, i) = [bytes |-> b, next |-> o + (n + 2) + 1]
  BY <1>6, <1>8, <1>10, <1>11, Zenon
<1> QED
  BY <1>8, <1>9, <1>12 DEF i, n

\* decode_private_key finds the components that encode_private_key was given.
LEMMA PrivateReadsBack ==
  ASSUME NEW e \in Component, NEW p \in Component, NEW q \in Component
  PROVE  PrivateFields(encode_private_key(e, p, q)) =
           [e |-> FromBytes(e), p |-> FromBytes(p), q |-> FromBytes(q)]
<1> DEFINE x == Sized(e)
           y == Sized(p)
           z == Sized(q)
           v == x \o y
           w == encode_private_key(e, p, q)
<1>0. 0 \in Nat
  OBVIOUS
<1>1. /\ e \in Seq(Octets) /\ Len(e) \in Nat /\ Len(e) \in PairLengths
      /\ p \in Seq(Octets) /\ Len(p) \in Nat /\ Len(p) \in PairLengths
      /\ q \in Seq(Octets) /\ Len(q) \in Nat /\ Len(q) \in PairLengths
  BY ComponentTyped, SMT DEF PairLengths
<1>2. /\ x \in Seq(Octets) /\ Len(x) = Len(e) + 2
      /\ y \in Seq(Octets) /\ Len(y) = Len(p) + 2
      /\ z \in Seq(Octets) /\ Len(z) = Len(q) + 2
  BY <1>1, SizedTyped
<1>3. w = v \o z
  BY DEF encode_private_key
<1> HIDE DEF w
<1>4. v \in Seq(Octets) /\ Len(v) = Len(x) + Len(y)
  BY <1>2, Joins
<1> HIDE DEF v
<1>5. w \in Seq(Octets) /\ Len(w) = Len(v) + Len(z)
  BY <1>2, <1>3, <1>4, Joins
<1>6. HoldsAt(w, 0, v) /\ HoldsAt(w, 0 + Len(v), z)
  BY <1>0, <1>2, <1>3, <1>4, <1>5, HoldsAll, HoldsParts, Zenon
<1>7. HoldsAt(w, 0, x) /\ HoldsAt(w, 0 + Len(x), y)
  BY <1>0, <1>2, <1>5, <1>6, HoldsParts, Zenon DEF v
<1> DEFINE i == Len(x)
           j == Len(v)
<1>8. i \in Nat /\ j \in Nat /\ HoldsAt(w, i, y) /\ HoldsAt(w, j, z)
  BY <1>1, <1>2, <1>4, <1>6, <1>7
<1>9. FieldAt(w, 0 + 1) = [bytes |-> e, next |-> 0 + (Len(e) + 2) + 1]
  BY <1>1, <1>5, <1>7, <1>0, FieldRead, Zenon
<1>10. FieldAt(w, i + 1) = [bytes |-> p, next |-> i + (Len(p) + 2) + 1]
  BY <1>1, <1>5, <1>8, FieldRead, Zenon
<1>11. FieldAt(w, j + 1) = [bytes |-> q, next |-> j + (Len(q) + 2) + 1]
  BY <1>1, <1>5, <1>8, FieldRead, Zenon
<1>12. 0 + 1 = 1 /\ 0 + (Len(e) + 2) + 1 = i + 1 /\ i + (Len(p) + 2) + 1 = j + 1 /\ ~(Len(w) < 6)
  BY <1>1, <1>2, <1>4, <1>5
<1> HIDE DEF i, j
<1> DEFINE r == [bytes |-> e, next |-> i + 1]
           s == [bytes |-> p, next |-> j + 1]
           t == [bytes |-> q, next |-> j + (Len(q) + 2) + 1]
<1>13. r.bytes = e /\ r.next = i + 1 /\ s.bytes = p /\ s.next = j + 1 /\ t.bytes = q
  OBVIOUS
<1>14. ~IsFailed(r) /\ ~IsFailed(s) /\ ~IsFailed(t)
  BY FieldFails
<1>15. FieldAt(w, 1) = r /\ FieldAt(w, i + 1) = s /\ FieldAt(w, j + 1) = t
  BY <1>9, <1>10, <1>11, <1>12
<1> HIDE DEF r, s, t
<1>16. PrivateFields(w) = FirstField(w, r)
  BY <1>12, <1>15, Zenon DEF PrivateFields
<1>17. FirstField(w, r) = SecondField(w, r, s)
  BY <1>13, <1>14, <1>15, Zenon DEF FirstField
<1>18. SecondField(w, r, s) = ThirdField(r, s, t)
  BY <1>13, <1>14, <1>15, Zenon DEF SecondField
<1> QED
  BY <1>13, <1>14, <1>16, <1>17, <1>18, Zenon DEF ThirdField, w

\* get_modulus and get_exponent find what encode_public_key was given.
LEMMA PublicReadsBack ==
  ASSUME NEW n \in Seq(Octets), Len(n) \in PairLengths, NEW e \in Seq(Octets), Len(e) \in PairLengths
  PROVE  LET w == encode_public_key(n, e)
         IN /\ ~IsFailed(get_modulus(w)) /\ get_modulus(w).bytes = n
            /\ ~IsFailed(get_exponent(w)) /\ get_exponent(w).bytes = e
            /\ w # <<>>
<1> DEFINE x == Sized(n)
           y == Sized(e)
           w == encode_public_key(n, e)
           i == Len(x)
<1>0. 0 \in Nat
  OBVIOUS
<1>2. /\ x \in Seq(Octets) /\ Len(x) = Len(n) + 2 /\ Len(n) \in Nat
      /\ y \in Seq(Octets) /\ Len(y) = Len(e) + 2 /\ Len(e) \in Nat
  BY SizedTyped
<1>3. w = x \o y
  BY DEF encode_public_key
<1> HIDE DEF w
<1>5. w \in Seq(Octets) /\ Len(w) = Len(x) + Len(y)
  BY <1>2, <1>3, Joins, Zenon
<1>6. HoldsAt(w, 0, x) /\ HoldsAt(w, 0 + Len(x), y)
  BY <1>0, <1>2, <1>3, <1>5, HoldsAll, HoldsParts, Zenon
<1>8. i \in Nat /\ HoldsAt(w, i, y)
  BY <1>2, <1>6
<1>9. /\ FieldAt(w, 0 + 1) = [bytes |-> n, next |-> 0 + (Len(n) + 2) + 1]
      /\ FromBytes(SubSeq(w, 0 + 1, 0 + 2)) = Len(n)
  BY <1>0, <1>5, <1>6, FieldRead, Zenon
<1>10. FieldAt(w, i + 1) = [bytes |-> e, next |-> i + (Len(e) + 2) + 1]
  BY <1>5, <1>8, FieldRead, Zenon
<1>11. 3 + Len(n) = i + 1 /\ ~(Len(w) < 4) /\ 0 + 1 = 1 /\ 0 + 2 = 2
  BY <1>2, <1>5
<1>12. get_modulus(w) = [bytes |-> n, next |-> 0 + (Len(n) + 2) + 1]
  BY <1>9, <1>11 DEF get_modulus
<1>13. get_exponent(w) = FieldAt(w, i + 1)
  BY <1>9, <1>11 DEF get_exponent
<1>14. w # <<>>
  BY <1>11
<1> QED
  BY <1>10, <1>12, <1>13, <1>14, FieldFails DEF w

-----------------------------------------------------------------------------
(* The card finds the lengths that the host wrote. *)

LEMMA BerReadBack ==
  ASSUME NEW n \in ThreeBytes, NEW b \in Seq(Octets), Starts(b, encode_length(n))
  PROVE  parse_ber_length(b) = [n |-> n, took |-> Len(encode_length(n))]
<1>1. parse_length(b) = [n |-> n, took |-> Len(encode_length(n))]
  BY LengthRead
<1>2. parse_length(b) # Failed
  <2>1. ~IsFailed([n |-> n, took |-> Len(encode_length(n))]) /\ IsFailed(Failed)
    BY DEF IsFailed, Failed
  <2> QED
    BY <1>1, <2>1, Zenon
<1>3. b # <<>>
  BY <1>2, Zenon DEF parse_length
<1>4. parse_ber_length(b) = parse_length(b)
  BY <1>2, <1>3, Zenon DEF parse_length, parse_ber_length
<1> QED
  BY <1>1, <1>4

\* f says at every byte which lengths are found from there on.
FindsIn(f, w) == \A i \in 1..(Len(w) + 1) : f[i] = FoundAt(f, w, i)

\* One tag and its length, where the template holds them.
LEMMA FoundOne ==
  ASSUME NEW w \in Seq(Octets), NEW t \in Octets, NEW n \in ThreeBytes, NEW o \in Nat,
         HoldsAt(w, o, <<t>>), HoldsAt(w, o + 1, BerLength(n)),
         NEW f, FindsIn(f, w)
  PROVE  f[o + 1] = WithEarlier(f[o + 1 + Len(BerLength(n)) + 1], t, n)
<1> DEFINE p == encode_length(n)
           k == Len(p)
           i == o + 1
           b == From(w, 1 + i)
<1>1. BerLength(n) = p /\ p \in Seq(Octets) /\ k \in Nat /\ k >= 1
  BY BerTyped
<1>2. Len(w) \in Nat /\ i + k <= Len(w) /\ (\A j \in 1..k : w[i + j] = p[j])
  BY <1>1, LenProperties DEF HoldsAt
<1>3. w[i] = t
  <2>1. Len(<<t>>) = 1 /\ <<t>>[1] = t /\ 1 \in 1..1
    OBVIOUS
  <2> QED
    BY <2>1, Zenon DEF HoldsAt
<1>4. b \in Seq(Octets) /\ Len(b) = Len(w) - i /\ \A j \in 1..(Len(w) - i) : b[j] = w[i + j]
  <2>1. i \in Nat /\ i <= Len(w)
    BY <1>1, <1>2
  <2> HIDE DEF i
  <2> QED
    BY <2>1, After
<1> HIDE DEF p, k, b
<1>5. Starts(b, p)
  BY <1>1, <1>2, <1>4 DEF Starts, k
<1>6. parse_ber_length(b) = [n |-> n, took |-> k]
  BY <1>4, <1>5, BerReadBack DEF p, k
<1>7. i \in 1..(Len(w) + 1) /\ ~(i >= Len(w)) /\ 1 + i = i + 1 /\ i + 1 + k = o + 1 + k + 1
  BY <1>1, <1>2
<1> DEFINE l == [n |-> n, took |-> k]
<1>8. l.n = n /\ l.took = k
  OBVIOUS
<1> HIDE DEF l
<1>9. parse_ber_length(From(w, i + 1)) = l
  BY <1>6, <1>7, Zenon DEF l, b
<1> HIDE DEF i
<1>10. FoundAt(f, w, i) = WithEarlier(f[i + 1 + k], w[i], n)
  BY <1>7, <1>8, <1>9, Zenon DEF FoundAt
<1>11. f[i] = WithEarlier(f[o + 1 + k + 1], t, n)
  BY <1>3, <1>7, <1>10, Zenon DEF FindsIn
<1> QED
  BY <1>1, <1>11, Zenon DEF i, k

LEMMA NothingFound ==
  ASSUME NEW w \in Seq(Octets), NEW f, FindsIn(f, w), NEW k, k = Len(w) + 1
  PROVE  f[k] = <<>>
<1>1. k >= Len(w) /\ k \in 1..(Len(w) + 1)
  BY LenProperties
<1>2. FoundAt(f, w, k) = <<>>
  BY <1>1, Zenon DEF FoundAt
<1> QED
  BY <1>1, <1>2, Zenon DEF FindsIn

\* The template of a scalar says nothing of an RSA key.
LEMMA ScalarLengths ==
  ASSUME NEW key \in Keys, ~IsRsaKey(key)
  PROVE  parse_crt_lengths(LengthTemplate(key))[145] = 0
<1>0. key.scalar \in Component
  BY KeyCases
<1> DEFINE n == Len(key.scalar)
           x == <<146>>
           y == BerLength(n)
           w == LengthTemplate(key)
<1>1. n \in ThreeBytes
  BY <1>0, ComponentTyped
<1>2. w = x \o y
  BY Zenon DEF LengthTemplate
<1>3. 146 \in Octets /\ x \in Seq(Octets) /\ Len(x) = 1
  BY DEF Octets
<1>4. y \in Seq(Octets) /\ w \in Seq(Octets)
  BY <1>1, BerTyped, LengthTemplateTyped
<1> HIDE DEF w, n
<1>5. 0 \in Nat /\ 0 + 1 = 1
  OBVIOUS
<1>6. HoldsAt(w, 0, x) /\ HoldsAt(w, 0 + Len(x), y)
  <2> HIDE DEF x, y
  <2> QED
    BY <1>2, <1>3, <1>4, <1>5, HoldsAll, HoldsParts, Zenon
<1>7. PICK f : /\ CrtLengths(w) = f[1]
               /\ \A i \in 1..(Len(w) + 1) : f[i] = FoundAt(f, w, i) /\ Counts(f[i])
  BY <1>4, CrtFound, Zenon
<1> HIDE DEF y
<1>8. Len(w) = 1 + Len(y) /\ Len(y) \in Nat /\ Len(w) \in Nat
  BY <1>2, <1>3, <1>4, Joins
<1>9. f[0 + 1] = WithEarlier(f[0 + 1 + Len(y) + 1], 146, n)
  <2>1. HoldsAt(w, 0, <<146>>) /\ HoldsAt(w, 0 + 1, BerLength(n))
    BY <1>3, <1>6 DEF y
  <2>2. FindsIn(f, w)
    BY <1>7, Zenon DEF FindsIn
  <2> QED
    BY <1>1, <1>3, <1>4, <1>5, <2>1, <2>2, FoundOne, SMT DEF y
<1>10. 0 + 1 + Len(y) + 1 = Len(w) + 1 /\ Len(w) + 1 \in 1..(Len(w) + 1)
  BY <1>8
<1>11. f[Len(w) + 1] = <<>>
  <2>1. FindsIn(f, w)
    BY <1>7, Zenon DEF FindsIn
  <2> QED
    BY <1>4, <2>1, NothingFound, Zenon
<1>12. CrtLengths(w) = WithEarlier(<<>>, 146, n)
  BY <1>5, <1>7, <1>9, <1>10, <1>11, Zenon
<1> DEFINE c == CrtLengths(w)
<1>14. DOMAIN c = {146}
  <2>1. c = [k \in DOMAIN <<>> \cup {146} |-> IF k \in DOMAIN <<>> THEN <<>>[k] ELSE n]
    BY <1>12, Zenon DEF WithEarlier
  <2>2. DOMAIN <<>> = {}
    OBVIOUS
  <2> HIDE DEF c
  <2> QED
    BY <2>1, <2>2
<1>15. 145 \notin DOMAIN c
  BY <1>14
<1>16. parse_crt_lengths(w) = [t \in {145, 146, 147} |-> IF t \in DOMAIN c THEN c[t] ELSE 0]
  BY DEF parse_crt_lengths, OnlyComponents, c
<1> QED
  BY <1>15, <1>16 DEF w

\* The template of an RSA key has the lengths of its components.
LEMMA RsaLengths ==
  ASSUME NEW key \in Keys, IsRsaKey(key)
  PROVE  LET l == parse_crt_lengths(LengthTemplate(key))
         IN /\ DOMAIN l = {145, 146, 147}
            /\ l[145] = Len(key.e) /\ l[146] = Len(key.p) /\ l[147] = Len(key.q)
<1>0. key.e \in Component /\ key.p \in Component /\ key.q \in Component
  BY KeyCases
<1> DEFINE ne == Len(key.e)
           np == Len(key.p)
           nq == Len(key.q)
           te == 145
           tp == 146
           tq == 147
           x == <<te>>
           y == <<tp>>
           z == <<tq>>
           e == BerLength(ne)
           p == BerLength(np)
           q == BerLength(nq)
           a == x \o e
           b == a \o y
           c == b \o p
           d == c \o z
           w == LengthTemplate(key)
<1>1. ne \in ThreeBytes /\ np \in ThreeBytes /\ nq \in ThreeBytes
  BY <1>0, ComponentTyped
<1>2. w = d \o q
  BY Zenon DEF LengthTemplate
<1>3. /\ te \in Octets /\ x \in Seq(Octets) /\ Len(x) = 1
      /\ tp \in Octets /\ y \in Seq(Octets) /\ Len(y) = 1
      /\ tq \in Octets /\ z \in Seq(Octets) /\ Len(z) = 1
  BY DEF Octets
<1>4. e \in Seq(Octets) /\ p \in Seq(Octets) /\ q \in Seq(Octets) /\ w \in Seq(Octets)
  BY <1>1, BerTyped, LengthTemplateTyped
<1>32. tp # tq /\ te # tp /\ te # tq
  OBVIOUS
<1> HIDE DEF te, tp, tq, w, ne, np, nq, x, y, z, e, p, q, a, b, c, d
<1>5. a \in Seq(Octets) /\ Len(a) = Len(x) + Len(e) /\ Len(e) \in Nat
  BY <1>3, <1>4, Joins, Zenon DEF a
<1>6. b \in Seq(Octets) /\ Len(b) = Len(a) + Len(y)
  BY <1>3, <1>5, Joins, Zenon DEF b
<1>7. c \in Seq(Octets) /\ Len(c) = Len(b) + Len(p) /\ Len(p) \in Nat
  BY <1>4, <1>6, Joins, Zenon DEF c
<1>8. d \in Seq(Octets) /\ Len(d) = Len(c) + Len(z)
  BY <1>3, <1>7, Joins, Zenon DEF d
<1>9. Len(w) = Len(d) + Len(q) /\ Len(q) \in Nat
  BY <1>2, <1>4, <1>8, Joins, Zenon
<1>10. 0 \in Nat /\ 0 + 1 = 1
  OBVIOUS
<1>11. HoldsAt(w, 0, d) /\ HoldsAt(w, 0 + Len(d), q)
  BY <1>2, <1>4, <1>8, <1>10, HoldsAll, HoldsParts, Zenon
<1>12. HoldsAt(w, 0, c) /\ HoldsAt(w, 0 + Len(c), z)
  BY <1>3, <1>4, <1>7, <1>10, <1>11, HoldsParts, Zenon DEF d
<1>13. HoldsAt(w, 0, b) /\ HoldsAt(w, 0 + Len(b), p)
  BY <1>4, <1>6, <1>10, <1>12, HoldsParts, Zenon DEF c
<1>14. HoldsAt(w, 0, a) /\ HoldsAt(w, 0 + Len(a), y)
  BY <1>3, <1>4, <1>5, <1>10, <1>13, HoldsParts, Zenon DEF b
<1>15. HoldsAt(w, 0, x) /\ HoldsAt(w, 0 + Len(x), e)
  BY <1>3, <1>4, <1>10, <1>14, HoldsParts, Zenon DEF a
<1> DEFINE i == Len(a)
           j == Len(c)
<1>16. /\ i \in Nat /\ j \in Nat
       /\ 0 + Len(x) = 0 + 1 /\ 0 + Len(a) = i /\ 0 + Len(b) = i + 1 /\ 0 + Len(c) = j /\ 0 + Len(d) = j + 1
       /\ 0 + 1 + Len(e) + 1 = i + 1 /\ i + 1 + Len(p) + 1 = j + 1 /\ j + 1 + Len(q) + 1 = Len(w) + 1
       /\ Len(w) + 1 \in 1..(Len(w) + 1)
  BY <1>3, <1>5, <1>6, <1>7, <1>8, <1>9
<1>17. /\ HoldsAt(w, 0, x) /\ HoldsAt(w, 0 + 1, e)
       /\ HoldsAt(w, i, y) /\ HoldsAt(w, i + 1, p)
       /\ HoldsAt(w, j, z) /\ HoldsAt(w, j + 1, q)
  BY <1>11, <1>12, <1>13, <1>14, <1>15, <1>16, Zenon
<1> HIDE DEF i, j
<1>18. PICK f : /\ CrtLengths(w) = f[1]
                /\ \A k \in 1..(Len(w) + 1) : f[k] = FoundAt(f, w, k) /\ Counts(f[k])
  BY <1>4, CrtFound, Zenon
<1>19. FindsIn(f, w)
  BY <1>18, Zenon DEF FindsIn
<1>20. f[0 + 1] = WithEarlier(f[0 + 1 + Len(e) + 1], te, ne)
  <2>1. HoldsAt(w, 0, <<te>>) /\ HoldsAt(w, 0 + 1, BerLength(ne))
    BY <1>17, Zenon DEF x, e
  <2>2. ne \in ThreeBytes /\ te \in Octets /\ w \in Seq(Octets) /\ 0 \in Nat
    BY <1>1, <1>3, <1>4, <1>10, Zenon
  <2>3. f[0 + 1] = WithEarlier(f[0 + 1 + Len(BerLength(ne)) + 1], te, ne)
    BY <1>19, <2>1, <2>2, FoundOne, Zenon
  <2> QED
    BY <2>3, Zenon DEF e
<1>21. f[i + 1] = WithEarlier(f[i + 1 + Len(p) + 1], tp, np)
  <2>1. HoldsAt(w, i, <<tp>>) /\ HoldsAt(w, i + 1, BerLength(np))
    BY <1>17, Zenon DEF y, p
  <2>2. np \in ThreeBytes /\ tp \in Octets /\ w \in Seq(Octets) /\ i \in Nat
    BY <1>1, <1>3, <1>4, <1>16, Zenon
  <2>3. f[i + 1] = WithEarlier(f[i + 1 + Len(BerLength(np)) + 1], tp, np)
    BY <1>19, <2>1, <2>2, FoundOne, Zenon
  <2> QED
    BY <2>3, Zenon DEF p
<1>22. f[j + 1] = WithEarlier(f[j + 1 + Len(q) + 1], tq, nq)
  <2>1. HoldsAt(w, j, <<tq>>) /\ HoldsAt(w, j + 1, BerLength(nq))
    BY <1>17, Zenon DEF z, q
  <2>2. nq \in ThreeBytes /\ tq \in Octets /\ w \in Seq(Octets) /\ j \in Nat
    BY <1>1, <1>3, <1>4, <1>16, Zenon
  <2>3. f[j + 1] = WithEarlier(f[j + 1 + Len(BerLength(nq)) + 1], tq, nq)
    BY <1>19, <2>1, <2>2, FoundOne, Zenon
  <2> QED
    BY <2>3, Zenon DEF q
<1>23. f[Len(w) + 1] = <<>>
  BY <1>4, <1>19, NothingFound, Zenon
<1> DEFINE g == WithEarlier(<<>>, tq, nq)
           h == WithEarlier(g, tp, np)
           l == WithEarlier(h, te, ne)
<1>24. CrtLengths(w) = l
  BY <1>10, <1>16, <1>18, <1>20, <1>21, <1>22, <1>23, Zenon
<1>25. /\ g = [k \in DOMAIN <<>> \cup {tq} |-> IF k \in DOMAIN <<>> THEN <<>>[k] ELSE nq]
       /\ h = [k \in DOMAIN g \cup {tp} |-> IF k \in DOMAIN g THEN g[k] ELSE np]
       /\ l = [k \in DOMAIN h \cup {te} |-> IF k \in DOMAIN h THEN h[k] ELSE ne]
  BY Zenon DEF WithEarlier
<1> HIDE DEF g, h, l
<1>26. DOMAIN g = {tq} /\ g[tq] = nq
  <2>1. DOMAIN <<>> = {}
    OBVIOUS
  <2> QED
    BY <1>25, <2>1
<1>27. DOMAIN h = {tp, tq} /\ h[tp] = np /\ h[tq] = nq
  BY <1>25, <1>26, <1>32
<1>28. DOMAIN l = {te, tp, tq} /\ l[te] = ne /\ l[tp] = np /\ l[tq] = nq
  BY <1>25, <1>27, <1>32
<1>29. parse_crt_lengths(w) = [t \in {145, 146, 147} |-> IF t \in DOMAIN l THEN l[t] ELSE 0]
  BY <1>24, Zenon DEF parse_crt_lengths, OnlyComponents
<1>30. 145 \in DOMAIN l /\ 146 \in DOMAIN l /\ 147 \in DOMAIN l
  BY <1>26, <1>27, <1>28 DEF te, tp, tq
<1>31. /\ DOMAIN parse_crt_lengths(w) = {145, 146, 147}
       /\ parse_crt_lengths(w)[145] = ne /\ parse_crt_lengths(w)[146] = np /\ parse_crt_lengths(w)[147] = nq
  BY <1>28, <1>29, <1>30 DEF te, tp, tq
<1> QED
  BY <1>31 DEF w, ne, np, nq

-----------------------------------------------------------------------------
(* The elements that an import is read from. *)

CrtElement(s) == TLV(CrtTag(s), <<>>, InnerList(CrtTag(s), <<>>))
LengthsElement(t) == TLV(LengthsTag, t, InnerList(LengthsTag, t))
BytesElement(b) == TLV(KeyDataTag, b, InnerList(KeyDataTag, b))

LEMMA Associate ==
  ASSUME NEW a \in Seq(Octets), NEW b \in Seq(Octets), NEW c \in Seq(Octets)
  PROVE  (a \o b) \o c = a \o (b \o c) /\ b \o c \in Seq(Octets)
OBVIOUS

LEMMA InARow ==
  ASSUME NEW x, NEW y, NEW z
  PROVE  /\ <<x>> \o (<<y>> \o <<z>>) = <<x, y, z>>
         /\ <<x>> \o <<>> = <<x>> /\ <<x>> \o (<<y>> \o <<>>) = <<x, y>>
<1> DEFINE S == {x, y, z}
<1>1. <<x>> \in Seq(S) /\ <<y>> \in Seq(S) /\ <<z>> \in Seq(S) /\ <<>> \in Seq(S) /\ <<y, z>> \in Seq(S)
  OBVIOUS
<1>2. <<x, y>> \in Seq(S) /\ <<x, y, z>> \in Seq(S)
  OBVIOUS
<1> HIDE DEF S
<1>3. <<x>> \o <<>> = <<x>> /\ <<y>> \o <<>> = <<y>>
  BY <1>1
<1>4. <<y>> \o <<z>> = <<y, z>>
  <2> DEFINE t == <<y>> \o <<z>>
  <2>1. t \in Seq(S) /\ Len(t) = 2 /\ t[1] = y /\ t[2] = z
    BY <1>1, ConcatProperties
  <2> HIDE DEF t
  <2>2. t = <<y, z>>
    BY <1>1, <2>1, SeqEqual
  <2> QED
    BY <2>2 DEF t
<1>5. <<x>> \o <<y>> = <<x, y>>
  <2> DEFINE t == <<x>> \o <<y>>
  <2>1. t \in Seq(S) /\ Len(t) = 2 /\ t[1] = x /\ t[2] = y
    BY <1>1, ConcatProperties
  <2> HIDE DEF t
  <2>2. t = <<x, y>>
    BY <1>2, <2>1, SeqEqual
  <2> QED
    BY <2>2 DEF t
<1>6. <<x>> \o <<y, z>> = <<x, y, z>>
  <2> DEFINE t == <<x>> \o <<y, z>>
  <2>1. t \in Seq(S) /\ Len(t) = 3 /\ t[1] = x /\ t[2] = y /\ t[3] = z
    BY <1>1, ConcatProperties
  <2> HIDE DEF t
  <2>2. t = <<x, y, z>>
    BY <1>2, <2>1, SeqEqual
  <2> QED
    BY <2>2 DEF t
<1> QED
  BY <1>3, <1>4, <1>5, <1>6, Zenon

\* CutCons, for the encoding by its name.
LEMMA CutStep ==
  ASSUME NEW tag, IsTag(tag), NEW v \in Seq(Octets), Len(v) \in ThreeBytes, NEW r \in Seq(Octets),
         NEW c \in Nat, c <= Len(encode(tag, v)) + Len(r)
  PROVE  /\ c < Len(encode(tag, v)) => read_list(SubSeq(encode(tag, v) \o r, 1, c)) = <<>>
         /\ ~(c < Len(encode(tag, v))) =>
              /\ c - Len(encode(tag, v)) \in Nat /\ c - Len(encode(tag, v)) <= Len(r)
              /\ read_list(SubSeq(encode(tag, v) \o r, 1, c)) =
                   <<TLV(tag, v, InnerList(tag, v))>> \o read_list(SubSeq(r, 1, c - Len(encode(tag, v))))
BY CutCons

CrtBytes(s) == encode(CrtTag(s), <<>>)
LengthsBytes(t) == encode(LengthsTag, t)
KeyDataBytes(b) == encode(KeyDataTag, b)

\* The value of the header list, with its parts.
LEMMA ValueParts ==
  ASSUME NEW s, NEW t \in Seq(Octets), Len(t) <= 15, NEW b \in Seq(Octets), Len(b) \in KeyLengths
  PROVE  LET p == CrtBytes(s)
             q == LengthsBytes(t)
             r == KeyDataBytes(b)
         IN /\ p \in Seq(Octets) /\ q \in Seq(Octets) /\ r \in Seq(Octets) /\ q \o r \in Seq(Octets)
            /\ ImportValue(s, t, b) = p \o (q \o r)
            /\ Len(t) \in ThreeBytes /\ Len(b) \in ThreeBytes
            /\ Len(p) \in Nat /\ Len(q) \in Nat /\ Len(r) \in Nat /\ Len(q \o r) = Len(q) + Len(r)
            /\ Len(ImportValue(s, t, b)) = Len(p) + (Len(q) + Len(r))
<1> DEFINE p == CrtBytes(s)
           q == LengthsBytes(t)
           r == KeyDataBytes(b)
<1>1. ImportValue(s, t, b) = (p \o q) \o r /\ Len(t) \in ThreeBytes /\ Len(b) \in ThreeBytes
  BY ImportValueTyped DEF CrtBytes, LengthsBytes, KeyDataBytes
<1>2. <<>> \in Seq(Octets) /\ Len(<<>>) \in ThreeBytes
  BY DEF ThreeBytes
<1>3. p \in Seq(Octets) /\ q \in Seq(Octets) /\ r \in Seq(Octets)
  BY <1>1, <1>2, HostEncodes, KnownTags, Zenon DEF CrtBytes, LengthsBytes, KeyDataBytes
<1> HIDE DEF p, q, r
<1>4. ImportValue(s, t, b) = p \o (q \o r) /\ q \o r \in Seq(Octets)
  <2>1. (p \o q) \o r = p \o (q \o r)
    BY <1>3, Associate, SMTT(40)
  <2>2. q \o r \in Seq(Octets)
    BY <1>3, Joins, Zenon
  <2> QED
    BY <1>1, <2>1, <2>2, Zenon
<1>5. Len(q \o r) = Len(q) + Len(r) /\ Len(q) \in Nat /\ Len(r) \in Nat
  BY <1>3, Joins, Zenon
<1>6. Len(p \o (q \o r)) = Len(p) + Len(q \o r) /\ Len(p) \in Nat
  BY <1>3, <1>4, Joins, Zenon
<1>7. Len(ImportValue(s, t, b)) = Len(p) + (Len(q) + Len(r))
  BY <1>4, <1>5, <1>6, Zenon
<1> QED
  BY <1>1, <1>3, <1>4, <1>5, <1>6, <1>7, Zenon DEF p, q, r

\* What is sent whole is read as the three elements.
LEMMA WholeValueRead ==
  ASSUME NEW s, NEW t \in Seq(Octets), Len(t) <= 15, NEW b \in Seq(Octets), Len(b) \in KeyLengths
  PROVE  read_list(ImportValue(s, t, b)) = <<CrtElement(s), LengthsElement(t), BytesElement(b)>>
<1> DEFINE p == CrtBytes(s)
           q == LengthsBytes(t)
           r == KeyDataBytes(b)
<1>1. /\ p \in Seq(Octets) /\ q \in Seq(Octets) /\ r \in Seq(Octets) /\ q \o r \in Seq(Octets)
      /\ ImportValue(s, t, b) = p \o (q \o r)
      /\ Len(t) \in ThreeBytes /\ Len(b) \in ThreeBytes
  BY ValueParts, SMTT(40)
<1>2. <<>> \in Seq(Octets) /\ Len(<<>>) \in ThreeBytes
  BY DEF ThreeBytes
<1>3. IsTag(CrtTag(s)) /\ IsTag(LengthsTag) /\ IsTag(KeyDataTag)
  BY KnownTags, Zenon
<1>4. read_list(r) = <<BytesElement(b)>>
  BY <1>1, <1>3, ListSingle, Zenon DEF BytesElement, KeyDataBytes
<1>5. read_list(q \o r) = <<LengthsElement(t)>> \o read_list(r)
  BY <1>1, <1>3, ListCons, Zenon DEF LengthsElement, LengthsBytes
<1>6. read_list(p \o (q \o r)) = <<CrtElement(s)>> \o read_list(q \o r)
  BY <1>1, <1>2, <1>3, ListCons, Zenon DEF CrtElement, CrtBytes
<1> HIDE DEF p, q, r
<1>7. read_list(ImportValue(s, t, b)) = <<CrtElement(s)>> \o (<<LengthsElement(t)>> \o <<BytesElement(b)>>)
  BY <1>1, <1>4, <1>5, <1>6, Zenon
<1> QED
  BY <1>7, InARow, Zenon

\* Of a value that is cut the bytes of the key are not read.
LEMMA CutValueRead ==
  ASSUME NEW s, NEW t \in Seq(Octets), Len(t) <= 15, NEW b \in Seq(Octets), Len(b) \in KeyLengths,
         NEW c \in Nat, c < Len(ImportValue(s, t, b))
  PROVE  read_list(SubSeq(ImportValue(s, t, b), 1, c)) \in
           {<<>>, <<CrtElement(s)>>, <<CrtElement(s), LengthsElement(t)>>}
<1> DEFINE p == CrtBytes(s)
           q == LengthsBytes(t)
           r == KeyDataBytes(b)
           v == ImportValue(s, t, b)
           w == q \o r
<1>1. /\ p \in Seq(Octets) /\ q \in Seq(Octets) /\ r \in Seq(Octets) /\ w \in Seq(Octets)
      /\ v = p \o w
      /\ Len(t) \in ThreeBytes /\ Len(b) \in ThreeBytes
      /\ Len(p) \in Nat /\ Len(q) \in Nat /\ Len(r) \in Nat /\ Len(w) = Len(q) + Len(r)
      /\ Len(v) = Len(p) + (Len(q) + Len(r))
  BY ValueParts, SMTT(40)
<1>2. <<>> \in Seq(Octets) /\ Len(<<>>) \in ThreeBytes
  BY DEF ThreeBytes
<1>3. IsTag(CrtTag(s)) /\ IsTag(LengthsTag) /\ IsTag(KeyDataTag)
  BY KnownTags, Zenon
<1> DEFINE d == c - Len(p)
           e == d - Len(q)
<1>4. c <= Len(p) + Len(w)
  BY <1>1
<1>5. /\ c < Len(p) => read_list(SubSeq(p \o w, 1, c)) = <<>>
      /\ ~(c < Len(p)) =>
           /\ d \in Nat /\ d <= Len(w)
           /\ read_list(SubSeq(p \o w, 1, c)) = <<CrtElement(s)>> \o read_list(SubSeq(w, 1, d))
  <2>1. CrtBytes(s) = encode(CrtTag(s), <<>>) /\ CrtElement(s) = TLV(CrtTag(s), <<>>, InnerList(CrtTag(s), <<>>))
    BY Zenon DEF CrtElement, CrtBytes
  <2>2. w \in Seq(Octets)
    BY <1>1, Zenon
  <2>3. c <= Len(encode(CrtTag(s), <<>>)) + Len(w)
    BY <1>4, <2>1, Zenon
  <2> DEFINE tag == CrtTag(s)
             val == <<>>
  <2> HIDE DEF w, tag, val
  <2>4. /\ c < Len(encode(tag, val)) => read_list(SubSeq(encode(tag, val) \o w, 1, c)) = <<>>
        /\ ~(c < Len(encode(tag, val))) =>
             /\ c - Len(encode(tag, val)) \in Nat /\ c - Len(encode(tag, val)) <= Len(w)
             /\ read_list(SubSeq(encode(tag, val) \o w, 1, c)) =
                  <<TLV(tag, val, InnerList(tag, val))>> \o read_list(SubSeq(w, 1, c - Len(encode(tag, val))))
    <3>1. IsTag(tag) /\ val \in Seq(Octets) /\ Len(val) \in ThreeBytes
      BY <1>2, <1>3, Zenon DEF tag, val
    <3>2. c <= Len(encode(tag, val)) + Len(w)
      BY <2>3, Zenon DEF tag, val
    <3> QED
      BY <2>2, <3>1, <3>2, CutStep, Zenon
  <2> QED
    BY <2>1, <2>4, Zenon DEF tag, val
<1>6. ASSUME ~(c < Len(p))
      PROVE  /\ d < Len(q) => read_list(SubSeq(w, 1, d)) = <<>>
             /\ ~(d < Len(q)) =>
                  /\ e \in Nat /\ e <= Len(r)
                  /\ read_list(SubSeq(w, 1, d)) = <<LengthsElement(t)>> \o read_list(SubSeq(r, 1, e))
  <2>1. d \in Nat /\ d <= Len(q) + Len(r)
    BY <1>1, <1>5, <1>6, Zenon
  <2> HIDE DEF d
  <2> QED
    BY <1>1, <1>3, <2>1, CutStep, ZenonT(40) DEF LengthsElement, LengthsBytes
<1>7. ASSUME ~(c < Len(p)), ~(d < Len(q))
      PROVE  read_list(SubSeq(r, 1, e)) = <<>>
  <2> DEFINE x == SubSeq(r, 1, e)
  <2>1. e \in Nat /\ e <= Len(r)
    BY <1>6, <1>7, Zenon
  <2>2. e < Len(r)
    BY <1>1
  <2> HIDE DEF e, r
  <2>3. 1 \in Nat \ {0} /\ (1 <= e => e - 1 + 1 = e) /\ (~(1 <= e) => e = 0)
    BY <2>1
  <2>4. x \in Seq(Octets) /\ Len(x) = (IF 1 <= e THEN e - 1 + 1 ELSE 0) /\ \A k \in 1..Len(x) : x[k] = r[1 + k - 1]
    BY <1>1, <2>1, SubBytes, SMT
  <2>5. Len(x) = e
    BY <2>3, <2>4
  <2> HIDE DEF x
  <2>6. \A k \in 1..Len(x) : x[k] = r[k]
    BY <2>1, <2>4, <2>5
  <2>7. CutOf(x, r)
    BY <2>2, <2>5, <2>6, Zenon DEF CutOf
  <2> QED
    BY <1>1, <1>3, <2>4, <2>7, ListCut, Zenon DEF r, x, KeyDataBytes
<1> HIDE DEF p, w, r, q, v, d, e
<1>8. CASE c < Len(p)
  BY <1>1, <1>5, <1>8, Zenon DEF v
<1>9. CASE ~(c < Len(p)) /\ d < Len(q)
  <2>1. read_list(SubSeq(v, 1, c)) = <<CrtElement(s)>> \o <<>>
    BY <1>1, <1>5, <1>6, <1>9, Zenon
  <2> QED
    BY <2>1, InARow, Zenon DEF v
<1>10. CASE ~(c < Len(p)) /\ ~(d < Len(q))
  <2>1. read_list(SubSeq(v, 1, c)) = <<CrtElement(s)>> \o (<<LengthsElement(t)>> \o <<>>)
    BY <1>1, <1>5, <1>6, <1>7, <1>10, Zenon
  <2> QED
    BY <2>1, InARow, Zenon DEF v
<1> QED
  BY <1>8, <1>9, <1>10, Zenon

-----------------------------------------------------------------------------
(* What an import finds in the elements. *)

LEMMA TagsApart ==
  /\ \A s \in Slots, r \in Slots : CrtTag(s) = CrtTag(r) => s = r
  /\ \A s : CrtTag(s) # LengthsTag /\ CrtTag(s) # KeyDataTag
  /\ LengthsTag # KeyDataTag
  /\ \A s \in Slots : LengthsTag \notin {CrtTag(r) : r \in Slots} /\ KeyDataTag \notin {CrtTag(r) : r \in Slots}
<1>1. \A s : CrtTag(s) # LengthsTag /\ CrtTag(s) # KeyDataTag
  BY DEF CrtTag, OfSlot, LengthsTag, KeyDataTag
<1>2. \A s \in Slots, r \in Slots : CrtTag(s) = CrtTag(r) => s = r
  BY KeysTyped, SMT DEF CrtTag, OfSlot
<1>3. LengthsTag # KeyDataTag
  BY DEF LengthsTag, KeyDataTag
<1> QED
  BY <1>1, <1>2, <1>3, Zenon

LEMMA FirstFound ==
  ASSUME NEW x, NEW y, NEW z, NEW tags
  PROVE  LET list == <<x, y, z>>
         IN /\ x.tag \in tags => find(list, tags) = <<x>>
            /\ x.tag \notin tags /\ y.tag \in tags => find(list, tags) = <<y>>
            /\ x.tag \notin tags /\ y.tag \notin tags /\ z.tag \in tags => find(list, tags) = <<z>>
<1> DEFINE S == {x, y, z}
           list == <<x, y, z>>
<1>1. list \in Seq(S) /\ Len(list) = 3 /\ list[1] = x /\ list[2] = y /\ list[3] = z
  OBVIOUS
<1> HIDE DEF S, list
<1>2. \/ /\ find(list, tags) = <<>>
         /\ \A i \in 1..Len(list) : list[i].tag \notin tags
      \/ \E i \in 1..Len(list) :
           /\ find(list, tags) = <<list[i]>> /\ list[i].tag \in tags
           /\ \A j \in 1..Len(list) : list[j].tag \in tags => i <= j
  BY <1>1, FindCases, Zenon
<1>3. 1 \in 1..3 /\ 2 \in 1..3 /\ 3 \in 1..3 /\ \A i \in 1..3 : i = 1 \/ i = 2 \/ i = 3
  OBVIOUS
<1>4. ~(2 <= 1) /\ ~(3 <= 1) /\ ~(3 <= 2)
  OBVIOUS
<1>5. CASE \A i \in 1..3 : list[i].tag \notin tags
  <2>1. x.tag \notin tags /\ y.tag \notin tags /\ z.tag \notin tags
    BY <1>1, <1>3, <1>5, Zenon
  <2> QED
    BY <2>1, Zenon DEF list
<1>6. ASSUME NEW i \in 1..3, find(list, tags) = <<list[i]>>, list[i].tag \in tags,
             \A j \in 1..3 : list[j].tag \in tags => i <= j
      PROVE  /\ x.tag \in tags => find(list, tags) = <<x>>
             /\ x.tag \notin tags /\ y.tag \in tags => find(list, tags) = <<y>>
             /\ x.tag \notin tags /\ y.tag \notin tags /\ z.tag \in tags => find(list, tags) = <<z>>
  <2>1. CASE i = 1
    BY <1>1, <1>6, <2>1, Zenon
  <2>2. CASE i = 2
    BY <1>1, <1>3, <1>4, <1>6, <2>2, Zenon
  <2>3. CASE i = 3
    BY <1>1, <1>3, <1>4, <1>6, <2>3, Zenon
  <2> QED
    BY <1>3, <2>1, <2>2, <2>3, Zenon
<1> QED
  BY <1>1, <1>2, <1>5, <1>6, Zenon DEF list

LEMMA NoneFound ==
  ASSUME NEW S, NEW list \in Seq(S), NEW tags, \A i \in 1..Len(list) : list[i].tag \notin tags
  PROVE  find(list, tags) = <<>>
BY FindCases, Zenon

LEMMA NoneInFew ==
  ASSUME NEW x, NEW y, NEW tags, x.tag \notin tags, y.tag \notin tags,
         NEW list \in {<<>>, <<x>>, <<x, y>>}
  PROVE  find(list, tags) = <<>>
<1> DEFINE S == {x, y}
<1>0. list = <<>> \/ list = <<x>> \/ list = <<x, y>>
  BY Zenon
<1>1. <<>> \in Seq(S) /\ <<x>> \in Seq(S) /\ <<x, y>> \in Seq(S)
  OBVIOUS
<1>2. list \in Seq(S) /\ \A i \in 1..Len(list) : list[i] = x \/ list[i] = y
  <2>1. CASE list = <<>>
    BY <1>1, <2>1
  <2>2. CASE list = <<x>>
    BY <1>1, <2>2
  <2>3. CASE list = <<x, y>>
    BY <1>1, <2>3
  <2> QED
    BY <1>0, <2>1, <2>2, <2>3
<1>3. \A i \in 1..Len(list) : list[i].tag \notin tags
  BY <1>2, Zenon
<1> QED
  BY <1>2, <1>3, NoneFound, Zenon

LEMMA ElementTags ==
  /\ \A s : CrtElement(s).tag = CrtTag(s)
  /\ \A t : LengthsElement(t).tag = LengthsTag /\ LengthsElement(t).value = t
  /\ \A b : BytesElement(b).tag = KeyDataTag /\ BytesElement(b).value = b
BY DEF CrtElement, LengthsElement, BytesElement, TLV

\* The elements name the slot, and the bytes of the key go into it.
LEMMA ThreeImported ==
  ASSUME NEW s \in Slots, NEW t, NEW b
  PROVE  ImportParts(<<CrtElement(s), LengthsElement(t), BytesElement(b)>>) =
           WithSlot(s, ImportInto(slot[s], <<LengthsElement(t)>>, b))
<1> DEFINE x == CrtElement(s)
           y == LengthsElement(t)
           z == BytesElement(b)
           list == <<x, y, z>>
           crts == {CrtTag(r) : r \in Slots}
<1>1. x.tag = CrtTag(s) /\ y.tag = LengthsTag /\ z.tag = KeyDataTag /\ z.value = b
  BY ElementTags, Zenon
<1>2. x.tag \in crts /\ y.tag \notin crts /\ z.tag \notin crts
  BY <1>1, TagsApart, Zenon
<1>3. x.tag \notin {LengthsTag} /\ y.tag \in {LengthsTag}
  BY <1>1, TagsApart, Zenon
<1>4. x.tag \notin {KeyDataTag} /\ y.tag \notin {KeyDataTag} /\ z.tag \in {KeyDataTag}
  BY <1>1, TagsApart, Zenon
<1> HIDE DEF x, y, z
<1>5. SlotTemplates(list) = <<x>>
  <2> HIDE DEF crts
  <2>1. find(list, crts) = <<x>>
    BY <1>2, FirstFound
  <2> QED
    BY <2>1, Zenon DEF SlotTemplates, crts
<1>6. find(list, {LengthsTag}) = <<y>>
  BY <1>3, FirstFound
<1>7. find(list, {KeyDataTag}) = <<z>>
  BY <1>4, FirstFound
<1>8. SlotOf(x) = s
  <2>1. \A r \in Slots : CrtTag(r) = x.tag => r = s
    BY <1>1, TagsApart, Zenon
  <2> QED
    BY <1>1, <2>1, Zenon DEF SlotOf
<1>9. <<x>> # <<>> /\ <<z>> # <<>> /\ <<x>>[1] = x /\ <<z>>[1] = z
  OBVIOUS
<1> HIDE DEF list, crts
<1>10. ImportParts(list) = WithSlot(s, ImportInto(slot[s], <<y>>, b))
  BY <1>1, <1>5, <1>6, <1>7, <1>8, <1>9, Zenon DEF ImportParts, ImportList
<1> QED
  BY <1>10, Zenon DEF list, x, y, z

\* Without the bytes of a key an import is refused.
LEMMA NoBytesRefused ==
  ASSUME NEW list, find(list, {KeyDataTag}) = <<>>
  PROVE  ImportParts(list) = [sw |-> "6A80", slot |-> slot]
BY Zenon DEF ImportParts, ImportList

\* An object 4D, read to its end.
LEMMA ObjectRead ==
  ASSUME NEW v \in Seq(Octets), Len(v) \in ThreeBytes
  PROVE  ImportElements(read_list(encode(77, v))) = read_list(v)
<1> DEFINE t == TLV(77, v, InnerList(77, v))
<1>1. read_list(encode(77, v)) = <<t>>
  BY KnownTags, ListSingle, Zenon
<1>2. t.tag = 77 /\ t.value = v
  BY DEF TLV
<1> HIDE DEF t
<1>3. <<t>> # <<>> /\ <<t>>[1] = t
  OBVIOUS
<1> QED
  BY <1>1, <1>2, <1>3, Zenon DEF ImportElements

\* Bytes of a key that is sent in a whole list reach the slot.
LEMMA KeyImported ==
  ASSUME NEW s \in Slots, NEW key \in Keys, NEW i \in Nat
  PROVE  handle_key_import(ImportData(s, key, "key", i)) =
           WithSlot(s, ImportInto(slot[s], <<LengthsElement(LengthTemplate(key))>>, SentBytes(key, "key", i)))
<1> DEFINE t == LengthTemplate(key)
           b == SentBytes(key, "key", i)
           v == SentValue(s, key, "key", i)
<1>1. t \in Seq(Octets) /\ Len(t) <= 15
  BY LengthTemplateTyped
<1>2. /\ b \in Seq(Octets) /\ Len(b) \in KeyLengths /\ v \in Seq(Octets)
      /\ SentList(s, key, "key", i) \in Seq(Octets) /\ Len(SentList(s, key, "key", i)) \in ThreeBytes
      /\ SentObject(s, key, "key", i) = encode(77, SentList(s, key, "key", i))
  BY ImportDataTyped, Zenon
<1>3. "key" # "list" /\ "key" # "4D"
  OBVIOUS
<1>4. SentList(s, key, "key", i) = v /\ ImportData(s, key, "key", i) = SentObject(s, key, "key", i)
  BY <1>3, Zenon DEF SentList, ImportData
<1>5. v = ImportValue(s, t, b)
  BY Zenon DEF SentValue
<1> HIDE DEF t, b, v
<1>6. ImportElements(read_list(ImportData(s, key, "key", i))) = read_list(v)
  BY <1>2, <1>4, ObjectRead, Zenon
<1>7. read_list(v) = <<CrtElement(s), LengthsElement(t), BytesElement(b)>>
  BY <1>1, <1>2, <1>5, WholeValueRead, Zenon
<1>8. handle_key_import(ImportData(s, key, "key", i)) = WithSlot(s, ImportInto(slot[s], <<LengthsElement(t)>>, b))
  BY <1>6, <1>7, ThreeImported, Zenon DEF handle_key_import
<1> QED
  BY <1>8, Zenon DEF t, b

\* An import of which the list or the object is cut is refused.
LEMMA CutListRefused ==
  ASSUME NEW s \in Slots, NEW key \in Keys, NEW i \in Nat, i > 0
  PROVE  handle_key_import(ImportData(s, key, "list", i)) = [sw |-> "6A80", slot |-> slot]
<1> DEFINE t == LengthTemplate(key)
           b == SentBytes(key, "list", i)
           v == SentValue(s, key, "list", i)
           l == SentList(s, key, "list", i)
<1>1. t \in Seq(Octets) /\ Len(t) <= 15
  BY LengthTemplateTyped
<1>2. /\ b \in Seq(Octets) /\ Len(b) \in KeyLengths /\ v \in Seq(Octets)
      /\ l \in Seq(Octets) /\ Len(l) \in ThreeBytes
      /\ SentObject(s, key, "list", i) = encode(77, l)
  BY ImportDataTyped, Zenon
<1>3. "list" # "4D"
  OBVIOUS
<1>4. l = Cut(v, i) /\ ImportData(s, key, "list", i) = SentObject(s, key, "list", i)
  BY <1>3, Zenon DEF SentList, ImportData
<1>5. v = ImportValue(s, t, b)
  BY Zenon DEF SentValue
<1> HIDE DEF t, b, v, l
<1>6. ImportElements(read_list(ImportData(s, key, "list", i))) = read_list(l)
  BY <1>2, <1>4, ObjectRead, Zenon
<1>7. read_list(l) \in {<<>>, <<CrtElement(s)>>, <<CrtElement(s), LengthsElement(t)>>}
  <2>0. Len(v) \in Nat
    BY <1>2, LenProperties
  <2>1. CASE Len(v) <= i
    <3>1. l = <<>>
      BY <1>2, <1>4, <2>1, CutTyped, Zenon
    <3> QED
      BY <3>1, ListEmpty, Zenon
  <2>2. CASE ~(Len(v) <= i)
    <3> DEFINE c == Len(v) - i
    <3>1. c \in Nat /\ c < Len(v)
      BY <2>0, <2>2
    <3>2. l = SubSeq(v, 1, c)
      BY <1>4, Zenon DEF Cut
    <3> HIDE DEF c
    <3>3. read_list(SubSeq(v, 1, c)) \in {<<>>, <<CrtElement(s)>>, <<CrtElement(s), LengthsElement(t)>>}
      BY <1>1, <1>2, <1>5, <3>1, CutValueRead, Zenon
    <3> QED
      BY <3>2, <3>3, Zenon
  <2> QED
    BY <2>1, <2>2, Zenon
<1>8. CrtElement(s).tag \notin {KeyDataTag} /\ LengthsElement(t).tag \notin {KeyDataTag}
  BY ElementTags, TagsApart, Zenon
<1>9. find(read_list(l), {KeyDataTag}) = <<>>
  <2> DEFINE x == CrtElement(s)
             y == LengthsElement(t)
             list == read_list(l)
             tags == {KeyDataTag}
  <2>1. x.tag \notin tags /\ y.tag \notin tags /\ list \in {<<>>, <<x>>, <<x, y>>}
    BY <1>7, <1>8, Zenon
  <2> HIDE DEF x, y, list, tags
  <2>2. find(list, tags) = <<>>
    BY <2>1, NoneInFew
  <2> QED
    BY <2>2, Zenon DEF list, tags
<1> QED
  BY <1>6, <1>9, NoBytesRefused, Zenon DEF handle_key_import

LEMMA CutObjectRefused ==
  ASSUME NEW s \in Slots, NEW key \in Keys, NEW i \in Nat, i > 0
  PROVE  handle_key_import(ImportData(s, key, "4D", i)) = [sw |-> "6A80", slot |-> slot]
<1> DEFINE l == SentList(s, key, "4D", i)
           o == SentObject(s, key, "4D", i)
           d == ImportData(s, key, "4D", i)
<1>1. /\ l \in Seq(Octets) /\ Len(l) \in ThreeBytes
      /\ o = encode(77, l) /\ o \in Seq(Octets) /\ d \in Seq(Octets)
  BY ImportDataTyped, Zenon
<1>2. d = Cut(o, i)
  BY Zenon DEF ImportData
<1> HIDE DEF l, o, d
<1>3. Len(o) \in Nat
  BY <1>1, LenProperties
<1>4. read_list(d) = <<>>
  <2>1. CASE Len(o) <= i
    <3>1. d = <<>>
      BY <1>1, <1>2, <2>1, CutTyped, Zenon
    <3> QED
      BY <3>1, ListEmpty, Zenon
  <2>2. CASE ~(Len(o) <= i)
    <3>1. i <= Len(o)
      BY <1>3, <2>2
    <3>2. Len(d) = Len(o) - i /\ \A j \in 1..(Len(o) - i) : d[j] = o[j]
      BY <1>1, <1>2, <3>1, CutTyped, ZenonT(40)
    <3>3. Len(d) < Len(o)
      BY <1>3, <2>2, <3>2
    <3>4. CutOf(d, o)
      BY <3>2, <3>3, Zenon DEF CutOf
    <3> QED
      BY <1>1, <3>4, KnownTags, ListCut, Zenon
  <2> QED
    BY <2>1, <2>2, Zenon
<1>5. ImportElements(read_list(d)) = <<>>
  BY <1>4, Zenon DEF ImportElements
<1>6. find(<<>>, {KeyDataTag}) = <<>>
  <2>1. <<>> \in Seq({}) /\ \A k \in 1..Len(<<>>) : <<>>[k].tag \notin {KeyDataTag}
    OBVIOUS
  <2> QED
    BY <2>1, NoneFound, Zenon
<1>7. ImportParts(<<>>) = [sw |-> "6A80", slot |-> slot]
  BY <1>6, NoBytesRefused, Zenon
<1> QED
  BY <1>5, <1>7, Zenon DEF handle_key_import, d

-----------------------------------------------------------------------------
(* What becomes of the slot. *)

LEMMA NotEmpty ==
  ASSUME NEW b \in Seq(Octets), b # <<>>
  PROVE  Len(b) \in Nat /\ Len(b) > 0
BY EmptySeq, LenProperties

LEMMA WholeKeySum ==
  ASSUME NEW key \in Keys, IsRsaKey(key)
  PROVE  /\ Len(KeyBytes(key)) = Len(key.e) + Len(key.p) + Len(key.q)
         /\ Len(key.e) \in Nat /\ Len(key.p) \in Nat /\ Len(key.q) \in Nat
         /\ Len(key.e) > 0 /\ Len(key.p) > 0 /\ Len(key.q) > 0
         /\ HoldsAt(KeyBytes(key), 0, key.e) /\ HoldsAt(KeyBytes(key), Len(key.e), key.p)
         /\ HoldsAt(KeyBytes(key), Len(key.e) + Len(key.p), key.q)
<1> DEFINE e == key.e
           p == key.p
           q == key.q
           a == e \o p
           b == a \o q
<1>1. e \in Component /\ p \in Component /\ q \in Component
  BY KeyCases
<1>2. /\ e \in Seq(Octets) /\ e # <<>> /\ p \in Seq(Octets) /\ p # <<>> /\ q \in Seq(Octets) /\ q # <<>>
      /\ Len(e) \in Nat /\ Len(p) \in Nat /\ Len(q) \in Nat
  BY <1>1, ComponentTyped
<1>3. KeyBytes(key) = b
  BY Zenon DEF KeyBytes
<1>4. KeyBytes(key) \in Seq(Octets)
  BY KeyBytesTyped, Zenon
<1> HIDE DEF e, p, q
<1>5. Len(e) > 0 /\ Len(p) > 0 /\ Len(q) > 0
  BY <1>2, NotEmpty, Zenon
<1> HIDE DEF a, b
<1>6. a \in Seq(Octets) /\ Len(a) = Len(e) + Len(p)
  BY <1>2, Joins, Zenon DEF a
<1>7. Len(b) = Len(a) + Len(q)
  BY <1>2, <1>6, Joins, Zenon DEF b
<1>8. 0 \in Nat /\ 0 + Len(a) = Len(e) + Len(p) /\ 0 + Len(e) = Len(e)
  BY <1>2, <1>6
<1>9. HoldsAt(KeyBytes(key), 0, a) /\ HoldsAt(KeyBytes(key), 0 + Len(a), q)
  BY <1>2, <1>3, <1>4, <1>6, <1>8, HoldsAll, HoldsParts, ZenonT(40) DEF b
<1>10. HoldsAt(KeyBytes(key), 0, e) /\ HoldsAt(KeyBytes(key), 0 + Len(e), p)
  BY <1>2, <1>4, <1>8, <1>9, HoldsParts, Zenon DEF a
<1>11. Len(KeyBytes(key)) = Len(e) + Len(p) + Len(q)
  BY <1>3, <1>6, <1>7, Zenon
<1> QED
  BY <1>2, <1>5, <1>8, <1>9, <1>10, <1>11, Zenon DEF e, p, q

LEMMA SentLength ==
  ASSUME NEW key \in Keys, NEW i \in Nat, i <= Len(KeyBytes(key))
  PROVE  /\ Len(KeyBytes(key)) \in Nat
         /\ Len(SentBytes(key, "key", i)) = Len(KeyBytes(key)) - i
         /\ i = 0 => SentBytes(key, "key", i) = KeyBytes(key)
<1> DEFINE b == KeyBytes(key)
           c == SentBytes(key, "key", i)
<1>1. b \in Seq(Octets)
  BY KeyBytesTyped, Zenon
<1>2. c = Cut(b, i)
  BY Zenon DEF SentBytes
<1> HIDE DEF b, c
<1>3. Len(b) \in Nat
  BY <1>1, LenProperties
<1>4. c \in Seq(Octets) /\ Len(c) = Len(b) - i /\ \A j \in 1..(Len(b) - i) : c[j] = b[j]
  BY <1>1, <1>2, CutTyped, Zenon DEF b
<1>5. ASSUME i = 0 PROVE c = b
  <2>1. Len(c) = Len(b)
    BY <1>3, <1>4, <1>5
  <2>2. \A j \in 1..Len(c) : c[j] = b[j]
    BY <1>3, <1>4, <1>5
  <2> QED
    BY <1>1, <1>4, <2>1, <2>2, SeqEqual
<1> QED
  BY <1>3, <1>4, <1>5, Zenon DEF b, c

LEMMA TripleMember ==
  ASSUME NEW l, DOMAIN l = {145, 146, 147}
  PROVE  /\ 145 \in DOMAIN l
         /\ (\A t \in DOMAIN l : l[t] > 0) <=> l[145] > 0 /\ l[146] > 0 /\ l[147] > 0
<1>1. 145 \in DOMAIN l /\ 146 \in DOMAIN l /\ 147 \in DOMAIN l
  BY Zenon
<1>2. \A t \in DOMAIN l : t = 145 \/ t = 146 \/ t = 147
  BY Zenon
<1>3. ASSUME \A t \in DOMAIN l : l[t] > 0 PROVE l[145] > 0 /\ l[146] > 0 /\ l[147] > 0
  BY <1>1, <1>3, Zenon
<1>4. ASSUME l[145] > 0, l[146] > 0, l[147] > 0 PROVE \A t \in DOMAIN l : l[t] > 0
  BY <1>2, <1>4, Zenon
<1> QED
  BY <1>1, <1>3, <1>4, Zenon

\* The slot of RSA keys takes a whole RSA key, and nothing else.
LEMMA RsaSlotImport ==
  ASSUME NEW k, k.alg.id = RSA, NEW key \in Keys, NEW i \in Nat, i <= Len(KeyBytes(key)),
         NEW done, done = ImportInto(k, <<LengthsElement(LengthTemplate(key))>>, SentBytes(key, "key", i))
  PROVE  \/ i = 0 /\ IsRsaKey(key) /\ done = [sw |-> "9000", slot |-> StoreRsa(k, key.e, key.p, key.q)]
         \/ ~(i = 0 /\ IsRsaKey(key)) /\ done = [sw |-> "6A80", slot |-> k]
<1> DEFINE t == LengthTemplate(key)
           x == LengthsElement(t)
           l == parse_crt_lengths(t)
           b == SentBytes(key, "key", i)
           m == l[145]
           n == l[146]
           o == l[147]
<1>1. x.value = t /\ <<x>> # <<>> /\ <<x>>[1] = x
  BY ElementTags
<1>2. done = ImportRsa(k, l, b)
  <2> HIDE DEF x, t, b
  <2> QED
    BY <1>1, Zenon DEF ImportInto, x, t, b
<1>3. t \in Seq(Octets)
  BY LengthTemplateTyped
<1>4. DOMAIN l = {145, 146, 147} /\ m \in Nat /\ n \in Nat /\ o \in Nat
  BY <1>3, LengthsTyped
<1>5. /\ Len(KeyBytes(key)) \in Nat /\ Len(b) = Len(KeyBytes(key)) - i
      /\ i = 0 => b = KeyBytes(key)
  BY SentLength, Zenon
<1>6. LengthsMatch(l, b) <=> m > 0 /\ n > 0 /\ o > 0 /\ Len(b) = m + n + o
  <2>1. DOMAIN l = {145, 146, 147}
    BY <1>4
  <2> HIDE DEF l, b
  <2> DEFINE positive == \A c \in DOMAIN l : l[c] > 0
  <2>2. positive <=> m > 0 /\ n > 0 /\ o > 0
    BY <2>1, TripleMember
  <2>3. LengthsMatch(l, b) <=> positive /\ Len(b) = m + n + o
    BY DEF LengthsMatch
  <2> HIDE DEF positive
  <2> QED
    BY <2>2, <2>3
<1>7. CASE ~IsRsaKey(key)
  <2>1. m = 0
    BY <1>7, ScalarLengths, Zenon
  <2>2. ~(m > 0)
    BY <2>1
  <2>3. ~LengthsMatch(l, b)
    BY <1>6, <2>2, Zenon
  <2> QED
    BY <1>2, <1>7, <2>3, Zenon DEF ImportRsa
<1>8. CASE IsRsaKey(key)
  <2>1. m = Len(key.e) /\ n = Len(key.p) /\ o = Len(key.q)
    BY <1>8, RsaLengths
  <2>2. /\ Len(KeyBytes(key)) = Len(key.e) + Len(key.p) + Len(key.q)
        /\ Len(key.e) \in Nat /\ Len(key.p) \in Nat /\ Len(key.q) \in Nat
        /\ Len(key.e) > 0 /\ Len(key.p) > 0 /\ Len(key.q) > 0
        /\ HoldsAt(KeyBytes(key), 0, key.e) /\ HoldsAt(KeyBytes(key), Len(key.e), key.p)
        /\ HoldsAt(KeyBytes(key), Len(key.e) + Len(key.p), key.q)
    BY <1>8, WholeKeySum, Zenon
  <2> HIDE DEF l, b, m, n, o, t
  <2>3. LengthsMatch(l, b) <=> Len(b) = Len(KeyBytes(key))
    BY <1>6, <2>1, <2>2
  <2>4. Len(b) = Len(KeyBytes(key)) <=> i = 0
    BY <1>5
  <2>5. CASE i # 0
    <3>1. ~LengthsMatch(l, b)
      BY <2>3, <2>4, <2>5, Zenon
    <3> QED
      BY <1>2, <2>5, <3>1, Zenon DEF ImportRsa
  <2>6. CASE i = 0
    <3>1. LengthsMatch(l, b) /\ b = KeyBytes(key)
      BY <1>5, <2>3, <2>4, <2>6, Zenon
    <3>2. key.e \in Seq(Octets) /\ key.p \in Seq(Octets) /\ key.q \in Seq(Octets) /\ b \in Seq(Octets)
      <4>1. key.e \in Component /\ key.p \in Component /\ key.q \in Component
        BY <1>8, KeyCases, Zenon
      <4> QED
        BY <2>2, <3>1, <4>1, ComponentTyped, KeyBytesTyped
    <3>3. 0 \in Nat /\ 0 + 1 = 1 /\ 0 + m = m /\ m + n \in Nat /\ Len(b) = (m + n) + o
      <4>1. m \in Nat /\ n \in Nat /\ o \in Nat
        BY <2>1, <2>2, Zenon
      <4>2. Len(b) = m + n + o
        BY <2>1, <2>2, <3>1, Zenon
      <4> QED
        BY <4>1, <4>2
    <3>4. SubSeq(b, 0 + 1, 0 + Len(key.e)) = key.e
      BY <2>2, <3>1, <3>2, <3>3, HoldsSlice, Zenon
    <3>5. SubSeq(b, Len(key.e) + 1, Len(key.e) + Len(key.p)) = key.p
      BY <2>2, <3>1, <3>2, HoldsSlice, Zenon
    <3>6. SubSeq(b, (Len(key.e) + Len(key.p)) + 1, (Len(key.e) + Len(key.p)) + Len(key.q)) = key.q
      <4>1. Len(key.e) + Len(key.p) \in Nat
        BY <2>1, <3>3, Zenon
      <4> QED
        BY <2>2, <3>1, <3>2, <4>1, HoldsSlice, Zenon
    <3>7. SubSeq(b, 1, m) = key.e /\ SubSeq(b, m + 1, m + n) = key.p /\ From(b, m + n + 1) = key.q
      BY <2>1, <3>3, <3>4, <3>5, <3>6, Zenon DEF From
    <3>8. ImportRsa(k, l, b) = [sw |-> "9000", slot |-> StoreRsa(k, key.e, key.p, key.q)]
      BY <3>1, <3>7, Zenon DEF ImportRsa, m, n
    <3> QED
      BY <1>2, <1>8, <2>6, <3>8, Zenon
  <2> QED
    BY <2>5, <2>6, Zenon
<1> QED
  BY <1>7, <1>8, Zenon

\* The slot of a curve takes bytes of the size of a scalar.
StoredIn(k, stored) == Holding(k, stored, PublicTemplate(PublicKey(k.alg, stored)))

LEMMA CurveSlotImport ==
  ASSUME NEW k, k.alg.id # RSA, NEW b \in Seq(Octets), NEW list,
         NEW done, done = ImportInto(k, list, b)
  PROVE  LET stored == StoredScalar(k.alg, b)
         IN \/ done = [sw |-> "6A80", slot |-> k]
            \/ /\ b # <<>> /\ Len(b) = ScalarSize(k.alg)
               /\ \/ done = [sw |-> "9000", slot |-> StoredIn(k, stored)]
                  \/ done = [sw |-> "6400", slot |-> [k EXCEPT !.private = stored]]
<1> DEFINE stored == StoredScalar(k.alg, b)
<1>1. done = ImportScalar(k, b)
  BY Zenon DEF ImportInto
<1> HIDE DEF stored
<1>2. \/ done = [sw |-> "6A80", slot |-> k]
      \/ Len(b) = ScalarSize(k.alg) /\ done = StoreScalar(k, stored)
  BY <1>1, Zenon DEF ImportScalar, stored
<1>3. CASE Len(b) = ScalarSize(k.alg) /\ done = StoreScalar(k, stored)
  <2>1. Len(b) \in {32, 48, 66}
    BY <1>3, Sizes, Zenon
  <2>2. b # <<>>
    <3>1. Len(<<>>) = 0 /\ 0 \notin {32, 48, 66}
      OBVIOUS
    <3> QED
      BY <2>1, <3>1, Zenon
  <2>3. \/ done = [sw |-> "9000", slot |-> StoredIn(k, stored)]
        \/ done = [sw |-> "6400", slot |-> [k EXCEPT !.private = stored]]
    BY <1>3, Zenon DEF StoreScalar, StoredIn
  <2> QED
    BY <1>3, <2>2, <2>3, Zenon DEF stored
<1> QED
  BY <1>2, <1>3, Zenon

\* There is a last prefix of a list that is whole.
LEMMA LastWhole ==
  ASSUME NEW l \in Lists, NEW missing \in Nat, missing <= Len(HostList(l))
  PROVE  \E n \in 0..Len(l) :
           /\ Len(HostList(SubSeq(l, 1, n))) <= Len(HostList(l)) - missing
           /\ n = Len(l) \/ ~(Len(HostList(SubSeq(l, 1, n + 1))) <= Len(HostList(l)) - missing)
<1> DEFINE size == Len(HostList(l)) - missing
           whole(n) == Len(HostList(SubSeq(l, 1, n))) <= size
           T == {n \in 0..Len(l) : ~whole(n)}
<1>1. PICK f : /\ Sums(PartsOf(l), f)
               /\ \A n \in 0..Len(l) : HostList(SubSeq(l, 1, n)) = f[n] /\ f[n] \in Seq(Octets)
               /\ HostList(l) = f[Len(l)]
  BY ListSums, Zenon
<1>2. Len(l) \in Nat /\ HostList(l) \in Seq(Octets)
  BY ListsTyped, ListsEncodable, Zenon
<1>3. Len(HostList(l)) \in Nat
  BY <1>2, LenProperties
<1>4. size >= 0
  BY <1>3
<1>5. whole(0)
  <2>1. f[0] = <<>>
    BY <1>1, Zenon DEF Sums, SumsUpTo
  <2>2. 0 \in 0..Len(l)
    BY <1>2
  <2>3. HostList(SubSeq(l, 1, 0)) = <<>>
    BY <1>1, <2>1, <2>2, Zenon
  <2>4. Len(<<>>) = 0
    OBVIOUS
  <2>5. 0 <= size
    BY <1>3, <1>4
  <2> QED
    BY <2>3, <2>4, <2>5, Zenon
<1> HIDE DEF whole
<1>6. CASE T = {}
  <2>1. Len(l) \in 0..Len(l)
    BY <1>2
  <2>2. whole(Len(l))
    BY <1>6, <2>1, Zenon
  <2> QED
    BY <2>1, <2>2, Zenon DEF whole
<1>7. CASE T # {}
  <2>1. T \in SUBSET Nat
    BY <1>2
  <2>2. PICK m \in T : \A k \in T : m <= k
    BY <1>7, <2>1, Least, Zenon
  <2>3. m \in 0..Len(l) /\ ~whole(m)
    BY <2>2, Zenon
  <2>4. m # 0
    BY <1>5, <2>3, Zenon
  <2>5. m - 1 \in 0..Len(l) /\ ~(m <= m - 1) /\ (m - 1) + 1 = m
    BY <1>2, <2>3, <2>4
  <2>6. whole(m - 1)
    <3>1. m - 1 \notin T
      BY <2>2, <2>5, Zenon
    <3> QED
      BY <2>5, <3>1, Zenon
  <2>7. ~whole((m - 1) + 1)
    BY <2>3, <2>5, Zenon
  <2> QED
    BY <2>5, <2>6, <2>7, Zenon DEF whole
<1> QED
  BY <1>6, <1>7, Zenon

\* A list that does not begin with 4D is no import, cut or not.
LEMMA ListRefused ==
  ASSUME NEW l \in Lists, l[1].tag # 77, NEW missing \in Nat, missing <= Len(HostList(l))
  PROVE  handle_key_import(Cut(HostList(l), missing)) = [sw |-> "6A80", slot |-> slot]
<1>1. PICK n \in 0..Len(l) :
           /\ Len(HostList(SubSeq(l, 1, n))) <= Len(HostList(l)) - missing
           /\ n = Len(l) \/ ~(Len(HostList(SubSeq(l, 1, n + 1))) <= Len(HostList(l)) - missing)
  BY LastWhole
<1> DEFINE outer == SubSeq(l, 1, n)
<1>2. read_list(Cut(HostList(l), missing)) = outer
  BY <1>1, CutRead
<1>3. l \in Seq(Elements)
  BY ListsTyped, Zenon
<1>4. Len(outer) = n /\ \A i \in 1..n : outer[i] = l[i]
  BY <1>3, PrefixTyped, ZenonT(40)
<1>5. n \in Nat
  BY <1>1
<1> HIDE DEF outer
<1>6. outer # <<>> => outer[1].tag # 77
  <2>1. ASSUME outer # <<>> PROVE outer[1] = l[1]
    <3>1. outer \in Seq(Elements)
      BY <1>3, PrefixTyped, Zenon DEF outer
    <3>2. n # 0
      BY <1>4, <2>1, <3>1, EmptySeq
    <3>3. 1 \in 1..n
      BY <1>5, <3>2
    <3> QED
      BY <1>4, <3>3, Zenon
  <2> QED
    BY <1>3, <2>1, Zenon
<1>7. ImportElements(outer) = <<>>
  BY <1>6, Zenon DEF ImportElements
<1>8. find(<<>>, {KeyDataTag}) = <<>>
  <2>1. <<>> \in Seq({}) /\ \A k \in 1..Len(<<>>) : <<>>[k].tag \notin {KeyDataTag}
    OBVIOUS
  <2> QED
    BY <2>1, NoneFound, Zenon
<1>9. ImportParts(<<>>) = [sw |-> "6A80", slot |-> slot]
  BY <1>8, NoBytesRefused, Zenon
<1> QED
  BY <1>2, <1>7, <1>9, Zenon DEF handle_key_import

\* What an import may do: nothing, or store a whole RSA key, or the bytes of 5F48
\* as a scalar, or only the private half of one.  A list of the host that begins
\* with 4D is an import of whatever it holds.
Refusing(r, done) ==
  /\ done = [sw |-> "6A80", slot |-> slot]
  /\ ~(r.kind = "import" /\ r.missing = 0 /\ IsRsaKey(r.key) /\ slot[r.slot].alg.id = RSA)
WholeFor(r) == r.kind = "import" /\ r.slot \in Slots /\ r.key \in Keys /\ r.missing = 0
StoringRsa(r, done) ==
  /\ WholeFor(r) /\ IsRsaKey(r.key) /\ slot[r.slot].alg.id = RSA
  /\ done.sw = "9000"
  /\ done.slot = [slot EXCEPT ![r.slot] = StoreRsa(slot[r.slot], r.key.e, r.key.p, r.key.q)]
ScalarArrived(r) ==
  /\ r.kind = "import" /\ r.slot \in Slots /\ slot[r.slot].alg.id # RSA
  /\ r.bytes \in Seq(Octets) /\ r.bytes # <<>> /\ Len(r.bytes) = ScalarSize(slot[r.slot].alg)
ScalarFor(r) == StoredScalar(slot[r.slot].alg, r.bytes)
StoringScalar(r, done) ==
  /\ ScalarArrived(r) /\ done.sw = "9000"
  /\ done.slot = [slot EXCEPT ![r.slot] = StoredIn(slot[r.slot], ScalarFor(r))]
StoringPrivate(r, done) ==
  /\ ScalarArrived(r) /\ done.sw = "6400"
  /\ done.slot = [slot EXCEPT ![r.slot] = [slot[r.slot] EXCEPT !.private = ScalarFor(r)]]
StoringOther(r) == r.kind = "list" /\ r.list[1].tag = 77
ImportEnds(r, done) ==
  Refusing(r, done) \/ StoringRsa(r, done) \/ StoringScalar(r, done) \/ StoringPrivate(r, done)
  \/ StoringOther(r)

LEMMA CutsTyped == ImportCuts \subseteq Nat /\ ListCuts \subseteq Nat
BY CommandsAssumption, SMT

LEMMA SlotPutBack ==
  ASSUME AreSlots(slot), NEW s \in Slots
  PROVE  WithSlot(s, [sw |-> "6A80", slot |-> slot[s]]) = [sw |-> "6A80", slot |-> slot]
<1>1. slot = [r \in Slots |-> slot[r]]
  BY Zenon DEF AreSlots
<1>2. [slot EXCEPT ![s] = slot[s]] = slot
  BY <1>1
<1> QED
  BY <1>2 DEF WithSlot

LEMMA ListOutcome ==
  ASSUME NEW r, AsList(r)
  PROVE  ImportEnds(r, handle_key_import(r.cmd.data))
<1>1. r.list \in Lists /\ r.missing \in ListCuts /\ r.missing <= Len(HostList(r.list))
  BY Zenon DEF AsList
<1>2. r.missing \in Nat
  BY <1>1, CutsTyped, Zenon
<1>5. r.cmd.data = Cut(HostList(r.list), r.missing)
  BY Zenon DEF AsList
<1>3. CASE r.list[1].tag # 77
  <2>1. handle_key_import(r.cmd.data) = [sw |-> "6A80", slot |-> slot]
    BY <1>1, <1>2, <1>3, <1>5, ListRefused, Zenon
  <2>2. r.kind # "import"
    <3>1. r.kind = "list" /\ "list" # "import"
      BY DEF AsList
    <3> QED
      BY <3>1, Zenon
  <2> QED
    BY <2>1, <2>2, Zenon DEF ImportEnds, Refusing
<1>4. CASE r.list[1].tag = 77
  BY <1>4, Zenon DEF AsList, ImportEnds, StoringOther
<1> QED
  BY <1>3, <1>4, Zenon

LEMMA KeyOutcome ==
  ASSUME AreSlots(slot), NEW r, AsImport(r, "key")
  PROVE  ImportEnds(r, handle_key_import(r.cmd.data))
<1> DEFINE s == r.slot
           key == r.key
           i == r.missing
           list == <<LengthsElement(LengthTemplate(key))>>
           k == slot[s]
           b == SentBytes(key, "key", i)
           done == ImportInto(k, list, b)
           all == handle_key_import(r.cmd.data)
<1>1. /\ r.kind = "import" /\ s \in Slots /\ key \in Keys /\ i \in ImportCuts /\ i <= Len(KeyBytes(key))
      /\ r.cmd.data = ImportData(s, key, "key", i) /\ r.bytes = b
  BY Zenon DEF AsImport, WholeBytes
<1>2. i \in Nat
  BY <1>1, CutsTyped, Zenon
<1>9. b \in Seq(Octets)
  BY <1>1, <1>2, ImportDataTyped, Zenon
<1>3. all = WithSlot(s, done)
  BY <1>1, <1>2, KeyImported, Zenon
<1> HIDE DEF s, key, i, list, k, b, done, all
<1>4. all.sw = done.sw /\ all.slot = [slot EXCEPT ![s] = done.slot]
  BY <1>3 DEF WithSlot
<1>8. ASSUME NEW x, NEW y, done = [sw |-> x, slot |-> y] PROVE all.sw = x /\ all.slot = [slot EXCEPT ![s] = y]
  <2>1. done.sw = x /\ done.slot = y
    BY <1>8
  <2> QED
    BY <1>4, <2>1, Zenon
<1>5. ASSUME done = [sw |-> "6A80", slot |-> k], ~(i = 0 /\ IsRsaKey(key) /\ k.alg.id = RSA)
      PROVE  Refusing(r, all)
  <2>1. all = [sw |-> "6A80", slot |-> slot]
    BY <1>1, <1>3, <1>5, SlotPutBack, Zenon DEF k
  <2> QED
    BY <1>5, <2>1, Zenon DEF Refusing, i, key, k, s
<1>6. ASSUME k.alg.id = RSA PROVE ImportEnds(r, all)
  <2>1. \/ i = 0 /\ IsRsaKey(key) /\ done = [sw |-> "9000", slot |-> StoreRsa(k, key.e, key.p, key.q)]
        \/ ~(i = 0 /\ IsRsaKey(key)) /\ done = [sw |-> "6A80", slot |-> k]
    BY <1>1, <1>2, <1>6, RsaSlotImport, ZenonT(40) DEF done, list, b
  <2>2. CASE i = 0 /\ IsRsaKey(key) /\ done = [sw |-> "9000", slot |-> StoreRsa(k, key.e, key.p, key.q)]
    <3>1. all.sw = "9000" /\ all.slot = [slot EXCEPT ![s] = StoreRsa(k, key.e, key.p, key.q)]
      BY <1>8, <2>2
    <3> QED
      BY <1>1, <1>6, <2>2, <3>1, Zenon DEF ImportEnds, StoringRsa, WholeFor, i, key, k, s
  <2> QED
    BY <1>5, <2>1, <2>2, Zenon DEF ImportEnds
<1>7. ASSUME k.alg.id # RSA PROVE ImportEnds(r, all)
  <2> DEFINE stored == StoredScalar(k.alg, b)
  <2>1. \/ done = [sw |-> "6A80", slot |-> k]
        \/ /\ b # <<>> /\ Len(b) = ScalarSize(k.alg)
           /\ \/ done = [sw |-> "9000", slot |-> StoredIn(k, stored)]
              \/ done = [sw |-> "6400", slot |-> [k EXCEPT !.private = stored]]
    BY <1>7, <1>9, CurveSlotImport, Zenon DEF done
  <2>2. ScalarFor(r) = stored
    BY <1>1, Zenon DEF ScalarFor, k, s
  <2>5. ASSUME b # <<>>, Len(b) = ScalarSize(k.alg) PROVE ScalarArrived(r)
    BY <1>1, <1>7, <1>9, <2>5, Zenon DEF ScalarArrived, k, s
  <2> HIDE DEF stored
  <2>3. ASSUME b # <<>>, Len(b) = ScalarSize(k.alg), done = [sw |-> "9000", slot |-> StoredIn(k, stored)]
        PROVE  StoringScalar(r, all)
    <3>1. all.sw = "9000" /\ all.slot = [slot EXCEPT ![s] = StoredIn(k, stored)]
      BY <1>8, <2>3
    <3> QED
      BY <2>2, <2>3, <2>5, <3>1, Zenon DEF StoringScalar, k, s
  <2>4. ASSUME b # <<>>, Len(b) = ScalarSize(k.alg), done = [sw |-> "6400", slot |-> [k EXCEPT !.private = stored]]
        PROVE  StoringPrivate(r, all)
    <3> DEFINE m == [k EXCEPT !.private = stored]
    <3>1. all.sw = "6400" /\ all.slot = [slot EXCEPT ![s] = m]
      <4> HIDE DEF m
      <4> QED
        BY <1>8, <2>4 DEF m
    <3>2. m = [slot[r.slot] EXCEPT !.private = ScalarFor(r)]
      BY <2>2, Zenon DEF k, s
    <3> HIDE DEF m
    <3> QED
      BY <2>4, <2>5, <3>1, <3>2, Zenon DEF StoringPrivate, s
  <2> QED
    BY <1>5, <1>7, <2>1, <2>3, <2>4, Zenon DEF ImportEnds
<1> QED
  BY <1>6, <1>7, Zenon DEF all

LEMMA CutOutcome ==
  ASSUME NEW r, NEW w \in {"list", "4D"}, AsImport(r, w)
  PROVE  ImportEnds(r, handle_key_import(r.cmd.data))
<1>0. "list" # "key" /\ "4D" # "key"
  OBVIOUS
<1>1. /\ r.slot \in Slots /\ r.key \in Keys /\ r.missing \in ImportCuts /\ r.missing > 0
      /\ r.cmd.data = ImportData(r.slot, r.key, w, r.missing)
  BY <1>0, Zenon DEF AsImport
<1>2. r.missing \in Nat
  BY <1>1, CutsTyped, Zenon
<1>3. r.missing # 0
  BY <1>1, <1>2
<1>4. handle_key_import(r.cmd.data) = [sw |-> "6A80", slot |-> slot]
  <2>1. CASE w = "list"
    BY <1>1, <1>2, <2>1, CutListRefused, Zenon
  <2>2. CASE w = "4D"
    BY <1>1, <1>2, <2>2, CutObjectRefused, Zenon
  <2> QED
    BY <2>1, <2>2, Zenon
<1> QED
  BY <1>3, <1>4, Zenon DEF ImportEnds, Refusing

\* Every import ends in one of these ways.
LEMMA ImportOutcome ==
  ASSUME Sent, AreSlots(slot), Arrived(219)
  PROVE  ImportEnds(request, handle_key_import(Command.data))
<1>1. AskedAs(request) /\ Command = request.cmd /\ Command.header[2] = 219
  BY ArrivedIs
<1>2. AsList(request) \/ \E w \in {"key", "list", "4D"} : AsImport(request, w)
  BY <1>1, ByInstruction
<1>3. CASE AsList(request)
  BY <1>1, <1>3, ListOutcome, Zenon
<1>4. ASSUME NEW w \in {"key", "list", "4D"}, AsImport(request, w)
      PROVE  ImportEnds(request, handle_key_import(Command.data))
  <2>1. CASE w = "key"
    <3>1. AsImport(request, "key")
      BY <1>4, <2>1, Zenon
    <3>2. ImportEnds(request, handle_key_import(request.cmd.data))
      BY <3>1, KeyOutcome
    <3> QED
      BY <1>1, <3>2, Zenon
  <2>2. CASE w \in {"list", "4D"}
    <3>1. AsImport(request, w)
      BY <1>4, Zenon
    <3>2. ImportEnds(request, handle_key_import(request.cmd.data))
      BY <2>2, <3>1, CutOutcome
    <3> QED
      BY <1>1, <3>2, Zenon
  <2> QED
    BY <2>1, <2>2, Zenon
<1> QED
  BY <1>2, <1>3, <1>4, Zenon

-----------------------------------------------------------------------------
(* The public key in a slot, as it is answered. *)

PairBytes == {b \in Seq(Octets) : Len(b) \in PairLengths}
PointBytes == {b \in Seq(Octets) : Len(b) <= 133}

IsRsaPublic(public, elements) ==
  \E n \in PairBytes, e \in PairBytes :
    public = encode_public_key(n, e) /\ elements = <<TLV(129, n, <<>>), TLV(130, e, <<>>)>>
IsPoint(public, elements) ==
  \E v \in PointBytes : public = PublicTemplate(v) /\ elements = <<TLV(134, v, <<>>)>>
IsPublic(alg, public, elements) ==
  IF alg.id = RSA THEN IsRsaPublic(public, elements) ELSE IsPoint(public, elements)

LEMMA PairBytesTyped ==
  ASSUME NEW b \in PairBytes
  PROVE  b \in Seq(Octets) /\ Len(b) \in PairLengths /\ Len(b) \in ListLengths /\ Len(b) \in ThreeBytes
<1>1. b \in Seq(Octets) /\ Len(b) \in PairLengths
  BY DEF PairBytes
<1> DEFINE n == Len(b)
<1>2. n \in ListLengths /\ n \in ThreeBytes
  <2>1. n \in PairLengths
    BY <1>1
  <2> HIDE DEF n
  <2> QED
    BY <2>1 DEF PairLengths, ListLengths, ThreeBytes
<1> QED
  BY <1>1, <1>2, Zenon

LEMMA PointBytesTyped ==
  ASSUME NEW b \in PointBytes
  PROVE  b \in Seq(Octets) /\ Len(b) \in Nat /\ Len(b) <= 133 /\ Len(b) \in ThreeBytes
<1>1. b \in Seq(Octets) /\ Len(b) <= 133
  BY DEF PointBytes
<1>2. Len(b) \in Nat
  BY <1>1, LenProperties
<1> DEFINE n == Len(b)
<1>3. n \in ThreeBytes
  <2>1. n <= 133 /\ n \in Nat
    BY <1>1, <1>2
  <2> HIDE DEF n
  <2> QED
    BY <2>1 DEF ThreeBytes
<1> QED
  BY <1>1, <1>2, <1>3, Zenon

\* An element that is not constructed has nothing in it.
LEMMA LeafRead ==
  ASSUME NEW tag, IsTag(tag), ~IsConstructed(tag), NEW v \in Seq(Octets), Len(v) \in ThreeBytes
  PROVE  /\ read_list(encode(tag, v)) = <<TLV(tag, v, <<>>)>>
         /\ \A r \in Seq(Octets) : read_list(encode(tag, v) \o r) = <<TLV(tag, v, <<>>)>> \o read_list(r)
         /\ encode(tag, v) # <<>>
<1>1. InnerList(tag, v) = <<>>
  BY Zenon DEF InnerList
<1>2. read_list(encode(tag, v)) = <<TLV(tag, v, InnerList(tag, v))>>
  BY ListSingle, Zenon
<1>3. \A r \in Seq(Octets) : read_list(encode(tag, v) \o r) = <<TLV(tag, v, InnerList(tag, v))>> \o read_list(r)
  BY ListCons, Zenon
<1> DEFINE x == TLV(tag, v, <<>>)
<1> HIDE DEF x
<1>4. <<x>> # <<>>
  OBVIOUS
<1>5. read_list(encode(tag, v)) = <<x>>
  BY <1>1, <1>2, Zenon DEF x
<1>6. encode(tag, v) # <<>>
  BY <1>4, <1>5, ListEmpty, Zenon
<1> QED
  BY <1>1, <1>3, <1>5, <1>6, Zenon DEF x

\* A template of a public key is read as the elements in it.
LEMMA TemplateRead ==
  ASSUME NEW v \in Seq(Octets), Len(v) \in ThreeBytes, v # <<>>, NEW elements, read_list(v) = elements
  PROVE  LET list == read_list(encode(PublicKeyTag, v))
         IN /\ list = <<TLV(PublicKeyTag, v, elements)>>
            /\ Len(list) = 1 /\ list[1].tag = PublicKeyTag /\ list[1].subs = elements /\ list[1].value = v
<1> DEFINE t == TLV(PublicKeyTag, v, elements)
           list == read_list(encode(PublicKeyTag, v))
<1>1. InnerList(PublicKeyTag, v) = elements
  BY KnownTags, Zenon DEF InnerList
<1>2. list = <<t>>
  BY <1>1, KnownTags, ListSingle, Zenon
<1>3. t.tag = PublicKeyTag /\ t.subs = elements /\ t.value = v
  BY DEF TLV
<1> HIDE DEF t, list
<1>4. Len(<<t>>) = 1 /\ <<t>>[1] = t
  OBVIOUS
<1> QED
  BY <1>2, <1>3, <1>4, Zenon DEF t, list

SmallLengths == {n \in Nat : n < 65600}

LEMMA LeafTyped ==
  /\ \A b \in PairBytes : /\ encode(129, b) \in Seq(Octets) /\ Len(encode(129, b)) \in SmallLengths
                          /\ encode(130, b) \in Seq(Octets) /\ Len(encode(130, b)) \in SmallLengths
<1>1. ASSUME NEW b \in PairBytes, NEW tag, IsTag(tag)
      PROVE  encode(tag, b) \in Seq(Octets) /\ Len(encode(tag, b)) \in SmallLengths
  <2>1. b \in Seq(Octets) /\ Len(b) \in PairLengths /\ Len(b) \in ThreeBytes
    BY PairBytesTyped, Zenon
  <2>2. encode(tag, b) \in Seq(Octets) /\ Len(encode(tag, b)) \in Nat /\ Len(encode(tag, b)) <= Len(b) + 7
    BY <1>1, <2>1, HostEncodes, Zenon
  <2> DEFINE m == Len(encode(tag, b))
             n == Len(b)
  <2>3. m \in Nat /\ m <= n + 7 /\ n \in PairLengths
    BY <2>1, <2>2, Zenon
  <2> HIDE DEF m, n
  <2>4. m \in SmallLengths
    BY <2>3 DEF SmallLengths, PairLengths
  <2> QED
    BY <2>2, <2>4, Zenon DEF m
<1> QED
  BY <1>1, KnownTags, Zenon

LEMMA LeavesTyped ==
  ASSUME NEW n \in PairBytes, NEW e \in PairBytes
  PROVE  LET v == encode(129, n) \o encode(130, e)
         IN v \in Seq(Octets) /\ Len(v) \in ThreeBytes /\ v # <<>>
<1> DEFINE a == encode(129, n)
           b == encode(130, e)
           v == a \o b
<1>1. /\ a \in Seq(Octets) /\ Len(a) \in SmallLengths /\ b \in Seq(Octets) /\ Len(b) \in SmallLengths
  BY LeafTyped, Zenon
<1>2. a # <<>>
  <2>1. n \in Seq(Octets) /\ Len(n) \in ThreeBytes
    BY PairBytesTyped, Zenon
  <2> QED
    BY <2>1, KnownTags, LeafRead, Zenon
<1> HIDE DEF a, b
<1>3. v \in Seq(Octets) /\ Len(v) = Len(a) + Len(b)
  BY <1>1, Joins, Zenon
<1>4. Len(a) > 0
  BY <1>1, <1>2, NotEmpty, Zenon
<1> HIDE DEF v
<1>5. Len(v) \in ThreeBytes /\ Len(v) > 0
  BY <1>1, <1>3, <1>4 DEF ThreeBytes, SmallLengths
<1>6. v # <<>>
  <2>1. Len(<<>>) = 0 /\ ~(0 > 0)
    OBVIOUS
  <2> QED
    BY <1>5, <2>1, Zenon
<1> QED
  BY <1>3, <1>5, <1>6, Zenon DEF v, a, b

LEMMA RsaTemplateRead ==
  ASSUME NEW n \in PairBytes, NEW e \in PairBytes
  PROVE  LET list == read_list(RsaTemplate(n, e))
         IN /\ Len(list) = 1 /\ list[1].tag = PublicKeyTag
            /\ list[1].subs = <<TLV(129, n, <<>>), TLV(130, e, <<>>)>>
<1> DEFINE v == encode(129, n) \o encode(130, e)
           x == TLV(129, n, <<>>)
           y == TLV(130, e, <<>>)
<1>1. v \in Seq(Octets) /\ Len(v) \in ThreeBytes /\ v # <<>>
  BY LeavesTyped
<1>2. n \in Seq(Octets) /\ Len(n) \in ThreeBytes /\ e \in Seq(Octets) /\ Len(e) \in ThreeBytes
  BY PairBytesTyped, Zenon
<1>3. encode(130, e) \in Seq(Octets)
  BY LeafTyped, Zenon
<1>4. read_list(encode(130, e)) = <<y>>
  BY <1>2, KnownTags, LeafRead, Zenon
<1>5. read_list(v) = <<x>> \o read_list(encode(130, e))
  BY <1>2, <1>3, KnownTags, LeafRead, ZenonT(40)
<1> HIDE DEF x, y
<1>6. read_list(v) = <<x, y>>
  <2>1. <<x>> \o (<<y>> \o <<>>) = <<x, y>> /\ <<y>> \o <<>> = <<y>>
    BY InARow, Zenon
  <2> QED
    BY <1>4, <1>5, <2>1, Zenon
<1>7. RsaTemplate(n, e) = encode(PublicKeyTag, v)
  BY Zenon DEF RsaTemplate
<1> HIDE DEF v
<1> DEFINE elements == <<x, y>>
           list == read_list(encode(PublicKeyTag, v))
<1>8. Len(list) = 1 /\ list[1].tag = PublicKeyTag /\ list[1].subs = elements
  <2> HIDE DEF elements
  <2> QED
    BY <1>1, <1>6, TemplateRead DEF elements
<1> HIDE DEF list, elements
<1> QED
  BY <1>7, <1>8, Zenon DEF list, elements, x, y

LEMMA PointTemplateRead ==
  ASSUME NEW v \in PointBytes
  PROVE  LET list == read_list(PublicTemplate(v))
             points == find(read_list(encode(134, v)), {134})
         IN /\ PublicTemplate(v) # <<>> /\ PublicTemplate(v) \in Seq(Octets)
            /\ Len(list) = 1 /\ list[1].tag = PublicKeyTag
            /\ list[1].subs = <<TLV(134, v, <<>>)>>
            /\ find(list, {PublicKeyTag}) = list /\ list # <<>> /\ list[1].value = encode(134, v)
            /\ points # <<>>
<1> DEFINE x == TLV(134, v, <<>>)
           w == encode(134, v)
           list == read_list(PublicTemplate(v))
<1>1. v \in Seq(Octets) /\ Len(v) \in Nat /\ Len(v) <= 133
  BY PointBytesTyped, Zenon
<1>2. PublicTemplate(v) \in Seq(Octets) /\ Len(v) \in ThreeBytes /\ w \in Seq(Octets) /\ Len(w) \in ThreeBytes
  BY <1>1, PublicTemplateTyped, Zenon
<1>3. read_list(w) = <<x>>
  BY <1>1, <1>2, KnownTags, LeafRead, Zenon
<1>4. x.tag = 134
  BY DEF TLV
<1>5. PublicTemplate(v) = encode(PublicKeyTag, w)
  BY Zenon DEF PublicTemplate
<1> HIDE DEF x, w
<1>6. <<x>> # <<>> /\ <<x>> \in Seq({x}) /\ Len(<<x>>) = 1 /\ <<x>>[1] = x
  OBVIOUS
<1>7. w # <<>>
  BY <1>3, <1>6, ListEmpty, Zenon
<1> DEFINE elements == <<x>>
           t == TLV(PublicKeyTag, w, elements)
<1>8. list = <<t>> /\ Len(list) = 1 /\ list[1].tag = PublicKeyTag /\ list[1].subs = elements /\ list[1].value = w
  <2> HIDE DEF elements
  <2>1. read_list(w) = elements
    BY <1>3, Zenon DEF elements
  <2> DEFINE all == read_list(encode(PublicKeyTag, w))
  <2>2. all = <<TLV(PublicKeyTag, w, elements)>> /\ Len(all) = 1 /\ all[1].tag = PublicKeyTag /\ all[1].subs = elements /\ all[1].value = w
    BY <1>2, <1>7, <2>1, TemplateRead
  <2> QED
    BY <1>5, <2>2, Zenon
<1> HIDE DEF elements, t, list
<1>9. <<t>> # <<>> /\ <<t>> \in Seq({t}) /\ Len(<<t>>) = 1 /\ <<t>>[1] = t /\ 1 \in 1..1 /\ \A i \in 1..1 : i = 1
  OBVIOUS
<1>10. find(list, {PublicKeyTag}) = list
  <2> DEFINE tags == {PublicKeyTag}
  <2>1. list[1].tag \in tags
    BY <1>8, Zenon
  <2> HIDE DEF tags
  <2>2. \/ /\ find(list, tags) = <<>>
           /\ \A i \in 1..Len(list) : list[i].tag \notin tags
        \/ \E i \in 1..Len(list) : find(list, tags) = <<list[i]>>
    BY <1>8, <1>9, FindCases
  <2>3. find(list, tags) = <<list[1]>>
    BY <1>8, <1>9, <2>1, <2>2, Zenon
  <2> QED
    BY <1>8, <1>9, <2>3, Zenon DEF tags
<1>11. find(<<x>>, {134}) # <<>>
  <2> DEFINE tags == {134}
  <2>1. x.tag \in tags
    BY <1>4, Zenon
  <2> HIDE DEF tags
  <2>2. \/ /\ find(<<x>>, tags) = <<>>
           /\ \A i \in 1..Len(<<x>>) : <<x>>[i].tag \notin tags
        \/ \E i \in 1..Len(<<x>>) : find(<<x>>, tags) = <<<<x>>[i]>>
    BY <1>6, FindCases
  <2>3. <<<<x>>[1]>> # <<>>
    OBVIOUS
  <2> QED
    BY <1>6, <1>9, <2>1, <2>2, <2>3, ZenonT(40) DEF tags
<1>12. PublicTemplate(v) # <<>>
  BY <1>8, <1>9, ListEmpty, Zenon DEF list
<1> QED
  BY <1>2, <1>3, <1>8, <1>9, <1>10, <1>11, <1>12, Zenon DEF list, elements, x, w

\* What a slot answers that holds the key of which these are the elements.
AnswersWith(r, elements) ==
  /\ r.sw = "9000"
  /\ LET list == read_list(r.data)
     IN Len(list) = 1 /\ list[1].tag = PublicKeyTag /\ list[1].subs = elements

LEMMA PublicRead ==
  ASSUME NEW k, NEW elements, IsPublic(k.alg, k.public, elements)
  PROVE  AnswersWith(PublicAnswer(k), elements)
<1>0. \A d : Response("9000", d).sw = "9000" /\ Response("9000", d).data = d
  BY DEF Response
<1>1. CASE k.alg.id = RSA
  <2>1. PICK n \in PairBytes, e \in PairBytes :
          k.public = encode_public_key(n, e) /\ elements = <<TLV(129, n, <<>>), TLV(130, e, <<>>)>>
    BY <1>1, Zenon DEF IsPublic, IsRsaPublic
  <2> DEFINE w == encode_public_key(n, e)
  <2>2. n \in Seq(Octets) /\ Len(n) \in PairLengths /\ e \in Seq(Octets) /\ Len(e) \in PairLengths
    BY PairBytesTyped, Zenon
  <2>3. /\ ~IsFailed(get_modulus(w)) /\ get_modulus(w).bytes = n
        /\ ~IsFailed(get_exponent(w)) /\ get_exponent(w).bytes = e
        /\ w # <<>>
    BY <2>2, PublicReadsBack
  <2>4. PublicAnswer(k) = Response("9000", RsaTemplate(n, e))
    BY <1>1, <2>1, <2>3, Zenon DEF PublicAnswer, RsaAnswer
  <2> DEFINE list == read_list(RsaTemplate(n, e))
  <2>5. Len(list) = 1 /\ list[1].tag = PublicKeyTag /\ list[1].subs = <<TLV(129, n, <<>>), TLV(130, e, <<>>)>>
    BY RsaTemplateRead
  <2> QED
    BY <1>0, <2>1, <2>4, <2>5, Zenon DEF AnswersWith
<1>2. CASE k.alg.id # RSA
  <2>1. PICK v \in PointBytes : k.public = PublicTemplate(v) /\ elements = <<TLV(134, v, <<>>)>>
    BY <1>2, Zenon DEF IsPublic, IsPoint
  <2> DEFINE list == read_list(PublicTemplate(v))
  <2>2. /\ PublicTemplate(v) # <<>>
        /\ Len(list) = 1 /\ list[1].tag = PublicKeyTag /\ list[1].subs = <<TLV(134, v, <<>>)>>
    BY PointTemplateRead
  <2>3. PublicAnswer(k) = Response("9000", PublicTemplate(v))
    BY <1>2, <2>1, <2>2, Zenon DEF PublicAnswer
  <2> QED
    BY <1>0, <2>1, <2>2, <2>3, Zenon DEF AnswersWith
<1> QED
  BY <1>1, <1>2, Zenon

\* A key that the card has made counts as one.
LEMMA Sha1Counts == \A b : Sha1(b) \notin {Zeros, NoFingerprint}
<1> TAKE b
<1>1. Sha1(b).kind = "sha1" /\ Zeros.kind = "zeros" /\ NoFingerprint.kind = "empty"
  BY DEF Sha1, Zeros, NoFingerprint
<1>2. "sha1" # "zeros" /\ "sha1" # "empty"
  OBVIOUS
<1> QED
  BY <1>1, <1>2, Zenon

LEMMA FingerprintCounts ==
  ASSUME NEW k, NEW elements, IsPublic(k.alg, k.public, elements), CanGenerate(k.alg)
  PROVE  FingerprintOf(k) \notin {Zeros, NoFingerprint}
<1>1. CASE k.alg.id = RSA
  <2>1. PICK n \in PairBytes, e \in PairBytes : k.public = encode_public_key(n, e)
    BY <1>1, Zenon DEF IsPublic, IsRsaPublic
  <2> DEFINE w == encode_public_key(n, e)
  <2>2. n \in Seq(Octets) /\ Len(n) \in PairLengths /\ e \in Seq(Octets) /\ Len(e) \in PairLengths
    BY PairBytesTyped, Zenon
  <2>3. ~IsFailed(get_modulus(w)) /\ ~IsFailed(get_exponent(w))
    BY <2>2, PublicReadsBack
  <2>4. \E b : FingerprintOf(k) = Sha1(b)
    BY <1>1, <2>1, <2>3, Zenon DEF FingerprintOf, RsaFingerprint
  <2> QED
    BY <2>4, Sha1Counts, Zenon
<1>2. CASE k.alg.id # RSA
  <2>1. PICK v \in PointBytes : k.public = PublicTemplate(v)
    BY <1>2, Zenon DEF IsPublic, IsPoint
  <2> DEFINE list == read_list(PublicTemplate(v))
             points == find(read_list(encode(134, v)), {134})
  <2>2. find(list, {PublicKeyTag}) = list /\ list # <<>> /\ list[1].value = encode(134, v) /\ points # <<>>
    BY PointTemplateRead
  <2>3. ExtractPublicKey(k.public) = points
    BY <2>1, <2>2, Zenon DEF ExtractPublicKey, InTemplate
  <2>4. FingerprintOf(k) = CurveFingerprint(k.alg, points[1].value)
    BY <1>2, <2>2, <2>3, Zenon DEF FingerprintOf, PointFingerprint
  <2>5. k.alg.id = EDDSA \/ k.alg.id = ECDSA \/ k.alg.id = ECDH
    BY <1>2, Zenon DEF CanGenerate, Supported
  <2> HIDE DEF points, list
  <2>6. \E b : CurveFingerprint(k.alg, points[1].value) = Sha1(b)
    <3>1. CASE k.alg.id = EDDSA
      BY <3>1, Zenon DEF CurveFingerprint
    <3>2. CASE k.alg.id # EDDSA /\ k.alg.id = ECDSA
      BY <3>2, Zenon DEF CurveFingerprint
    <3>3. CASE k.alg.id # EDDSA /\ k.alg.id # ECDSA
      BY <2>5, <3>3, Zenon DEF CurveFingerprint
    <3> QED
      BY <3>1, <3>2, <3>3, Zenon
  <2> QED
    BY <2>4, <2>6, Sha1Counts, Zenon
<1> QED
  BY <1>1, <1>2, Zenon

-----------------------------------------------------------------------------
(* What a slot is said to hold it holds. *)

KeyOf(h, k) ==
  h # Nothing =>
    Secret(h.alg, k.private) = h.secret /\ IsPublic(h.alg, k.public, h.public)
HeldInv ==
  /\ held = [s \in Slots |-> held[s]]
  /\ \A s \in Slots : KeyOf(held[s], slot[s])

LEMMA KnownFields ==
  \A alg, secret, public :
    LET x == Known(alg, secret, public)
    IN x.alg = alg /\ x.secret = secret /\ x.public = public
BY DEF Known

LEMMA KnownKey ==
  ASSUME NEW alg, NEW secret, NEW elements, NEW k,
         Secret(alg, k.private) = secret, IsPublic(alg, k.public, elements)
  PROVE  KeyOf(Known(alg, secret, elements), k)
<1> DEFINE x == Known(alg, secret, elements)
<1>1. x.alg = alg /\ x.secret = secret /\ x.public = elements
  BY KnownFields
<1> HIDE DEF x
<1> QED
  BY <1>1, Zenon DEF KeyOf, x

LEMMA ComponentPair ==
  ASSUME NEW b \in Component
  PROVE  b \in PairBytes /\ b \in Seq(Octets)
<1>1. b \in Seq(Octets) /\ Len(b) \in Nat /\ Len(b) < 65536
  BY ComponentTyped
<1> DEFINE n == Len(b)
<1>2. n \in PairLengths
  <2>1. n \in Nat /\ n < 65536
    BY <1>1
  <2> HIDE DEF n
  <2> QED
    BY <2>1 DEF PairLengths
<1> QED
  BY <1>1, <1>2 DEF PairBytes

LEMMA ProductPair ==
  ASSUME NEW key \in RsaKeys
  PROVE  Product(key) \in PairBytes /\ Minimal(key.e) \in PairBytes
<1> DEFINE m == Len(Product(key))
           n == Len(Minimal(key.e))
<1>1. m < 65536 /\ n < 65536
  BY KeysAssumption
<1>2. key.e \in Seq(Octets) /\ key.p \in Seq(Octets) /\ key.q \in Seq(Octets)
  <2>1. key \in [e: Component, p: Component, q: Component]
    BY KeysTyped, Zenon
  <2>2. key.e \in Component /\ key.p \in Component /\ key.q \in Component
    BY <2>1
  <2> QED
    BY <2>2, ComponentTyped
<1>3. Product(key) \in Seq(Octets) /\ Minimal(key.e) \in Seq(Octets)
  BY <1>2, MinimalTyped, Zenon DEF Product
<1>4. m \in Nat /\ n \in Nat
  BY <1>3, LenProperties
<1> HIDE DEF m, n
<1>5. m \in PairLengths /\ n \in PairLengths
  BY <1>1, <1>4 DEF PairLengths
<1> QED
  BY <1>3, <1>5, Zenon DEF PairBytes, m, n

\* An RSA key that was sent, and stored.
LEMMA RsaKept ==
  ASSUME NEW k, IsSlot(k), k.alg.id = RSA, NEW key \in Keys, IsRsaKey(key), NEW b
  PROVE  KeyOf(Believed(k.alg, key, b), StoreRsa(k, key.e, key.p, key.q))
<1> DEFINE p == FromBytes(key.p)
           q == FromBytes(key.q)
           n == ToBytes(p * q)
           private == encode_private_key(key.e, key.p, key.q)
           public == encode_public_key(n, key.e)
           new == StoreRsa(k, key.e, key.p, key.q)
           secret == [e |-> FromBytes(key.e), p |-> p, q |-> q]
           elements == <<TLV(129, n, <<>>), TLV(130, key.e, <<>>)>>
<1>1. key \in RsaKeys /\ key.e \in Component /\ key.p \in Component /\ key.q \in Component
  BY KeyCases
<1>2. key.e \in PairBytes /\ key.e \in Seq(Octets) /\ key.p \in Seq(Octets) /\ key.q \in Seq(Octets)
  BY <1>1, ComponentPair, Zenon
<1>3. n \in PairBytes /\ n \in Seq(Octets)
  <2>1. n = Product(key)
    BY Zenon DEF Product
  <2>2. Product(key) \in PairBytes
    BY <1>1, ProductPair, Zenon
  <2> QED
    BY <2>1, <2>2, PairBytesTyped, Zenon
<1>4. private \in Seq(Octets) /\ public \in Seq(Octets)
  BY <1>2, <1>3, StoredTyped, Zenon
<1>5. PrivateFields(private) = secret
  BY <1>1, PrivateReadsBack, Zenon
<1>6. new = Holding(k, private, public)
  BY Zenon DEF StoreRsa
<1>7. Believed(k.alg, key, b) = Known(k.alg, secret, elements)
  BY Zenon DEF Believed
<1> HIDE DEF p, q, n, private, public, new, secret
<1>8. new.private = private /\ new.public = public
  <2>1. Holding(k, private, public).private = private /\ Holding(k, private, public).public = public
    BY <1>4, SlotPair
  <2> QED
    BY <1>6, <2>1, Zenon
<1>9. Secret(k.alg, new.private) = secret
  BY <1>5, <1>8, Zenon DEF Secret
<1>10. IsPublic(k.alg, new.public, elements)
  BY <1>2, <1>3, <1>8, Zenon DEF IsPublic, IsRsaPublic, public
<1> HIDE DEF elements
<1> QED
  BY <1>7, <1>9, <1>10, KnownKey, Zenon DEF new

\* A scalar that was sent, and stored.
LEMMA PointTyped ==
  ASSUME NEW alg, NEW x \in Seq(Octets), x # <<>>
  PROVE  PublicKey(alg, x) \in PointBytes
BY PublicKeyTyped, Zenon DEF PointBytes

LEMMA PointKept ==
  ASSUME NEW k, IsSlot(k), k.alg.id # RSA, NEW x \in Seq(Octets), x # <<>>
  PROVE  /\ StoredIn(k, x).private = x
         /\ IsPublic(k.alg, StoredIn(k, x).public, <<TLV(134, PublicKey(k.alg, x), <<>>)>>)
<1> DEFINE v == PublicKey(k.alg, x)
           public == PublicTemplate(v)
<1>1. v \in PointBytes
  BY PointTyped, Zenon
<1>2. public \in Seq(Octets)
  BY <1>1, PointTemplateRead
<1> HIDE DEF v, public
<1>3. StoredIn(k, x) = Holding(k, x, public)
  BY Zenon DEF StoredIn, public, v
<1>4. StoredIn(k, x).private = x /\ StoredIn(k, x).public = public
  <2>1. Holding(k, x, public).private = x /\ Holding(k, x, public).public = public
    BY <1>2, SlotPair
  <2> QED
    BY <1>3, <2>1, Zenon
<1>5. IsPublic(k.alg, public, <<TLV(134, v, <<>>)>>)
  BY <1>1, Zenon DEF IsPublic, IsPoint, public
<1> QED
  BY <1>4, <1>5, Zenon DEF v

LEMMA ScalarKept ==
  ASSUME NEW k, IsSlot(k), k.alg.id # RSA, NEW key, NEW b \in Seq(Octets), b # <<>>
  PROVE  KeyOf(Believed(k.alg, key, b), StoredIn(k, StoredScalar(k.alg, b)))
<1> DEFINE x == StoredScalar(k.alg, b)
           new == StoredIn(k, x)
           secret == [scalar |-> b]
           elements == <<TLV(134, PublicKey(k.alg, x), <<>>)>>
<1>2. x \in Seq(Octets) /\ Len(x) = Len(b) /\ StoredScalar(k.alg, x) = b
  BY StoredScalarTyped, Zenon
<1>3. Believed(k.alg, key, b) = Known(k.alg, secret, elements)
  BY Zenon DEF Believed
<1> HIDE DEF x
<1>4. x # <<>>
  <2>1. Len(b) > 0
    BY NotEmpty, Zenon
  <2>2. Len(<<>>) = 0 /\ ~(0 > 0)
    OBVIOUS
  <2> QED
    BY <1>2, <2>1, <2>2, Zenon
<1>5. new.private = x /\ IsPublic(k.alg, new.public, elements)
  BY <1>2, <1>4, PointKept, Zenon
<1> HIDE DEF new, elements
<1>6. Secret(k.alg, new.private) = secret
  BY <1>2, <1>5, Zenon DEF Secret
<1> HIDE DEF secret
<1> QED
  BY <1>3, <1>5, <1>6, KnownKey, Zenon DEF new, x

\* A pair that the card has made.
LEMMA PairKept ==
  ASSUME NEW alg, NEW pair \in KeyPairs(alg)
  PROVE  IsPublic(alg, pair.public, pair.elements)
<1>1. CASE alg.id = RSA
  <2>1. PICK key \in NewRsaKeys :
          pair = [private |-> encode_private_key(Minimal(key.e), Minimal(key.p), Minimal(key.q)),
                  public |-> encode_public_key(Product(key), Minimal(key.e)),
                  elements |-> <<TLV(129, Product(key), <<>>), TLV(130, Minimal(key.e), <<>>)>>]
    BY <1>1, Zenon DEF KeyPairs
  <2> DEFINE n == Product(key)
             e == Minimal(key.e)
  <2>2. n \in PairBytes /\ e \in PairBytes
    BY KeysTyped, ProductPair, Zenon
  <2>3. pair.public = encode_public_key(n, e) /\ pair.elements = <<TLV(129, n, <<>>), TLV(130, e, <<>>)>>
    <3> DEFINE x == encode_private_key(Minimal(key.e), Minimal(key.p), Minimal(key.q))
               y == encode_public_key(n, e)
               z == <<TLV(129, n, <<>>), TLV(130, e, <<>>)>>
    <3>1. pair = [private |-> x, public |-> y, elements |-> z]
      BY <2>1
    <3> HIDE DEF x, y, z
    <3>2. pair.public = y /\ pair.elements = z
      BY <3>1
    <3> QED
      BY <3>2, Zenon DEF y, z
  <2> HIDE DEF n, e
  <2> QED
    BY <1>1, <2>2, <2>3, Zenon DEF IsPublic, IsRsaPublic
<1>2. CASE alg.id # RSA
  <2>1. PICK x \in Scalars :
          pair = [private |-> x, public |-> PublicTemplate(PublicKey(alg, x)),
                  elements |-> <<TLV(134, PublicKey(alg, x), <<>>)>>]
    BY <1>2, Zenon DEF KeyPairs
  <2> DEFINE v == PublicKey(alg, x)
  <2>2. v \in PointBytes
    <3>1. x \in Component
      BY KeysTyped, Zenon
    <3>2. x \in Seq(Octets) /\ x # <<>>
      BY <3>1, ComponentTyped
    <3> QED
      BY <3>2, PointTyped, Zenon
  <2>3. pair.public = PublicTemplate(v) /\ pair.elements = <<TLV(134, v, <<>>)>>
    <3> DEFINE y == PublicTemplate(v)
               z == <<TLV(134, v, <<>>)>>
    <3>1. pair = [private |-> x, public |-> y, elements |-> z]
      BY <2>1
    <3> HIDE DEF y, z
    <3>2. pair.public = y /\ pair.elements = z
      BY <3>1
    <3> QED
      BY <3>2, Zenon DEF y, z
  <2> HIDE DEF v
  <2> QED
    BY <1>2, <2>2, <2>3, Zenon DEF IsPublic, IsPoint
<1> QED
  BY <1>1, <1>2, Zenon

-----------------------------------------------------------------------------
(* No action breaks what the host was told of the slots. *)

AreKept(h, f) == h = [s \in Slots |-> h[s]] /\ \A s \in Slots : KeyOf(h[s], f[s])

LEMMA Updated ==
  ASSUME NEW f, f = [r \in Slots |-> f[r]], NEW s \in Slots, NEW k,
         NEW g, g = [f EXCEPT ![s] = k]
  PROVE  /\ g = [r \in Slots |-> g[r]] /\ g[s] = k
         /\ \A r \in Slots : r # s => g[r] = f[r]
<1>1. DOMAIN f = Slots
  BY Zenon
<1>2. g = [r \in Slots |-> IF r = s THEN k ELSE f[r]]
  BY <1>1
<1>3. \A r \in Slots : g[r] = IF r = s THEN k ELSE f[r]
  BY <1>2, Zenon
<1>4. g = [r \in Slots |-> g[r]]
  BY <1>2, <1>3, Zenon
<1> QED
  BY <1>3, <1>4, Zenon

LEMMA KeptOne ==
  ASSUME NEW f, AreSlots(f), NEW h, AreKept(h, f), NEW s \in Slots, NEW x, NEW k, KeyOf(x, k)
  PROVE  AreKept([h EXCEPT ![s] = x], [f EXCEPT ![s] = k])
<1> DEFINE g == [f EXCEPT ![s] = k]
           i == [h EXCEPT ![s] = x]
<1>1. g[s] = k /\ \A r \in Slots : r # s => g[r] = f[r]
  BY Updated DEF AreSlots
<1>2. i = [r \in Slots |-> i[r]] /\ i[s] = x /\ \A r \in Slots : r # s => i[r] = h[r]
  BY Updated DEF AreKept
<1> HIDE DEF g, i
<1>3. \A r \in Slots : KeyOf(i[r], g[r])
  BY <1>1, <1>2, Zenon DEF AreKept
<1> QED
  BY <1>2, <1>3, Zenon DEF AreKept, g, i

LEMMA KeptAlike ==
  ASSUME NEW f, AreSlots(f), NEW h, AreKept(h, f), NEW s \in Slots,
         NEW k, k.private = f[s].private, k.public = f[s].public
  PROVE  AreKept(h, [f EXCEPT ![s] = k])
<1> DEFINE g == [f EXCEPT ![s] = k]
<1>1. g[s] = k /\ \A r \in Slots : r # s => g[r] = f[r]
  BY Updated DEF AreSlots
<1> HIDE DEF g
<1>2. KeyOf(h[s], f[s])
  BY Zenon DEF AreKept
<1>3. KeyOf(h[s], k)
  BY <1>2, Zenon DEF KeyOf
<1>4. \A r \in Slots : KeyOf(h[r], g[r])
  BY <1>1, <1>3, Zenon DEF AreKept
<1> QED
  BY <1>4, Zenon DEF AreKept, g

LEMMA NothingKnown == \A k : KeyOf(Nothing, k)
BY Zenon DEF KeyOf

\* Where a slot has changed the host believes nothing any more.
LEMMA Forgotten ==
  ASSUME NEW f, NEW h, AreKept(h, f), NEW g
  PROVE  AreKept([s \in Slots |-> IF g[s] = f[s] THEN h[s] ELSE Nothing], g)
<1> DEFINE i == [s \in Slots |-> IF g[s] = f[s] THEN h[s] ELSE Nothing]
<1>1. \A s \in Slots : i[s] = IF g[s] = f[s] THEN h[s] ELSE Nothing
  BY Zenon
<1>2. i = [s \in Slots |-> i[s]]
  BY Zenon
<1> HIDE DEF i
<1>3. \A s \in Slots : KeyOf(i[s], g[s])
  BY <1>1, NothingKnown, Zenon DEF AreKept
<1> QED
  BY <1>2, <1>3, Zenon DEF AreKept, i

\* Imported, by outcome: the state of the slots and what the host believes.
LEMMA ImportKeeps ==
  ASSUME Sent, AreSlots(slot), AreKept(held, slot), PutDataOdd
  PROVE  AreKept(held', slot')
<1> DEFINE done == handle_key_import(Command.data)
           s == request.slot
           key == request.key
           bytes == request.bytes
           k == slot[s]
           x == Believed(k.alg, key, bytes)
           sure == request.kind = "import" /\ done.sw = "9000"
<1>1. Imported(done) /\ ImportEnds(request, done)
  <2>1. Arrived(219) /\ Imported(done)
    BY Zenon DEF PutDataOdd
  <2>2. ImportEnds(request, done)
    BY <2>1, ImportOutcome
  <2> QED
    BY <2>1, <2>2, Zenon
<1> HIDE DEF done
<1>2. /\ slot' = done.slot
      /\ sure => held' = [held EXCEPT ![s] = x]
      /\ ~sure => held' = [r \in Slots |-> IF slot'[r] = slot[r] THEN held[r] ELSE Nothing]
  BY <1>1, Zenon DEF Imported
<1>3. ASSUME ~sure PROVE AreKept(held', slot')
  <2>1. AreKept([r \in Slots |-> IF slot'[r] = slot[r] THEN held[r] ELSE Nothing], slot')
    BY Forgotten, Zenon
  <2> HIDE DEF sure
  <2> QED
    BY <1>2, <1>3, <2>1, Zenon
<1>4. ASSUME NEW new, s \in Slots, KeyOf(x, new), sure, done.slot = [slot EXCEPT ![s] = new]
      PROVE  AreKept(held', slot')
  <2> HIDE DEF x, sure
  <2>1. held' = [held EXCEPT ![s] = x] /\ slot' = [slot EXCEPT ![s] = new]
    BY <1>2, <1>4, Zenon
  <2> QED
    BY <1>4, <2>1, KeptOne, Zenon
<1>5. ASSUME sure, StoringRsa(request, done) PROVE AreKept(held', slot')
  <2> DEFINE new == StoreRsa(k, key.e, key.p, key.q)
  <2>1. /\ WholeFor(request) /\ IsRsaKey(key) /\ k.alg.id = RSA
        /\ done.slot = [slot EXCEPT ![s] = new]
    BY <1>5, Zenon DEF StoringRsa
  <2>2. s \in Slots /\ key \in Keys /\ IsSlot(k)
    BY <2>1, Zenon DEF WholeFor, AreSlots
  <2>3. KeyOf(x, new)
    BY <2>1, <2>2, RsaKept
  <2> HIDE DEF new, x, sure
  <2> QED
    BY <1>4, <1>5, <2>1, <2>2, <2>3, Zenon
<1>6. ASSUME sure, StoringScalar(request, done) PROVE AreKept(held', slot')
  <2> DEFINE new == StoredIn(k, StoredScalar(k.alg, bytes))
  <2>1. /\ s \in Slots /\ k.alg.id # RSA /\ bytes \in Seq(Octets) /\ bytes # <<>>
        /\ done.slot = [slot EXCEPT ![s] = new]
    BY <1>6, Zenon DEF StoringScalar, ScalarArrived, ScalarFor
  <2>2. IsSlot(k)
    BY <2>1, Zenon DEF AreSlots
  <2>3. KeyOf(x, new)
    BY <2>1, <2>2, ScalarKept
  <2> HIDE DEF new, x, sure
  <2> QED
    BY <1>4, <1>6, <2>1, <2>3, Zenon
<1>7. ASSUME sure PROVE StoringRsa(request, done) \/ StoringScalar(request, done)
  <2>1. "6A80" # "9000" /\ "6400" # "9000" /\ "list" # "import"
    OBVIOUS
  <2>2. ~Refusing(request, done)
    <3>1. ASSUME done = [sw |-> "6A80", slot |-> slot] PROVE done.sw = "6A80"
      BY <3>1
    <3> QED
      BY <1>7, <2>1, <3>1, Zenon DEF Refusing
  <2>3. ~StoringPrivate(request, done) /\ ~StoringOther(request)
    BY <1>7, <2>1, Zenon DEF StoringPrivate, StoringOther
  <2> QED
    BY <1>1, <2>2, <2>3, Zenon DEF ImportEnds
<1> HIDE DEF sure
<1> QED
  BY <1>3, <1>5, <1>6, <1>7, Zenon

LEMMA PutDataKeeps ==
  ASSUME AreSlots(slot), AreKept(held, slot), NEW s \in Slots, PutData(s)
  PROVE  AreKept(held', slot')
<1>1. IsSlot(slot[s]) /\ held' = held
  BY Zenon DEF AreSlots, PutData
<1>2. ASSUME NEW a, slot' = [slot EXCEPT ![s].alg = a]
      PROVE  AreKept(held', slot')
  <2> DEFINE m == [slot[s] EXCEPT !.alg = a]
  <2>1. slot' = [slot EXCEPT ![s] = m]
    BY <1>2, Zenon
  <2>2. m.private = slot[s].private /\ m.public = slot[s].public
    BY <1>1, SlotAlg
  <2> HIDE DEF m
  <2> QED
    BY <1>1, <2>1, <2>2, KeptAlike, Zenon
<1>3. ASSUME NEW a, slot' = [slot EXCEPT ![s].fingerprint = a]
      PROVE  AreKept(held', slot')
  <2> DEFINE m == [slot[s] EXCEPT !.fingerprint = a]
  <2>1. slot' = [slot EXCEPT ![s] = m]
    BY <1>3, Zenon
  <2>2. m.private = slot[s].private /\ m.public = slot[s].public
    BY <1>1, SlotFingerprint
  <2> HIDE DEF m
  <2> QED
    BY <1>1, <2>1, <2>2, KeptAlike, Zenon
<1> QED
  BY <1>1, <1>2, <1>3, PutDataChanges, Zenon

\* The key that the card has generated.
LEMMA PairKnown ==
  ASSUME NEW k, IsSlot(k), NEW pair \in KeyPairs(k.alg), NEW new, new = WithPair(k, pair)
  PROVE  /\ new.alg = k.alg /\ IsPublic(new.alg, new.public, pair.elements)
         /\ KeyOf(Known(new.alg, Secret(new.alg, pair.private), pair.elements), new)
<1>1. new.alg = k.alg /\ new.private = pair.private /\ new.public = pair.public
  BY WithPairTyped, Zenon
<1>2. IsPublic(new.alg, new.public, pair.elements)
  BY <1>1, PairKept, Zenon
<1>3. Secret(new.alg, new.private) = Secret(new.alg, pair.private)
  BY <1>1, Zenon
<1> QED
  BY <1>1, <1>2, <1>3, KnownKey, Zenon

LEMMA GenerateKeeps ==
  ASSUME AreSlots(slot), AreKept(held, slot), NEW s \in Slots, Generate(s)
  PROVE  AreKept(held', slot')
<1>1. CASE slot' = slot /\ held' = held
  BY <1>1, Zenon
<1>2. ASSUME NEW pair \in KeyPairs(slot[s].alg), NEW new, new = WithPair(slot[s], pair),
             Generated(s, pair, new)
      PROVE  AreKept(held', slot')
  <2> DEFINE x == Known(new.alg, Secret(new.alg, pair.private), pair.elements)
  <2>1. slot' = [slot EXCEPT ![s] = new] /\ held' = [held EXCEPT ![s] = x]
    BY <1>2, Zenon DEF Generated
  <2>2. KeyOf(x, new)
    BY <1>2, PairKnown, Zenon DEF AreSlots
  <2> HIDE DEF x
  <2> QED
    BY <2>1, <2>2, KeptOne, Zenon
<1> QED
  BY <1>1, <1>2, Zenon DEF Generate, AnswerOnly

LEMMA HeldKept ==
  ASSUME Sent, AreSlots(slot), HeldInv, [Next]_vars
  PROVE  HeldInv'
<1>0. AreKept(held, slot)
  BY Zenon DEF HeldInv, AreKept
<1>1. ASSUME AreKept(held', slot') PROVE HeldInv'
  BY <1>1, Zenon DEF HeldInv, AreKept
<1>2. ASSUME slot' = slot, held' = held PROVE HeldInv'
  BY <1>0, <1>1, <1>2, Zenon
<1>3. CASE Host
  BY <1>2, <1>3, HostKeeps, Zenon
<1>4. CASE PutDataOdd
  BY <1>0, <1>1, <1>4, ImportKeeps, Zenon
<1>5. ASSUME NEW s \in Slots, PutData(s) \/ Generate(s)
      PROVE  HeldInv'
  BY <1>0, <1>1, <1>5, PutDataKeeps, GenerateKeeps, Zenon
<1>6. ASSUME NEW s \in Slots, GetData(s) \/ ReadPublicKey(s)
      PROVE  HeldInv'
  BY <1>2, <1>6, Zenon DEF GetData, ReadPublicKey, AnswerOnly
<1>7. CASE Malformed \/ UnknownInstruction
  BY <1>2, <1>7, Zenon DEF Malformed, UnknownInstruction, AnswerOnly
<1>8. CASE SignBegins
  BY <1>2, <1>8, Zenon DEF SignBegins, DecodePrivateKey, AnswerOnly
<1>9. CASE InverseStep \/ SignEnds
  BY <1>2, <1>9, Zenon DEF InverseStep, SignEnds
<1>10. CASE UNCHANGED vars
  BY <1>2, <1>10, Zenon DEF vars
<1>11. Host \/ Card \/ UNCHANGED vars
  BY Zenon DEF Next
<1> QED
  BY <1>3, <1>4, <1>5, <1>6, <1>7, <1>8, <1>9, <1>10, <1>11, Zenon DEF Card

LEMMA HeldStarts == Init => HeldInv
<1> SUFFICES ASSUME Init PROVE HeldInv
  OBVIOUS
<1>1. held = [s \in Slots |-> Nothing]
  BY Zenon DEF Init
<1>2. \A s \in Slots : held[s] = Nothing
  BY <1>1, Zenon
<1>3. held = [s \in Slots |-> held[s]]
  BY <1>1, <1>2, Zenon
<1> QED
  BY <1>2, <1>3, NothingKnown, Zenon DEF HeldInv

-----------------------------------------------------------------------------
(* What an answer a tells of a request r, given the slots f and what the    *)
(* host believes of them, h.                                                 *)

WholeKey(r) == r.kind = "import" /\ r.missing = 0

ImportAnswer(r, a, f) ==
  /\ r.kind = "import" =>
       LET alg == f[r.slot].alg
       IN IF alg.id = RSA THEN a.sw = "9000" <=> WholeKey(r) /\ IsRsaKey(r.key)
          ELSE a.sw = "9000" => Len(r.bytes) = ScalarSize(alg)
  /\ r.kind = "list" /\ a.sw = "9000" => r.list[1].tag = 77

PublicKeyIn(a, elements) ==
  LET list == read_list(a.data)
  IN Len(list) = 1 /\ list[1].tag = PublicKeyTag /\ list[1].subs = elements

KeyAnswer(r, a, f, h) ==
  r.kind = "generate" \/ r.kind = "read" =>
    (h[r.slot] # Nothing /\ h[r.slot].alg = f[r.slot].alg =>
       /\ r.kind = "read" => a.sw = "9000"
       /\ a.sw = "9000" => PublicKeyIn(a, h[r.slot].public))

NewKeyAnswer(r, a, f) == r.kind = "generate" /\ a.sw = "9000" => HasKey(f[r.slot])

AttributesAnswer(r, a, f) ==
  r.kind = "attributes" /\ a.sw = "9000" => attributes_to_bytes(f[r.slot].alg) = AttributesKept(r.cmd.data)

Faithful(r, a, f, h) ==
  ImportAnswer(r, a, f) /\ KeyAnswer(r, a, f, h) /\ NewKeyAnswer(r, a, f) /\ AttributesAnswer(r, a, f)

Told == wire = <<>> => Faithful(request, reply, slot, held)

\* The kinds of requests of which no answer tells anything.
Telling(kind) ==
  kind = "import" \/ kind = "list" \/ kind = "generate" \/ kind = "read" \/ kind = "attributes"

LEMMA SilentFaithful ==
  ASSUME NEW r, NEW a, NEW f, NEW h, ~Telling(r.kind)
  PROVE  Faithful(r, a, f, h)
BY Zenon DEF Telling, Faithful, ImportAnswer, KeyAnswer, NewKeyAnswer, AttributesAnswer, WholeKey

LEMMA FixedSilent ==
  ~Telling(NoRequest.kind) /\ ~Telling(Plain("broken", "none").kind)
BY FixedKinds DEF Telling

LEMMA OtherSilent ==
  ASSUME NEW r, AskedAs(r), r.cmd.header[2] # 71, r.cmd.header[2] # 218, r.cmd.header[2] # 219
  PROVE  ~Telling(r.kind)
<1> DEFINE kind == "read attributes"
<1>1. \/ \E w \in {"key", "list", "4D"} : AsImport(r, w)
      \/ AsList(r) \/ AsAttributes(r) \/ AsReadAttributes(r, kind) \/ AsFingerprint(r)
      \/ AsGenerate(r) \/ AsRead(r) \/ AsSign(r) \/ AsOther(r)
  BY Zenon DEF AskedAs
<1>2. ~Telling(kind)
  BY Zenon DEF Telling
<1> HIDE DEF kind
<1>3. AsReadAttributes(r, kind) \/ AsSign(r) \/ AsOther(r)
  BY <1>1, Zenon DEF AsImport, AsList, AsAttributes, AsFingerprint, AsGenerate, AsRead
<1>4. AsSign(r) => r.kind = "sign"
  BY DEF AsSign
<1>5. AsOther(r) => r.kind = "other"
  BY DEF AsOther
<1>6. ~Telling("sign") /\ ~Telling("other")
  BY DEF Telling
<1>7. AsReadAttributes(r, kind) => r.kind = kind
  BY Zenon DEF AsReadAttributes
<1>8. r.kind = kind \/ r.kind = "sign" \/ r.kind = "other"
  BY <1>3, <1>4, <1>5, <1>7, Zenon
<1> QED
  BY <1>2, <1>6, <1>8, Zenon

-----------------------------------------------------------------------------
(* The answers, one handler at a time. *)

LEMMA RefusedFields == \A sw : Refused(sw).sw = sw
BY DEF Refused, Response

\* What an import stores leaves the attributes of the slot alone.
LEMMA ScalarForTyped ==
  ASSUME NEW r, ScalarArrived(r)
  PROVE  ScalarFor(r) \in Seq(Octets) /\ ScalarFor(r) # <<>>
<1> DEFINE b == r.bytes
           x == ScalarFor(r)
<1>1. b \in Seq(Octets) /\ b # <<>>
  BY Zenon DEF ScalarArrived
<1>2. x \in Seq(Octets) /\ Len(x) = Len(b)
  BY <1>1, StoredScalarTyped, Zenon DEF ScalarFor
<1> HIDE DEF b, x
<1>3. Len(b) > 0
  BY <1>1, NotEmpty
<1>4. Len(<<>>) = 0 /\ ~(0 > 0)
  OBVIOUS
<1> QED
  BY <1>2, <1>3, <1>4, Zenon DEF x

LEMMA StoredInAlg ==
  ASSUME NEW k, IsSlot(k), NEW x \in Seq(Octets), x # <<>>
  PROVE  StoredIn(k, x).alg = k.alg
<1> DEFINE public == PublicTemplate(PublicKey(k.alg, x))
<1>1. public \in Seq(Octets)
  BY PointTyped, PointTemplateRead
<1> HIDE DEF public
<1>2. StoredIn(k, x) = Holding(k, x, public)
  BY Zenon DEF StoredIn, public
<1>3. Holding(k, x, public).alg = k.alg
  BY <1>1, SlotPair
<1> QED
  BY <1>2, <1>3, Zenon

LEMMA StoreRsaAlg ==
  ASSUME NEW k, IsSlot(k), NEW key \in Keys, IsRsaKey(key)
  PROVE  StoreRsa(k, key.e, key.p, key.q).alg = k.alg
<1> DEFINE e == key.e
           p == key.p
           q == key.q
           private == encode_private_key(e, p, q)
           public == encode_public_key(ToBytes(FromBytes(p) * FromBytes(q)), e)
<1>1. e \in Seq(Octets) /\ p \in Seq(Octets) /\ q \in Seq(Octets)
  BY KeyCases, ComponentTyped
<1>2. private \in Seq(Octets) /\ public \in Seq(Octets)
  <2> HIDE DEF e, p, q
  <2> QED
    BY <1>1, MinimalTyped, StoredTyped, Zenon
<1>3. StoreRsa(k, e, p, q) = Holding(k, private, public)
  BY Zenon DEF StoreRsa
<1> HIDE DEF private, public
<1>4. Holding(k, private, public).alg = k.alg
  BY <1>2, SlotPair
<1> QED
  BY <1>3, <1>4, Zenon

\* An import.
LEMMA ImportFaithful ==
  ASSUME Sent, AreSlots(slot), Arrived(219), NEW h
  PROVE  LET done == handle_key_import(Command.data)
         IN Faithful(request, Refused(done.sw), done.slot, h)
<1> DEFINE done == handle_key_import(Command.data)
           a == Refused(done.sw)
           r == request
<1>1. ImportEnds(r, done)
  BY ImportOutcome
<1>2. r.kind = "import" \/ r.kind = "list"
  <2>1. AskedAs(r) /\ r.cmd.header[2] = 219
    BY ArrivedIs
  <2>2. AsList(r) \/ \E w \in {"key", "list", "4D"} : AsImport(r, w)
    BY <2>1, ByInstruction
  <2> QED
    BY <2>2, Zenon DEF AsList, AsImport
<1>3. a.sw = done.sw
  BY RefusedFields
<1> HIDE DEF done, a
<1>4. KeyAnswer(r, a, done.slot, h) /\ NewKeyAnswer(r, a, done.slot) /\ AttributesAnswer(r, a, done.slot)
  <2>1. r.kind # "generate" /\ r.kind # "read" /\ r.kind # "attributes"
    BY <1>2
  <2> QED
    BY <2>1, Zenon DEF KeyAnswer, NewKeyAnswer, AttributesAnswer
<1>5. "6A80" # "9000" /\ "6400" # "9000"
  OBVIOUS
<1>10. "list" # "import"
  OBVIOUS
<1>6. WholeFor(r) => WholeKey(r)
  BY Zenon DEF WholeFor, WholeKey
\* The attributes of the slot are those it had.
<1>11. ASSUME NEW new, r.slot \in Slots, done.slot = [slot EXCEPT ![r.slot] = new], new.alg = slot[r.slot].alg
       PROVE  done.slot[r.slot].alg = slot[r.slot].alg
  <2>1. done.slot[r.slot] = new
    BY <1>11, Updated DEF AreSlots
  <2> QED
    BY <1>11, <2>1, Zenon
<1>7. ASSUME Refusing(r, done) PROVE ImportAnswer(r, a, done.slot)
  <2>1. done.sw = "6A80" /\ done.slot = slot
    BY <1>7 DEF Refusing
  <2>2. r.kind = "import" /\ slot[r.slot].alg.id = RSA => ~(WholeKey(r) /\ IsRsaKey(r.key))
    BY <1>7, Zenon DEF Refusing, WholeKey
  <2> QED
    BY <1>3, <1>5, <2>1, <2>2, Zenon DEF ImportAnswer
<1>8. ASSUME StoringRsa(r, done) PROVE ImportAnswer(r, a, done.slot)
  <2> DEFINE k == slot[r.slot]
             new == StoreRsa(k, r.key.e, r.key.p, r.key.q)
  <2>1. /\ WholeFor(r) /\ r.kind = "import" /\ IsRsaKey(r.key) /\ k.alg.id = RSA /\ done.sw = "9000"
        /\ done.slot = [slot EXCEPT ![r.slot] = new]
    BY <1>8, Zenon DEF StoringRsa, WholeFor
  <2>2. r.slot \in Slots /\ r.key \in Keys /\ IsSlot(k)
    BY <2>1, Zenon DEF WholeFor, AreSlots
  <2>3. new.alg = k.alg
    BY <2>1, <2>2, StoreRsaAlg, Zenon
  <2> HIDE DEF new
  <2>4. done.slot[r.slot].alg = k.alg
    BY <1>11, <2>1, <2>2, <2>3, Zenon
  <2> QED
    BY <1>3, <1>6, <1>10, <2>1, <2>4, Zenon DEF ImportAnswer
<1>9. ASSUME StoringScalar(r, done) \/ StoringPrivate(r, done) PROVE ImportAnswer(r, a, done.slot)
  <2> DEFINE k == slot[r.slot]
             x == ScalarFor(r)
             full == StoredIn(k, x)
             half == [k EXCEPT !.private = x]
  <2>1. /\ r.kind = "import" /\ r.slot \in Slots /\ k.alg.id # RSA /\ Len(r.bytes) = ScalarSize(k.alg)
        /\ done.slot = [slot EXCEPT ![r.slot] = full] \/ done.slot = [slot EXCEPT ![r.slot] = half]
    BY <1>9, Zenon DEF StoringScalar, StoringPrivate, ScalarArrived
  <2>2. IsSlot(k)
    BY <2>1, Zenon DEF AreSlots
  <2>3. x \in Seq(Octets) /\ x # <<>>
    BY <1>9, ScalarForTyped, Zenon DEF StoringScalar, StoringPrivate
  <2> HIDE DEF x
  <2>4. full.alg = k.alg
    BY <2>1, <2>2, <2>3, StoredInAlg, Zenon
  <2>5. half.alg = k.alg
    BY <2>2, <2>3, SlotPrivate
  <2> HIDE DEF full, half
  <2>6. done.slot[r.slot].alg = k.alg
    BY <1>11, <2>1, <2>4, <2>5, Zenon
  <2> QED
    BY <1>10, <2>1, <2>6, Zenon DEF ImportAnswer
<1>12. ASSUME StoringOther(r) PROVE ImportAnswer(r, a, done.slot)
  BY <1>10, <1>12, Zenon DEF StoringOther, ImportAnswer
<1>13. ImportAnswer(r, a, done.slot)
  BY <1>1, <1>7, <1>8, <1>9, <1>12, Zenon DEF ImportEnds
<1> QED
  BY <1>4, <1>13, Zenon DEF Faithful, done, a

\* Attributes.
LEMMA ObjectTagsApart ==
  /\ \A s, t : AttributesTag(s) # FingerprintTag(t)
  /\ \A s \in Slots, t \in Slots : AttributesTag(s) = AttributesTag(t) => s = t
<1>1. \A s, t : AttributesTag(s) # FingerprintTag(t)
  BY DEF AttributesTag, FingerprintTag, OfSlot
<1>2. \A s \in Slots, t \in Slots : AttributesTag(s) = AttributesTag(t) => s = t
  BY KeysTyped, SMT DEF AttributesTag, OfSlot
<1> QED
  BY <1>1, <1>2

LEMMA AttributesTyped == \A b \in AttributeBytes : b \in Seq(Octets)
BY CommandsAssumption, SMT

LEMMA AttributesFields ==
  ASSUME NEW id, NEW params, NEW oid, NEW x, x = Attributes(id, params, oid)
  PROVE  x.id = id /\ x.params = params /\ x.oid = oid
BY DEF Attributes

LEMMA AttributesReadBack ==
  ASSUME NEW b \in AttributeBytes, ~IsFailed(attributes_from_bytes(b))
  PROVE  attributes_to_bytes(attributes_from_bytes(b)) = AttributesKept(b)
<1>1. b \in Seq(Octets) /\ Len(b) \in Nat
  BY AttributesTyped, LenProperties
<1>3. IsFailed(Failed)
  BY DEF IsFailed, Failed
<1>4. b # <<>>
  BY <1>3, Zenon DEF attributes_from_bytes
<1>5. CASE b[1] = RSA
  <2>0. Len(b) >= 6
    BY <1>3, <1>4, <1>5, Zenon DEF attributes_from_bytes
  <2>1. attributes_from_bytes(b) = Attributes(RSA, SubSeq(b, 2, 6), <<>>)
    BY <1>3, <1>4, <1>5, Zenon DEF attributes_from_bytes
  <2>4. SubSeq(b, 1, 6) = <<b[1]>> \o SubSeq(b, 2, 6)
    BY <1>1, <2>0
  <2>5. attributes_to_bytes(attributes_from_bytes(b)) = <<RSA>> \o SubSeq(b, 2, 6)
    <3> DEFINE p == SubSeq(b, 2, 6)
               q == <<>>
               id == RSA
               x == Attributes(id, p, q)
    <3>0. x = Attributes(id, p, q)
      BY Zenon
    <3> HIDE DEF p, q, x, id
    <3>1. x.id = id /\ x.params = p
      BY <3>0, AttributesFields
    <3>2. attributes_to_bytes(x) = <<RSA>> \o SubSeq(b, 2, 6)
      BY <3>1 DEF attributes_to_bytes, p, id
    <3> QED
      BY <2>1, <3>2, Zenon DEF x, p, q, id
  <2> QED
    BY <1>5, <2>4, <2>5, Zenon DEF AttributesKept
<1>6. CASE b[1] # RSA
  <2>1. attributes_from_bytes(b) = Attributes(b[1], <<0, 0, 0, 0, 0>>, Tail(b))
    BY <1>3, <1>4, <1>6, Zenon DEF attributes_from_bytes
  <2>2. attributes_to_bytes(attributes_from_bytes(b)) = <<b[1]>> \o Tail(b)
    <3> DEFINE p == <<0, 0, 0, 0, 0>>
               q == Tail(b)
               id == b[1]
               x == attributes_from_bytes(b)
    <3>0. x = Attributes(id, p, q)
      BY <2>1, Zenon
    <3> HIDE DEF p, q, x, id
    <3>1. x.id = id /\ x.oid = q
      BY <3>0, AttributesFields
    <3>2. attributes_to_bytes(x) = <<b[1]>> \o Tail(b)
      BY <1>6, <3>1 DEF attributes_to_bytes, q, id
    <3> QED
      BY <3>2, Zenon DEF x
  <2>3. b = <<b[1]>> \o Tail(b)
    BY <1>1, <1>4
  <2> QED
    BY <1>6, <2>2, <2>3, Zenon DEF AttributesKept
<1> QED
  BY <1>5, <1>6

\* The request that the applet serves is the one for this slot.
LEMMA KeyRequest ==
  ASSUME Sent, Arrived(71), NEW s \in Slots, Command.data[1] = CrtTag(s)
  PROVE  /\ request.slot = s
         /\ Command.header[3] = 128 => request.kind = "generate"
         /\ Command.header[3] = 129 => request.kind = "read"
<1>1. Command = request.cmd /\ AskedAs(request) /\ request.cmd.header[2] = 71
  BY ArrivedIs
<1>2. AsGenerate(request) \/ AsRead(request)
  BY <1>1, ByInstruction
<1>3. request.slot \in Slots /\ request.cmd.data[1] = CrtTag(request.slot)
  BY <1>2, Zenon DEF AsGenerate, AsRead
<1>4. request.slot = s
  BY <1>1, <1>3, TagsApart, Zenon
<1>5. AsGenerate(request) => request.kind = "generate" /\ request.cmd.header[3] = 128
  BY DEF AsGenerate
<1>6. AsRead(request) => request.kind = "read" /\ request.cmd.header[3] = 129
  BY DEF AsRead
<1> DEFINE p == request.cmd.header[3]
<1>7. \/ request.kind = "generate" /\ p = 128
      \/ request.kind = "read" /\ p = 129
  BY <1>2, <1>5, <1>6, Zenon
<1>8. Command.header[3] = p
  BY <1>1, Zenon
<1> HIDE DEF p
<1>9. /\ Command.header[3] = 128 => request.kind = "generate"
      /\ Command.header[3] = 129 => request.kind = "read"
  BY <1>7, <1>8
<1> QED
  BY <1>4, <1>9, Zenon

LEMMA GenerateFaithful ==
  ASSUME Sent, AreSlots(slot), AreKept(held, slot), NEW s \in Slots, Generate(s)
  PROVE  Faithful(request, reply', slot', held')
<1> DEFINE r == request
           a == reply'
           f == slot'
           h == held'
<1>1. r.slot = s /\ r.kind = "generate"
  BY KeyRequest, ZenonT(40) DEF Generate
<1> HIDE DEF r, a, f, h
<1>2. r.kind # "import" /\ r.kind # "list" /\ r.kind # "read" /\ r.kind # "attributes"
  BY <1>1
<1>3. ImportAnswer(r, a, f) /\ AttributesAnswer(r, a, f)
  BY <1>2, Zenon DEF ImportAnswer, AttributesAnswer
<1>4. ASSUME a.sw # "9000" PROVE Faithful(r, a, f, h)
  BY <1>2, <1>3, <1>4, Zenon DEF Faithful, KeyAnswer, NewKeyAnswer
<1>5. ASSUME a = Refused("6A81") \/ a = Refused("6400") PROVE Faithful(r, a, f, h)
  <2>1. "6A81" # "9000" /\ "6400" # "9000"
    OBVIOUS
  <2> QED
    BY <1>4, <1>5, <2>1, RefusedFields, Zenon
<1>6. ASSUME NEW pair \in KeyPairs(slot[s].alg), NEW new, new = WithPair(slot[s], pair), Generated(s, pair, new)
      PROVE  Faithful(r, a, f, h)
  <2> DEFINE x == Known(new.alg, Secret(new.alg, pair.private), pair.elements)
             k == slot[s]
             m == Holding(k, pair.private, pair.public)
  <2>1. f = [slot EXCEPT ![s] = new] /\ h = [held EXCEPT ![s] = x] /\ a = PublicAnswer(new)
    BY <1>6, Zenon DEF Generated, Answer, a, f, h
  <2>2. IsSlot(k) /\ IsPublic(new.alg, new.public, pair.elements)
    BY <1>6, PairKnown, Zenon DEF AreSlots
  <2>3. AnswersWith(a, pair.elements)
    BY <2>1, <2>2, PublicRead, Zenon
  <2>4. x.public = pair.elements
    BY KnownFields
  <2>5. HasKey(new)
    <3>1. pair.private \in Seq(Octets) /\ pair.public \in Seq(Octets)
      BY <1>6, PairsTyped, Zenon
    <3>2. IsSlot(m) /\ m.alg = k.alg /\ m.public = pair.public
      BY <2>2, <3>1, SlotPair
    <3>3. new = [m EXCEPT !.fingerprint = FingerprintOf(m)]
      BY <1>6, Zenon DEF WithPair, WithFingerprint
    <3>4. IsPublic(m.alg, m.public, pair.elements)
      BY <1>6, <3>2, PairKept, Zenon
    <3>5. CanGenerate(k.alg)
      BY <1>6, Zenon DEF KeyPairs, CanGenerate
    <3>6. FingerprintOf(m) \notin {Zeros, NoFingerprint}
      BY <3>2, <3>4, <3>5, FingerprintCounts, Zenon
    <3> DEFINE print == FingerprintOf(m)
    <3> HIDE DEF m, print
    <3>7. new.fingerprint = print
      BY <3>2, <3>3, SlotFingerprint DEF print
    <3> QED
      BY <3>6, <3>7, Zenon DEF HasKey, print
  <2>6. f[s] = new
    BY <2>1, Updated DEF AreSlots
  <2>7. h[s] = x
    <3> HIDE DEF x
    <3> QED
      BY <2>1, Updated DEF AreKept
  <2> HIDE DEF x
  <2>8. PublicKeyIn(a, h[r.slot].public)
    BY <1>1, <2>3, <2>4, <2>7, Zenon DEF AnswersWith, PublicKeyIn
  <2>9. KeyAnswer(r, a, f, h) /\ NewKeyAnswer(r, a, f)
    BY <1>1, <1>2, <2>5, <2>6, <2>8, Zenon DEF KeyAnswer, NewKeyAnswer
  <2> QED
    BY <1>3, <2>9, Zenon DEF Faithful
<1>7. \/ a = Refused("6A81") \/ a = Refused("6400")
      \/ \E pair \in KeyPairs(slot[s].alg) : Generated(s, pair, WithPair(slot[s], pair))
  BY Zenon DEF Generate, AnswerOnly, Answer, a
<1> QED
  BY <1>5, <1>6, <1>7, Zenon DEF r, a, f, h

LEMMA ReadFaithful ==
  ASSUME Sent, AreKept(held, slot), NEW s \in Slots, ReadPublicKey(s)
  PROVE  Faithful(request, reply', slot, held)
<1> DEFINE r == request
           a == reply'
           k == slot[s]
           x == held[s]
<1>1. r.slot = s /\ r.kind = "read"
  BY KeyRequest, ZenonT(40) DEF ReadPublicKey
<1>2. a = PublicAnswer(k)
  BY Zenon DEF ReadPublicKey, AnswerOnly, Answer
<1>3. KeyOf(x, k)
  BY Zenon DEF AreKept
<1> HIDE DEF r, a, k, x
<1>4. r.kind # "import" /\ r.kind # "list" /\ r.kind # "generate" /\ r.kind # "attributes"
  BY <1>1
<1>5. ASSUME x # Nothing, x.alg = k.alg PROVE a.sw = "9000" /\ PublicKeyIn(a, x.public)
  <2>1. IsPublic(k.alg, k.public, x.public)
    BY <1>3, <1>5, Zenon DEF KeyOf
  <2>2. AnswersWith(a, x.public)
    BY <1>2, <2>1, PublicRead, Zenon
  <2> QED
    BY <2>2, Zenon DEF AnswersWith, PublicKeyIn
<1>6. KeyAnswer(r, a, slot, held)
  BY <1>1, <1>5, Zenon DEF KeyAnswer, k, x
<1>7. ImportAnswer(r, a, slot) /\ NewKeyAnswer(r, a, slot) /\ AttributesAnswer(r, a, slot)
  BY <1>4, Zenon DEF ImportAnswer, NewKeyAnswer, AttributesAnswer
<1> QED
  BY <1>6, <1>7, Zenon DEF Faithful, r, a

LEMMA PutDataFaithful ==
  ASSUME Sent, AreSlots(slot), NEW s \in Slots, PutData(s), NEW h
  PROVE  Faithful(request, reply', slot', h)
<1> DEFINE r == request
           a == reply'
           f == slot'
           read == attributes_from_bytes(Command.data)
<1>1. Command = r.cmd /\ AskedAs(r) /\ r.cmd.header[2] = 218
  BY ArrivedIs DEF PutData
<1>2. AsAttributes(r) \/ AsFingerprint(r)
  BY <1>1, ByInstruction
<1>3. \/ /\ Parameters = <<0, AttributesTag(s)>>
         /\ a.sw # "9000" \/ (~IsFailed(read) /\ f = [slot EXCEPT ![s].alg = read])
      \/ Parameters = <<0, FingerprintTag(s)>>
  <2>1. "6A80" # "9000"
    OBVIOUS
  <2>2. \/ /\ Parameters = <<0, AttributesTag(s)>>
           /\ a = Refused("6A80") \/ (~IsFailed(read) /\ f = [slot EXCEPT ![s].alg = read])
        \/ Parameters = <<0, FingerprintTag(s)>>
    BY Zenon DEF PutData, Answer
  <2> QED
    BY <2>1, <2>2, RefusedFields, Zenon
<1>4. r.kind # "import" /\ r.kind # "list" /\ r.kind # "generate" /\ r.kind # "read"
  <2>1. r.kind = "attributes" \/ r.kind = "fingerprint"
    BY <1>2, Zenon DEF AsAttributes, AsFingerprint
  <2> QED
    BY <2>1
<1>5. ASSUME r.kind = "attributes", a.sw = "9000"
      PROVE  attributes_to_bytes(f[r.slot].alg) = AttributesKept(r.cmd.data)
  <2>1. "attributes" # "fingerprint"
    OBVIOUS
  <2>2. AsAttributes(r)
    BY <1>2, <1>5, <2>1, Zenon DEF AsFingerprint
  <2>3. r.slot \in Slots /\ Command.header[4] = AttributesTag(r.slot) /\ r.cmd.data \in AttributeBytes
    BY <1>1, <2>2, Zenon DEF AsAttributes
  <2>4. \A x, y : <<Command.header[3], Command.header[4]>> = <<x, y>> => Command.header[4] = y
    OBVIOUS
  <2>5. Parameters # <<0, FingerprintTag(s)>>
    BY <2>3, <2>4, ObjectTagsApart, Zenon DEF Parameters
  <2>6. Parameters = <<0, AttributesTag(s)>> /\ ~IsFailed(read) /\ f = [slot EXCEPT ![s].alg = read]
    BY <1>3, <1>5, <2>5, Zenon
  <2>7. r.slot = s
    BY <2>3, <2>4, <2>6, ObjectTagsApart, Zenon DEF Parameters
  <2> DEFINE m == [slot[s] EXCEPT !.alg = read]
  <2>8. f = [slot EXCEPT ![s] = m]
    BY <2>6, Zenon
  <2>9. m.alg = read
    <3>1. IsSlot(slot[s])
      BY Zenon DEF AreSlots
    <3> HIDE DEF read
    <3> QED
      BY <3>1, SlotAlg
  <2> HIDE DEF m
  <2>10. f[s] = m
    <3> HIDE DEF f
    <3> QED
      BY <2>8, Updated DEF AreSlots
  <2>11. attributes_to_bytes(read) = AttributesKept(r.cmd.data)
    BY <1>1, <2>3, <2>6, AttributesReadBack, Zenon
  <2> QED
    BY <2>7, <2>9, <2>10, <2>11, Zenon
<1> HIDE DEF r, a, f
<1>6. ImportAnswer(r, a, f) /\ KeyAnswer(r, a, f, h) /\ NewKeyAnswer(r, a, f)
  BY <1>4, Zenon DEF ImportAnswer, KeyAnswer, NewKeyAnswer
<1> QED
  BY <1>5, <1>6, Zenon DEF Faithful, AttributesAnswer, r, a, f

-----------------------------------------------------------------------------
(* Every answer tells the truth. *)

\* A loop runs for a signature only, and its command is still to be answered.
Signing == euclid # Nothing => wire # <<>> /\ AsSign(request)

LEMMA SignSilent == \A r : AsSign(r) => ~Telling(r.kind)
<1>1. \A r : AsSign(r) => r.kind = "sign"
  BY DEF AsSign
<1>2. ~Telling("sign")
  BY DEF Telling
<1> QED
  BY <1>1, <1>2, Zenon

LEMMA HostTells ==
  ASSUME Sent, Host, Signing, Told
  PROVE  Signing' /\ Told'
<1>1. Underway' /\ euclid' = euclid
  BY HostSends, HostKeeps, Zenon
<1>2. Told'
  <2>1. CASE wire' # <<>>
    BY <2>1, Zenon DEF Told
  <2>2. CASE request' = NoRequest \/ request' = Plain("broken", "none")
    <3>1. ~Telling(request'.kind)
      BY <2>2, FixedSilent, Zenon
    <3>2. Faithful(request', reply', slot', held')
      BY <3>1, SilentFaithful
    <3> QED
      BY <3>2, Zenon DEF Told
  <2> QED
    BY <1>1, <2>1, <2>2, Zenon DEF Underway
<1>3. euclid = Nothing
  BY HostKeeps, Zenon DEF Signing
<1>4. Signing'
  BY <1>1, <1>3, Zenon DEF Signing
<1> QED
  BY <1>2, <1>4

LEMMA CardTells ==
  ASSUME Sent, AreSlots(slot), HeldInv, Signing, Told, Card
  PROVE  Signing' /\ Told'
<1>0. AreKept(held, slot)
  BY Zenon DEF HeldInv, AreKept
<1>1. request' = request /\ (wire' = wire \/ wire' = <<>>)
  BY CardKeeps
\* Two ways to go on: the command is answered, or still on the wire.
<1>2. ASSUME Faithful(request, reply', slot', held'), euclid' = Nothing
      PROVE  Signing' /\ Told'
  BY <1>1, <1>2, Zenon DEF Signing, Told
<1>3. ASSUME wire # <<>>, wire' = wire, AsSign(request)
      PROVE  Signing' /\ Told'
  BY <1>1, <1>3, Zenon DEF Signing, Told
<1>4. ASSUME ~Telling(request.kind), euclid' = Nothing
      PROVE  Signing' /\ Told'
  BY <1>2, <1>4, SilentFaithful
<1>5. ASSUME NEW ins, Arrived(ins), ins # 71, ins # 218, ins # 219, euclid' = euclid
      PROVE  Signing' /\ Told'
  <2>1. AskedAs(request) /\ Command = request.cmd /\ Command.header[2] = ins
    BY <1>5, ArrivedIs
  <2>2. request.cmd.header[2] = ins
    BY <2>1, Zenon
  <2>3. ~Telling(request.kind)
    BY <1>5, <2>1, <2>2, OtherSilent, Zenon
  <2>4. euclid' = Nothing
    BY <1>5, Zenon DEF Arrived
  <2> QED
    BY <1>4, <2>3, <2>4, Zenon
<1>6. CASE Malformed
  <2>1. wire # <<>> /\ IsError(Command) /\ euclid' = Nothing
    BY <1>6, Zenon DEF Malformed, AnswerOnly
  <2>2. request = Plain("broken", "none")
    BY <2>1, WireParses, Zenon
  <2>3. ~Telling(request.kind)
    BY <2>2, FixedSilent, Zenon
  <2> QED
    BY <1>4, <2>1, <2>3, Zenon
<1>7. CASE PutDataOdd
  <2> DEFINE done == handle_key_import(Command.data)
  <2>1. Arrived(219) /\ Imported(done)
    BY <1>7, Zenon DEF PutDataOdd
  <2>2. Faithful(request, Refused(done.sw), done.slot, held')
    BY <2>1, ImportFaithful
  <2> HIDE DEF done
  <2>3. reply' = Refused(done.sw) /\ slot' = done.slot /\ euclid' = Nothing
    BY <2>1, Zenon DEF Imported, Answer, Arrived
  <2> QED
    BY <1>2, <2>2, <2>3, Zenon
<1>8. ASSUME NEW s \in Slots, PutData(s)
      PROVE  Signing' /\ Told'
  <2>1. Faithful(request, reply', slot', held')
    BY <1>8, PutDataFaithful, Zenon
  <2>2. euclid' = Nothing
    BY <1>8, Zenon DEF PutData, Arrived
  <2> QED
    BY <1>2, <2>1, <2>2, Zenon
<1>9. ASSUME NEW s \in Slots, GetData(s)
      PROVE  Signing' /\ Told'
  <2> DEFINE ins == 202
  <2>1. Arrived(ins) /\ euclid' = euclid
    BY <1>9, Zenon DEF GetData, AnswerOnly
  <2>2. ins # 71 /\ ins # 218 /\ ins # 219
    OBVIOUS
  <2> HIDE DEF ins
  <2> QED
    BY <1>5, <2>1, <2>2, Zenon
<1>10. ASSUME NEW s \in Slots, Generate(s)
       PROVE  Signing' /\ Told'
  <2>1. Faithful(request, reply', slot', held')
    BY <1>0, <1>10, GenerateFaithful, Zenon
  <2>2. euclid' = Nothing
    BY <1>10, Zenon DEF Generate, Generated, AnswerOnly, Arrived
  <2> QED
    BY <1>2, <2>1, <2>2, Zenon
<1>11. ASSUME NEW s \in Slots, ReadPublicKey(s)
       PROVE  Signing' /\ Told'
  <2>1. Faithful(request, reply', slot, held)
    BY <1>0, <1>11, ReadFaithful, Zenon
  <2>2. slot' = slot /\ held' = held /\ euclid' = Nothing
    BY <1>11, Zenon DEF ReadPublicKey, AnswerOnly, Arrived
  <2> QED
    BY <1>2, <2>1, <2>2, Zenon
<1>12. CASE UnknownInstruction
  <2>1. PICK x \in Headers : Arrived(x[2])
    BY <1>12, Zenon DEF UnknownInstruction
  <2>2. x[2] # 71 /\ x[2] # 218 /\ x[2] # 219
    BY CommandsAssumption, SMT
  <2>3. euclid' = euclid
    BY <1>12, Zenon DEF UnknownInstruction, AnswerOnly
  <2> QED
    BY <1>5, <2>1, <2>2, <2>3, Zenon
<1>13. CASE SignBegins
  <2>1. Arrived(42) /\ wire # <<>>
    BY <1>13, Zenon DEF SignBegins, Arrived
  <2>2. AsSign(request)
    <3>1. AskedAs(request) /\ request.cmd.header[2] = 42
      BY <2>1, ArrivedIs
    <3> QED
      BY <3>1, ByInstruction
  <2>3. euclid' = euclid \/ wire' = wire
    BY <1>13, Zenon DEF SignBegins, DecodePrivateKey, AnswerOnly
  <2>4. euclid = Nothing
    BY <2>1, Zenon DEF Arrived
  <2> QED
    BY <1>3, <1>4, <2>1, <2>2, <2>3, <2>4, SignSilent, Zenon
<1>14. CASE InverseStep
  <2>1. euclid # Nothing /\ wire' = wire
    BY <1>14, Zenon DEF InverseStep
  <2> QED
    BY <1>3, <2>1, Zenon DEF Signing
<1>15. CASE SignEnds
  <2>1. euclid # Nothing /\ euclid' = Nothing
    BY <1>15, Zenon DEF SignEnds
  <2>2. ~Telling(request.kind)
    BY <2>1, SignSilent, Zenon DEF Signing
  <2> QED
    BY <1>4, <2>1, <2>2, Zenon
<1> QED
  BY <1>6, <1>7, <1>8, <1>9, <1>10, <1>11, <1>12, <1>13, <1>14, <1>15, Zenon DEF Card

-----------------------------------------------------------------------------
(* The two promises of the slots. *)

\* The bytes of the slots, what the host was told to be in them, and that the
\* answer that is out was faithful.
ImportInv == TransferInv /\ HeldInv /\ Signing /\ Told

LEMMA ImportStarts == Init => ImportInv
<1> SUFFICES ASSUME Init PROVE ImportInv
  OBVIOUS
<1>1. TransferInv /\ HeldInv
  BY TransferStarts, HeldStarts, Zenon
<1>2. euclid = Nothing /\ request = NoRequest
  BY Zenon DEF Init
<1>3. Signing
  BY <1>2, Zenon DEF Signing
<1>4. Faithful(request, reply, slot, held)
  BY <1>2, FixedSilent, SilentFaithful, Zenon
<1> QED
  BY <1>1, <1>3, <1>4, Zenon DEF ImportInv, Told

LEMMA ImportKept == ImportInv /\ [Next]_vars => ImportInv'
<1> SUFFICES ASSUME ImportInv, [Next]_vars PROVE ImportInv'
  OBVIOUS
<1>0. TransferInv /\ Sent /\ AreSlots(slot) /\ HeldInv /\ Signing /\ Told
  BY Zenon DEF ImportInv, TransferInv
<1>1. TransferInv' /\ HeldInv'
  BY <1>0, TransferKept, HeldKept, Zenon
<1>2. CASE Host
  BY <1>0, <1>1, <1>2, HostTells, Zenon DEF ImportInv
<1>3. CASE Card
  BY <1>0, <1>1, <1>3, CardTells, Zenon DEF ImportInv
<1>4. CASE UNCHANGED vars
  <2>1. wire' = wire /\ slot' = slot /\ reply' = reply /\ euclid' = euclid /\ request' = request /\ held' = held
    BY <1>4, Zenon DEF vars
  <2>2. Signing' /\ Told'
    BY <1>0, <2>1, Zenon DEF Signing, Told
  <2> QED
    BY <1>1, <2>2, Zenon DEF ImportInv
<1> QED
  BY <1>2, <1>3, <1>4, Zenon DEF Next

LEMMA AnsweredIs ==
  ASSUME Told
  PROVE  /\ Answered({"import"}) \/ Answered({"list"}) => ImportAnswer(request, reply, slot)
         /\ Answered({"generate", "read"}) => KeyAnswer(request, reply, slot, held)
         /\ Answered({"generate"}) => NewKeyAnswer(request, reply, slot)
         /\ Answered({"attributes"}) => AttributesAnswer(request, reply, slot)
BY Zenon DEF Told, Faithful, Answered

\* What an import takes, for all keys and lists of a host, wherever they are cut
\* and whatever attributes the slots were given in between: an RSA slot answers
\* 9000 to a whole header list with an RSA key and to no other, the slot of a curve
\* only when a whole 5F48 of the size of its scalars arrived, and what
\* decode_private_key finds in a slot is what the host sent for it.
THEOREM ImportAlwaysWhole == Spec => []ImportIsWhole
<1>1. ImportInv => ImportIsWhole
  <2> SUFFICES ASSUME ImportInv PROVE ImportIsWhole
    OBVIOUS
  <2>1. Told /\ HeldInv
    BY Zenon DEF ImportInv
  <2>2. \A s \in Slots : held[s] # Nothing => Secret(held[s].alg, slot[s].private) = held[s].secret
    BY <2>1, Zenon DEF HeldInv, KeyOf
  <2>3. ASSUME Answered({"import"})
        PROVE  LET alg == slot[request.slot].alg
               IN IF alg.id = RSA THEN reply.sw = "9000" <=> Whole /\ IsRsaKey(request.key)
                  ELSE reply.sw = "9000" => Len(request.bytes) = ScalarSize(alg)
    <3>1. ImportAnswer(request, reply, slot) /\ request.kind = "import"
      BY <2>1, <2>3, AnsweredIs, Zenon DEF Answered
    <3> QED
      BY <3>1, Zenon DEF ImportAnswer, WholeKey, Whole
  <2>4. ASSUME Answered({"list"}), reply.sw = "9000"
        PROVE  request.list[1].tag = 77
    <3>1. ImportAnswer(request, reply, slot) /\ request.kind = "list"
      BY <2>1, <2>4, AnsweredIs, Zenon DEF Answered
    <3> QED
      BY <2>4, <3>1, Zenon DEF ImportAnswer
  <2> QED
    BY <2>2, <2>3, <2>4, Zenon DEF ImportIsWhole
<1> QED
  BY <1>1, ImportStarts, ImportKept, PTL DEF Spec

\* A slot gives back what it was given: GENERATE and READ answer the public key
\* of the key in the slot while it has the attributes the key was made for, a
\* generated key has a fingerprint, and attributes are read as written, those of
\* RSA up to their sixth byte, behind which the card keeps nothing.
THEOREM SlotAlwaysReadsBack == Spec => []SlotReadsBack
<1>1. ImportInv => SlotReadsBack
  <2> SUFFICES ASSUME Told PROVE SlotReadsBack
    BY Zenon DEF ImportInv
  <2>1. ASSUME Answered({"generate", "read"})
        PROVE  LET s == request.slot
                   list == read_list(reply.data)
               IN held[s] # Nothing /\ held[s].alg = slot[s].alg =>
                    /\ request.kind = "read" => reply.sw = "9000"
                    /\ reply.sw = "9000" =>
                         Len(list) = 1 /\ list[1].tag = PublicKeyTag /\ list[1].subs = held[s].public
    <3>1. KeyAnswer(request, reply, slot, held) /\ (request.kind = "generate" \/ request.kind = "read")
      BY <2>1, AnsweredIs, Zenon DEF Answered
    <3> QED
      BY <3>1, Zenon DEF KeyAnswer, PublicKeyIn
  <2>2. Answered({"generate"}) /\ reply.sw = "9000" => HasKey(slot[request.slot])
    <3>1. Answered({"generate"}) => NewKeyAnswer(request, reply, slot) /\ request.kind = "generate"
      BY AnsweredIs, Zenon DEF Answered
    <3> QED
      BY <3>1, Zenon DEF NewKeyAnswer
  <2>3. Answered({"attributes"}) /\ reply.sw = "9000" =>
          attributes_to_bytes(slot[request.slot].alg) = AttributesKept(request.cmd.data)
    <3>1. Answered({"attributes"}) => AttributesAnswer(request, reply, slot) /\ request.kind = "attributes"
      BY AnsweredIs, Zenon DEF Answered
    <3> QED
      BY <3>1, Zenon DEF AttributesAnswer
  <2> QED
    BY <2>1, <2>2, <2>3, Zenon DEF SlotReadsBack
<1> QED
  BY <1>1, ImportStarts, ImportKept, PTL DEF Spec
===============================================================================
