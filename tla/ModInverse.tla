----------------------------- MODULE ModInverse -----------------------------
(***************************************************************************)
(* RsaOperations::mod_inverse (crypto/rsa.rs): the extended Euclidean      *)
(* algorithm on unsigned numbers, with the sign of s kept apart.  A state  *)
(* x of the loop, its step and its result.                                 *)
(***************************************************************************)
EXTENDS Integers

EuclidStart(a, m) ==
  [a |-> a, m |-> m, old_r |-> m, r |-> a, old_s |-> 0, s |-> 1, old_neg |-> FALSE, neg |-> FALSE]

\* old_s - quotient * s, as a magnitude and a sign.
SignedDifference(x, qs) ==
  IF x.old_neg = x.neg
  THEN IF x.old_s >= qs THEN [s |-> x.old_s - qs, neg |-> x.old_neg]
       ELSE [s |-> qs - x.old_s, neg |-> ~x.old_neg]
  ELSE [s |-> x.old_s + qs, neg |-> x.old_neg]

EuclidDone(x) == x.r = 0

EuclidStep(x) ==
  LET quotient == x.old_r \div x.r
      new == SignedDifference(x, quotient * x.s)
  IN [x EXCEPT !.old_r = x.r, !.r = x.old_r - quotient * x.r,
               !.old_s = x.s, !.s = new.s, !.old_neg = x.neg, !.neg = new.neg]

NoInverse == [none |-> TRUE]

\* Mutant: the sign is forgotten at the end.
UnsignedResult(x) == IF x.old_r # 1 THEN NoInverse ELSE [d |-> x.old_s]

EuclidResult(x) ==
  IF x.old_r # 1 THEN NoInverse ELSE [d |-> IF x.old_neg THEN x.m - x.old_s ELSE x.old_s]

-----------------------------------------------------------------------------
(* What the loop keeps. *)

Signed(neg, n) == IF neg THEN 0 - n ELSE n

\* Every remainder is its coefficient times a, modulo m.
Congruent(x) ==
  /\ (Signed(x.old_neg, x.old_s) * x.a - x.old_r) % x.m = 0
  /\ (Signed(x.neg, x.s) * x.a - x.r) % x.m = 0

\* The magnitudes of the coefficients, weighted by the remainders across, add
\* up to m.  So none outgrows m, and m - old_s never goes below zero.
Bounded(x) ==
  /\ x.s * x.old_r + x.old_s * x.r = x.m
  /\ x.old_s <= x.m
  /\ x.old_neg = x.neg => x.old_s = 0 \/ x.s = 0

\* What mod_inverse promises for a modulus above zero: in every turn that the
\* remainders are congruent to their coefficients and those are bounded, at the
\* end that there is a result exactly when a and m have no common divisor, that
\* it is not above m and that it inverts a.
Coprime(a, m) == \A d \in 2..m : a % d # 0 \/ m % d # 0
InverseOf(result, a, m) == result.d \in 0..m /\ (result.d * a - 1) % m = 0

RightInverse(x) ==
  /\ Congruent(x) /\ Bounded(x)
  /\ EuclidDone(x) =>
       /\ Coprime(x.a, x.m) <=> EuclidResult(x) # NoInverse
       /\ EuclidResult(x) # NoInverse => InverseOf(EuclidResult(x), x.a, x.m)
=============================================================================
