------------------------------ MODULE Gf25519 -------------------------------
(***************************************************************************)
(* The field of tweetnacl.c: elements are gf, sequences of LIMBS integers  *)
(* (16 in the source) with the weights Radix^(i - 1) (2^16 in the source), *)
(* of either sign and larger than the radix between two carries.  The      *)
(* modulus is 2^Bits25519 - 19, one bit less than the limbs have (255).    *)
(* TLC's integers hold the products of smaller limbs only, so the number   *)
(* and the width of the limbs are parameters; every constant that the      *)
(* source derives from them is derived here in the same way.               *)
(* A packed element is the sequence of its limbs (in the source, of the    *)
(* two bytes of each limb).                                                *)
(***************************************************************************)
EXTENDS CipherReference

CONSTANTS LIMBS, Radix, Bits25519

ASSUME LimbsAssumption ==
  /\ LIMBS \in Nat /\ Radix \in Nat /\ Bits25519 \in Nat
  /\ LIMBS >= 2 /\ Radix >= 32 /\ Radix^LIMBS = 2 * 2^Bits25519

\* A small number as an element: gf0, gf1, _121665, _9.
GfOf(k) == Buffer(LIMBS, [i \in 1..LIMBS |-> (k \div Radix^(i - 1)) % Radix])

A(a, b) == Buffer(LIMBS, [i \in 1..LIMBS |-> a[i] + b[i]])
Z(a, b) == Buffer(LIMBS, [i \in 1..LIMBS |-> a[i] - b[i]])

\* One pass of carries; what leaves the last limb returns to the first 38-fold (2^256 = 38).
car25519(o) ==
  LET step(v, i) ==
        LET c == (v[i] + Radix) \div Radix
        IN  [v EXCEPT ![i] = @ + Radix - c * Radix, ![(i % LIMBS) + 1] = @ + IF i < LIMBS THEN c - 1 ELSE 38 * (c - 1)]
  IN  Loop(step, o, LIMBS, Seq(Int))

\* The product of polynomials, folded and carried.
M(a, b) ==
  LET t(k) == SumOf([i \in 1..LIMBS |-> IF k - i \in 1..LIMBS THEN a[i] * b[k - i] ELSE 0])   \* t[k - 2] of the source
      o == Buffer(LIMBS, [i \in 1..LIMBS |-> t(i + 1) + IF i < LIMBS THEN 38 * t(i + 1 + LIMBS) ELSE 0])
  IN  car25519(car25519(o))
S(a) == M(a, a)

\* p and q, exchanged if b = 1.
sel25519(p, q, b) == IF b = 1 THEN <<q, p>> ELSE <<p, q>>

\* The one packed form of n: carried, and the modulus subtracted twice where that leaves no borrow.
pack25519(n) ==
  LET digit(i) == IF i = 1 THEN Radix - 19 ELSE IF i = LIMBS THEN (Radix \div 2) - 1 ELSE Radix - 1
      borrow(v) == (v \div Radix) % 2
      minus(t) ==
        LET next(m, i) == Append(m, t[i] - digit(i) - IF i = 1 THEN 0 ELSE borrow(m[i - 1]))
        IN  Loop(next, <<>>, LIMBS, Seq(Int))
      step(t, j) ==
        LET m == minus(t)
            masked == Buffer(LIMBS, [i \in 1..LIMBS |-> IF i < LIMBS THEN m[i] % Radix ELSE m[i]])
        IN  sel25519(t, masked, 1 - borrow(m[LIMBS]))[1]
  IN  Loop(step, car25519(car25519(car25519(n))), 2, Seq(Int))

unpack25519(n) == [n EXCEPT ![LIMBS] = @ % (Radix \div 2)]

\* 0 if a and b are the same element, else -1 (crypto_verify_32), and the parity.
neq25519(a, b) == IF pack25519(a) = pack25519(b) THEN 0 ELSE -1
par25519(a) == pack25519(a)[1] % 2

\* Squarings from bit `from` down to bit 0, with a multiplication by i at all bits but those in skipped.
Chain(i, from, skipped) ==
  LET step(c, k) == IF from + 1 - k \in skipped THEN S(c) ELSE M(S(c), i)
  IN  Loop(step, i, from + 1, Seq(Int))
inv25519(i) == Chain(i, Bits25519 - 2, {2, 4})
pow2523(i) == Chain(i, Bits25519 - 5, {1})
-----------------------------------------------------------------------------
(* What the functions of Gf25519 have to compute: arithmetic modulo the    *)
(* prime, for limbs of any number and width.                               *)

NumberOf(digits) == SumOf([i \in 1..Len(digits) |-> digits[i] * Radix^(i - 1)])

\* The operations on the elements Es, whatever carries are outstanding in them, are those of the field, and
\* the packed form of a result is the one number less than the modulus.
LawsHold(Es) ==
  LET q == 2^Bits25519 - 19
      val(a) == NumberOf(a) % q
      is(a, v) == NumberOf(pack25519(a)) = v % q
  IN  \A a \in Es :
        /\ is(inv25519(a), FInv(val(a), q))
        /\ is(pow2523(a), FPow(val(a), (q - 5) \div 8, q))
        /\ \A b \in Es : /\ is(A(a, b), val(a) + val(b)) /\ is(Z(a, b), val(a) - val(b))
                         /\ is(M(a, b), FMul(val(a), val(b), q))
=============================================================================
