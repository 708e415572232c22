----------------------------- MODULE MCHashing ------------------------------
(***************************************************************************)
(* The run of the hash functions and of the generator made of them: one of *)
(* the two programs HmacSession and DrbgSession works, the other waits in  *)
(* its initial state.                                                      *)
(***************************************************************************)
EXTENDS Sha, HmacDrbg

Init == HmacInit /\ DrbgStart
Next ==
  \/ DrbgStart /\ HmacNext /\ UNCHANGED drbgVars
  \/ HmacInit /\ DrbgSteps /\ UNCHANGED hashVars
Spec == Init /\ [][Next]_<<hashVars, drbgVars>>

-----------------------------------------------------------------------------
(* HMAC and HKDF give what RFC 2104 and RFC 5869 say, for keys shorter and *)
(* longer than a block and up to 255 blocks of output.                     *)
TagsAreStandard == TagIsStandard /\ DerivedIsStandard

(* The generator is that of SP 800-90A, also when the entropy source fails *)
(* in the middle of a call, and its buffers are owned by one context.      *)
GeneratorIsStandard == []HeapIsOwned /\ ImplementsStandard
-----------------------------------------------------------------------------
\* The instance that TLC checks.
Pattern(n, k) == Buffer(n, [i \in 1..n |-> (i * k + 3) % 256])
MCSecrets == {Pattern(5, 7), Pattern(65, 11)}
MCText == Pattern(120, 29)
\* Lengths around 2^29 bytes, where the low word of the number of bits overflows, and around 2^61.
MCSizes == {WordOf(0, 8), WordOf(536870911, 8), WordOf(536870912, 8), <<255, 255, 255, 255, 255, 0, 0, 0>>,
            <<1, 0, 0, 0, 0, 0, 0, 32>>}
MCAdditional == {<<>>, <<1, 2>>, <<1, 2, 3>>, <<1, 2, 3, 4>>}

\* Entropy that differs by answer and by length.
MCEntropy(e, len) == Buffer(len, [i \in 1..len |-> (e * i + len) % 256])

\* A keyed hash of four bytes in place of HMAC-SHA256.
SmallHmac(secret, msg) ==
  LET s == secret \o <<Len(msg)>> \o msg
      digest(factor) == Loop(LAMBDA acc, i : (acc * factor + s[i] + 1) % 65521, 1, Len(s), Nat)
      a == digest(31)
      b == digest(257)
  IN  <<a % 256, a \div 256, b % 256, b \div 256>>
=============================================================================
