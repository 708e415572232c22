-------------------------- MODULE CipherReference ---------------------------
(***************************************************************************)
(* AES as its standard (FIPS 197) and the modes as theirs (NIST SP         *)
(* 800-38A) define them: the reference for module Aes.  It has no tables:  *)
(* the S-box is the inverse in GF(2^8) and an affine map, a round is its   *)
(* four transformations one after the other.                               *)
(***************************************************************************)
EXTENDS Bytes

\* Multiplication in GF(2^8), by powers of the polynomial x and addition.
Times(a, b) ==
  LET xb[i \in 0..7] == IF i = 0 THEN b ELSE LET y == xb[i - 1] IN Xor((2 * y) % 256, IF y > 127 THEN 27 ELSE 0)
      sum[i \in 0..7] == LET t == Bit(a, i) * xb[i] IN IF i = 0 THEN t ELSE Xor(sum[i - 1], t)
  IN  sum[7]

\* Bit i of an entry is the sum of bits i, i+4, ..., i+7 of the inverse, and of bit i of 63 (hexadecimal).
Affine(b) ==
  SumOf([j \in 1..8 |-> LET i == j - 1 IN 2^i * ((Bit(b, i) + Bit(b, (i + 4) % 8) + Bit(b, (i + 5) % 8) + Bit(b, (i + 6) % 8)
                                                   + Bit(b, (i + 7) % 8) + Bit(99, i)) % 2)])
SBox == Table([a \in Byte |-> Affine(IF a = 0 THEN 0 ELSE CHOOSE b \in 1..255 : Times(a, b) = 1)])
InvSBox == Table([y \in Byte |-> CHOOSE a \in Byte : Entry(SBox, a) = y])

\* The key expansion for a key of Len(key) / 4 words, as the sequence of all words.
KeyExpansion(key) ==
  LET Nk == Len(key) \div 4
      Rcon[j \in 1..10] == IF j = 1 THEN 1 ELSE Times(2, Rcon[j - 1])
      SubWord(v) == Buffer(4, [k \in 1..4 |-> Entry(SBox, v[k])])
      w[i \in 0 .. 4 * (Nk + 7) - 1] ==
        LET s == w[i - 1]
            v == s[i]
        IN  IF i < Nk THEN (IF i = 0 THEN <<>> ELSE s) \o << SubSeq(key, 4 * i + 1, 4 * i + 4) >>
            ELSE Append(s, WXor(s[i - Nk + 1],
                   CASE i % Nk = 0 -> WXor(SubWord(<<v[2], v[3], v[4], v[1]>>), <<Rcon[i \div Nk], 0, 0, 0>>)
                     [] Nk > 6 /\ i % Nk = 4 -> SubWord(v)
                     [] OTHER -> v))
  IN  w[4 * (Nk + 7) - 1]

\* The transformations of a state, the sequence of its columns.
OnBytes(st, T) == Buffer(4, [c \in 1..4 |-> Buffer(4, [r \in 1..4 |-> Entry(T, st[c][r])])])
ShiftRows(st, d) == Buffer(4, [c \in 1..4 |-> Buffer(4, [r \in 1..4 |-> st[((c - 1 + d * (r - 1)) % 4) + 1][r]])])
MixColumns(st, m) ==
  Buffer(4, [c \in 1..4 |-> Buffer(4, [r \in 1..4 |->
    LET term(k) == Times(m[((k - r + 4) % 4) + 1], st[c][k]) IN Xor(Xor(term(1), term(2)), Xor(term(3), term(4)))])])
AddRoundKey(st, w, r) == Buffer(4, [c \in 1..4 |-> WXor(st[c], w[4 * r + c])])

Columns(input) == Buffer(4, [c \in 1..4 |-> SubSeq(input, 4 * c - 3, 4 * c)])
Flat(st) == st[1] \o st[2] \o st[3] \o st[4]

\* The states after each round, first to last, and the last one.
Cipher(w, input) ==
  LET Nr == (Len(w) \div 4) - 1
      after[r \in 0..Nr] ==
        IF r = 0 THEN << AddRoundKey(Columns(input), w, 0) >>
        ELSE LET sts == after[r - 1]
                 shifted == ShiftRows(OnBytes(sts[r], SBox), 1)
             IN  Append(sts, AddRoundKey(IF r < Nr THEN MixColumns(shifted, <<2, 3, 1, 1>>) ELSE shifted, w, r))
  IN  Flat(after[Nr][Nr + 1])

InvCipher(w, input) ==
  LET Nr == (Len(w) \div 4) - 1
      after[r \in 0..Nr] ==
        IF r = 0 THEN << AddRoundKey(Columns(input), w, Nr) >>
        ELSE LET sts == after[r - 1]
                 sum == AddRoundKey(OnBytes(ShiftRows(sts[r], -1), InvSBox), w, Nr - r)
             IN  Append(sts, IF r < Nr THEN MixColumns(sum, <<14, 11, 13, 9>>) ELSE sum)
  IN  Flat(after[Nr][Nr + 1])

\* The modes: ciphertext byte i of the message m, under the block cipher E(_).
BlockOf(s, k) == SubSeq(s, 16 * k + 1, 16 * k + 16)
CbcText(E(_), iv, m) ==
  LET c[k \in 0 .. Len(m) \div 16] == IF k = 0 THEN <<>> ELSE LET p == iv \o c[k - 1]
                                      IN  Rest(p, 16) \o E(WXor(BlockOf(m, k - 1), BlockOf(p, k - 1)))
  IN  c[Len(m) \div 16]
Cfb128Text(E(_), iv, m) ==
  LET c[i \in 0..Len(m)] == IF i = 0 THEN <<>> ELSE LET p == iv \o c[i - 1]
                            IN  Append(Rest(p, 16), Xor(m[i], E(BlockOf(p, (i - 1) \div 16))[((i - 1) % 16) + 1]))
  IN  c[Len(m)]
Cfb8Text(E(_), iv, m) ==
  LET c[i \in 0..Len(m)] == IF i = 0 THEN <<>> ELSE LET p == iv \o c[i - 1]
                            IN  Append(Rest(p, 16), Xor(m[i], E(SubSeq(p, i, i + 15))[1]))
  IN  c[Len(m)]

\* The counter block number k: nonce + k as a number of 16 bytes, the most significant one first.
CounterBlock(nonce, k) ==
  LET rev(s) == Buffer(16, [i \in 1..16 |-> s[17 - i]]) IN rev(WAdd(rev(nonce), WordOf(k, 16)))
CtrText(E(_), nonce, m) ==
  Buffer(Len(m), [i \in 1..Len(m) |-> Xor(m[i], E(CounterBlock(nonce, (i - 1) \div 16))[((i - 1) % 16) + 1])])
-----------------------------------------------------------------------------
(* What the functions of module NaCl are defined to compute: Salsa20 by    *)
(* row and column rounds (Bernstein's specification), Poly1305 as a        *)
(* polynomial modulo 2^130 - 5, and both curves by their affine laws of    *)
(* addition over a prime field.                                            *)

\* Salsa20: quarterround on the four words of the matrix x at the positions is.
QuarterRound(x, is) ==
  LET put(v, k, l, m, n) == [v EXCEPT ![is[k] + 1] = WXor(@, WRotl(WAdd(v[is[l] + 1], v[is[m] + 1]), n))]
  IN  put(put(put(put(x, 2, 1, 4, 7), 3, 2, 1, 9), 4, 3, 2, 13), 1, 4, 3, 18)
DoubleRound(x) ==
  LET step(v, i) == QuarterRound(v, <<<<0, 4, 8, 12>>, <<5, 9, 13, 1>>, <<10, 14, 2, 6>>, <<15, 3, 7, 11>>,
                                      <<0, 1, 2, 3>>, <<5, 6, 7, 4>>, <<10, 11, 8, 9>>, <<15, 12, 13, 14>>>>[i])
  IN  Loop(step, x, 8, Seq(Seq(Byte)))

\* The matrix for key k, 16 bytes n in the middle, and the words of the matrix after 20 rounds.
Expanded(k, n) ==
  LET w(b, i) == SubSeq(b, 4 * i + 1, 4 * i + 4)
  IN  <<<<101, 120, 112, 97>>, w(k, 0), w(k, 1), w(k, 2), w(k, 3), <<110, 100, 32, 51>>, w(n, 0), w(n, 1), w(n, 2), w(n, 3),
        <<50, 45, 98, 121>>, w(k, 4), w(k, 5), w(k, 6), w(k, 7), <<116, 101, 32, 107>> >>
Rounds20(x) == LET step(v, i) == DoubleRound(v) IN Loop(step, x, 10, Seq(Seq(Byte)))
WordsFlat(ws) == Buffer(4 * Len(ws), [i \in 1..4 * Len(ws) |-> ws[((i - 1) \div 4) + 1][((i - 1) % 4) + 1]])
HSalsa20(k, n) == LET z == Rounds20(Expanded(k, n)) IN WordsFlat(<<z[1], z[6], z[11], z[16], z[7], z[8], z[9], z[10]>>)
Salsa20Of(x, z) == WordsFlat(Buffer(16, [i \in 1..16 |-> WAdd(x[i], z[i])]))
Salsa20(k, n) == LET x == Expanded(k, n) IN Salsa20Of(x, Rounds20(x))

\* len bytes of the XSalsa20 stream: block i has i as its counter.
XSalsa20Of(sub, n, len) ==
  Prefix(Loop(LAMBDA s, i : s \o Salsa20(sub, Rest(n, 16) \o WordOf(i - 1, 8)), <<>>, (len + 63) \div 64, Seq(Byte)), len)
XSalsa20(k, n, len) == XSalsa20Of(HSalsa20(k, Prefix(n, 16)), n, len)

\* Numbers as sequences of bytes: v < w, and the product modulo p, bit by bit (p has a byte to spare).
Less(v, w) == \E i \in 1..Len(v) : v[i] < w[i] /\ \A j \in i + 1..Len(v) : v[j] = w[j]
ModAdd(v, w, p) == LET s == WAdd(v, w) IN IF Less(s, p) THEN s ELSE WSub(s, p)
ModMul(v, w, p) ==
  LET n == 8 * Len(w)
      step(s, i) ==
        LET twice == ModAdd(s, s, p)
        IN  IF Bit(w[((n - i) \div 8) + 1], (n - i) % 8) = 1 THEN ModAdd(twice, v, p) ELSE twice
  IN  Loop(step, Zeros(Len(v)), n, Seq(Byte))

\* The tag: the blocks of m, each with a one on top, are the coefficients of a polynomial in r.
Poly1305(m, k) ==
  LET p == <<251>> \o Buffer(15, [i \in 1..15 |-> 255]) \o <<3, 0>>
      mask == <<255, 255, 255, 15, 252, 255, 255, 15, 252, 255, 255, 15, 252, 255, 255, 15>>
      r == WAnd(Prefix(k, 16), mask) \o <<0, 0>>
      block(i) == LET b == SubSeq(m, 16 * i - 15, IF 16 * i < Len(m) THEN 16 * i ELSE Len(m))
                  IN  b \o <<1>> \o Zeros(17 - Len(b))
      step(h, i) == ModMul(r, ModAdd(h, block(i), p), p)
      h == Loop(step, Zeros(18), (Len(m) + 15) \div 16, Seq(Byte))
  IN  Prefix(WAdd(h, SubSeq(k, 17, 32) \o <<0, 0>>), 16)

\* A secretbox without the zeros before it: the tag, then the text under the stream s from byte 32 on.
Tagged(c, k) == Poly1305(c, k) \o c
SealedBy(s, m) == Tagged(WXor(m, Rest(s, 32)), Prefix(s, 32))
Sealed(m, n, k) == SealedBy(XSalsa20(k, n, 32 + Len(m)), m)

\* The field of the prime q, and its inverses by Fermat's theorem.
FMul(a, b, q) == (((a * (b \div 1024)) % q) * 1024 + a * (b % 1024)) % q
FPow(a, e, q) ==
  LET step(v, i) ==
        LET sq == FMul(v, v, q) IN IF Bit(e, 31 - i) = 1 THEN FMul(sq, a, q) ELSE sq
  IN  Loop(step, 1, 31, Int)
FInv(a, q) == FPow(a, q - 2, q)

\* Addition on y^2 = x^3 + c x^2 + x; <<>> is the point at infinity.
MontgomeryAdd(P, Q, c, q) ==
  LET slope == IF P = Q THEN FMul(3 * FMul(P[1], P[1], q) + FMul(2 * c, P[1], q) + 1, FInv((2 * P[2]) % q, q), q)
               ELSE FMul((Q[2] - P[2]) % q, FInv((Q[1] - P[1]) % q, q), q)
      x == (FMul(slope, slope, q) - c - P[1] - Q[1]) % q
  IN  IF P = <<>> THEN Q ELSE IF Q = <<>> THEN P
      ELSE IF P[1] = Q[1] /\ (P[2] + Q[2]) % q = 0 THEN <<>>
      ELSE <<x, (FMul(slope, (P[1] - x) % q, q) - P[2]) % q>>

\* Addition on -x^2 + y^2 = 1 + d x^2 y^2, complete: <<0, 1>> is neutral.
EdwardsAdd(P, Q, d, q) ==
  LET t == FMul(d, FMul(FMul(P[1], Q[1], q), FMul(P[2], Q[2], q), q), q)
  IN  <<FMul((FMul(P[1], Q[2], q) + FMul(P[2], Q[1], q)) % q, FInv((1 + t) % q, q), q),
        FMul((FMul(P[2], Q[2], q) + FMul(P[1], Q[1], q)) % q, FInv((1 - t) % q, q), q)>>

\* k times the point P, by doubling and adding.
Multiple(Sum(_, _), k, P, neutral) ==
  LET step(v, i) == LET v2 == Sum(v, v) IN IF Bit(k, 16 - i) = 1 THEN Sum(v2, P) ELSE v2
  IN  Loop(step, neutral, 16, Seq(Int))
=============================================================================
