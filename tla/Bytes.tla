------------------------------- MODULE Bytes -------------------------------
(***************************************************************************)
(* Bytes and machine words as the C programs compute with them.  A word of *)
(* 32 or 64 bits is the sequence of its bytes, least significant first, as *)
(* it lies in memory on the targets of the repository; TLC's integers have *)
(* no room for an unsigned word.  Every operation on words works for words *)
(* of any length.                                                          *)
(***************************************************************************)
EXTENDS Integers, Sequences

Byte == 0..255

\* Bit i of the number a.
Bit(a, i) == (a \div 2^i) % 2

\* The number whose bits, of eight, are those of a and b combined by f(_, _).
BitOp(f(_, _), a, b) ==
  LET from[i \in 0..8] == IF i = 8 THEN 0 ELSE 2^i * f(Bit(a, i), Bit(b, i)) + from[i + 1] IN from[0]

\* The buffer or word of n items whose i-th is f[i].  (TLC evaluates SubSeq at once, a function when applied.)
Buffer(n, f) == SubSeq(f, 1, n)

\* The table with entry f[x] for the byte x, and the entry.
Table(f) == Buffer(256, [i \in 1..256 |-> f[i - 1]])
Entry(t, x) == t[x + 1]

\* a ^ b and a & b for bytes.
XorTable == Table([a \in Byte |-> Table([b \in Byte |-> BitOp(LAMBDA x, y : (x + y) % 2, a, b)])])
AndTable == Table([a \in Byte |-> Table([b \in Byte |-> BitOp(LAMBDA x, y : x * y, a, b)])])
Xor(a, b) == XorTable[a + 1][b + 1]
And(a, b) == AndTable[a + 1][b + 1]

\* n zero bytes: memset(p, 0, n).
Zeros(n) == Buffer(n, [i \in 1..n |-> 0])

\* A small number as a word of n bytes.
WordOf(k, n) == Buffer(n, [i \in 1..n |-> IF i > 4 THEN 0 ELSE (k \div 256^(i - 1)) % 256])

\* Bytewise operations on words and buffers of equal length.
WXor(v, w) == Buffer(Len(v), [i \in 1..Len(v) |-> Xor(v[i], w[i])])
WAnd(v, w) == Buffer(Len(v), [i \in 1..Len(v) |-> And(v[i], w[i])])
WNot(v) == Buffer(Len(v), [i \in 1..Len(v) |-> 255 - v[i]])

\* v + w and v - w modulo 2^(8 * Len(v)).
WAdd(v, w) ==
  LET carry[i \in 0..Len(v)] == IF i = 0 THEN 0 ELSE (v[i] + w[i] + carry[i - 1]) \div 256
  IN  Buffer(Len(v), [i \in 1..Len(v) |-> (v[i] + w[i] + carry[i - 1]) % 256])
WSub(v, w) == WAdd(WAdd(v, WNot(w)), WordOf(1, Len(v)))

\* v >> n and v << n: bits that leave the word are lost.
WShr(v, n) ==
  LET q == n \div 8  r == 2^(n % 8)
      at(i) == IF i > Len(v) THEN 0 ELSE v[i]
  IN  Buffer(Len(v), [i \in 1..Len(v) |-> (at(i + q) \div r) + ((at(i + q + 1) * (256 \div r)) % 256)])
WShl(v, n) ==
  LET q == n \div 8  r == 2^(n % 8)
      at(i) == IF i < 1 THEN 0 ELSE v[i]
  IN  Buffer(Len(v), [i \in 1..Len(v) |-> ((at(i - q) * r) % 256) + (at(i - q - 1) \div (256 \div r))])

\* The rotations of a word to the right and to the left.
WRotr(v, n) ==
  LET q == n \div 8  r == 2^(n % 8)
      at(i) == v[((i - 1) % Len(v)) + 1]
  IN  Buffer(Len(v), [i \in 1..Len(v) |-> (at(i + q) \div r) + ((at(i + q + 1) * (256 \div r)) % 256)])
WRotl(v, n) == WRotr(v, 8 * Len(v) - n)

\* What a loop for (i = 1; i <= n; i++) x = step(x, i) makes of x0, S being a set that its values are in.
\* The range is halved at each recursion; TLC evaluates the argument of a function before it applies it.
Loop(step(_, _), x0, n, S) ==
  LET run[lo \in 0..n, hi \in 0..n, x \in S] ==
        IF lo = hi THEN x
        ELSE IF hi = lo + 1 THEN step(x, hi)
        ELSE LET mid == (lo + hi) \div 2 IN run[mid, hi, run[lo, mid, x]]
  IN  run[0, n, x0]

\* The sum of a sequence of numbers.
SumOf(s) == LET t[i \in 0..Len(s)] == IF i = 0 THEN 0 ELSE t[i - 1] + s[i] IN t[Len(s)]

\* The first n items of s, and the others.
Prefix(s, n) == SubSeq(s, 1, n)
Rest(s, n) == SubSeq(s, n + 1, Len(s))
=============================================================================
