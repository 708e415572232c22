-------------------------------- MODULE NaCl --------------------------------
(***************************************************************************)
(* The library of tweetnacl20140427/tweetnacl.c: Salsa20 and HSalsa20,     *)
(* Poly1305, secretbox, the Montgomery ladder and box, and the signatures. *)
(* The symmetric half is at the size of the source.  The field is that of  *)
(* Gf25519 with limbs of one byte: a packed element, a scalar, a seed and  *)
(* half of a digest have BYTES = LIMBS bytes where the source has 32, and  *)
(* the constants of the curves, parameters here, are those of small curves.*)
(* Bit i of the source is bit i - 256 + 8 * BYTES at the top of a scalar.  *)
(***************************************************************************)
EXTENDS Bytes, Gf25519

CONSTANTS A24,                \* _121665: (a - 2) / 4 for the Montgomery curve with coefficient a
          EdD, EdX, EdY, EdI, \* D, X, Y and I: the Edwards curve, its base point, the root of -1
          EdL                 \* L, the order of the base point, as bytes

ASSUME BytesAssumption == Radix = 256 /\ Len(EdL) = LIMBS

BYTES == LIMBS

-----------------------------------------------------------------------------
(* The hash function of tweetnacl.c, SHA-512 (lines 487-586).  A word is   *)
(* the sequence of its eight bytes, least significant first.               *)

Reversed(s) == Buffer(Len(s), [i \in 1..Len(s) |-> s[Len(s) + 1 - i]])

\* dl64 and ts64: a word is most significant byte first in memory.
dl64(x) == Reversed(x)
ts64(u) == Reversed(u)

\* A word written as four groups of 16 bits, most significant first.
Word64(q) == Buffer(8, [i \in 1..8 |-> LET h == q[5 - ((i + 1) \div 2)] IN IF i % 2 = 1 THEN h % 256 ELSE h \div 256])

R(x, c) == WRotr(x, c)
Xor3(x, y, z) == WXor(x, WXor(y, z))
Ch(x, y, z) == WXor(WAnd(x, y), WAnd(WNot(x), z))
Maj(x, y, z) == Xor3(WAnd(x, y), WAnd(x, z), WAnd(y, z))
Sigma0(x) == Xor3(R(x, 28), R(x, 34), R(x, 39))
Sigma1(x) == Xor3(R(x, 14), R(x, 18), R(x, 41))
sigma0(x) == Xor3(R(x, 1), R(x, 8), WShr(x, 7))
sigma1(x) == Xor3(R(x, 19), R(x, 61), WShr(x, 6))

Words64(qs) == Buffer(Len(qs), [i \in 1..Len(qs) |-> Word64(qs[i])])
K == Words64(<<
  <<17034,12184,55080,44578>>, <<28983,17553,9199,26061>>, <<46528,64463,60493,15151>>, <<59829,56229,33161,56252>>,
  <<14678,49755,62280,46392>>, <<23025,4593,46597,53273>>, <<37439,33444,44825,20379>>, <<43804,24277,55917,33048>>,
  <<55303,43672,41731,578>>, <<4739,23297,17776,28606>>, <<9265,34238,20196,45708>>, <<21772,32195,54783,46306>>,
  <<29374,23924,62075,35183>>, <<32990,45566,15126,38577>>, <<39900,1703,9671,4661>>, <<49563,61812,53097,9876>>,
  <<58523,27073,40689,19154>>, <<61374,18310,14415,9699>>, <<4033,40390,35724,54709>>, <<9228,41420,30636,40037>>,
  <<11753,11375,22827,629>>, <<19060,33962,28326,58499>>, <<23728,43484,48449,64468>>, <<30457,35034,33553,21429>>,
  <<38974,20818,61030,57259>>, <<43057,50797,11700,12816>>, <<45059,10184,39163,8511>>, <<48985,32711,48879,3812>>,
  <<50912,3059,15784,36802>>, <<54695,37191,37642,42789>>, <<1738,25425,57347,33391>>, <<5161,10599,2574,28272>>,
  <<10167,2693,18130,12284>>, <<11803,8504,23590,51494>>, <<19756,28156,23236,10989>>, <<21304,3347,40341,46047>>,
  <<25866,29524,35759,25566>>, <<30314,2747,15479,45736>>, <<33218,51502,18413,44774>>, <<37490,11397,5250,13627>>,
  <<41663,59553,19697,868>>, <<43034,26187,48194,12289>>, <<49739,35696,53496,38801>>, <<51052,20899,1620,48688>>,
  <<53650,59417,55023,21016>>, <<54937,1572,21861,43280>>, <<62478,13701,22385,8234>>, <<4202,41072,12987,53688>>,
  <<6564,49430,47314,53448>>, <<7735,27656,20801,43859>>, <<10056,30540,57230,60313>>, <<13488,48309,57755,18600>>,
  <<14620,3251,50633,23139>>, <<20184,43594,58177,35531>>, <<23452,51791,30563,58227>>, <<26670,28659,54962,47267>>,
  <<29839,33518,24047,45820>>, <<30885,25455,17175,12128>>, <<33992,30740,41456,43890>>, <<36039,520,6756,14828>>,
  <<37054,65530,9059,7720>>, <<42064,27883,56962,48617>>, <<48889,41975,45766,30997>>, <<50801,30962,58226,21291>>,
  <<51751,16078,59942,24988>>, <<53638,47303,8640,49671>>, <<60122,32214,52704,60190>>, <<62845,20351,61038,53624>>,
  <<1776,26538,29207,28602>>, <<2659,32197,41672,39078>>, <<4415,38916,48889,3502>>, <<7025,2869,4892,18203>>,
  <<10459,30709,8964,32132>>, <<13002,43899,16583,9363>>, <<15518,48650,5577,48828>>, <<17181,26564,39952,3404>>,
  <<19653,54462,52030,17078>>, <<22911,10652,64613,32298>>, <<24523,28587,15062,64236>>, <<27716,6540,19015,22551>>>>)
Iv == Words64(<<
  <<27145,58983,62396,51464>>, <<47975,44677,33994,42811>>, <<15470,62322,65172,63531>>, <<42319,62778,24349,14065>>,
  <<20750,21119,44518,33489>>, <<39685,26764,11070,27679>>, <<8067,55723,64321,48491>>, <<23520,52505,4990,8569>>>>)

\* The sum of a sequence of words.
WSum(ws) == LET s[i \in 1..Len(ws)] == IF i = 1 THEN ws[1] ELSE WAdd(s[i - 1], ws[i]) IN s[Len(ws)]

\* One round of 80: new values of a[0..7] with the constant k and the word w of the schedule.
FromRound(a, t) ==
  <<WSum(<<t, Sigma0(a[1]), Maj(a[1], a[2], a[3])>>), a[1], a[2], a[3], WAdd(a[4], t), a[5], a[6], a[7]>>
Round512(a, k, w) == FromRound(a, WSum(<<a[8], Sigma1(a[5]), Ch(a[5], a[6], a[7]), k, w>>))

\* The schedule in place, after every 16 rounds: later words are made of new ones.
RenewWord(v, j) ==
  LET at(d) == v[((j - 1 + d) % 16) + 1] IN [v EXCEPT ![j] = WSum(<<@, at(9), sigma0(at(1)), sigma1(at(14))>>)]
Renew(w) == Loop(RenewWord, w, 16, Seq(Seq(Byte)))

\* crypto_hashblocks: the state x after the whole blocks of m; v = <<a, w>> in a block.
HashRound(v, i) == <<Round512(v[1], K[i], v[2][((i - 1) % 16) + 1]), IF i % 16 = 0 THEN Renew(v[2]) ELSE v[2]>>
HashBlock(z, words) ==
  LET v == Loop(HashRound, <<z, words>>, 80, Seq(Seq(Seq(Byte)))) IN Buffer(8, [i \in 1..8 |-> WAdd(v[1][i], z[i])])
crypto_hashblocks(x, m) ==
  LET word(n, i) == dl64(SubSeq(m, 128 * (n - 1) + 8 * i - 7, 128 * (n - 1) + 8 * i))
  IN  Loop(LAMBDA z, n : HashBlock(z, Buffer(16, [i \in 1..16 |-> word(n, i)])), x, Len(m) \div 128, Seq(Seq(Byte)))

\* crypto_hash: the whole blocks of m, then the rest, 128, zeros and the length in bits, in one block or two.
Padding(tail, b) ==
  LET size == IF Len(tail) < 112 THEN 128 ELSE 256
  IN  tail \o <<128>> \o Zeros(size - Len(tail) - 10) \o <<WShr(b, 61)[1]>> \o ts64(WShl(b, 3))
Stored(ws) == Buffer(64, [i \in 1..64 |-> ts64(ws[((i - 1) \div 8) + 1])[((i - 1) % 8) + 1]])
crypto_hash(m) ==
  Stored(crypto_hashblocks(crypto_hashblocks(Iv, m), Padding(Rest(m, Len(m) - (Len(m) % 128)), WordOf(Len(m), 8))))
-----------------------------------------------------------------------------
\* Salsa20 ------------------------------------------------------------------

sigma == <<101, 120, 112, 97, 110, 100, 32, 51, 50, 45, 98, 121, 116, 101, 32, 107>>

\* The i-th word of four bytes of a buffer.
Word32(b, i) == SubSeq(b, 4 * i + 1, 4 * i + 4)

\* A faulty variant: the comparison starts at the second byte.
Vn_FromSecond(x, y) == IF \A i \in 2..Len(x) : Xor(x[i], y[i]) = 0 THEN 0 ELSE -1

\* vn: 0 if the buffers are equal, else -1.
Vn(x, y) == IF \A i \in 1..Len(x) : Xor(x[i], y[i]) = 0 THEN 0 ELSE -1

\* The four additions, rotations and xors on t[0..3].
XorInto(t, i, j, k, n) == [t EXCEPT ![i] = WXor(@, WRotl(WAdd(t[j], t[k]), n))]
Quarter(t) == XorInto(XorInto(XorInto(XorInto(t, 2, 1, 4, 7), 3, 2, 1, 9), 4, 3, 2, 13), 1, 4, 3, 18)

\* A round: four columns, each stored one word further along its row.
Stirred(w) == Buffer(16, [i \in 1..16 |-> LET j == (i - 1) \div 4 IN w[j + 1][((i - 1 - j) % 4) + 1]])
CoreRound(x, i) ==
  Stirred(Buffer(4, [j \in 1..4 |-> Quarter(Buffer(4, [m \in 1..4 |-> x[((5 * (j - 1) + 4 * (m - 1)) % 16) + 1]]))]))

\* core: 20 rounds on the matrix y of constants c, key k and input; h selects HSalsa20.
CoreMatrix(input, k, c) ==
  <<Word32(c, 0), Word32(k, 0), Word32(k, 1), Word32(k, 2), Word32(k, 3),
    Word32(c, 1), Word32(input, 0), Word32(input, 1), Word32(input, 2), Word32(input, 3),
    Word32(c, 2), Word32(k, 4), Word32(k, 5), Word32(k, 6), Word32(k, 7), Word32(c, 3)>>
CoreOut(x, y, h) ==
  WordsFlat(IF h THEN <<x[1], x[6], x[11], x[16], x[7], x[8], x[9], x[10]>>
            ELSE Buffer(16, [i \in 1..16 |-> WAdd(x[i], y[i])]))
CoreOf(y, h) == CoreOut(Loop(CoreRound, y, 20, Seq(Seq(Byte))), y, h)
Core(input, k, c, h) == CoreOf(CoreMatrix(input, k, c), h)
crypto_core_salsa20(input, k, c) == Core(input, k, c, FALSE)
crypto_core_hsalsa20(input, k, c) == Core(input, k, c, TRUE)

\* crypto_stream_salsa20_xor: the counter is the second half of z; a NULL m counts as zeros; v = <<z, c>>.
StreamBlock(v, part, x) ==
  <<Prefix(v[1], 8) \o WAdd(Rest(v[1], 8), WordOf(1, 8)), v[2] \o WXor(part, Prefix(x, Len(part)))>>
crypto_stream_salsa20_xor(m, n, k) ==
  LET part(i) == SubSeq(m, 64 * i - 63, IF 64 * i < Len(m) THEN 64 * i ELSE Len(m))
  IN  Loop(LAMBDA v, i : StreamBlock(v, part(i), crypto_core_salsa20(v[1], k, sigma)),
           <<Prefix(n, 8) \o Zeros(8), <<>> >>, (Len(m) + 63) \div 64, Seq(Seq(Byte)))[2]

\* crypto_stream_xor, and crypto_stream: d bytes of the stream.
crypto_stream_xor(m, n, k) == crypto_stream_salsa20_xor(m, Rest(n, 16), crypto_core_hsalsa20(Prefix(n, 16), k, sigma))
crypto_stream(d, n, k) == crypto_stream_xor(Zeros(d), n, k)

\* Poly1305 -----------------------------------------------------------------

\* Carries through the first n digits of h, beginning with u: the digits, and what is left.
Carried(h, n, u) ==
  LET step(t, j) == <<Append(t[1], (t[2] + h[j]) % 256), (t[2] + h[j]) \div 256>>
      end == Loop(step, << <<>>, u>>, n, Seq(Byte) \X Int)
  IN  [h |-> end[1], u |-> end[2]]

\* add1305: what leaves the 17th digit is lost.
add1305(h, c) == Carried(Buffer(17, [j \in 1..17 |-> h[j] + c[j]]), 17, 0).h
minusp == <<5>> \o Zeros(15) \o <<252>>

\* r from the first half of the key, with 22 bits cleared.
Clamp1305(k) ==
  Buffer(17, [j \in 1..17 |-> CASE j \in {4, 8, 12, 16} -> k[j] % 16
                                [] j \in {5, 9, 13} -> 4 * (k[j] \div 4)
                                [] j = 17 -> 0
                                [] OTHER -> k[j]])

\* h times r, folded at 2^136 = 320 and at 2^130 = 5.
FoldTop(first, u) == LET second == Carried(first, 16, 5 * (u \div 4)) IN Append(second.h, second.u + (u % 4))
FoldProduct(x) == LET first == Carried(x, 16, 0) IN FoldTop(first.h, first.u + x[17])
MulMod1305(h, r) ==
  FoldProduct(Buffer(17, [i \in 1..17 |->
                SumOf([j \in 1..17 |-> h[j] * IF j <= i THEN r[i - j + 1] ELSE 320 * r[i + 18 - j]])]))

\* The last reduction: h - p unless that is negative (bit 7 of the top digit).
Freeze1305(h) == LET g == add1305(h, minusp) IN IF g[17] >= 128 THEN h ELSE g

\* The value of the polynomial at r that the blocks of m, each with a one on top, are the coefficients of.
Absorb1305(m, r) ==
  LET part(i) == SubSeq(m, 16 * i - 15, IF 16 * i < Len(m) THEN 16 * i ELSE Len(m))
      block(b) == b \o <<1>> \o Zeros(16 - Len(b))
  IN  Loop(LAMBDA h, i : MulMod1305(add1305(h, block(part(i))), r), Zeros(17), (Len(m) + 15) \div 16, Seq(Int))
crypto_onetimeauth(m, k) == Prefix(add1305(Freeze1305(Absorb1305(m, Clamp1305(k))), Append(SubSeq(k, 17, 32), 0)), 16)
crypto_onetimeauth_verify(tag, m, k) == Vn(tag, crypto_onetimeauth(m, k))

\* Secretbox: the first 32 bytes of m, and 16 of c, are zero.  out is the buffer of the result before the call.
BoxOf(c) == Zeros(16) \o crypto_onetimeauth(Rest(c, 32), Prefix(c, 32)) \o Rest(c, 32)
crypto_secretbox(out, m, n, k) ==
  IF Len(m) < 32 THEN [ret |-> -1, out |-> out] ELSE [ret |-> 0, out |-> BoxOf(crypto_stream_xor(m, n, k))]

crypto_secretbox_open(out, c, n, k) ==
  IF Len(c) < 32 \/ crypto_onetimeauth_verify(SubSeq(c, 17, 32), Rest(c, 32), crypto_stream(32, n, k)) # 0
  THEN [ret |-> -1, out |-> out]
  ELSE [ret |-> 0, out |-> Zeros(32) \o Rest(crypto_stream_xor(c, n, k), 32)]

\* Box ----------------------------------------------------------------------

\* The bits of a scalar, and the scalar with the low three bits cleared, the top one cleared and the next set.
BitOf(s, i) == Bit(s[(i \div 8) + 1], i % 8)
ClampScalar(n) == [n EXCEPT ![1] = 8 * (n[1] \div 8), ![BYTES] = (@ % 64) + 64]

\* crypto_scalarmult: the operations of one step of the ladder on what the exchange by the bit r leaves in
\* a, b, c and d, in three stages; the results are exchanged again.
LadderEnd(d, f, e, a, x, r) ==
  LET diff == Z(d, f)
      p == sel25519(M(d, f), S(e), r)
      q == sel25519(M(diff, A(M(diff, GfOf(A24)), d)), M(S(a), x), r)
  IN  <<p[1], p[2], q[1], q[2]>>
LadderCross(d, f, ca, be, x, r) == LadderEnd(d, f, A(ca, be), Z(ca, be), x, r)
LadderStart(e, a, c, b, x, r) == LadderCross(S(e), S(a), M(c, a), M(b, e), x, r)
LadderStep(v, x, r) ==              \* v = <<a, b, c, d>>
  LET ab == sel25519(v[1], v[2], r)  cd == sel25519(v[3], v[4], r)
  IN  LadderStart(A(ab[1], cd[1]), Z(ab[1], cd[1]), A(ab[2], cd[2]), Z(ab[2], cd[2]), x, r)
Ladder(z, x) ==
  Loop(LAMBDA v, i : LadderStep(v, x, BitOf(z, Bits25519 - i)), <<GfOf(1), x, GfOf(0), GfOf(1)>>, Bits25519, Seq(Seq(Int)))
Quotient(a, c) == pack25519(M(a, inv25519(c)))
crypto_scalarmult(n, p) == LET v == Ladder(ClampScalar(n), unpack25519(p)) IN Quotient(v[1], v[3])

\* The public key of a secret, and crypto_box_keypair for the random bytes x.
crypto_scalarmult_base(n) == crypto_scalarmult(n, GfOf(9))
crypto_box_keypair(x) == [pk |-> crypto_scalarmult_base(x), sk |-> x]

\* The key of a box: the shared element, filled up to 32 bytes, through HSalsa20.
crypto_box_beforenm(y, x) == crypto_core_hsalsa20(Zeros(16), crypto_scalarmult(x, y) \o Zeros(32 - BYTES), sigma)
crypto_box(out, m, n, y, x) == crypto_secretbox(out, m, n, crypto_box_beforenm(y, x))
crypto_box_open(out, c, n, y, x) == crypto_secretbox_open(out, c, n, crypto_box_beforenm(y, x))

\* Signatures ---------------------------------------------------------------

\* add: the sum of two points in extended coordinates <<X, Y, Z, T>>.
EdPoint(e, f, g, h) == <<M(e, f), M(h, g), M(g, f), M(e, h)>>
EdSum(a, b, c, d) == EdPoint(Z(b, a), Z(d, c), A(d, c), A(b, a))
Doubled(d) == A(d, d)
EdAdd(p, q) ==
  EdSum(M(Z(p[2], p[1]), Z(q[2], q[1])), M(A(p[1], p[2]), A(q[1], q[2])), M(M(p[4], q[4]), GfOf(2 * EdD)),
        Doubled(M(p[3], q[3])))

\* scalarmult: both points are replaced at every bit, exchanged around it if the bit is set.
EdStep(pq, b) == sel25519(EdAdd(pq[1], pq[1]), EdAdd(pq[2], pq[1]), b)
scalarmult(q, s) ==
  Loop(LAMBDA v, i : EdStep(sel25519(v[1], v[2], BitOf(s, 8 * BYTES - i)), BitOf(s, 8 * BYTES - i)),
       <<<<GfOf(0), GfOf(1), GfOf(1), GfOf(0)>>, q>>, 8 * BYTES, Seq(Seq(Seq(Int))))[1]
scalarbase(s) == scalarmult(<<GfOf(EdX), GfOf(EdY), GfOf(1), M(GfOf(EdX), GfOf(EdY))>>, s)

\* pack: y, with the parity of x as the top bit.
PackPoint(x, y) == [pack25519(y) EXCEPT ![BYTES] = Xor(@, 128 * par25519(x))]
Normal(p, zi) == PackPoint(M(p[1], zi), M(p[2], zi))
pack(p) == Normal(p, inv25519(p[3]))

\* unpackneg: the negated point with the ordinate and the parity of p, or a failure: x is a root of num / den.
IsRoot(x, num, den) == neq25519(M(S(x), den), num) = 0
Power6(d2) == M(S(d2), d2)
Root(num, den) == M(M(M(M(pow2523(M(M(Power6(S(den)), num), den)), num), den), den), den)
RootOrTimesI(x, num, den) == IF IsRoot(x, num, den) THEN x ELSE M(x, GfOf(EdI))
WithParity(x, parity) == IF par25519(x) = parity THEN Z(GfOf(0), x) ELSE x
Extended(x, y) == <<x, y, GfOf(1), M(x, y)>>
Decoded(x, y, num, den, parity) ==
  IF IsRoot(x, num, den) THEN [ret |-> 0, point |-> Extended(WithParity(x, parity), y)] ELSE [ret |-> -1, point |-> <<>>]
Decode(y, num, den, parity) == Decoded(RootOrTimesI(Root(num, den), num, den), y, num, den, parity)
unpackneg(p) ==
  LET y == unpack25519(p)
  IN  Decode(y, Z(S(y), GfOf(1)), A(GfOf(1), M(S(y), GfOf(EdD))), p[BYTES] \div 128)

\* modL: twice BYTES digits modulo L.  The digits between the low ones of L and its last one, 16, are zero.
\* Digit i is folded into the low ones of those that L spans; t = <<x, carry>>.
FoldDigit(x, i) ==
  LET step(t, j) ==
        LET k == i - BYTES + j - 1
            v == t[1][k] + t[2] - 16 * x[i] * EdL[j]
            carry == (v + 128) \div 256
        IN  <<[t[1] EXCEPT ![k] = v - 256 * carry], carry>>
      end == Loop(step, <<x, 0>>, BYTES - 1, Seq(Int) \X Int)
  IN  [end[1] EXCEPT ![i - 1] = @ + end[2], ![i] = 0]
LessTimesL(y, top) == Carried(Buffer(BYTES, [j \in 1..BYTES |-> y[j] - top * EdL[j]]), BYTES, 0)
ReduceLow(y) == LET once == LessTimesL(y, y[BYTES] \div 16) IN LessTimesL(once.h, once.u).h
modL(x0) == ReduceLow(Loop(LAMBDA x, n : FoldDigit(x, 2 * BYTES + 1 - n), x0, BYTES, Seq(Int)))

\* A digest, shortened to the size of the curve, and reduced.
Digest(m) == Prefix(crypto_hash(m), 2 * BYTES)
Reduced(m) == modL(Digest(m))

\* crypto_sign_keypair for the random bytes seed; the secret key ends with the public one.
SignKeys(seed, pk) == [pk |-> pk, sk |-> seed \o pk]
crypto_sign_keypair(seed) == SignKeys(seed, pack(scalarbase(ClampScalar(Digest(seed)))))

\* crypto_sign: the signed message.  d is the digest of the secret, r the reduced one of its second half and m;
\* h that of the signature so far and m; the second half of the signature is r + h * secret.
MulAdd(r, h, secret) ==
  LET term(k, i) == IF k - i \in 0..BYTES - 1 THEN h[i] * secret[k - i + 1] ELSE 0
  IN  Buffer(2 * BYTES, [k \in 1..2 * BYTES |-> (IF k <= BYTES THEN r[k] ELSE 0) + SumOf([i \in 1..BYTES |-> term(k, i)])])
SignWith(r, point, secret, pk, m) == point \o modL(MulAdd(r, Reduced(point \o pk \o m), secret)) \o m
SignFor(d, r, pk, m) == SignWith(r, pack(scalarbase(r)), ClampScalar(Prefix(d, BYTES)), pk, m)
SignDigest(d, pk, m) == SignFor(d, Reduced(Rest(d, BYTES) \o m), pk, m)
crypto_sign(m, sk) == SignDigest(Digest(Prefix(sk, BYTES)), Rest(sk, BYTES), m)

\* crypto_sign_open: m is the buffer of the result before the call, kept what it holds while the hash is taken.
SumMatches(point, kept, sm) ==
  Vn(Prefix(sm, BYTES),
     pack(EdAdd(scalarmult(point, Reduced(kept)), scalarbase(SubSeq(sm, BYTES + 1, 2 * BYTES))))) = 0
OpenWith(q, kept, m, sm) ==
  LET n == Len(sm) - 2 * BYTES
  IN  IF n < 0 \/ q.ret # 0 THEN [ret |-> -1, mlen |-> -1, m |-> m]
      ELSE IF SumMatches(q.point, kept, sm) THEN [ret |-> 0, mlen |-> n, m |-> Rest(sm, 2 * BYTES) \o Rest(kept, n)]
      ELSE [ret |-> -1, mlen |-> -1, m |-> Zeros(n) \o Rest(kept, n)]
crypto_sign_open(m, sm, pk) == OpenWith(unpackneg(pk), Prefix(sm, BYTES) \o pk \o Rest(sm, 2 * BYTES), m, sm)
-----------------------------------------------------------------------------
(* Two parties that use tweetnacl.c: each makes its keys, one seals or     *)
(* signs a text for the other, the network delivers it or something else,  *)
(* the other opens what arrives.                                           *)

CONSTANTS Seeds,       \* what randombytes may return
          Texts,       \* texts, sequences of bytes
          Nonces,      \* nonces of 24 bytes
          Positions,   \* the bytes that the network may change
          Operands,    \* elements of the field, in limbs of any size the functions meet
          WideOperands \* the same for four limbs of five bits

Parties == {"alice", "bob"}
None == [kind |-> "none"]

VARIABLES pairs,       \* the keys of each party: [box, sign], or None
          letter,      \* what was sent: [kind, text, nonce, data], or None
          wire,        \* what arrives
          result       \* what opening it gave, or None
naclVars == <<pairs, letter, wire, result>>

NaClInit == pairs = [o \in Parties |-> None] /\ letter = None /\ wire = <<>> /\ result = None

Generate(o) ==
  /\ pairs[o] = None
  /\ \E seed \in Seeds :
       pairs' = [pairs EXCEPT ![o] = [box |-> crypto_box_keypair(seed), sign |-> crypto_sign_keypair(seed)]]
  /\ UNCHANGED <<letter, wire, result>>

\* A buffer that the result of a call overwrites or leaves as it was.
Before(n) == Buffer(n, [i \in 1..n |-> 170])

Ready == letter = None /\ \A o \in Parties : pairs[o] # None
Send(kind, text, nonce, data) ==
  /\ letter' = [kind |-> kind, text |-> text, nonce |-> nonce, data |-> data]
  /\ wire' = data
  /\ UNCHANGED <<pairs, result>>
Seal(text, nonce) ==
  /\ Ready
  /\ LET padded == Zeros(32) \o text
     IN  Send("box", text, nonce,
              crypto_box(Before(Len(padded)), padded, nonce, pairs["bob"].box.pk, pairs["alice"].box.sk).out)
Sign(text) == Ready /\ Send("sign", text, <<>>, crypto_sign(text, pairs["alice"].sign.sk))

\* The network changes a byte or cuts the last one off.
Tamper ==
  /\ letter # None /\ result = None /\ wire = letter.data
  /\ \E i \in DOMAIN wire \cap (Positions \cup {Len(wire)}) :
                            \/ wire' = [wire EXCEPT ![i] = (@ + 1) % 256]
                            \/ i = Len(wire) /\ wire' = Prefix(wire, i - 1)
  /\ UNCHANGED <<pairs, letter, result>>

Open ==
  /\ letter # None /\ result = None
  /\ result' = IF letter.kind = "sign" THEN crypto_sign_open(Before(Len(wire)), wire, pairs["alice"].sign.pk)
               ELSE crypto_box_open(Before(Len(wire)), wire, letter.nonce, pairs["alice"].box.pk, pairs["bob"].box.sk)
  /\ UNCHANGED <<pairs, letter, wire>>

NaClNext ==
  \/ \E o \in Parties : Generate(o)
  \/ \E text \in Texts : Sign(text) \/ \E nonce \in Nonces : Seal(text, nonce)
  \/ Tamper \/ Open

-----------------------------------------------------------------------------
\* The operations on limbs are those of the field (car25519, pack25519, M, A, Z, inv25519, pow2523): for the
\* public keys and the operands, and for four limbs of another width, of which two are inner ones.
Wide == INSTANCE Gf25519 WITH LIMBS <- 4, Radix <- 32, Bits25519 <- 19
FieldIsArithmetic ==
  letter = None =>
    /\ LawsHold(Operands \cup {unpack25519(pairs[o].box.pk) : o \in {p \in Parties : pairs[p] # None}})
    /\ Wide!LawsHold(WideOperands)

\* The two sides of a box compute the same key, and both that of the group laws of the curves: the ladder
\* gives the abscissa of the multiple of the point, a signing key the packed multiple of the base point.
KeysAgree ==
  LET Modulus == 2^Bits25519 - 19
      Montgomery(P, Q) == MontgomeryAdd(P, Q, (4 * A24 + 2) % Modulus, Modulus)
      Edwards(P, Q) == EdwardsAdd(P, Q, EdD, Modulus)
      ordinate == CHOOSE y \in 1..Modulus : FMul(y, y, Modulus) = (9^3 + FMul((4 * A24 + 2) % Modulus, 81, Modulus) + 9) % Modulus
      base == <<9, ordinate>>
      scalar(seed) == NumberOf(ClampScalar(seed))
      abscissa(P) == IF P = <<>> THEN 0 ELSE P[1]
      packed(P) == P[2] + 2^Bits25519 * (P[1] % 2)
  IN  letter = None =>
      /\ \A o \in {p \in Parties : pairs[p] # None} :
           LET keys == pairs[o]
               signer == scalar(Prefix(Digest(keys.box.sk), BYTES))
           IN  /\ NumberOf(keys.box.pk) = abscissa(Multiple(Montgomery, scalar(keys.box.sk), base, <<>>))
               /\ NumberOf(keys.sign.pk) = packed(Multiple(Edwards, signer, <<EdX, EdY>>, <<0, 1>>))
      /\ \A o, p \in {r \in Parties : pairs[r] # None} :
           crypto_box_beforenm(pairs[o].box.pk, pairs[p].box.sk) = crypto_box_beforenm(pairs[p].box.pk, pairs[o].box.sk)

\* A box is what the definitions of XSalsa20 and Poly1305 make of its text, nonce and key, over any number of
\* blocks (crypto_stream_salsa20_xor, crypto_onetimeauth).
BoxIsStandard ==
  letter # None /\ letter.kind = "box" =>
    LET k == crypto_box_beforenm(pairs["bob"].box.pk, pairs["alice"].box.sk)
    IN  letter.data = Zeros(16) \o Sealed(letter.text, letter.nonce, k)

\* What was sent opens and gives the text; anything else is refused, and no byte of a refused text is given
\* out: the buffer is as it was before (crypto_secretbox_open), or zero (crypto_sign_open).
OpensWhatWasSent ==
  result # None =>
    LET n == Len(wire) - 2 * BYTES
        same == IF letter.kind = "sign" THEN wire = letter.data
                ELSE Len(wire) = Len(letter.data) /\ Rest(wire, 16) = Rest(letter.data, 16)  \* the zeros are not looked at
    IN  CASE same /\ letter.kind = "box"    -> result.ret = 0 /\ result.out = Zeros(32) \o letter.text
          [] same /\ letter.kind = "sign"   -> /\ result.ret = 0 /\ result.mlen = Len(letter.text)
                                              /\ Prefix(result.m, n) = letter.text
          [] ~same /\ letter.kind = "box"   -> result.ret = -1 /\ result.out = Before(Len(wire))
          [] ~same /\ letter.kind = "sign"  -> /\ result.ret = -1 /\ result.mlen = -1
                                              /\ Prefix(result.m, n) \in {Zeros(n), Before(n)}
=============================================================================
