-------------------------------- MODULE Sha ---------------------------------
(***************************************************************************)
(* sha/sha.c: SHA-256 of data that arrives in pieces.  A word is the       *)
(* sequence of its four bytes, least significant first.  A context is a    *)
(* record with the fields of SHA256_CTX.                                   *)
(***************************************************************************)
EXTENDS Bytes

SHA_CBLOCK == 64

\* A 32-bit word written as its two halves; a word read or written most significant byte first.
Word32(q) == <<q[2] % 256, q[2] \div 256, q[1] % 256, q[1] \div 256>>
Words32(qs) == Buffer(Len(qs), [i \in 1..Len(qs) |-> Word32(qs[i])])
HOST(s) == <<s[4], s[3], s[2], s[1]>>

K256 == Words32(<<
  <<17034,12184>>, <<28983,17553>>, <<46528,64463>>, <<59829,56229>>, <<14678,49755>>, <<23025,4593>>, <<37439,33444>>, <<43804,24277>>,
  <<55303,43672>>, <<4739,23297>>, <<9265,34238>>, <<21772,32195>>, <<29374,23924>>, <<32990,45566>>, <<39900,1703>>, <<49563,61812>>,
  <<58523,27073>>, <<61374,18310>>, <<4033,40390>>, <<9228,41420>>, <<11753,11375>>, <<19060,33962>>, <<23728,43484>>, <<30457,35034>>,
  <<38974,20818>>, <<43057,50797>>, <<45059,10184>>, <<48985,32711>>, <<50912,3059>>, <<54695,37191>>, <<1738,25425>>, <<5161,10599>>,
  <<10167,2693>>, <<11803,8504>>, <<19756,28156>>, <<21304,3347>>, <<25866,29524>>, <<30314,2747>>, <<33218,51502>>, <<37490,11397>>,
  <<41663,59553>>, <<43034,26187>>, <<49739,35696>>, <<51052,20899>>, <<53650,59417>>, <<54937,1572>>, <<62478,13701>>, <<4202,41072>>,
  <<6564,49430>>, <<7735,27656>>, <<10056,30540>>, <<13488,48309>>, <<14620,3251>>, <<20184,43594>>, <<23452,51791>>, <<26670,28659>>,
  <<29839,33518>>, <<30885,25455>>, <<33992,30740>>, <<36039,520>>, <<37054,65530>>, <<42064,27883>>, <<48889,41975>>, <<50801,30962>>>>)

\* The rotations are to the left.
Xor3(a, b, c) == WXor(a, WXor(b, c))
Sigma0(v) == Xor3(WRotl(v, 30), WRotl(v, 19), WRotl(v, 10))
Sigma1(v) == Xor3(WRotl(v, 26), WRotl(v, 21), WRotl(v, 7))
sigma0(v) == Xor3(WRotl(v, 25), WRotl(v, 14), WShr(v, 3))
sigma1(v) == Xor3(WRotl(v, 15), WRotl(v, 13), WShr(v, 10))
Ch(a, b, c) == WXor(WAnd(a, b), WAnd(WNot(a), c))
Maj(a, b, c) == Xor3(WAnd(a, b), WAnd(a, c), WAnd(b, c))

\* The sum of four words or more.
Plus(ws) == LET s[i \in 1..Len(ws)] == IF i = 1 THEN ws[1] ELSE WAdd(s[i - 1], ws[i]) IN s[Len(ws)]

\* One round: the registers a..h after it, l being the word of the schedule and k that of K256.
Registers(r, T1) ==
  <<Plus(<<T1, Sigma0(r[1]), Maj(r[1], r[2], r[3])>>), r[1], r[2], r[3], WAdd(r[4], T1), r[5], r[6], r[7]>>
Round256(r, l, k) == Registers(r, Plus(<<l, r[8], Sigma1(r[5]), Ch(r[5], r[6], r[7]), k>>))

\* X holds the last sixteen words of the schedule; word n of it, and the round with it, v being <<registers, X>>.
Scheduled(X, n) ==
  LET at(d) == X[((n - 1 + d) % 16) + 1]
  IN  IF n <= 16 THEN at(0) ELSE Plus(<<at(0), sigma0(at(1)), sigma1(at(14)), at(9)>>)
WithWord(v, n, l) == <<Round256(v[1], l, K256[n]), [v[2] EXCEPT ![((n - 1) % 16) + 1] = l]>>
BlockRound(v, n) == WithWord(v, n, Scheduled(v[2], n))

\* sha256_block_data_order: the words h after the block.
Added(h, end) == Buffer(8, [i \in 1..8 |-> WAdd(h[i], end[i])])
WordsOf(block) == Buffer(16, [i \in 1..16 |-> HOST(SubSeq(block, 4 * i - 3, 4 * i))])
sha256_block_data_order(h, block) == Added(h, Loop(BlockRound, <<h, WordsOf(block)>>, 64, Seq(Seq(Seq(Byte))))[1])

\* The fields of SHA256_CTX.
SHA256_CTX == [h : Seq(Seq(Byte)), Nl : Seq(Byte), Nh : Seq(Byte), data : Seq(Byte), num : 0..SHA_CBLOCK - 1]

\* SHA256_Init leaves the block buffer as it is.
SHA256_Init(c) ==
  [c EXCEPT !.h = Words32(<<
     <<27145,58983>>, <<47975,44677>>, <<15470,62322>>, <<42319,62778>>, <<20750,21119>>, <<39685,26764>>, <<8067,55723>>, <<23520,52505>>>>),
            !.Nl = Zeros(4), !.Nh = Zeros(4), !.num = 0]

\* A context on the stack: what it holds before SHA256_Init is arbitrary and never read.
NewContext == [h |-> <<>>, Nl |-> Zeros(4), Nh |-> Zeros(4), data |-> Zeros(SHA_CBLOCK), num |-> 0]

\* v < w for words of equal length.
Less(v, w) == \E i \in 1..Len(v) : v[i] < w[i] /\ \A j \in i + 1..Len(v) : v[j] = w[j]

\* A faulty variant: the carry into the high word is lost.
SHA256_addlength_NoCarry(c, len) ==
  [c EXCEPT !.Nl = WAdd(@, WShl(Prefix(len, 4), 3)), !.Nh = WAdd(@, Prefix(WShr(len, 29), 4))]

\* SHA256_addlength, len being a size_t, a word of eight bytes: Nh, Nl counts bits.
Carry(l, Nl) == WordOf(IF Less(l, Nl) THEN 1 ELSE 0, 4)
Counted(c, len, l) == [c EXCEPT !.Nl = l, !.Nh = Plus(<<@, Carry(l, c.Nl), Prefix(WShr(len, 29), 4)>>)]
SHA256_addlength(c, len) == Counted(c, len, WAdd(c.Nl, WShl(Prefix(len, 4), 3)))

\* p[n..] = s
Put(p, n, s) == Buffer(Len(p), [i \in 1..Len(p) |-> IF i > n /\ i <= n + Len(s) THEN s[i - n] ELSE p[i]])

\* The whole blocks of s, in order.
Blocks(h, s) ==
  Loop(LAMBDA g, i : sha256_block_data_order(g, SubSeq(s, 64 * i - 63, 64 * i)), h, Len(s) \div SHA_CBLOCK, Seq(Seq(Byte)))

\* SHA256_Update: data completes the block begun before, if it can; its whole blocks are hashed, the rest is kept.
Complete(c, data) ==
  IF c.num = 0 THEN c
  ELSE [c EXCEPT !.h = Blocks(@, Prefix(c.data, c.num) \o Prefix(data, SHA_CBLOCK - c.num)), !.data = Zeros(SHA_CBLOCK)]
HashWhole(c, rest) ==
  LET whole == Len(rest) - (Len(rest) % SHA_CBLOCK)
  IN  [c EXCEPT !.h = Blocks(@, Prefix(rest, whole)), !.num = Len(rest) - whole, !.data = Put(@, 0, Rest(rest, whole))]
Absorb(c, data) ==
  LET fragment == IF c.num = 0 THEN 0 ELSE SHA_CBLOCK - c.num
  IN  IF Len(data) < fragment THEN [c EXCEPT !.data = Put(@, c.num, data), !.num = @ + Len(data)]
      ELSE HashWhole(Complete(c, data), Rest(data, fragment))
SHA256_Update(c, data) == Absorb(SHA256_addlength(c, WordOf(Len(data), 8)), data)

\* SHA256_Final: 128, zeros and the length, in one block or two; the digest and the context it leaves.
LastBlocks(c) ==
  LET begun == Prefix(c.data, c.num) \o <<128>>
      zeros == IF c.num + 1 > SHA_CBLOCK - 8 THEN 2 * SHA_CBLOCK - 8 ELSE SHA_CBLOCK - 8
  IN  begun \o Zeros(zeros - Len(begun)) \o HOST(c.Nh) \o HOST(c.Nl)
Output(c, h) ==
  [md |-> Buffer(32, [i \in 1..32 |-> HOST(h[((i - 1) \div 4) + 1])[((i - 1) % 4) + 1]]),
   ctx |-> [c EXCEPT !.h = h, !.num = 0, !.data = Zeros(SHA_CBLOCK)]]
SHA256_Final(c) == Output(c, Blocks(c.h, LastBlocks(c)))

SHA256(d) == SHA256_Final(SHA256_Update(SHA256_Init(NewContext), d)).md
-----------------------------------------------------------------------------
(* sha/hmac.c and sha/hkdf.c: HMAC-SHA256 with a context that is used      *)
(* again for the same key, and the key derivation HKDF made of it.         *)

HMAC_MAX_MD_CBLOCK == 64
SHA256_DIGEST_LENGTH == 32

HMAC_CTX == [md_ctx : SHA256_CTX, i_ctx : SHA256_CTX, o_ctx : SHA256_CTX]

\* A context on the stack before HMAC_Init.
NewHmac == [md_ctx |-> NewContext, i_ctx |-> NewContext, o_ctx |-> NewContext]

\* HMAC_Init with a key: long keys are hashed, all are padded with zeros to a block.
KeyBlock(ctx, key) ==
  Put(Zeros(HMAC_MAX_MD_CBLOCK), 0,
      IF HMAC_MAX_MD_CBLOCK < Len(key) THEN SHA256_Final(SHA256_Update(SHA256_Init(ctx.md_ctx), key)).md ELSE key)
StartHash(c, ctx_key, aux) ==
  SHA256_Update(SHA256_Init(c), Buffer(HMAC_MAX_MD_CBLOCK, [i \in 1..HMAC_MAX_MD_CBLOCK |-> Xor(aux, ctx_key[i])]))
Started(i_ctx, o_ctx) == [md_ctx |-> i_ctx, i_ctx |-> i_ctx, o_ctx |-> o_ctx]
StartBoth(ctx, ctx_key) == Started(StartHash(ctx.i_ctx, ctx_key, 54), StartHash(ctx.o_ctx, ctx_key, 92))
HMAC_Init(ctx, key) == StartBoth(ctx, KeyBlock(ctx, key))

\* A faulty variant: the digest in progress is kept.
HMAC_Reset_Kept(ctx) == ctx

\* HMAC_Init(ctx, NULL, len): the key of the last call again.
HMAC_Reset(ctx) == [ctx EXCEPT !.md_ctx = ctx.i_ctx]

HMAC_Update(ctx, data) == [ctx EXCEPT !.md_ctx = SHA256_Update(@, data)]

\* HMAC_Final: the digest of the outer hash; the context cannot be updated until it is initialised again.
Finished(ctx, outer) == [md |-> outer.md, ctx |-> [ctx EXCEPT !.md_ctx = outer.ctx]]
HMAC_Final(ctx) == Finished(ctx, SHA256_Final(SHA256_Update(ctx.o_ctx, SHA256_Final(ctx.md_ctx).md)))

\* HMAC_cleanup is memset(ctx, 0, sizeof(HMAC_CTX)).
HMAC_cleanup(ctx) ==
  LET clean == [NewContext EXCEPT !.h = Buffer(8, [i \in 1..8 |-> Zeros(4)])]
  IN  [ctx EXCEPT !.md_ctx = clean, !.i_ctx = clean, !.o_ctx = clean]

HmacOf(ctx, d) == HMAC_Final(HMAC_Update(ctx, d))
HMAC(key, d) == HmacOf(HMAC_Init(NewHmac, key), d).md

\* HMAC2: the same digest twice, the second with the key kept in the context.
Twice(first, d) == first.md \o HmacOf(HMAC_Reset(first.ctx), d).md
HMAC2(key, d) == Twice(HmacOf(HMAC_Init(NewHmac, key), d), d)

HKDF_extract(secret, salt) == HMAC(salt, secret)

\* HKDF_expand: blocks T(1) \o T(2) \o ..., each of the one before, info and a counter; None if out_len is too large.
\* v = <<hmac, previous, out_key>>.
None == <<>>
OutBlock(final, done, out_len) ==
  <<final.ctx, final.md,
    done \o Prefix(final.md, IF Len(done) + SHA256_DIGEST_LENGTH > out_len THEN out_len - Len(done) ELSE SHA256_DIGEST_LENGTH)>>
NextBlock(v, i, info, out_len) ==
  OutBlock(HmacOf(HMAC_Update(IF i = 1 THEN v[1] ELSE HMAC_Update(HMAC_Reset(v[1]), v[2]), info), <<i % 256>>), v[3], out_len)
HKDF_expand(out_len, prk, info) ==
  LET n == (out_len + SHA256_DIGEST_LENGTH - 1) \div SHA256_DIGEST_LENGTH
  IN  IF n > 255 THEN [ret |-> 0, out_key |-> None]
      ELSE [ret |-> 1, out_key |-> Loop(LAMBDA v, i : NextBlock(v, i, info, out_len),
                                        <<HMAC_Init(NewHmac, prk), <<>>, <<>>>>, n, HMAC_CTX \X Seq(Byte) \X Seq(Byte))[3]]

HKDF(out_len, secret, salt, info) == HKDF_expand(out_len, HKDF_extract(secret, salt), info)
-----------------------------------------------------------------------------
(* The references for the functions above: SHA-256 of a whole message      *)
(* as FIPS 180-4 defines it, HMAC as FIPS 198-1 and HKDF as RFC 5869 do.   *)

\* The schedule of all 64 words for the sixteen words m; rotations are to the right.
SmallSigma(v, a, b, c) == Xor3(WRotr(v, a), WRotr(v, b), WShr(v, c))
BigSigma(v, a, b, c) == Xor3(WRotr(v, a), WRotr(v, b), WRotr(v, c))
Schedule(m) ==
  Loop(LAMBDA s, t : Append(s, Plus(<<SmallSigma(s[t + 14], 17, 19, 10), s[t + 9], SmallSigma(s[t + 1], 7, 18, 3), s[t]>>)), m, 48, Seq(Seq(Byte)))

\* The chaining value after the block, 64 bytes.
StandardRound(v, T1, T2) == <<WAdd(T1, T2), v[1], v[2], v[3], WAdd(v[4], T1), v[5], v[6], v[7]>>
StandardRounds(hash, w) ==
  LET maj(p, q, r) == WXor(WAnd(p, WXor(q, r)), WAnd(q, r))
      ch(p, q, r) == WXor(r, WAnd(p, WXor(q, r)))
  IN  Loop(LAMBDA v, t : StandardRound(v, Plus(<<v[8], BigSigma(v[5], 6, 11, 25), ch(v[5], v[6], v[7]), K256[t], w[t]>>),
                                       WAdd(BigSigma(v[1], 2, 13, 22), maj(v[1], v[2], v[3]))),
           hash, 64, Seq(Seq(Byte)))
Compress(hash, block) == Added(hash, StandardRounds(hash, Schedule(WordsOf(block))))

\* The chaining value after the whole blocks of m.
Chain(m) ==
  Loop(LAMBDA g, i : Compress(g, SubSeq(m, 64 * i - 63, 64 * i)), SHA256_Init(NewContext).h, Len(m) \div 64, Seq(Seq(Byte)))

\* m, 128, the least number of zeros, and the number of bits in eight bytes (here below 2^31).
Padded(m) ==
  LET bits == WordOf(8 * Len(m), 8)
      big == [i \in 1..8 |-> bits[9 - i]]
  IN  m \o <<128>> \o Zeros((119 - (Len(m) % 64)) % 64) \o big
Bytes32(h) == Buffer(32, [i \in 1..32 |-> h[((i - 1) \div 4) + 1][4 - ((i - 1) % 4)]])
Digest(m) == Bytes32(Chain(Padded(m)))

Keyed(key, aux) ==
  LET padded(k0) == Buffer(64, [i \in 1..64 |-> Xor(aux, IF i <= Len(k0) THEN k0[i] ELSE 0)])
  IN  padded(IF Len(key) > 64 THEN Digest(key) ELSE key)
Mac(key, text) == Digest(Keyed(key, 92) \o Digest(Keyed(key, 54) \o text))

\* The first n bytes of the keys derived from prk: T(1) \o T(2) \o ...
Expanded(prk, info, n) ==
  Prefix(Loop(LAMBDA v, i : LET append(T) == <<T, v[2] \o T>> IN append(Mac(prk, v[1] \o info \o <<i>>)),
              <<<<>>, <<>>>>, (n + 31) \div 32, Seq(Byte) \X Seq(Byte))[2], n)
Derived(secret, salt, info, n) == Expanded(Mac(salt, secret), info, n)
-----------------------------------------------------------------------------
(* A program that computes the HMAC of messages with one HMAC_CTX: it      *)
(* sets a key or keeps the one that is set, gives a message in pieces of   *)
(* any length, takes the digest, and derives keys.                         *)

CONSTANTS Secrets,     \* keys, sequences of bytes, some longer than a block
          Text,        \* what the messages are prefixes of
          Lengths,     \* the lengths of the pieces
          OutLengths,  \* how many bytes of keys are asked for
          Sizes        \* words of eight bytes: the lengths of large data

VARIABLES hctx,        \* the context
          phase,       \* "unset", "open" for HMAC_Update, or "done"
          chosen,      \* the key in use
          fed,         \* how many bytes of Text have been given since HMAC_Init
          tag          \* the last digest
hashVars == <<hctx, phase, chosen, fed, tag>>

HmacInit == hctx = NewHmac /\ phase = "unset" /\ chosen = <<>> /\ fed = 0 /\ tag = <<>>

StartKey(key) ==
  /\ phase # "open"
  /\ hctx' = HMAC_Init(hctx, key) /\ chosen' = key
  /\ phase' = "open" /\ fed' = 0 /\ tag' = <<>>

\* A new message, or the one begun from its start, under the same key.
SameKey ==
  /\ phase # "unset"
  /\ hctx' = HMAC_Reset(hctx)
  /\ phase' = "open" /\ fed' = 0 /\ tag' = <<>> /\ UNCHANGED chosen

Feed(n) ==
  /\ phase = "open" /\ fed + n <= Len(Text)
  /\ hctx' = HMAC_Update(hctx, SubSeq(Text, fed + 1, fed + n))
  /\ fed' = fed + n
  /\ UNCHANGED <<phase, chosen, tag>>

Finish ==
  /\ phase = "open"
  /\ \E final \in {HMAC_Final(hctx)} : tag' = final.md /\ hctx' = final.ctx
  /\ phase' = "done"
  /\ UNCHANGED <<chosen, fed>>

Cleanup ==
  /\ phase = "done"
  /\ hctx' = HMAC_cleanup(hctx)
  /\ phase' = "unset" /\ chosen' = <<>> /\ fed' = 0 /\ tag' = <<>>

HmacNext ==
  \/ \E key \in Secrets : StartKey(key)
  \/ \E n \in Lengths : Feed(n)
  \/ SameKey \/ Finish \/ Cleanup

-----------------------------------------------------------------------------
\* Whatever the pieces were, the context is that of the bytes: their whole blocks are hashed, the rest is in the
\* buffer, and the length counts all of them (SHA256_Update, HMAC_Init with and without a key); the two words of
\* the length count bits modulo 2^64, whatever lengths are added (SHA256_addlength).
ContextHolds(c, bytes) ==
  /\ c.num = Len(bytes) % 64 /\ c.h = Chain(bytes)
  /\ Prefix(c.data, c.num) = Rest(bytes, Len(bytes) - c.num)
  /\ c.Nl \o c.Nh = WordOf(8 * Len(bytes), 8)
ContextIsOfTheBytes ==
  LET counted(d) == d.Nl \o d.Nh
  IN  /\ phase = "open" => ContextHolds(hctx.md_ctx, Keyed(chosen, 54) \o Prefix(Text, fed))
      /\ phase = "unset" => \A a, b \in Sizes :
           counted(SHA256_addlength(SHA256_addlength(SHA256_Init(NewContext), a), b)) = WShl(WAdd(a, b), 3)

\* The digest is the HMAC of the message under the key, for the key of the last HMAC_Init that had one
\* (HMAC_Final, HMAC2); SHA-256 itself gives the example of FIPS 180-4.
TagIsStandard ==
  /\ phase = "done" =>
       /\ tag = Mac(chosen, Prefix(Text, fed))
       /\ HMAC2(chosen, Prefix(Text, fed)) = tag \o tag
  /\ phase = "unset" =>
       SHA256(<<97, 98, 99>>) = << 186, 120, 22, 191, 143, 1, 207, 234, 65, 65, 64, 222, 93, 174, 34, 35,
                                   176, 3, 97, 163, 150, 23, 122, 156, 180, 16, 255, 97, 242, 0, 21, 173 >>

\* The bytes that HKDF derives are those of its definition, whole blocks or not; more than 255 blocks are refused.
DerivedIsStandard ==
  LET right(r, n, info) == IF n > 255 * 32 THEN r.ret = 0 ELSE r.ret = 1 /\ r.out_key = Derived(chosen, tag, info, n)
      checked(n, info) == right(HKDF(n, chosen, tag, info), n, info)
  IN  phase = "done" => \A n \in OutLengths : checked(n, Prefix(Text, fed % 16))
=============================================================================
