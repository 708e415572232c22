----------------------------- MODULE DrbgProofs -----------------------------
(***************************************************************************)
(* Proofs about hmac_drbg.c, for any size of digests, any inputs, lengths  *)
(* and policies: it is the HMAC_DRBG of SP 800-90A, whatever call fails.   *)
(***************************************************************************)
EXTENDS MCHashing, SequenceTheorems, WellFoundedInduction, TLAPS

(* What the generator needs to know of HMAC.                               *)
Block == [1..MD_SIZE -> Byte]
HmacGivesBlocks == \A key, msg \in Seq(Byte) : HmacSha256(key, msg) \in Block

(* A context with a key, and what the standard calls its working state.    *)
Live == [key : Block, V : Block, reseed_counter : Int, entropy_len : Nat,
         prediction_resistance : {0, 1}, reseed_interval : Int]
Working(d) == [K |-> d.key, V |-> d.V, counter |-> d.reseed_counter]
With(d, K, W) == [d EXCEPT !.key = K, !.V = W]
SamePolicy(c, d) ==
  /\ c.entropy_len = d.entropy_len /\ c.reseed_interval = d.reseed_interval
  /\ c.prediction_resistance = d.prediction_resistance

(* Blocks are sequences of bytes, and none is the empty one.               *)
LEMMA BlocksAre ==
  /\ Block \subseteq Seq(Byte) /\ NoKey \notin Block /\ \A b \in Block : Len(b) = MD_SIZE
  /\ \A b \in Block, s \in Seq(Byte), n \in Byte : b \o <<n>> \o s \in Seq(Byte)
<1>1. MD_SIZE \in Nat /\ MD_SIZE # 0
  BY GeneratorAssumption
<1>2. \A b \in Block : b \in Seq(Byte) /\ Len(b) = MD_SIZE
  BY <1>1 DEF Block
<1>3. NoKey \notin Block
  BY <1>1, <1>2 DEF NoKey
<1>4. \A b \in Block, s \in Seq(Byte), n \in Byte : b \o <<n>> \o s \in Seq(Byte)
  <2> SUFFICES ASSUME NEW b \in Seq(Byte), NEW s \in Seq(Byte), NEW n \in Byte PROVE b \o <<n>> \o s \in Seq(Byte)
    BY <1>2
  <2>1. <<n>> \in Seq(Byte)
    OBVIOUS
  <2>2. b \o <<n>> \in Seq(Byte)
    BY <2>1
  <2> QED BY <2>2
<1> QED BY <1>2, <1>3, <1>4

(* A context with another key and another V.                               *)
LEMMA WithIs ==
  ASSUME NEW d \in Live, NEW K \in Block, NEW W \in Block
  PROVE  /\ With(d, K, W) \in Live /\ SamePolicy(With(d, K, W), d)
         /\ With(d, K, W).key = K /\ With(d, K, W).V = W /\ With(d, K, W).reseed_counter = d.reseed_counter
         /\ Working(With(d, K, W)) = [K |-> K, V |-> W, counter |-> d.reseed_counter]
         /\ \A K2, W2 \in Block : With(With(d, K, W), K2, W2) = With(d, K2, W2)
  BY DEF With, Live, SamePolicy, Working

(* What a working state of the standard is.                                *)
States == [K : Block, V : Block, counter : Int]

(* Working states with the same fields are the same.                       *)
LEMMA StatesEqual ==
  ASSUME NEW r \in States, NEW s \in States, r.K = s.K, r.V = s.V, r.counter = s.counter
  PROVE  r = s
  BY DEF States

(* The working state of a context is one.                                  *)
LEMMA WorkingIs ==
  ASSUME NEW d \in Live
  PROVE  Working(d) \in States /\ Working(d).K = d.key /\ Working(d).V = d.V /\ Working(d).counter = d.reseed_counter
  BY DEF Working, States, Live

(* WithIs, of the working state.                                           *)
LEMMA WorkingWith ==
  ASSUME NEW d \in Live, NEW K \in Block, NEW W \in Block
  PROVE  [Working(d) EXCEPT !.K = K, !.V = W] = [K |-> K, V |-> W, counter |-> d.reseed_counter]
<1> DEFINE e == [Working(d) EXCEPT !.K = K, !.V = W]
           f == [K |-> K, V |-> W, counter |-> d.reseed_counter]
<1>1. e \in States /\ e.K = K /\ e.V = W /\ e.counter = d.reseed_counter
  BY WorkingIs DEF States
<1>2. f \in States /\ f.K = K /\ f.V = W /\ f.counter = d.reseed_counter
  BY DEF States, Live
<1> HIDE DEF e, f
<1>3. e = f
  BY <1>1, <1>2, StatesEqual
<1> QED BY <1>3 DEF e, f

(* One round of mbedtls_hmac_drbg_update.                                  *)
LEMMA RoundIs ==
  ASSUME HmacGivesBlocks, NEW d \in Live, NEW n \in Byte, NEW data \in Seq(Byte),
         NEW K, K = HmacSha256(d.key, d.V \o <<n>> \o data), NEW W, W = HmacSha256(K, d.V)
  PROVE  K \in Block /\ W \in Block /\ Round(d, n, data) = With(d, K, W)
<1>1. d.key \in Seq(Byte) /\ d.V \in Seq(Byte) /\ d.V \o <<n>> \o data \in Seq(Byte)
  BY BlocksAre DEF Live
<1>2. K \in Block /\ K \in Seq(Byte)
  BY <1>1, BlocksAre DEF HmacGivesBlocks
<1>3. W \in Block
  BY <1>1, <1>2 DEF HmacGivesBlocks
<1>4. Round(d, n, data) = [[d EXCEPT !.key = K] EXCEPT !.V = HmacSha256([d EXCEPT !.key = K].key, [d EXCEPT !.key = K].V)]
  BY DEF Round, hmac_starts, hmac_of
<1>5. [d EXCEPT !.key = K].key = K /\ [d EXCEPT !.key = K].V = d.V
  BY DEF Live
<1>6. Round(d, n, data) = With(d, K, W)
  BY <1>4, <1>5 DEF Live, With
<1> QED BY <1>2, <1>3, <1>6

(* mbedtls_hmac_drbg_update is the Update of the standard (10.1.2.2), and  *)
(* keeps the policy.                                                       *)
LEMMA UpdateIs ==
  ASSUME HmacGivesBlocks, NEW d \in Live, NEW data \in Seq(Byte)
  PROVE  /\ drbg_update(d, data) \in Live /\ SamePolicy(drbg_update(d, data), d)
         /\ drbg_update(d, data).reseed_counter = d.reseed_counter
         /\ Working(drbg_update(d, data)) = Abstract!Update(Working(d), data)
<1> DEFINE K1 == HmacSha256(d.key, d.V \o <<0>> \o data)
           V1 == HmacSha256(K1, d.V)
           K2 == HmacSha256(K1, V1 \o <<1>> \o data)
           V2 == HmacSha256(K2, V1)
           c == With(d, K1, V1)
<1>0. 0 \in Byte /\ 1 \in Byte
  BY DEF Byte
<1>1. K1 \in Block /\ V1 \in Block /\ Round(d, 0, data) = c
  BY <1>0, RoundIs
<1>w. Working(d).K = d.key /\ Working(d).V = d.V /\ Working(d).counter = d.reseed_counter
  BY DEF Working
<1>2. c \in Live /\ c.key = K1 /\ c.V = V1 /\ c.reseed_counter = d.reseed_counter /\ SamePolicy(c, d)
  BY <1>1, WithIs
<1>3. CASE data = <<>>
  <2>1. drbg_update(d, data) = c
    BY <1>1, <1>3 DEF drbg_update
  <2>2. Abstract!Update(Working(d), data) = [Working(d) EXCEPT !.K = K1, !.V = V1]
    BY <1>3, <1>w DEF Abstract!Update
  <2>3. [Working(d) EXCEPT !.K = K1, !.V = V1] = [K |-> K1, V |-> V1, counter |-> d.reseed_counter]
    BY <1>1, WorkingWith
  <2>4. Working(c) = [K |-> K1, V |-> V1, counter |-> d.reseed_counter]
    BY <1>1, WithIs
  <2> HIDE DEF c, K1, V1
  <2> QED BY <1>2, <2>1, <2>2, <2>3, <2>4
<1>4. CASE data # <<>>
  <2>1. K2 \in Block /\ V2 \in Block /\ Round(c, 1, data) = With(c, K2, V2)
    <3> HIDE DEF c, K1, V1
    <3> QED BY <1>0, <1>2, RoundIs
  <2>2. With(c, K2, V2) = With(d, K2, V2)
    BY <1>1, <2>1, WithIs
  <2>3. drbg_update(d, data) = With(d, K2, V2)
    BY <1>1, <1>4, <2>1, <2>2 DEF drbg_update
  <2>4. Abstract!Update(Working(d), data) = [Working(d) EXCEPT !.K = K2, !.V = V2]
    BY <1>4, <1>w DEF Abstract!Update
  <2>5. [Working(d) EXCEPT !.K = K2, !.V = V2] = [K |-> K2, V |-> V2, counter |-> d.reseed_counter]
    BY <2>1, WorkingWith
  <2>6. /\ With(d, K2, V2) \in Live /\ SamePolicy(With(d, K2, V2), d)
        /\ With(d, K2, V2).reseed_counter = d.reseed_counter
        /\ Working(With(d, K2, V2)) = [K |-> K2, V |-> V2, counter |-> d.reseed_counter]
    <3> HIDE DEF K2, V2
    <3> QED BY <2>1, WithIs
  <2> HIDE DEF K2, V2
  <2> QED BY <2>3, <2>4, <2>5, <2>6
<1> QED BY <1>3, <1>4

-----------------------------------------------------------------------------
(* Quotients and remainders.                                               *)
LEMMA DivIs ==
  ASSUME NEW m \in Nat, NEW c \in Nat \ {0}
  PROVE  m \div c \in Nat /\ m % c \in 0..c-1 /\ (m \div c) * c \in Nat /\ m = (m \div c) * c + (m % c)
  OBVIOUS

(* q and r are the quotient and the remainder of q * c + r.                *)
LEMMA DivUnique ==
  ASSUME NEW q \in Nat, NEW c \in Nat \ {0}, NEW r \in 0..c-1
  PROVE  (q * c + r) \div c = q /\ (q * c + r) % c = r
  OBVIOUS

(* A smaller factor gives a product smaller by c at least.                 *)
LEMMA Monotone ==
  ASSUME NEW i \in Nat, NEW k \in Nat, NEW c \in Nat, i < k
  PROVE  i * c + c <= k * c
<1>1. k - i - 1 \in Nat /\ k = i + 1 + (k - i - 1)
  OBVIOUS
<1>2. PICK d \in Nat : k = i + 1 + d
  BY <1>1
<1>3. d * c \in Nat /\ k * c = i * c + c + d * c
  BY <1>2, SMTT(30)
<1> QED BY <1>3, SMTT(30)

(* How often the loop of random_with_add turns.                            *)
Turns(n) == (n + MD_SIZE - 1) \div MD_SIZE

(* Often enough for n bytes, and not once too often.                       *)
LEMMA TurnsAre ==
  ASSUME NEW n \in Nat
  PROVE  Turns(n) \in 0..n /\ Turns(n) * MD_SIZE \in Nat /\ n <= Turns(n) * MD_SIZE /\ Turns(n) * MD_SIZE < n + MD_SIZE
<1> DEFINE T == Turns(n)
<1>0. MD_SIZE \in Nat \ {0} /\ n + MD_SIZE - 1 \in Nat
  BY GeneratorAssumption
<1>1. T \in Nat /\ T * MD_SIZE \in Nat
  BY <1>0, DivIs DEF Turns
<1>2. T * MD_SIZE <= n + MD_SIZE - 1 /\ n + MD_SIZE - 1 < T * MD_SIZE + MD_SIZE
  <2>1. (n + MD_SIZE - 1) % MD_SIZE \in 0..MD_SIZE-1 /\ n + MD_SIZE - 1 = T * MD_SIZE + ((n + MD_SIZE - 1) % MD_SIZE)
    BY <1>0, DivIs DEF Turns
  <2> HIDE DEF T
  <2> QED BY <1>0, <1>1, <2>1
<1> HIDE DEF T
<1>3. T <= n
  <2>1. ASSUME T >= n + 1 PROVE FALSE
    <3>1. T * MD_SIZE >= n * MD_SIZE + MD_SIZE /\ n * MD_SIZE >= n /\ n * MD_SIZE \in Nat
      BY <1>0, <1>1, <2>1, SMTT(30)
    <3> QED BY <1>0, <1>1, <1>2, <3>1
  <2> QED BY <1>1, <2>1
<1> QED BY <1>0, <1>1, <1>2, <1>3 DEF T

-----------------------------------------------------------------------------
(* Induction from 0 up to N.                                               *)
LEMMA UpTo ==
  ASSUME NEW N \in Nat, NEW S, 0 \in S, \A i \in 0..N-1 : i \in S => i + 1 \in S
  PROVE  0..N \subseteq S
<1> DEFINE missing == {i \in 0..N : i \notin S}
<1>1. SUFFICES ASSUME missing # {} PROVE FALSE
  OBVIOUS
<1>2. PICK k \in missing : \A j \in missing : ~(<<j, k>> \in OpToRel(<, Nat))
  <2>1. missing \subseteq Nat
    OBVIOUS
  <2> HIDE DEF missing
  <2> QED BY <1>1, <2>1, NatLessThanWellFounded, WFMin
<1>3. k - 1 \in missing /\ k \in Nat /\ k - 1 \in Nat
  <2>1. k \in 0..N /\ k \notin S /\ k # 0
    BY <1>2
  <2>2. k - 1 \in 0..N-1 /\ (k - 1) + 1 = k
    BY <2>1
  <2> QED BY <2>1, <2>2
<1>4. <<k - 1, k>> \in OpToRel(<, Nat)
  BY <1>3 DEF OpToRel
<1> QED BY <1>2, <1>3, <1>4

(* f is what F makes of x0 step by step, up to N steps.                    *)
Repeats(f, N, S, x0, F) == f \in [0..N -> S] /\ f[0] = x0 /\ \A i \in 1..N : f[i] = F[i][f[i - 1]]

(* There is such a function.                                               *)
LEMMA Recursion ==
  ASSUME NEW N \in Nat, NEW S, NEW x0 \in S, NEW F \in [1..N -> [S -> S]]
  PROVE  \E f : Repeats(f, N, S, x0, F)
<1> DEFINE Upto(n, f) == f \in [0..n -> S] /\ f[0] = x0 /\ \A i \in 1..n : f[i] = F[i][f[i - 1]]
           T == {n \in 0..N : \E f : Upto(n, f)}
<1>1. 0 \in T
  <2> DEFINE g == [i \in 0..0 |-> x0]
  <2>1. Upto(0, g)
    OBVIOUS
  <2> HIDE DEF g, Upto
  <2> QED BY <2>1
<1>2. \A n \in 0..N-1 : n \in T => n + 1 \in T
  <2> SUFFICES ASSUME NEW n \in 0..N-1, NEW f, Upto(n, f) PROVE n + 1 \in T
    OBVIOUS
  <2> DEFINE y == F[n + 1][f[n]]
             g == [i \in 0..n+1 |-> IF i <= n THEN f[i] ELSE y]
  <2>0. n \in Nat /\ n + 1 \in 1..N /\ n \in 0..n /\ (n + 1) - 1 = n /\ ~(n + 1 <= n)
    OBVIOUS
  <2>1. y \in S
    BY <2>0
  <2>2. g \in [0..n+1 -> S] /\ g[0] = x0 /\ (\A i \in 0..n : g[i] = f[i]) /\ g[n + 1] = y
    <3> HIDE DEF y
    <3> QED BY <2>0, <2>1
  <2>3. \A i \in 1..n+1 : g[i] = F[i][g[i - 1]]
    <3> SUFFICES ASSUME NEW i \in 1..n+1 PROVE g[i] = F[i][g[i - 1]]
      OBVIOUS
    <3>1. CASE i <= n
      <4>1. i \in 1..n /\ i \in 0..n /\ i - 1 \in 0..n
        BY <2>0, <3>1
      <4>2. g[i] = f[i] /\ g[i - 1] = f[i - 1] /\ f[i] = F[i][f[i - 1]]
        <5> HIDE DEF g
        <5> QED BY <2>2, <4>1
      <4> HIDE DEF g
      <4> QED BY <4>2
    <3>2. CASE i = n + 1
      <4>1. g[n + 1] = y /\ g[n] = f[n]
        <5> HIDE DEF g, y
        <5> QED BY <2>0, <2>2
      <4> HIDE DEF g
      <4> QED BY <2>0, <3>2, <4>1
    <3> QED BY <2>0, <3>1, <3>2
  <2>4. Upto(n + 1, g)
    <3> HIDE DEF g
    <3> QED BY <2>2, <2>3
  <2> HIDE DEF Upto
  <2> QED BY <2>0, <2>4
<1>3. N \in T
  <2>1. N \in 0..N
    OBVIOUS
  <2> HIDE DEF T
  <2> QED BY <1>1, <1>2, <2>1, UpTo
<1> QED BY <1>3 DEF Repeats

(* The values that V has in n turns of the loop, from v.                   *)
Values(key, v, n) == CHOOSE f : f = [i \in 0..n |-> IF i = 0 THEN v ELSE HmacSha256(key, f[i - 1])]
AreValues(f, key, v, n) == f \in [0..n -> Block] /\ f[0] = v /\ \A i \in 1..n : f[i] = HmacSha256(key, f[i - 1])

(* There are such values.                                                  *)
LEMMA ValuesAre ==
  ASSUME HmacGivesBlocks, NEW key \in Block, NEW v \in Block, NEW n \in Nat
  PROVE  AreValues(Values(key, v, n), key, v, n)
<1> DEFINE f == Values(key, v, n)
           F == [i \in 1..n |-> [b \in Block |-> HmacSha256(key, b)]]
           Is(g) == g = [i \in 0..n |-> IF i = 0 THEN v ELSE HmacSha256(key, g[i - 1])]
<1>1. \A b \in Block : HmacSha256(key, b) \in Block
  BY BlocksAre DEF HmacGivesBlocks
<1>2. F \in [1..n -> [Block -> Block]]
  BY <1>1
<1>3. PICK g : Repeats(g, n, Block, v, F)
  <2> HIDE DEF F
  <2> QED BY <1>2, Recursion
<1>r. g \in [0..n -> Block] /\ g[0] = v /\ \A i \in 1..n : g[i] = F[i][g[i - 1]]
  <2> HIDE DEF F
  <2> QED BY <1>3 DEF Repeats
<1>4. \A i \in 1..n : i - 1 \in 0..n /\ g[i - 1] \in Block /\ F[i][g[i - 1]] = HmacSha256(key, g[i - 1])
  BY <1>r
<1>5. \A i \in 0..n : g[i] = IF i = 0 THEN v ELSE HmacSha256(key, g[i - 1])
  <2> HIDE DEF F
  <2> QED BY <1>r, <1>4
<1>6. Is(g)
  <2>1. g = [i \in 0..n |-> g[i]]
    BY <1>r
  <2>2. [i \in 0..n |-> g[i]] = [i \in 0..n |-> IF i = 0 THEN v ELSE HmacSha256(key, g[i - 1])]
    BY <1>5
  <2> QED BY <2>1, <2>2
<1>7. Is(CHOOSE h : Is(h))
  <2> HIDE DEF Is
  <2> QED BY <1>6
<1>8. f = CHOOSE h : Is(h)
  BY DEF Values
<1> HIDE DEF f
<1>9. f = [i \in 0..n |-> IF i = 0 THEN v ELSE HmacSha256(key, f[i - 1])]
  BY <1>7, <1>8
<1>10. f[0] = v /\ \A i \in 1..n : f[i] = HmacSha256(key, f[i - 1])
  <2>1. 0 \in 0..n /\ \A i \in 1..n : i \in 0..n /\ i # 0
    OBVIOUS
  <2> QED BY <1>9, <2>1
<1>11. \A i \in 0..n : f[i] \in Block
  <2> DEFINE S == {i \in 0..n : f[i] \in Block}
  <2>1. 0 \in S
    BY <1>10
  <2>2. \A i \in 0..n-1 : i \in S => i + 1 \in S
    <3> SUFFICES ASSUME NEW i \in 0..n-1, f[i] \in Block PROVE i + 1 \in 0..n /\ f[i + 1] \in Block
      OBVIOUS
    <3>1. i + 1 \in 1..n /\ i + 1 \in 0..n /\ (i + 1) - 1 = i
      OBVIOUS
    <3>2. f[i + 1] = HmacSha256(key, f[i])
      BY <1>10, <3>1
    <3> QED BY <1>1, <3>1, <3>2
  <2> HIDE DEF S
  <2>3. 0..n \subseteq S
    BY <2>1, <2>2, UpTo
  <2> QED BY <2>3 DEF S
<1>12. f = [i \in 0..n |-> f[i]]
  BY <1>9
<1>13. AreValues(f, key, v, n)
  BY <1>10, <1>11, <1>12 DEF AreValues
<1> QED BY <1>13 DEF f

(* More turns begin with the same values.                                  *)
LEMMA ValuesAgree ==
  ASSUME HmacGivesBlocks, NEW key \in Block, NEW v \in Block, NEW m \in Nat, NEW n \in Nat, m <= n,
         NEW f, f = Values(key, v, m), NEW g, g = Values(key, v, n)
  PROVE  \A i \in 0..m : f[i] = g[i]
<1> DEFINE S == {i \in 0..m : f[i] = g[i]}
<1>0. AreValues(f, key, v, m) /\ AreValues(g, key, v, n)
  BY ValuesAre
<1>1. /\ f[0] = v /\ \A i \in 1..m : f[i] = HmacSha256(key, f[i - 1])
      /\ g[0] = v /\ \A i \in 1..n : g[i] = HmacSha256(key, g[i - 1])
  BY <1>0 DEF AreValues
<1>2. 0 \in S
  BY <1>1
<1>3. \A i \in 0..m-1 : i \in S => i + 1 \in S
  <2> SUFFICES ASSUME NEW i \in 0..m-1, f[i] = g[i] PROVE i + 1 \in 0..m /\ f[i + 1] = g[i + 1]
    OBVIOUS
  <2>1. i + 1 \in 1..m /\ i + 1 \in 1..n /\ (i + 1) - 1 = i
    OBVIOUS
  <2> QED BY <1>1, <2>1
<1> HIDE DEF S
<1>4. 0..m \subseteq S
  BY <1>2, <1>3, UpTo
<1> QED BY <1>4 DEF S

-----------------------------------------------------------------------------
(* The memcpy of one turn: c is o with the first bytes of b after it.      *)
Room(o, n) == IF n - Len(o) > MD_SIZE THEN MD_SIZE ELSE n - Len(o)
IsCopied(c, o, b, add) ==
  Len(c) = Len(o) + add /\ (\A j \in 1..Len(o) : c[j] = o[j]) /\ \A j \in 1..add : c[Len(o) + j] = b[j]

(* It appends a block, or what there is room for.                          *)
LEMMA CopiedIs ==
  ASSUME NEW o \in Seq(Byte), NEW b \in Block, NEW n \in Nat
  PROVE  /\ Copied(o, b, n) \in Seq(Byte)
         /\ Len(o) <= n => IsCopied(Copied(o, b, n), o, b, Room(o, n))
<1> DEFINE left == n - Len(o)
           add == Room(o, n)
           p == SubSeq(b, 1, add)
<1>1. MD_SIZE \in Nat /\ Len(o) \in Nat /\ b \in Seq(Byte) /\ Len(b) = MD_SIZE /\ left \in Int /\ add \in Int /\ add <= MD_SIZE
  BY GeneratorAssumption, BlocksAre DEF Room
<1>2. Copied(o, b, n) = o \o p
  BY DEF Copied, Prefix, Room
<1>3. p \in Seq(Byte) /\ (add \in Nat => Len(p) = add /\ \A j \in 1..add : p[j] = b[j])
  <2> HIDE DEF add
  <2> QED BY <1>1
<1>4. Len(o) <= n => add \in Nat
  BY <1>1 DEF Room
<1> HIDE DEF p, add
<1>5. o \o p \in Seq(Byte) /\ Len(o \o p) = Len(o) + Len(p)
  BY <1>3
<1>6. \A j \in 1..Len(o) : (o \o p)[j] = o[j]
  BY <1>3
<1>7. \A j \in 1..Len(p) : (o \o p)[Len(o) + j] = p[j]
  BY <1>1, <1>3
<1>8. Len(o) <= n => IsCopied(o \o p, o, b, add)
  BY <1>3, <1>4, <1>5, <1>6, <1>7 DEF IsCopied
<1> QED BY <1>2, <1>5, <1>8 DEF add

(* What is given after each of N turns, if V has the values W.             *)
Given(W, n, N) == CHOOSE f : f = [i \in 0..N |-> IF i = 0 THEN <<>> ELSE Copied(f[i - 1], W[i], n)]
AreGiven(f, W, n, N) == f \in [0..N -> Seq(Byte)] /\ f[0] = <<>> /\ \A i \in 1..N : f[i] = Copied(f[i - 1], W[i], n)

(* There are such sequences.                                               *)
LEMMA GivenAre ==
  ASSUME NEW N \in Nat, NEW n \in Nat, NEW W \in [0..N -> Block]
  PROVE  AreGiven(Given(W, n, N), W, n, N)
<1> DEFINE f == Given(W, n, N)
           F == [i \in 1..N |-> [o \in Seq(Byte) |-> Copied(o, W[i], n)]]
           Is(g) == g = [i \in 0..N |-> IF i = 0 THEN <<>> ELSE Copied(g[i - 1], W[i], n)]
<1>1. \A o \in Seq(Byte), i \in 0..N : Copied(o, W[i], n) \in Seq(Byte)
  <2>1. \A i \in 0..N : W[i] \in Block
    OBVIOUS
  <2> QED BY <2>1, CopiedIs
<1>2. F \in [1..N -> [Seq(Byte) -> Seq(Byte)]] /\ <<>> \in Seq(Byte)
  <2>1. <<>> \in Seq(Byte)
    OBVIOUS
  <2>2. \A i \in 1..N : i \in 0..N
    OBVIOUS
  <2> QED BY <1>1, <2>1, <2>2
<1>3. PICK g : Repeats(g, N, Seq(Byte), <<>>, F)
  <2> HIDE DEF F
  <2> QED BY <1>2, Recursion
<1>4. g \in [0..N -> Seq(Byte)] /\ g[0] = <<>> /\ \A i \in 1..N : g[i] = F[i][g[i - 1]]
  <2> HIDE DEF F
  <2> QED BY <1>3 DEF Repeats
<1>5. \A i \in 1..N : i - 1 \in 0..N /\ g[i - 1] \in Seq(Byte) /\ F[i][g[i - 1]] = Copied(g[i - 1], W[i], n)
  <2> SUFFICES ASSUME NEW i \in 1..N
               PROVE  i - 1 \in 0..N /\ g[i - 1] \in Seq(Byte) /\ F[i][g[i - 1]] = Copied(g[i - 1], W[i], n)
    OBVIOUS
  <2>1. i - 1 \in 0..N
    OBVIOUS
  <2>2. g[i - 1] \in Seq(Byte)
    BY <1>4, <2>1
  <2>3. \A o \in Seq(Byte) : F[i][o] = Copied(o, W[i], n)
    OBVIOUS
  <2> HIDE DEF F
  <2> QED BY <2>1, <2>2, <2>3
<1>6. \A i \in 0..N : g[i] = IF i = 0 THEN <<>> ELSE Copied(g[i - 1], W[i], n)
  <2> HIDE DEF F
  <2> QED BY <1>4, <1>5
<1>7. Is(g)
  <2>1. g = [i \in 0..N |-> g[i]]
    BY <1>4
  <2>2. [i \in 0..N |-> g[i]] = [i \in 0..N |-> IF i = 0 THEN <<>> ELSE Copied(g[i - 1], W[i], n)]
    BY <1>6
  <2> QED BY <2>1, <2>2
<1>8. Is(CHOOSE h : Is(h))
  <2> HIDE DEF Is
  <2> QED BY <1>7
<1>9. f = CHOOSE h : Is(h)
  BY DEF Given
<1> HIDE DEF f
<1>10. f = [i \in 0..N |-> IF i = 0 THEN <<>> ELSE Copied(f[i - 1], W[i], n)]
  BY <1>8, <1>9
<1>11. f[0] = <<>> /\ \A i \in 1..N : f[i] = Copied(f[i - 1], W[i], n)
  <2>1. 0 \in 0..N /\ \A i \in 1..N : i \in 0..N /\ i # 0
    OBVIOUS
  <2> QED BY <1>10, <2>1
<1>12. \A i \in 0..N : f[i] \in Seq(Byte)
  <2> DEFINE S == {i \in 0..N : f[i] \in Seq(Byte)}
  <2>1. 0 \in S
    <3>1. f[0] \in Seq(Byte)
      BY <1>2, <1>11
    <3>2. 0 \in 0..N
      OBVIOUS
    <3> QED BY <3>1, <3>2
  <2>2. \A i \in 0..N-1 : i \in S => i + 1 \in S
    <3> SUFFICES ASSUME NEW i \in 0..N-1, f[i] \in Seq(Byte) PROVE i + 1 \in 0..N /\ f[i + 1] \in Seq(Byte)
      OBVIOUS
    <3>1. i + 1 \in 1..N /\ i + 1 \in 0..N /\ (i + 1) - 1 = i
      OBVIOUS
    <3>2. f[i + 1] = Copied(f[i], W[i + 1], n)
      BY <1>11, <3>1
    <3> QED BY <1>1, <3>1, <3>2
  <2> HIDE DEF S
  <2>3. 0..N \subseteq S
    BY <2>1, <2>2, UpTo
  <2> QED BY <2>3 DEF S
<1>13. f = [i \in 0..N |-> f[i]]
  BY <1>10
<1>14. AreGiven(f, W, n, N)
  BY <1>11, <1>12, <1>13 DEF AreGiven
<1> QED BY <1>14 DEF f

(* Byte j of the blocks W[1] \o W[2] \o ...                                *)
Nth(W, j) == W[((j - 1) \div MD_SIZE) + 1][((j - 1) % MD_SIZE) + 1]

(* In block i + 1, the byte r.                                             *)
LEMMA NthIs ==
  ASSUME NEW W, NEW i \in Nat, NEW r \in 1..MD_SIZE
  PROVE  Nth(W, i * MD_SIZE + r) = W[i + 1][r]
<1>1. MD_SIZE \in Nat \ {0} /\ r - 1 \in 0..MD_SIZE-1 /\ i * MD_SIZE \in Nat
  BY GeneratorAssumption
<1>2. (i * MD_SIZE + r) - 1 = i * MD_SIZE + (r - 1) /\ (r - 1) + 1 = r
  BY <1>1
<1>3. (i * MD_SIZE + (r - 1)) \div MD_SIZE = i /\ (i * MD_SIZE + (r - 1)) % MD_SIZE = r - 1
  BY <1>1, DivUnique
<1> QED BY <1>2, <1>3 DEF Nth

(* Turn after turn the loop gives the bytes of the values of V, in order,  *)
(* up to the number asked for.                                             *)
LEMMA OutputIs ==
  ASSUME NEW n \in Nat, NEW N, N = Turns(n), NEW W \in [0..N -> Block]
  PROVE  /\ Given(W, n, N)[N] \in Seq(Byte) /\ Len(Given(W, n, N)[N]) = n
         /\ \A j \in 1..n : Given(W, n, N)[N][j] = Nth(W, j)
<1> DEFINE f == Given(W, n, N)
           Part(i) == /\ f[i] \in Seq(Byte) /\ Len(f[i]) = IF i * MD_SIZE < n THEN i * MD_SIZE ELSE n
                      /\ \A j \in 1..Len(f[i]) : f[i][j] = Nth(W, j)
           S == {i \in 0..N : Part(i)}
<1>0. MD_SIZE \in Nat \ {0} /\ N \in Nat /\ N * MD_SIZE \in Nat /\ n <= N * MD_SIZE /\ N * MD_SIZE < n + MD_SIZE
  BY GeneratorAssumption, TurnsAre
<1>1. AreGiven(f, W, n, N)
  BY <1>0, GivenAre
<1> HIDE DEF f
<1>2. f \in [0..N -> Seq(Byte)] /\ f[0] = <<>> /\ \A i \in 1..N : f[i] = Copied(f[i - 1], W[i], n)
  BY <1>1 DEF AreGiven
<1>3. 0 \in S
  <2>1. 0 \in 0..N /\ 0 * MD_SIZE = 0
    BY <1>0
  <2>2. f[0] \in Seq(Byte) /\ Len(f[0]) = 0
    BY <1>2, <2>1
  <2>3. Len(f[0]) = IF 0 < n THEN 0 ELSE n
    BY <2>2
  <2>4. \A j \in 1..Len(f[0]) : FALSE
    BY <2>2
  <2> QED BY <2>1, <2>2, <2>3, <2>4
<1>4. \A i \in 0..N-1 : i \in S => i + 1 \in S
  <2> SUFFICES ASSUME NEW i \in 0..N-1, Part(i) PROVE i + 1 \in 0..N /\ Part(i + 1)
    BY DEF S
  <2> DEFINE o == f[i]
             b == W[i + 1]
             m == i * MD_SIZE
             add == Room(o, n)
  <2>1. i \in Nat /\ i + 1 \in 1..N /\ i + 1 \in 0..N /\ (i + 1) - 1 = i
    BY <1>0
  <2>2. m \in Nat /\ m < n /\ (i + 1) * MD_SIZE = m + MD_SIZE
    <3>1. m \in Nat /\ (i + 1) * MD_SIZE = m + MD_SIZE
      BY <1>0, <2>1
    <3>2. i < N /\ N \in Nat /\ MD_SIZE \in Nat
      BY <1>0
    <3>3. m + MD_SIZE <= N * MD_SIZE
      BY <2>1, <3>2, Monotone DEF m
    <3> HIDE DEF m
    <3> QED BY <1>0, <3>1, <3>3
  <2>3. f[i + 1] = Copied(o, b, n) /\ o \in Seq(Byte) /\ b \in Block /\ Len(o) = m
    BY <1>2, <2>1, <2>2
  <2> HIDE DEF o, b, m
  <2>4. /\ Copied(o, b, n) \in Seq(Byte) /\ Len(Copied(o, b, n)) = m + add
        /\ \A j \in 1..m : Copied(o, b, n)[j] = o[j]
        /\ \A j \in 1..add : Copied(o, b, n)[m + j] = b[j]
    <3>1. Copied(o, b, n) \in Seq(Byte) /\ IsCopied(Copied(o, b, n), o, b, add)
      BY <2>2, <2>3, CopiedIs
    <3> HIDE DEF add
    <3> QED BY <2>3, <3>1 DEF IsCopied
  <2>5. add \in 1..MD_SIZE /\ m + add = IF m + MD_SIZE < n THEN m + MD_SIZE ELSE n
    BY <1>0, <2>2, <2>3 DEF Room
  <2>6. \A j \in 1..m : o[j] = Nth(W, j)
    BY <2>3 DEF o
  <2>7. \A j \in 1..add : b[j] = Nth(W, m + j)
    <3> SUFFICES ASSUME NEW j \in 1..add PROVE b[j] = Nth(W, m + j)
      OBVIOUS
    <3>1. j \in 1..MD_SIZE
      BY <1>0, <2>5
    <3> QED BY <2>1, <3>1, NthIs DEF m, b
  <2> HIDE DEF add
  <2>8. \A j \in 1..m + add : Copied(o, b, n)[j] = Nth(W, j)
    <3> SUFFICES ASSUME NEW j \in 1..m + add PROVE Copied(o, b, n)[j] = Nth(W, j)
      OBVIOUS
    <3>1. CASE j <= m
      BY <2>2, <2>4, <2>6, <3>1
    <3>2. CASE j > m
      <4>1. j - m \in 1..add /\ m + (j - m) = j
        BY <1>0, <2>2, <2>5, <3>2
      <4>2. Copied(o, b, n)[m + (j - m)] = b[j - m] /\ b[j - m] = Nth(W, m + (j - m))
        BY <2>4, <2>7, <4>1
      <4> QED BY <4>1, <4>2
    <3> QED BY <2>2, <2>5, <3>1, <3>2
  <2> QED BY <2>1, <2>2, <2>3, <2>4, <2>5, <2>8
<1>5. N \in S
  <2> HIDE DEF S
  <2>1. 0..N \subseteq S
    BY <1>0, <1>3, <1>4, UpTo
  <2> QED BY <1>0, <2>1
<1>6. Part(N)
  BY <1>5
<1>7. f[N] \in Seq(Byte) /\ Len(f[N]) = n /\ \A j \in 1..n : f[N][j] = Nth(W, j)
  BY <1>0, <1>6
<1> QED BY <1>7 DEF f

(* Generated, said with these.                                             *)
LEMMA GeneratedAre ==
  ASSUME NEW d, NEW n
  PROVE  LET W == Values(d.key, d.V, Turns(n))
         IN  Generated(d, n) = [ctx |-> [d EXCEPT !.V = W[Turns(n)]], out |-> Given(W, n, Turns(n))[Turns(n)]]
  BY Zenon DEF Generated, Values, Given, Turns, hmac_of

(* The loop gives what the standard says (10.1.2.5, steps 3 to 5), where   *)
(* the values of V are computed as far as that needs at most.              *)
Made(d, n, g) ==
  /\ g.ctx = With(d, d.key, Values(d.key, d.V, n)[Turns(n)]) /\ Values(d.key, d.V, n)[Turns(n)] \in Block
  /\ g.out = [j \in 1..n |-> Nth(Values(d.key, d.V, n), j)] /\ g.out \in Seq(Byte)

(* It does.                                                                *)
LEMMA GeneratedIs ==
  ASSUME HmacGivesBlocks, NEW d \in Live, NEW n \in Nat
  PROVE  Made(d, n, Generated(d, n))
<1> DEFINE N == Turns(n)
           W == Values(d.key, d.V, N)
           V == Values(d.key, d.V, n)
           o == Given(W, n, N)[N]
<1>0. /\ MD_SIZE \in Nat \ {0} /\ N \in 0..n /\ N \in Nat /\ N * MD_SIZE \in Nat /\ n <= N * MD_SIZE
      /\ d.key \in Block /\ d.V \in Block
  <2>1. d.key \in Block /\ d.V \in Block
    BY DEF Live
  <2>2. N \in 0..n /\ N * MD_SIZE \in Nat /\ n <= N * MD_SIZE
    BY TurnsAre
  <2> HIDE DEF N
  <2> QED BY <2>1, <2>2, GeneratorAssumption
<1>1. Generated(d, n).ctx = [d EXCEPT !.V = W[N]] /\ Generated(d, n).out = o
  BY GeneratedAre
<1>2. AreValues(W, d.key, d.V, N) /\ AreValues(V, d.key, d.V, n)
  BY <1>0, ValuesAre
<1>3. W \in [0..N -> Block] /\ V \in [0..n -> Block]
  BY <1>2 DEF AreValues
<1>4. \A i \in 0..N : W[i] = V[i]
  <2> HIDE DEF N
  <2> QED BY <1>0, ValuesAgree
<1>5. o \in Seq(Byte) /\ Len(o) = n /\ \A j \in 1..n : o[j] = Nth(W, j)
  <2> HIDE DEF W
  <2> QED BY <1>3, OutputIs
<1> HIDE DEF o, W, V, N
<1>6. \A j \in 1..n : Nth(W, j) = Nth(V, j)
  <2> SUFFICES ASSUME NEW j \in 1..n PROVE Nth(W, j) = Nth(V, j)
    OBVIOUS
  <2> DEFINE q == (j - 1) \div MD_SIZE
  <2>1. j - 1 \in Nat /\ q \in Nat /\ q * MD_SIZE \in Nat /\ q * MD_SIZE <= j - 1
    <3>1. j - 1 \in Nat
      OBVIOUS
    <3>2. q \in Nat /\ q * MD_SIZE \in Nat /\ j - 1 = q * MD_SIZE + ((j - 1) % MD_SIZE) /\ (j - 1) % MD_SIZE \in 0..MD_SIZE-1
      BY <1>0, <3>1, DivIs
    <3> HIDE DEF q
    <3> QED BY <1>0, <3>1, <3>2
  <2> HIDE DEF q
  <2>2. q < N
    <3>1. ASSUME N < q PROVE FALSE
      <4>1. N * MD_SIZE + MD_SIZE <= q * MD_SIZE
        BY <1>0, <2>1, <3>1, Monotone
      <4> QED BY <1>0, <2>1, <4>1
    <3>2. ASSUME N = q PROVE FALSE
      BY <1>0, <2>1, <3>2
    <3> QED BY <1>0, <2>1, <3>1, <3>2
  <2>3. q + 1 \in 0..N
    BY <1>0, <2>1, <2>2
  <2> QED BY <1>4, <2>3 DEF Nth, q
<1>7. o = [j \in 1..n |-> Nth(V, j)]
  <2>1. o = [j \in 1..n |-> o[j]]
    BY <1>5
  <2>2. [j \in 1..n |-> o[j]] = [j \in 1..n |-> Nth(V, j)]
    BY <1>5, <1>6
  <2> QED BY <2>1, <2>2
<1>8. [d EXCEPT !.V = W[N]] = With(d, d.key, V[N])
  <2>1. W[N] = V[N]
    BY <1>0, <1>4
  <2> QED BY <2>1 DEF With, Live
<1>9. V[N] \in Block
  BY <1>0, <1>3
<1> QED BY <1>1, <1>5, <1>7, <1>8, <1>9 DEF Made, V, N

(* A buffer filled with one byte.                                          *)
Filled(n, b) == Buffer(n, [i \in 1..n |-> b])

(* It is a block.                                                          *)
LEMMA FilledIs ==
  ASSUME NEW b \in Byte
  PROVE  Filled(MD_SIZE, b) \in Block /\ Len(Filled(MD_SIZE, b)) = MD_SIZE
<1> DEFINE s == [i \in 1..MD_SIZE |-> b]
<1>1. MD_SIZE \in Nat /\ s \in Seq(Byte) /\ Len(s) = MD_SIZE /\ s \in Block
  BY GeneratorAssumption DEF Block
<1>2. SubSeq(s, 1, MD_SIZE) = s
  <2> HIDE DEF s
  <2> QED BY <1>1
<1> QED BY <1>1, <1>2 DEF Filled, Buffer

(* The zeros of init are a block.                                          *)
LEMMA ZeroIs == Zeros(MD_SIZE) = Filled(MD_SIZE, 0) /\ Zeros(MD_SIZE) \in Block /\ Len(Zeros(MD_SIZE)) = MD_SIZE
<1>1. Zeros(MD_SIZE) = Filled(MD_SIZE, 0)
  BY DEF Zeros, Filled
<1>2. 0 \in Byte
  BY DEF Byte
<1> QED BY <1>1, <1>2, FilledIs

(* A context whose reseed counter is set.                                  *)
Counting(d, k) == [d EXCEPT !.reseed_counter = k]

(* Nothing else of it changes.                                             *)
LEMMA CountingIs ==
  ASSUME NEW d \in Live, NEW k \in Int
  PROVE  /\ Counting(d, k) \in Live /\ SamePolicy(Counting(d, k), d)
         /\ Working(Counting(d, k)) = [Working(d) EXCEPT !.counter = k]
<1>1. Counting(d, k) \in Live /\ SamePolicy(Counting(d, k), d)
  BY DEF Counting, Live, SamePolicy
<1> DEFINE r == Working(Counting(d, k))
           s == [Working(d) EXCEPT !.counter = k]
<1>2. Counting(d, k).key = d.key /\ Counting(d, k).V = d.V /\ Counting(d, k).reseed_counter = k
  BY DEF Counting, Live
<1>3. r \in States /\ r.K = d.key /\ r.V = d.V /\ r.counter = k
  BY <1>1, <1>2, WorkingIs
<1>4. s \in States /\ s.K = d.key /\ s.V = d.V /\ s.counter = k
  BY WorkingIs DEF States
<1> HIDE DEF r, s
<1>5. r = s
  BY <1>3, <1>4, StatesEqual
<1> QED BY <1>1, <1>5 DEF r, s

(* The context that steps 3 to 5 of 10.1.2.5 work on, and the one after    *)
(* steps 6 and 7.                                                          *)
Ready(d, input) == IF input # <<>> THEN drbg_update(d, input) ELSE d
After(d, n, input) ==
  Counting(drbg_update(Generated(Ready(d, input), n).ctx, input),
           drbg_update(Generated(Ready(d, input), n).ctx, input).reseed_counter + 1)

(* A call of random_with_add that does not reseed is the Generate of the   *)
(* standard (10.1.2.5).                                                    *)
LEMMA GenerateIs ==
  ASSUME HmacGivesBlocks, NEW d \in Live, NEW n \in Nat, NEW input \in Seq(Byte)
  PROVE  /\ After(d, n, input) \in Live /\ SamePolicy(After(d, n, input), d)
         /\ Generated(Ready(d, input), n).out \in Seq(Byte)
         /\ Abstract!Generate(Working(d), n, input).out = Generated(Ready(d, input), n).out
         /\ Abstract!Generate(Working(d), n, input).state = Working(After(d, n, input))
<1> DEFINE b == Ready(d, input)
           g == Generated(b, n)
           begun == IF input = <<>> THEN Working(d) ELSE Abstract!Update(Working(d), input)
           V == Values(begun.K, begun.V, n)
           moved == [begun EXCEPT !.V = V[Turns(n)]]
           u == drbg_update(g.ctx, input)
<1>1. b \in Live /\ SamePolicy(b, d) /\ Working(b) = begun
  <2>1. CASE input = <<>>
    BY <2>1 DEF Ready, SamePolicy
  <2>2. CASE input # <<>>
    <3>1. drbg_update(d, input) \in Live /\ SamePolicy(drbg_update(d, input), d)
          /\ Working(drbg_update(d, input)) = Abstract!Update(Working(d), input)
      BY UpdateIs
    <3> QED BY <2>2, <3>1 DEF Ready
  <2> QED BY <2>1, <2>2
<1>2. begun.K = b.key /\ begun.V = b.V /\ begun \in States
  <2> HIDE DEF b, begun
  <2> QED BY <1>1, WorkingIs
<1>3. Made(b, n, g)
  <2> HIDE DEF b
  <2> QED BY <1>1, GeneratedIs
<1>4. /\ g.ctx = With(b, b.key, V[Turns(n)]) /\ V[Turns(n)] \in Block
      /\ g.out = [j \in 1..n |-> Nth(V, j)] /\ g.out \in Seq(Byte)
  <2> HIDE DEF b, g, begun
  <2> QED BY <1>2, <1>3 DEF Made
<1>5. b.key \in Block
  BY <1>1 DEF Live
<1>6. g.ctx \in Live /\ SamePolicy(g.ctx, b) /\ Working(g.ctx) = moved
  <2> HIDE DEF b, g, V, begun
  <2>1. /\ g.ctx \in Live /\ SamePolicy(g.ctx, b) /\ g.ctx.reseed_counter = b.reseed_counter
        /\ Working(g.ctx) = [K |-> b.key, V |-> V[Turns(n)], counter |-> b.reseed_counter]
    BY <1>1, <1>4, <1>5, WithIs
  <2>2. [Working(b) EXCEPT !.V = V[Turns(n)]] \in States
    BY <1>1, <1>4, WorkingIs DEF States
  <2>3. [Working(b) EXCEPT !.V = V[Turns(n)]].K = b.key /\ [Working(b) EXCEPT !.V = V[Turns(n)]].V = V[Turns(n)]
        /\ [Working(b) EXCEPT !.V = V[Turns(n)]].counter = b.reseed_counter
    BY <1>1, WorkingIs DEF States
  <2>4. Working(g.ctx) \in States /\ Working(g.ctx).K = b.key /\ Working(g.ctx).V = V[Turns(n)]
        /\ Working(g.ctx).counter = b.reseed_counter
    BY <2>1, WorkingIs
  <2>5. Working(g.ctx) = [Working(b) EXCEPT !.V = V[Turns(n)]]
    <3> DEFINE x == Working(g.ctx)
               y == [Working(b) EXCEPT !.V = V[Turns(n)]]
    <3> HIDE DEF x, y
    <3>1. x = y
      BY <2>2, <2>3, <2>4, StatesEqual DEF x, y
    <3> QED BY <3>1 DEF x, y
  <2> QED BY <1>1, <2>1, <2>5
<1>7. u \in Live /\ SamePolicy(u, g.ctx) /\ Working(u) = Abstract!Update(moved, input)
  <2> HIDE DEF g, moved
  <2> QED BY <1>6, UpdateIs
<1>8. /\ Counting(u, u.reseed_counter + 1) \in Live /\ SamePolicy(Counting(u, u.reseed_counter + 1), u)
      /\ Working(Counting(u, u.reseed_counter + 1)) = [Working(u) EXCEPT !.counter = u.reseed_counter + 1]
      /\ Working(u).counter = u.reseed_counter
  <2> HIDE DEF u
  <2>1. u.reseed_counter + 1 \in Int
    BY <1>7 DEF Live
  <2> QED BY <1>7, <2>1, CountingIs, WorkingIs
<1>9. After(d, n, input) = Counting(u, u.reseed_counter + 1)
  BY DEF After
<1>10. SamePolicy(After(d, n, input), d)
  <2> HIDE DEF u, g, b
  <2> QED BY <1>1, <1>6, <1>7, <1>8, <1>9 DEF SamePolicy
<1>11. Abstract!Generate(Working(d), n, input) =
         [out |-> [i \in 1..n |-> Nth(V, i)],
          state |-> [Abstract!Update(moved, input) EXCEPT !.counter = @ + 1]]
  <2> DEFINE L == Len(Zeros(MD_SIZE))
  <2>1. Abstract!Generate(Working(d), n, input) =
          [out |-> [i \in 1..n |-> V[((i - 1) \div L) + 1][((i - 1) % L) + 1]],
           state |-> [Abstract!Update([begun EXCEPT !.V = V[(n + L - 1) \div L]], input) EXCEPT !.counter = @ + 1]]
    BY Zenon DEF Abstract!Generate, Values
  <2>2. L = MD_SIZE
    BY ZeroIs
  <2> HIDE DEF L, V, begun
  <2> QED BY <2>1, <2>2 DEF Turns, Nth
<1>12. [Abstract!Update(moved, input) EXCEPT !.counter = @ + 1] = Working(After(d, n, input))
  <2> HIDE DEF u, moved
  <2> QED BY <1>7, <1>8, <1>9
<1> HIDE DEF u, moved, V, begun
<1> QED BY <1>1, <1>4, <1>8, <1>9, <1>10, <1>11, <1>12 DEF g, b

-----------------------------------------------------------------------------
(* How much entropy the first seed asks for, and those after it.           *)
LEMMA LengthsAre == Strength \in Nat /\ FirstLength \in Nat
  BY GeneratorAssumption DEF Strength, FirstLength

(* The amounts of entropy that are asked for.                              *)
Amounts == EntropyLens \cup {Strength, FirstLength}

(* c is the context d with the working state s, reseeded from the answer   *)
(* e and the data add.                                                     *)
Refreshed(d, s, len, add, e, c) ==
  /\ e \in Sources /\ add \in Seq(Byte) /\ Len(add) <= MAX_INPUT
  /\ c \in Live /\ SamePolicy(c, d) /\ Working(c) = Abstract!Seeded(s, EntropyOf(e, len) \o add)

(* mbedtls_hmac_drbg_reseed is the Reseed of the standard (10.1.2.4), or   *)
(* it fails and changes nothing.                                           *)
LEMMA ReseedIs ==
  ASSUME HmacGivesBlocks, NEW d \in Live, d.entropy_len \in Amounts, NEW add \in Additional, NEW e \in Answers,
         NEW r, r = reseed(d, add, e)
  PROVE  /\ r.ret # 0 => r.ctx = d
         /\ r.ret = 0 => Refreshed(d, Working(d), d.entropy_len, add, e, r.ctx)
<1> DEFINE data == EntropyOf(e, d.entropy_len) \o add
           u == drbg_update(d, data)
<1>0. add \in Seq(Byte) /\ Len(add) \in Nat /\ MAX_INPUT \in Nat /\ d.entropy_len \in Nat
  BY GeneratorAssumption DEF Live
<1>1. CASE \/ Len(add) > MAX_INPUT \/ d.entropy_len + Len(add) > MAX_SEED_INPUT \/ e = SourceFails
  <2>1. r.ret # 0 /\ r.ctx = d
    BY <1>1 DEF reseed, INPUT_TOO_BIG, ENTROPY_SOURCE_FAILED
  <2> QED BY <2>1
<1>2. CASE ~(Len(add) > MAX_INPUT \/ d.entropy_len + Len(add) > MAX_SEED_INPUT) /\ e # SourceFails
  <2>1. e \in Sources
    BY <1>2 DEF Answers
  <2>2. EntropyOf(e, d.entropy_len) \in Seq(Byte)
    BY <2>1, GeneratorAssumption DEF Amounts
  <2>3. data \in Seq(Byte)
    BY <1>0, <2>2
  <2>4. r.ret = 0 /\ r.ctx = Counting(u, 1)
    BY <1>2 DEF reseed, Counting
  <2> HIDE DEF data
  <2>5. u \in Live /\ SamePolicy(u, d) /\ Working(u) = Abstract!Update(Working(d), data)
    BY <2>3, UpdateIs
  <2> HIDE DEF u
  <2>6. Counting(u, 1) \in Live /\ SamePolicy(Counting(u, 1), u) /\ Working(Counting(u, 1)) = [Working(u) EXCEPT !.counter = 1]
    BY <2>5, CountingIs
  <2>7. Working(r.ctx) = Abstract!Seeded(Working(d), data)
    BY <2>4, <2>5, <2>6 DEF Abstract!Seeded
  <2>8. SamePolicy(r.ctx, d)
    BY <2>4, <2>5, <2>6 DEF SamePolicy
  <2>9. Len(add) <= MAX_INPUT
    BY <1>0, <1>2
  <2> QED BY <1>0, <2>1, <2>4, <2>6, <2>7, <2>8, <2>9 DEF Refreshed, data
<1> QED BY <1>1, <1>2

(* The working state that every instantiation starts from (10.1.2.3).      *)
Fresh == [K |-> Zeros(MD_SIZE), V |-> Filled(MD_SIZE, 1), counter |-> 0]

(* FirstState makes it of a context that is initialised.                   *)
LEMMA FirstIs ==
  /\ FirstState(drbg_init) \in Live /\ Working(FirstState(drbg_init)) = Fresh
  /\ FirstState(drbg_init).prediction_resistance = 0
<1>1. Zeros(MD_SIZE) \in Block /\ Filled(MD_SIZE, 1) \in Block
  <2>1. 1 \in Byte
    BY DEF Byte
  <2> QED BY <2>1, ZeroIs, FilledIs
<1> DEFINE c == FirstState(drbg_init)
<1>2. c = [[drbg_init EXCEPT !.key = drbg_init.V] EXCEPT !.V = Filled(MD_SIZE, 1)]
  BY Zenon DEF FirstState, hmac_starts, Filled
<1> HIDE DEF c
<1>3. /\ c \in Live /\ c.key = Zeros(MD_SIZE) /\ c.V = Filled(MD_SIZE, 1) /\ c.reseed_counter = 0
      /\ c.prediction_resistance = 0
  <2> DEFINE D == [key : Block \cup {NoKey}, V : Block, reseed_counter : Int, entropy_len : Nat,
                   prediction_resistance : {0, 1}, reseed_interval : Int]
  <2>1. drbg_init \in D /\ drbg_init.V = Zeros(MD_SIZE) /\ drbg_init.reseed_counter = 0
        /\ drbg_init.prediction_resistance = 0
    BY <1>1 DEF drbg_init
  <2> DEFINE Z == Zeros(MD_SIZE)
             O == Filled(MD_SIZE, 1)
  <2>2. Z \in Block /\ O \in Block /\ c = [[drbg_init EXCEPT !.key = Z] EXCEPT !.V = O]
    BY <1>1, <1>2, <2>1
  <2> HIDE DEF Z, O
  <2>3. c \in Live /\ c.key = Z /\ c.V = O /\ c.reseed_counter = 0 /\ c.prediction_resistance = 0
    BY <2>1, <2>2 DEF Live
  <2> QED BY <2>3 DEF Z, O
<1>4. Working(c) = Fresh
  BY <1>3 DEF Working, Fresh
<1> QED BY <1>3, <1>4 DEF c

(* The context that mbedtls_hmac_drbg_seed reseeds.                        *)
First == [FirstState(drbg_init) EXCEPT !.reseed_interval = RESEED_INTERVAL, !.entropy_len = FirstLength]

(* mbedtls_hmac_drbg_seed is the Instantiate of the standard, with the     *)
(* default policy, or it fails.                                            *)
LEMMA SeedIs ==
  ASSUME HmacGivesBlocks, NEW add \in Additional, NEW allocated \in BOOLEAN, NEW e \in Answers,
         NEW r, r = seed(drbg_init, add, allocated, e)
  PROVE  /\ ~allocated => r.ret # 0 /\ r.ctx = drbg_init
         /\ allocated => r.ctx \in Live
         /\ r.ret = 0 => /\ allocated /\ r.ctx.entropy_len = Strength
                         /\ r.ctx.reseed_interval = RESEED_INTERVAL /\ r.ctx.prediction_resistance = 0
                         /\ \E c \in Live : Refreshed(First, Fresh, FirstLength, add, e, c) /\ Working(r.ctx) = Working(c)
<1> DEFINE q == reseed(First, add, e)
<1>1. /\ First \in Live /\ First.entropy_len = FirstLength /\ Working(First) = Fresh
      /\ First.reseed_interval = RESEED_INTERVAL /\ First.prediction_resistance = 0 /\ First.entropy_len \in Amounts
  BY FirstIs, LengthsAre, GeneratorAssumption DEF First, Live, Working, Amounts
<1>2. (q.ret # 0 => q.ctx = First) /\ (q.ret = 0 => Refreshed(First, Fresh, FirstLength, add, e, q.ctx))
  BY <1>1, ReseedIs
<1>3. CASE ~allocated
  BY <1>3 DEF seed, md_setup, ALLOC_FAILED
<1>4. CASE allocated /\ q.ret # 0
  <2>1. r = q
    BY <1>4 DEF seed, md_setup, First
  <2> HIDE DEF q
  <2> QED BY <1>1, <1>2, <1>4, <2>1
<1>5. CASE allocated /\ q.ret = 0
  <2>1. r.ret = 0 /\ r.ctx = [q.ctx EXCEPT !.entropy_len = Strength]
    BY <1>5 DEF seed, md_setup, First
  <2>2. q.ctx \in Live /\ q.ctx.reseed_interval = RESEED_INTERVAL /\ q.ctx.prediction_resistance = 0
    BY <1>1, <1>2, <1>5 DEF Refreshed, SamePolicy
  <2> HIDE DEF q
  <2>3. /\ r.ctx \in Live /\ r.ctx.entropy_len = Strength /\ Working(r.ctx) = Working(q.ctx)
        /\ r.ctx.reseed_interval = RESEED_INTERVAL /\ r.ctx.prediction_resistance = 0
    BY <2>1, <2>2, LengthsAre DEF Live, Working
  <2> QED BY <1>2, <1>5, <2>1, <2>2, <2>3
<1> QED BY <1>3, <1>4, <1>5

(* mbedtls_hmac_drbg_seed_buf leaves a context with a key, or none.        *)
LEMMA SeedBufIs ==
  ASSUME HmacGivesBlocks, NEW add \in Additional, NEW allocated \in BOOLEAN, NEW r, r = seed_buf(drbg_init, add, allocated)
  PROVE  (~allocated => r.ctx = drbg_init) /\ (allocated => r.ctx \in Live)
<1>1. add \in Seq(Byte)
  BY GeneratorAssumption
<1>2. drbg_update(FirstState(drbg_init), add) \in Live
  BY <1>1, FirstIs, UpdateIs
<1> QED BY <1>2 DEF seed_buf, md_setup, ALLOC_FAILED

(* The call gives what the standard generates from s.                      *)
Drawing(d, s, n, input, r) ==
  /\ r.ctx \in Live /\ SamePolicy(r.ctx, d)
  /\ r.out = Abstract!Generate(s, n, input).out /\ Working(r.ctx) = Abstract!Generate(s, n, input).state

(* mbedtls_hmac_drbg_random_with_add is the Generate of the standard,      *)
(* after a reseed if the policy asks for one, or it fails, changes nothing *)
(* and gives nothing.                                                      *)
LEMMA DrawIs ==
  ASSUME HmacGivesBlocks, NEW d \in Live, d.entropy_len \in Amounts, NEW n \in Drawn, NEW add \in Additional, NEW e \in Answers,
         NEW r, r = random_with_add(d, n, add, e)
  PROVE  \/ r.ctx = d /\ r.out = <<>>
         \/ /\ n <= MAX_REQUEST /\ Len(add) <= MAX_INPUT
            /\ \/ /\ MustReseed(d) /\ e \in Sources
                  /\ Drawing(d, Abstract!Seeded(Working(d), EntropyOf(e, d.entropy_len) \o add), n, <<>>, r)
               \/ ~MustReseed(d) /\ Drawing(d, Working(d), n, add, r)
<1> DEFINE fresh == IF MustReseed(d) THEN reseed(d, add, e) ELSE [ret |-> 0, ctx |-> d]
           input == IF MustReseed(d) THEN <<>> ELSE add
           c == fresh.ctx
           o == Generated(Ready(c, input), n).out
           Fails == n > MAX_REQUEST \/ Len(add) > MAX_INPUT \/ fresh.ret # 0
<1>0. n \in Nat /\ add \in Seq(Byte) /\ Len(add) \in Nat /\ MAX_INPUT \in Nat /\ MAX_REQUEST \in Nat
  BY GeneratorAssumption
<1>1. CASE Fails
  BY <1>1 DEF random_with_add
<1>2. CASE ~Fails
  <2>1. n <= MAX_REQUEST /\ Len(add) <= MAX_INPUT /\ fresh.ret = 0
    BY <1>0, <1>2
  <2>2. r = [ret |-> 0, out |-> o, ctx |-> After(c, n, input)]
    BY <1>2, Zenon DEF random_with_add, Ready, After, Counting
  <2>3. ASSUME NEW s, c \in Live, SamePolicy(c, d), Working(c) = s, input \in Seq(Byte)
        PROVE  Drawing(d, s, n, input, r)
    <3> HIDE DEF c, input
    <3>1. /\ After(c, n, input) \in Live /\ SamePolicy(After(c, n, input), c)
          /\ Abstract!Generate(s, n, input).out = o
          /\ Abstract!Generate(s, n, input).state = Working(After(c, n, input))
      BY <1>0, <2>3, GenerateIs
    <3>2. SamePolicy(After(c, n, input), d)
      BY <2>3, <3>1 DEF SamePolicy
    <3> HIDE DEF o
    <3>3. r.ctx = After(c, n, input) /\ r.out = o
      BY <2>2
    <3> QED BY <3>1, <3>2, <3>3 DEF Drawing
  <2>4. CASE MustReseed(d)
    <3>1. input = <<>> /\ c = reseed(d, add, e).ctx /\ reseed(d, add, e).ret = 0 /\ <<>> \in Seq(Byte)
      BY <2>1, <2>4
    <3>2. /\ e \in Sources /\ c \in Live /\ SamePolicy(c, d)
          /\ Working(c) = Abstract!Seeded(Working(d), EntropyOf(e, d.entropy_len) \o add)
      BY <3>1, ReseedIs DEF Refreshed
    <3> HIDE DEF c, input, fresh, o
    <3>3. Drawing(d, Abstract!Seeded(Working(d), EntropyOf(e, d.entropy_len) \o add), n, input, r)
      BY <2>3, <3>1, <3>2
    <3> QED BY <2>1, <2>4, <3>1, <3>2, <3>3
  <2>5. CASE ~MustReseed(d)
    <3>1. input = add /\ c = d /\ SamePolicy(d, d)
      BY <2>5 DEF SamePolicy
    <3> HIDE DEF c, input, fresh, o
    <3>2. Drawing(d, Working(d), n, input, r)
      BY <1>0, <2>3, <3>1
    <3> QED BY <2>1, <2>5, <3>1, <3>2
  <2> QED BY <2>4, <2>5
<1> QED BY <1>1, <1>2

-----------------------------------------------------------------------------
(* What holds of the context in every state of its owner: it has a key     *)
(* from the seed that allocates the HMAC context, failed or not, until it  *)
(* is freed.                                                               *)
DrbgInv ==
  /\ owner \in {"init", "failed", "seeded", "buffered", "freed"}
  /\ owner \in {"init", "freed"} => drbg = drbg_init
  /\ owner \in {"failed", "seeded", "buffered"} => drbg \in Live
  /\ owner = "seeded" => drbg.entropy_len \in EntropyLens \cup {Strength}
  /\ HeapIsOwned

(* A context with a key has an HMAC context, and one that is initialised   *)
(* or freed has none.                                                      *)
LEMMA OwnedIs == drbg_init.key = NoKey /\ \A d \in Live : d.key # NoKey
  BY BlocksAre DEF drbg_init, Live

(* The invariant holds initially.                                          *)
LEMMA DrbgStartInv == DrbgStart => DrbgInv
  BY OwnedIs DEF DrbgStart, DrbgInv, HeapIsOwned

(* No step of the generator breaks the invariant.                          *)
LEMMA DrbgStepInv ==
  ASSUME HmacGivesBlocks, Reuse = "none", DrbgInv, DrbgSteps
  PROVE  DrbgInv'
<1>1. ASSUME NEW add \in Additional, NEW allocated \in BOOLEAN, SeedBuf(add, allocated) PROVE DrbgInv'
  <2>1. owner = "init" /\ drbg = drbg_init /\ heap = 0
    BY <1>1, OwnedIs DEF SeedBuf, DrbgInv, HeapIsOwned
  <2>2. /\ drbg' = seed_buf(drbg_init, add, allocated).ctx /\ owner' = IF allocated THEN "buffered" ELSE "init"
        /\ heap' = IF allocated THEN heap + 1 ELSE heap
    BY <1>1, <2>1 DEF SeedBuf
  <2>3. (~allocated => drbg' = drbg_init) /\ (allocated => drbg' \in Live)
    BY <2>2, SeedBufIs
  <2> QED BY <2>1, <2>2, <2>3, OwnedIs DEF DrbgInv, HeapIsOwned
<1>2. ASSUME NEW add \in Additional, NEW allocated \in BOOLEAN, NEW e \in Answers, Seed(add, allocated, e) PROVE DrbgInv'
  <2> DEFINE r == seed(drbg_init, add, allocated, e)
  <2>1. owner = "init" /\ drbg = drbg_init /\ heap = 0
    BY <1>2, OwnedIs DEF Seed, DrbgInv, HeapIsOwned
  <2>2. /\ drbg' = r.ctx /\ owner' = (IF r.ret = 0 THEN "seeded" ELSE IF allocated THEN "failed" ELSE "init")
        /\ heap' = IF allocated THEN heap + 1 ELSE heap
    BY <1>2, <2>1 DEF Seed
  <2>3. /\ ~allocated => r.ret # 0 /\ r.ctx = drbg_init
        /\ allocated => r.ctx \in Live
        /\ r.ret = 0 => allocated /\ r.ctx.entropy_len = Strength
    BY SeedIs
  <2> HIDE DEF r
  <2> QED BY <2>1, <2>2, <2>3, OwnedIs DEF DrbgInv, HeapIsOwned
<1>3. ASSUME NEW add \in Additional, NEW e \in Answers, DoReseed(add, e) PROVE DrbgInv'
  <2> DEFINE r == reseed(drbg, add, e)
  <2>1. owner = "seeded" /\ drbg' = r.ctx /\ heap' = heap /\ owner' = owner
    BY <1>3 DEF DoReseed
  <2>2. drbg \in Live /\ drbg.entropy_len \in EntropyLens \cup {Strength}
    BY <2>1 DEF DrbgInv
  <2>3. r.ctx \in Live /\ SamePolicy(r.ctx, drbg)
    <3>1. r.ctx = drbg \/ Refreshed(drbg, Working(drbg), drbg.entropy_len, add, e, r.ctx)
      BY <2>2, ReseedIs DEF Amounts
    <3> HIDE DEF r
    <3> QED BY <2>2, <3>1 DEF Refreshed, SamePolicy
  <2> HIDE DEF r
  <2> QED BY <2>1, <2>2, <2>3, OwnedIs DEF DrbgInv, HeapIsOwned, SamePolicy
<1>4. ASSUME NEW n \in Drawn, NEW add \in Additional, NEW e \in Answers, Draw(n, add, e) PROVE DrbgInv'
  <2> DEFINE r == random_with_add(drbg, n, add, e)
  <2>1. owner = "seeded" /\ drbg' = r.ctx /\ heap' = heap /\ owner' = owner
    BY <1>4 DEF Draw
  <2>2. drbg \in Live /\ drbg.entropy_len \in EntropyLens \cup {Strength}
    BY <2>1 DEF DrbgInv
  <2>3. r.ctx \in Live /\ SamePolicy(r.ctx, drbg)
    <3>1. r.ctx = drbg \/ \E s, input : Drawing(drbg, s, n, input, r)
      BY <2>2, DrawIs DEF Amounts
    <3> HIDE DEF r
    <3> QED BY <2>2, <3>1 DEF Drawing, SamePolicy
  <2> HIDE DEF r
  <2> QED BY <2>1, <2>2, <2>3, OwnedIs DEF DrbgInv, HeapIsOwned, SamePolicy
<1>5. CASE Set
  <2>1. /\ owner = "seeded" /\ heap' = heap /\ owner' = owner
        /\ \/ \E resistance \in {0, 1} : drbg' = [drbg EXCEPT !.prediction_resistance = resistance]
           \/ \E len \in EntropyLens : drbg' = [drbg EXCEPT !.entropy_len = len]
           \/ \E interval \in Intervals : drbg' = [drbg EXCEPT !.reseed_interval = interval]
    BY <1>5 DEF Set, set_prediction_resistance, set_entropy_len, set_reseed_interval
  <2>2. drbg \in Live /\ drbg.entropy_len \in EntropyLens \cup {Strength} /\ EntropyLens \subseteq Nat /\ Intervals \subseteq Int
    BY <2>1, GeneratorAssumption DEF DrbgInv
  <2>3. drbg' \in Live /\ drbg'.entropy_len \in EntropyLens \cup {Strength}
    BY <2>1, <2>2 DEF Live
  <2> QED BY <2>1, <2>2, <2>3, OwnedIs DEF DrbgInv, HeapIsOwned
<1>6. CASE Free
  BY <1>6, OwnedIs DEF Free, DrbgInv, HeapIsOwned
<1>7. CASE Initialise
  BY <1>7, OwnedIs DEF Initialise, DrbgInv, HeapIsOwned
<1> QED BY <1>1, <1>2, <1>3, <1>4, <1>5, <1>6, <1>7 DEF DrbgSteps

-----------------------------------------------------------------------------
(* The answers of the entropy source by length, and the inputs that are    *)
(* not too long, as the refinement mapping gives them.                     *)
Ents == [n \in Amounts |-> {EntropyOf(e, n) : e \in Sources}]
Ins == {a \in Additional : Len(a) <= MAX_INPUT}

(* The policy of a context, as the refinement mapping gives it.            *)
Policy(d) == [interval |-> d.reseed_interval, resistance |-> d.prediction_resistance, strength |-> d.entropy_len]

(* What the source gives is among its answers.                             *)
LEMMA EntsAre ==
  ASSUME NEW len \in Amounts, NEW e \in Sources
  PROVE  EntropyOf(e, len) \in Ents[len]
  BY DEF Ents

(* Initially there is no instance.                                         *)
LEMMA DrbgStartRefines == DrbgStart => Abstract!DrbgInit
  BY DEF DrbgStart, Silent, Abstract!DrbgInit, Abstract!None, Abstract!NoPolicy

(* Every step of the generator is one of the standard's.                   *)
LEMMA DrbgStepRefines ==
  ASSUME HmacGivesBlocks, Reuse = "none", DrbgInv, DrbgSteps
  PROVE  Abstract!DrbgNext
<1>1. ASSUME NEW add \in Additional, NEW allocated \in BOOLEAN, SeedBuf(add, allocated) PROVE Abstract!Refuse
  <2>1. owner # "seeded" /\ owner' # "seeded" /\ reply'.out = <<>>
    BY <1>1 DEF SeedBuf
  <2> QED BY <2>1 DEF Abstract!Refuse
<1>2. ASSUME NEW add \in Additional, NEW allocated \in BOOLEAN, NEW e \in Answers, Seed(add, allocated, e)
      PROVE  Abstract!Instantiate \/ Abstract!Refuse
  <2> DEFINE r == seed(drbg_init, add, allocated, e)
  <2>1. owner = "init" /\ drbg = drbg_init
    BY <1>2 DEF Seed, DrbgInv
  <2>2. /\ drbg' = r.ctx /\ reply'.out = <<>>
        /\ owner' = (IF r.ret = 0 THEN "seeded" ELSE IF allocated THEN "failed" ELSE "init")
    BY <1>2, <2>1 DEF Seed
  <2>3. CASE r.ret # 0
    <3> HIDE DEF r
    <3> QED BY <2>1, <2>2, <2>3 DEF Abstract!Refuse
  <2>4. CASE r.ret = 0
    <3>1. PICK c \in Live : Refreshed(First, Fresh, FirstLength, add, e, c) /\ Working(r.ctx) = Working(c)
      BY <2>4, SeedIs
    <3>2. e \in Sources /\ Len(add) <= MAX_INPUT /\ Working(c) = Abstract!Seeded(Fresh, EntropyOf(e, FirstLength) \o add)
      BY <3>1 DEF Refreshed
    <3>3. EntropyOf(e, FirstLength) \in Ents[FirstLength] /\ add \in Ins
      BY <3>2, EntsAre DEF Ins, Amounts
    <3> HIDE DEF r
    <3>4. owner' = "seeded" /\ Working(drbg') = Abstract!Seeded(Fresh, EntropyOf(e, FirstLength) \o add)
      BY <2>2, <2>4, <3>1, <3>2
    <3>5. drbg'.reseed_interval = RESEED_INTERVAL /\ drbg'.prediction_resistance = 0 /\ drbg'.entropy_len = Strength
      BY <2>2, <2>4, SeedIs DEF r
    <3> QED BY <2>1, <2>2, <3>3, <3>4, <3>5
            DEF Abstract!Instantiate, Abstract!None, Ents, Amounts, Ins, Working, Fresh, Filled
  <2> QED BY <2>3, <2>4
<1>3. ASSUME NEW add \in Additional, NEW e \in Answers, DoReseed(add, e) PROVE Abstract!Reseed \/ Abstract!Refuse
  <2> DEFINE r == reseed(drbg, add, e)
  <2>1. owner = "seeded" /\ drbg' = r.ctx /\ owner' = owner /\ reply'.out = <<>>
    BY <1>3 DEF DoReseed
  <2>2. drbg \in Live /\ drbg.entropy_len \in EntropyLens \cup {Strength}
    BY <2>1 DEF DrbgInv
  <2>3. r.ctx = drbg \/ Refreshed(drbg, Working(drbg), drbg.entropy_len, add, e, r.ctx)
    BY <2>2, ReseedIs DEF Amounts
  <2> HIDE DEF r
  <2>4. CASE r.ctx = drbg
    BY <2>1, <2>4 DEF Abstract!Refuse
  <2>5. CASE Refreshed(drbg, Working(drbg), drbg.entropy_len, add, e, r.ctx)
    <3>1. /\ e \in Sources /\ Len(add) <= MAX_INPUT /\ SamePolicy(drbg', drbg)
          /\ Working(drbg') = Abstract!Seeded(Working(drbg), EntropyOf(e, drbg.entropy_len) \o add)
      BY <2>1, <2>5 DEF Refreshed
    <3>2. EntropyOf(e, drbg.entropy_len) \in Ents[drbg.entropy_len] /\ add \in Ins
      BY <2>2, <3>1, EntsAre DEF Ins, Amounts
    <3>3. drbg.key # NoKey
      BY <2>2, OwnedIs
    <3> QED BY <2>1, <3>1, <3>2, <3>3 DEF Abstract!Reseed, Abstract!None, NoKey, SamePolicy, Ents, Amounts, Ins, Working
  <2> QED BY <2>3, <2>4, <2>5
<1>4. ASSUME NEW n \in Drawn, NEW add \in Additional, NEW e \in Answers, Draw(n, add, e)
      PROVE  Abstract!Random \/ Abstract!Refuse
  <2> DEFINE r == random_with_add(drbg, n, add, e)
             s == Abstract!Seeded(Working(drbg), EntropyOf(e, drbg.entropy_len) \o add)
  <2>1. owner = "seeded" /\ drbg' = r.ctx /\ owner' = owner /\ reply'.out = r.out
    BY <1>4 DEF Draw
  <2>2. drbg \in Live /\ drbg.entropy_len \in EntropyLens \cup {Strength} /\ drbg.key # NoKey
    BY <2>1, OwnedIs DEF DrbgInv
  <2>3. \/ r.ctx = drbg /\ r.out = <<>>
        \/ /\ n <= MAX_REQUEST /\ Len(add) <= MAX_INPUT
           /\ \/ MustReseed(drbg) /\ e \in Sources /\ Drawing(drbg, s, n, <<>>, r)
              \/ ~MustReseed(drbg) /\ Drawing(drbg, Working(drbg), n, add, r)
    BY <2>2, DrawIs DEF Amounts
  <2> HIDE DEF r, s
  <2>4. CASE r.ctx = drbg /\ r.out = <<>>
    BY <2>1, <2>4 DEF Abstract!Refuse
  <2>5. CASE n <= MAX_REQUEST /\ Len(add) <= MAX_INPUT /\ MustReseed(drbg) /\ e \in Sources /\ Drawing(drbg, s, n, <<>>, r)
    <3>1. /\ SamePolicy(drbg', drbg) /\ reply'.out = Abstract!Generate(s, n, <<>>).out
          /\ Working(drbg') = Abstract!Generate(s, n, <<>>).state
      BY <2>1, <2>5 DEF Drawing
    <3>2. EntropyOf(e, drbg.entropy_len) \in Ents[drbg.entropy_len] /\ add \in Ins
      BY <2>2, <2>5, EntsAre DEF Ins, Amounts
    <3> QED BY <2>1, <2>2, <2>5, <3>1, <3>2
            DEF Abstract!Random, Abstract!None, NoKey, SamePolicy, MustReseed, Ents, Amounts, Ins, Working, s
  <2>6. CASE n <= MAX_REQUEST /\ Len(add) <= MAX_INPUT /\ ~MustReseed(drbg) /\ Drawing(drbg, Working(drbg), n, add, r)
    <3>1. /\ SamePolicy(drbg', drbg) /\ reply'.out = Abstract!Generate(Working(drbg), n, add).out
          /\ Working(drbg') = Abstract!Generate(Working(drbg), n, add).state
      BY <2>1, <2>6 DEF Drawing
    <3> QED BY <2>1, <2>2, <2>6, <3>1 DEF Abstract!Random, Abstract!None, NoKey, SamePolicy, MustReseed, Working
  <2> QED BY <2>3, <2>4, <2>5, <2>6
<1>5. CASE Set
  <2>1. /\ owner = "seeded" /\ owner' = owner /\ reply'.out = <<>>
        /\ \/ \E resistance \in {0, 1} : drbg' = [drbg EXCEPT !.prediction_resistance = resistance]
           \/ \E len \in EntropyLens : drbg' = [drbg EXCEPT !.entropy_len = len]
           \/ \E interval \in Intervals : drbg' = [drbg EXCEPT !.reseed_interval = interval]
    BY <1>5 DEF Set, Silent, set_prediction_resistance, set_entropy_len, set_reseed_interval
  <2>2. drbg \in Live /\ drbg.key # NoKey
    BY <2>1, OwnedIs DEF DrbgInv
  <2>3. /\ drbg'.key = drbg.key /\ drbg'.V = drbg.V /\ drbg'.reseed_counter = drbg.reseed_counter
        /\ \/ \E resistance \in {0, 1} : Policy(drbg') = [Policy(drbg) EXCEPT !.resistance = resistance]
           \/ \E len \in EntropyLens : Policy(drbg') = [Policy(drbg) EXCEPT !.strength = len]
           \/ \E interval \in Intervals : Policy(drbg') = [Policy(drbg) EXCEPT !.interval = interval]
    BY <2>1, <2>2 DEF Live, Policy
  <2>4. Abstract!SetPolicy
    BY <2>1, <2>2, <2>3 DEF Abstract!SetPolicy, Abstract!None, NoKey, Policy
  <2> QED BY <2>4 DEF Abstract!DrbgNext
<1>6. CASE Free
  <2>1. owner' # "seeded" /\ reply'.out = <<>>
    BY <1>6 DEF Free, Silent
  <2>2. Abstract!Uninstantiate
    BY <2>1 DEF Abstract!Uninstantiate, Abstract!None, Abstract!NoPolicy
  <2> QED BY <2>2 DEF Abstract!DrbgNext
<1>7. CASE Initialise
  <2>1. owner # "seeded" /\ owner' # "seeded" /\ reply'.out = <<>>
    BY <1>7 DEF Initialise, Silent
  <2>2. Abstract!Refuse
    BY <2>1 DEF Abstract!Refuse
  <2> QED BY <2>2 DEF Abstract!DrbgNext
<1> QED BY <1>1, <1>2, <1>3, <1>4, <1>5, <1>6, <1>7 DEF DrbgSteps, Abstract!DrbgNext

-----------------------------------------------------------------------------
(* The variables of the standard, as the refinement mapping gives them.    *)
Mapped ==
  <<IF owner # "seeded" THEN [K |-> <<>>, V |-> <<>>, counter |-> 0]
    ELSE [K |-> drbg.key, V |-> drbg.V, counter |-> drbg.reseed_counter],
    IF owner # "seeded" THEN [interval |-> 0, resistance |-> 0, strength |-> 0]
    ELSE [interval |-> drbg.reseed_interval, resistance |-> drbg.prediction_resistance,
          strength |-> drbg.entropy_len],
    reply.out>>

(* The other program of the run leaves the generator as it is, and the     *)
(* invariant holds.                                                        *)
LEMMA RunInv == HmacGivesBlocks /\ Reuse = "none" /\ DrbgInv /\ [Next]_<<hashVars, drbgVars>> => DrbgInv'
<1> SUFFICES ASSUME HmacGivesBlocks, Reuse = "none", DrbgInv, [Next]_<<hashVars, drbgVars>> PROVE DrbgInv'
  OBVIOUS
<1>1. CASE DrbgSteps
  BY <1>1, DrbgStepInv
<1>2. CASE UNCHANGED drbgVars
  BY <1>2 DEF drbgVars, DrbgInv, HeapIsOwned
<1> QED BY <1>1, <1>2 DEF Next

(* Nor does it do anything to the instance of the standard.                *)
LEMMA RunRefines ==
  HmacGivesBlocks /\ Reuse = "none" /\ DrbgInv /\ [Next]_<<hashVars, drbgVars>>
    => Abstract!DrbgNext \/ UNCHANGED drbgVars
  BY DrbgStepRefines DEF Next

(* The generator of hmac_drbg.c is HMAC_DRBG as SP 800-90A defines it, in  *)
(* every output and every state, also when malloc or the entropy source    *)
(* fails or an input is too long, and the HMAC context it allocates has    *)
(* one owner: for any digest size, any HMAC that gives digests of that     *)
(* size, any answers of the entropy source and any program that only draws *)
(* from a context it has seeded.                                           *)
THEOREM GeneratorImplements ==
  ASSUME HmacGivesBlocks, Reuse = "none"
  PROVE  Spec => GeneratorIsStandard
<1>1. Init => DrbgInv /\ Abstract!DrbgInit
  BY DrbgStartInv, DrbgStartRefines DEF Init
<1>2. DrbgInv /\ [Next]_<<hashVars, drbgVars>> => DrbgInv'
  BY RunInv
<1>3. DrbgInv => HeapIsOwned
  BY DEF DrbgInv
<1>4. DrbgInv /\ [Next]_<<hashVars, drbgVars>>
        => [Abstract!DrbgNext]_(Mapped)
  BY RunRefines DEF drbgVars, Mapped
<1> QED BY <1>1, <1>2, <1>3, <1>4, PTL DEF Spec, GeneratorIsStandard, ImplementsStandard, Abstract!Standard, Mapped

=============================================================================
