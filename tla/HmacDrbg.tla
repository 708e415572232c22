------------------------------ MODULE HmacDrbg ------------------------------
(***************************************************************************)
(* hmacdrbg/hmac_drbg.c: the generator HMAC_DRBG.  The key K is kept in    *)
(* the HMAC context that md_ctx points to (module Sha models it); here    *)
(* the HMAC is a function.  Additional data that is NULL or of length 0 is *)
(* the empty sequence.  A call gives [ret, ctx] and what it writes.        *)
(***************************************************************************)
EXTENDS Bytes

CONSTANTS MD_SIZE,           \* mbedtls_md_get_size(md_info), 32 for SHA-256
          HmacSha256(_, _),        \* the HMAC of a message under a key: MD_SIZE bytes
          EntropyOf(_, _),         \* what get_entropy(seed, len) fills the buffer with, if the source's answer is e
          MAX_INPUT, MAX_REQUEST, MAX_SEED_INPUT, RESEED_INTERVAL   \* MBEDTLS_HMAC_DRBG_..., 256, 1024, 384 and 10000

REQUEST_TOO_BIG == -3
INPUT_TOO_BIG == -5
ENTROPY_SOURCE_FAILED == -9
ALLOC_FAILED == -20864       \* MBEDTLS_ERR_MD_ALLOC_FAILED

\* The HMAC context is NULL, or the key that its two hash contexts were started with.
NoKey == <<>>

drbg_init == [key |-> NoKey, V |-> Zeros(MD_SIZE), reseed_counter |-> 0, entropy_len |-> 0,
              prediction_resistance |-> 0, reseed_interval |-> 0]

\* md_setup, with malloc's answer; md_hmac_starts sets the key, _reset, _update and _finish make an HMAC under it.
md_setup(allocated) == IF allocated THEN 0 ELSE ALLOC_FAILED
hmac_starts(ctx, key) == [ctx EXCEPT !.key = key]
hmac_of(ctx, data) == HmacSha256(ctx.key, data)

\* The answer of get_entropy when it fails.
SourceFails == -1

\* Two rounds if there is additional data, and one if not.
Round(ctx, sep, additional) ==
  LET d == hmac_starts(ctx, hmac_of(ctx, ctx.V \o <<sep>> \o additional)) IN [d EXCEPT !.V = hmac_of(d, d.V)]
drbg_update(ctx, additional) ==
  IF additional = <<>> THEN Round(ctx, 0, <<>>) ELSE Round(Round(ctx, 0, additional), 1, additional)

\* The start of seed and seed_buf: the key is what V holds, zeros after init, then V is all ones.
FirstState(ctx) == [hmac_starts(ctx, ctx.V) EXCEPT !.V = Buffer(MD_SIZE, [i \in 1..MD_SIZE |-> 1])]

seed_buf(ctx, data, allocated) ==
  LET ret == md_setup(allocated)
  IN  [ret |-> ret, ctx |-> IF ret # 0 THEN ctx ELSE drbg_update(FirstState(ctx), data)]

reseed(ctx, additional, e) ==
  IF Len(additional) > MAX_INPUT \/ ctx.entropy_len + Len(additional) > MAX_SEED_INPUT
    THEN [ret |-> INPUT_TOO_BIG, ctx |-> ctx]
  ELSE IF e = SourceFails THEN [ret |-> ENTROPY_SOURCE_FAILED, ctx |-> ctx]
  ELSE [ret |-> 0,
        ctx |-> [drbg_update(ctx, EntropyOf(e, ctx.entropy_len) \o additional) EXCEPT !.reseed_counter = 1]]

\* The first seed takes half as much entropy again; if it fails, entropy_len stays at that.
Strength == IF MD_SIZE <= 20 THEN 16 ELSE IF MD_SIZE <= 28 THEN 24 ELSE 32
FirstLength == (Strength * 3) \div 2
seed(ctx, custom, allocated, e) ==
  LET first == [FirstState(ctx) EXCEPT !.reseed_interval = RESEED_INTERVAL, !.entropy_len = FirstLength]
      r == reseed(first, custom, e)
  IN  IF md_setup(allocated) # 0 THEN [ret |-> ALLOC_FAILED, ctx |-> ctx]
      ELSE IF r.ret # 0 THEN r
      ELSE [ret |-> 0, ctx |-> [r.ctx EXCEPT !.entropy_len = Strength]]

set_prediction_resistance(ctx, resistance) == [ctx EXCEPT !.prediction_resistance = resistance]
set_entropy_len(ctx, len) == [ctx EXCEPT !.entropy_len = len]
set_reseed_interval(ctx, interval) == [ctx EXCEPT !.reseed_interval = interval]

\* Steps 3 to 5: V again and again, cut to out_len bytes.
Copied(out, V, out_len) ==
  LET left == out_len - Len(out) IN out \o Prefix(V, IF left > MD_SIZE THEN MD_SIZE ELSE left)
Generated(ctx, out_len) ==
  LET turns == (out_len + MD_SIZE - 1) \div MD_SIZE
      V[i \in 0..turns] == IF i = 0 THEN ctx.V ELSE hmac_of(ctx, V[i - 1])
      out[i \in 0..turns] == IF i = 0 THEN <<>> ELSE Copied(out[i - 1], V[i], out_len)
  IN  [ctx |-> [ctx EXCEPT !.V = V[turns]], out |-> out[turns]]

\* A faulty variant: the interval is one call too short.
MustReseed_AtInterval(ctx) == ctx.prediction_resistance = 1 \/ ctx.reseed_counter >= ctx.reseed_interval

\* random_with_add, and random when additional is empty; e is used if it reseeds.
MustReseed(ctx) == ctx.prediction_resistance = 1 \/ ctx.reseed_counter > ctx.reseed_interval
random_with_add(ctx, out_len, additional, e) ==
  LET fresh == IF MustReseed(ctx) THEN reseed(ctx, additional, e) ELSE [ret |-> 0, ctx |-> ctx]
      add == IF MustReseed(ctx) THEN <<>> ELSE additional
      ready == IF add # <<>> THEN drbg_update(fresh.ctx, add) ELSE fresh.ctx
      made == Generated(ready, out_len)
      fails(ret) == [ret |-> ret, ctx |-> ctx, out |-> <<>>]
  IN  IF out_len > MAX_REQUEST THEN fails(REQUEST_TOO_BIG)
      ELSE IF Len(additional) > MAX_INPUT THEN fails(INPUT_TOO_BIG)
      ELSE IF fresh.ret # 0 THEN fails(fresh.ret)
      ELSE [ret |-> 0, out |-> made.out, ctx |-> [drbg_update(made.ctx, add) EXCEPT !.reseed_counter = @ + 1]]
-----------------------------------------------------------------------------
(* A program that uses one context of hmac_drbg.c as its header allows: it *)
(* initialises it, seeds it, reseeds it, draws bytes, changes its policy,  *)
(* frees it (twice, like the self test), and goes on after calls that      *)
(* fail.  malloc and the entropy source may fail at every call.            *)

CONSTANTS Sources,      \* the entropy source's answers when it does not fail
          Additional,   \* personalization strings and additional data, the empty one and one too long among them
          Drawn,        \* how many bytes are asked for
          Intervals, EntropyLens,   \* the values of the setters
          Reuse,        \* what the program does besides: "none", or "buffer" for drawing after seed_buf
          MaxCalls      \* bound: calls since init

ASSUME GeneratorAssumption ==
  /\ MD_SIZE \in Nat \ {0} /\ RESEED_INTERVAL \in Int /\ MAX_INPUT \in Nat /\ MAX_REQUEST \in Nat
  /\ SourceFails \notin Sources
  /\ \A e \in Sources, n \in EntropyLens \cup {Strength, FirstLength} : EntropyOf(e, n) \in Seq(Byte)
  /\ Drawn \subseteq Nat /\ EntropyLens \subseteq Nat /\ Intervals \subseteq Int
  /\ \A add \in Additional : add \in Seq(Byte)

VARIABLES drbg,         \* the context
          heap,         \* how many HMAC contexts are allocated
          owner,        \* "init", "failed" after a seed that failed, "seeded", "buffered" after seed_buf, or "freed"
          reply,        \* the last call's [ret, out]
          calls
drbgVars == <<drbg, heap, owner, reply, calls>>

Answers == Sources \cup {SourceFails}
Silent == [ret |-> 0, out |-> <<>>]

DrbgStart ==
  drbg = drbg_init /\ heap = 0 /\ owner = "init" /\ reply = Silent /\ calls = 0

Call == calls < MaxCalls /\ calls' = calls + 1

Seed(custom, allocated, e) ==
  /\ owner = "init" /\ Call
  /\ LET r == seed(drbg, custom, allocated, e)
     IN  /\ drbg' = r.ctx /\ reply' = [ret |-> r.ret, out |-> <<>>]
         /\ owner' = IF r.ret = 0 THEN "seeded" ELSE IF allocated THEN "failed" ELSE "init"
  /\ heap' = IF allocated THEN heap + 1 ELSE heap

SeedBuf(data, allocated) ==
  /\ owner = "init" /\ Call
  /\ LET r == seed_buf(drbg, data, allocated)
     IN  drbg' = r.ctx /\ reply' = [ret |-> r.ret, out |-> <<>>] /\ owner' = IF allocated THEN "buffered" ELSE "init"
  /\ heap' = IF allocated THEN heap + 1 ELSE heap

DoReseed(add, e) ==
  /\ owner = "seeded" /\ Call
  /\ LET r == reseed(drbg, add, e)
     IN  /\ drbg' = r.ctx /\ reply' = [ret |-> r.ret, out |-> <<>>]
  /\ UNCHANGED <<heap, owner>>

\* random_with_add; random is the call without additional data.
Draw(n, add, e) ==
  /\ owner = "seeded" \/ (owner = "buffered" /\ Reuse = "buffer")
  /\ Call
  /\ LET r == random_with_add(drbg, n, add, e)
     IN  /\ drbg' = r.ctx /\ reply' = [ret |-> r.ret, out |-> r.out]
  /\ UNCHANGED <<heap, owner>>

Set ==
  /\ owner = "seeded" /\ Call
  /\ \/ \E resistance \in {0, 1} : drbg' = set_prediction_resistance(drbg, resistance)
     \/ \E len \in EntropyLens : drbg' = set_entropy_len(drbg, len)
     \/ \E interval \in Intervals : drbg' = set_reseed_interval(drbg, interval)
  /\ reply' = Silent /\ UNCHANGED <<heap, owner>>

\* mbedtls_hmac_drbg_free: free(NULL) does nothing, the context is zeroed.
Free ==
  /\ heap' = IF drbg.key = NoKey THEN heap ELSE heap - 1
  /\ drbg' = drbg_init /\ owner' = "freed" /\ reply' = Silent
  /\ UNCHANGED calls

Initialise ==
  /\ owner = "freed"
  /\ drbg' = drbg_init /\ owner' = "init" /\ reply' = Silent
  /\ UNCHANGED <<heap, calls>>

DrbgSteps ==
  \/ \E add \in Additional, allocated \in BOOLEAN : SeedBuf(add, allocated) \/ \E e \in Answers : Seed(add, allocated, e)
  \/ \E add \in Additional, e \in Answers : DoReseed(add, e) \/ \E n \in Drawn : Draw(n, add, e)
  \/ Set \/ Free \/ Initialise

-----------------------------------------------------------------------------
\* The generator is HMAC_DRBG of SP 800-90A: every output and every state is what the standard makes of the entropy
\* and the inputs so far, with a reseed whenever the policy asks for one, and the policy is the default one until it is set;
\* a reseed or a draw that fails, for want of entropy or for an input too long, changes nothing and gives nothing, and a
\* seed that fails gives no instance (what it leaves in the context can only be freed).
Abstract == INSTANCE Sp80090a WITH
  Mac <- HmacSha256, Zero <- Zeros(MD_SIZE), One <- Buffer(MD_SIZE, [i \in 1..MD_SIZE |-> 1]), InitialLength <- FirstLength,
  Entropies <- [n \in EntropyLens \cup {Strength, FirstLength} |-> {EntropyOf(e, n) : e \in Sources}],
  Inputs <- {a \in Additional : Len(a) <= MAX_INPUT}, Requests <- {n \in Drawn : n <= MAX_REQUEST},
  DefaultPolicy <- [interval |-> RESEED_INTERVAL, resistance |-> 0, strength |-> Strength], Strengths <- EntropyLens,
  instance <- IF owner # "seeded" THEN [K |-> <<>>, V |-> <<>>, counter |-> 0]
              ELSE [K |-> drbg.key, V |-> drbg.V, counter |-> drbg.reseed_counter],
  policy <- IF owner # "seeded" THEN [interval |-> 0, resistance |-> 0, strength |-> 0]
            ELSE [interval |-> drbg.reseed_interval, resistance |-> drbg.prediction_resistance,
                  strength |-> drbg.entropy_len],
  bytes <- reply.out
ImplementsStandard == Abstract!Standard

\* A context owns the one HMAC context that is allocated, whatever failed: none is lost or freed twice
\* (mbedtls_md_setup, mbedtls_md_free, mbedtls_hmac_drbg_free).
HeapIsOwned == heap = IF drbg.key = NoKey THEN 0 ELSE 1

\* "Initilisation of simpified HMAC_DRBG (never reseeds)" (hmac_drbg.h:141): no draw after seed_buf
\* depends on the entropy source.
SeedBufNeverReseeds == owner = "buffered" => reply.ret # ENTROPY_SOURCE_FAILED
=============================================================================
