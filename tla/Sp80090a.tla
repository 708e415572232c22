------------------------------ MODULE Sp80090a ------------------------------
(***************************************************************************)
(* HMAC_DRBG as NIST SP 800-90A defines it (10.1.2): the working state K,  *)
(* V and the reseed counter, and what a generate call may give.            *)
(***************************************************************************)
EXTENDS Integers, Sequences

CONSTANTS Mac(_, _),       \* HMAC with the hash function of the instance
          Zero, One,       \* blocks of its length, of bytes 0 and of bytes 1
          Entropies,       \* what the entropy source may give, by length asked for: a function
          InitialLength,   \* how much entropy (and nonce) an instantiation asks for
          Inputs,          \* personalization strings and additional inputs, the empty one among them
          Requests,        \* numbers of bytes
          DefaultPolicy,   \* the policy that an instance starts with
          Intervals, Strengths   \* what the reseed interval and the amount of entropy may be set to

VARIABLES instance,        \* [K, V, counter], or None
          policy,          \* [interval, resistance, strength]: when to reseed, and with how much entropy
          bytes            \* what the last call gave
None == [K |-> <<>>, V |-> <<>>, counter |-> 0]
NoPolicy == [interval |-> 0, resistance |-> 0, strength |-> 0]

\* 10.1.2.2
Update(s, data) ==
  LET K1 == Mac(s.K, s.V \o <<0>> \o data)
      V1 == Mac(K1, s.V)
      K2 == Mac(K1, V1 \o <<1>> \o data)
  IN  IF data = <<>> THEN [s EXCEPT !.K = K1, !.V = V1]
      ELSE [s EXCEPT !.K = K2, !.V = Mac(K2, V1)]
Seeded(s, data) == [Update(s, data) EXCEPT !.counter = 1]

\* 10.1.2.5: the n bytes and the state after them.
Generate(s, n, input) ==
  LET begun == IF input = <<>> THEN s ELSE Update(s, input)
      V[i \in 0..n] == IF i = 0 THEN begun.V ELSE Mac(begun.K, V[i - 1])
      blocks == (n + Len(Zero) - 1) \div Len(Zero)
  IN  [out |-> [i \in 1..n |-> V[((i - 1) \div Len(Zero)) + 1][((i - 1) % Len(Zero)) + 1]],
       state |-> [Update([begun EXCEPT !.V = V[blocks]], input) EXCEPT !.counter = @ + 1]]

DrbgInit == instance = None /\ bytes = <<>> /\ policy = NoPolicy

Instantiate ==
  /\ instance = None /\ policy' = DefaultPolicy
  /\ \E e \in Entropies[InitialLength], input \in Inputs :
        instance' = Seeded([K |-> Zero, V |-> One, counter |-> 0], e \o input)
  /\ bytes' = <<>>
Reseed ==
  /\ instance # None
  /\ \E e \in Entropies[policy.strength], input \in Inputs : instance' = Seeded(instance, e \o input)
  /\ bytes' = <<>> /\ UNCHANGED policy
\* With a reseed first if the policy asks for it: the input is then used by the reseed.
Random ==
  /\ instance # None /\ UNCHANGED policy
  /\ \E n \in Requests, input \in Inputs :
       IF policy.resistance = 1 \/ instance.counter > policy.interval
         THEN \E e \in Entropies[policy.strength] :
                LET g == Generate(Seeded(instance, e \o input), n, <<>>) IN instance' = g.state /\ bytes' = g.out
         ELSE LET g == Generate(instance, n, input) IN instance' = g.state /\ bytes' = g.out
\* A call that fails, or one that is not about the instance.
Refuse == bytes' = <<>> /\ UNCHANGED <<instance, policy>>
SetPolicy ==
  /\ instance # None /\ bytes' = <<>> /\ UNCHANGED instance
  /\ \/ \E resistance \in {0, 1} : policy' = [policy EXCEPT !.resistance = resistance]
     \/ \E interval \in Intervals : policy' = [policy EXCEPT !.interval = interval]
     \/ \E strength \in Strengths : policy' = [policy EXCEPT !.strength = strength]
Uninstantiate == instance' = None /\ policy' = NoPolicy /\ bytes' = <<>>

DrbgNext == Instantiate \/ Reseed \/ Random \/ Refuse \/ SetPolicy \/ Uninstantiate
Standard == DrbgInit /\ [][DrbgNext]_<<instance, policy, bytes>>
=============================================================================
