-------------------------- MODULE HashTableProofs --------------------------
(***************************************************************************)
(* Proofs about HashTable, for all threads, keys, items and sizes: keys    *)
(* keep the one entry they got, searches end, and the calls are atomic.    *)
(***************************************************************************)
EXTENDS HashTable, FiniteSetTheorems, TLAPS

-----------------------------------------------------------------------------
(* Entries in the order in which a search from home sees them.             *)

Distance(home, e) == IF e >= home THEN e - home ELSE e - home + ARRAY_SIZE

Before(home, e) == {d \in Entry : Distance(home, d) < Distance(home, e)}

LEMMA ModType ==
  ASSUME NEW a \in Int, NEW n \in Nat \ {0}
  PROVE  a % n \in 0 .. n-1
OBVIOUS

LEMMA MultiplierType == Multiplier \in Int
BY SMT DEF Multiplier

LEMMA HomeType ==
  ASSUME NEW k \in Key
  PROVE  Home(k) \in Entry
<1>1. k % ARRAY_SIZE \in Int /\ Multiplier % ARRAY_SIZE \in Int
  BY ModType, MultiplierType, SizeAssumption, KeyAssumption
<1> DEFINE p == (k % ARRAY_SIZE) * (Multiplier % ARRAY_SIZE)
<1>2. p \in Int
  BY <1>1
<1>3. p % ARRAY_SIZE \in 0 .. ARRAY_SIZE-1
  BY <1>2, ModType, SizeAssumption
<1> QED BY <1>3 DEF Home, Entry

LEMMA DistanceOrder ==
  ASSUME NEW h \in Entry, NEW d \in Entry, NEW e \in Entry
  PROVE  d = e \/ d \in Before(h, e) \/ e \in Before(h, d)
BY SizeAssumption DEF Entry, Distance, Before

LEMMA NotBeforeItself ==
  ASSUME NEW h \in Entry, NEW e \in Entry
  PROVE  e \notin Before(h, e) /\ Before(h, h) = {}
BY SizeAssumption DEF Entry, Distance, Before

LEMMA NextEntryType ==
  ASSUME NEW e \in Entry
  PROVE  NextEntry(e) \in Entry
BY SizeAssumption DEF Entry, NextEntry

(* The next entry has one more before it, unless the search is back home;  *)
(* then it has seen every entry.                                           *)
LEMMA BeforeNext ==
  ASSUME NEW h \in Entry, NEW e \in Entry, NEW d \in Entry
  PROVE  /\ d \in Before(h, NextEntry(e)) => d = e \/ d \in Before(h, e)
         /\ NextEntry(e) = h => d = e \/ d \in Before(h, e)
BY SizeAssumption DEF Entry, NextEntry, Distance, Before

-----------------------------------------------------------------------------
(* The inductive invariant.                                                *)

(* The entries before e, in a search for key k, all hold other keys.       *)
Passed(k, e) == \A d \in Before(Home(k), e) : keys[d] \notin {0, k}

PathInv == \A e \in Entry : keys[e] # 0 => Passed(keys[e], e)

SearchInv ==
  \A t \in Thread :
    /\ pc[t] \in {"probe", "claim"} => Passed(op[t].key, idx[t])
    /\ pc[t] = "value" => keys[idx[t]] = op[t].key

FreshInv == \A e \in Entry : keys[e] = 0 => values[e] = 0

IInv == TypeOK /\ PathInv /\ SearchInv /\ FreshInv

LEMMA OperationIs ==
  ASSUME NEW o \in Operation
  PROVE  /\ o.key \in Key
         /\ o.key # 0
         /\ o.kind \in {"set", "get", "add"}
         /\ o.kind # "get" => o.item \in Item
BY KeyAssumption DEF Operation, SetItem, GetItem, AddItem

(* A key has one entry: of two, one would be before the other.             *)
LEMMA UniqueEntry ==
  ASSUME TypeOK, PathInv, NEW d \in Entry, NEW e \in Entry,
         keys[d] # 0, keys[d] = keys[e]
  PROVE  d = e
<1>1. Home(keys[d]) \in Entry
  BY HomeType DEF TypeOK
<1>2. d = e \/ d \in Before(Home(keys[d]), e) \/ e \in Before(Home(keys[d]), d)
  BY <1>1, DistanceOrder
<1> QED BY <1>2 DEF PathInv, Passed

(* Once a search has come to a free entry, its key has none.               *)
LEMMA FreeMeansAbsent ==
  ASSUME TypeOK, PathInv, NEW k \in Key, NEW f \in Entry, Passed(k, f), keys[f] = 0,
         NEW e \in Entry
  PROVE  keys[e] # k
<1> SUFFICES ASSUME keys[e] = k PROVE FALSE
  OBVIOUS
<1>1. k # 0 /\ Home(k) \in Entry
  BY HomeType, KeyAssumption
<1>2. e = f \/ e \in Before(Home(k), f) \/ f \in Before(Home(k), e)
  BY <1>1, DistanceOrder
<1> QED BY <1>1, <1>2 DEF PathInv, Passed

(* There are not enough other keys to fill the table with them.            *)
LEMMA SomeEntry ==
  ASSUME keys \in [Entry -> Key \cup {0}], NoDuplicateKeys, NEW k \in Key
  PROVE  \E e \in Entry : keys[e] \in {0, k}
<1> SUFFICES ASSUME \A e \in Entry : keys[e] \notin {0, k} PROVE FALSE
  OBVIOUS
<1> DEFINE others == Key \ {k}
<1>1. IsFiniteSet(Entry) /\ Cardinality(Entry) = ARRAY_SIZE
  BY FS_Interval, SizeAssumption DEF Entry
<1>2. IsFiniteSet(Key) /\ Cardinality(others) = Cardinality(Key) - 1 /\ IsFiniteSet(others)
  BY KeyAssumption, FS_RemoveElement
<1>3. keys \in Injection(Entry, others)
  <2>1. keys \in [Entry -> others]
    OBVIOUS
  <2>2. \A d, e \in Entry : keys[d] = keys[e] => d = e
    BY DEF NoDuplicateKeys
  <2> QED BY <2>1, <2>2 DEF Injection, IsInjective
<1>4. Cardinality(Entry) <= Cardinality(others)
  BY <1>2, <1>3, FS_Injection
<1>5. Cardinality(Key) \in Nat
  BY <1>2, FS_CardinalityType
<1> QED BY <1>1, <1>2, <1>4, <1>5, EnoughEntries, SizeAssumption

LEMMA InitInv == Init => IInv
<1> SUFFICES ASSUME Init PROVE IInv
  OBVIOUS
<1>1. 0 \in Entry
  BY SizeAssumption DEF Entry
<1> QED
  BY <1>1 DEF Init, IInv, TypeOK, PathInv, SearchInv, FreshInv

(* Claiming a free entry disturbs nobody: no other key's path, and no      *)
(* other thread's search, has a free entry in it.                          *)
LEMMA ClaimKeepsPaths ==
  ASSUME TypeOK, NEW f \in Entry, keys[f] = 0, NEW k \in Key,
         keys' = [keys EXCEPT ![f] = k],
         NEW key, NEW e \in Entry, Passed(key, e)
  PROVE  Passed(key, e)'
<1>1. f \notin Before(Home(key), e)
  BY DEF Passed
<1>2. \A d \in Before(Home(key), e) : keys'[d] = keys[d]
  BY <1>1 DEF TypeOK, Before
<1> QED BY <1>2 DEF Passed

LEMMA NextInv == IInv /\ [Next]_vars => IInv'
<1> SUFFICES ASSUME IInv, [Next]_vars PROVE IInv'
  OBVIOUS
<1>0. 0 \in Entry
  BY SizeAssumption DEF Entry
<1> USE DEF IInv, Goto
<1>1. ASSUME NEW t \in Thread, NEW o \in Operation, Call(t, o) PROVE IInv'
  <2> USE <1>1 DEF Call, table
  <2>1. Home(o.key) \in Entry
    BY OperationIs, HomeType
  <2>2. TypeOK'
    BY <2>1 DEF TypeOK
  <2>3. Passed(o.key, Home(o.key))'
    BY <2>1, NotBeforeItself DEF Passed
  <2>4. SearchInv'
    BY <2>3 DEF TypeOK, SearchInv, Passed
  <2> QED BY <2>2, <2>4 DEF PathInv, Passed, FreshInv
<1>2. ASSUME NEW t \in Thread, keys' = keys, values' = values,
             op[t] \in Operation, idx[t] \in Entry,
             \/ TryNextEntry(t) /\ keys[idx[t]] \notin {0, op[t].key} /\ Passed(op[t].key, idx[t])
             \/ Found(t) /\ keys[idx[t]] = op[t].key
             \/ Return(t, 0)
             \/ /\ Goto(t, "claim") /\ UNCHANGED <<op, idx, ret>>
                /\ op[t].kind # "get" /\ Passed(op[t].key, idx[t])
      PROVE  IInv'
  <2>1. CASE TryNextEntry(t) /\ keys[idx[t]] \notin {0, op[t].key} /\ Passed(op[t].key, idx[t])
    <3> USE <1>2, <2>1 DEF TryNextEntry
    <3>1. TypeOK'
      BY NextEntryType DEF TypeOK
    <3>2. Home(op[t].key) \in Entry
      BY OperationIs, HomeType
    <3>3. Passed(op[t].key, NextEntry(idx[t]))
      BY <3>2, BeforeNext DEF Passed, Before
    <3>4. SearchInv'
      BY <3>3 DEF TypeOK, SearchInv, Passed
    <3> QED BY <3>1, <3>4 DEF PathInv, Passed, FreshInv
  <2>2. CASE Found(t) /\ keys[idx[t]] = op[t].key
    BY <1>2, <2>2 DEF Found, TypeOK, SearchInv, PathInv, Passed, FreshInv
  <2>3. CASE Return(t, 0)
    BY <1>0, <1>2, <2>3 DEF Return, TypeOK, SearchInv, PathInv, Passed, FreshInv
  <2>4. CASE /\ Goto(t, "claim") /\ UNCHANGED <<op, idx, ret>>
             /\ op[t].kind # "get" /\ Passed(op[t].key, idx[t])
    BY <1>2, <2>4 DEF TypeOK, SearchInv, PathInv, Passed, FreshInv
  <2> QED BY <1>2, <2>1, <2>2, <2>3, <2>4
<1>3. ASSUME NEW t \in Thread, Probe(t) PROVE IInv'
  <2> USE <1>3 DEF Probe, table
  <2>1. op[t] \in Operation /\ idx[t] \in Entry /\ Passed(op[t].key, idx[t])
    BY DEF TypeOK, SearchInv
  <2> QED BY <1>2, <2>1
<1>4. ASSUME NEW t \in Thread, Claim(t) PROVE IInv'
  <2> USE <1>4 DEF Claim, Claimed, StolenByOther
  <2>1. /\ op[t] \in Operation /\ idx[t] \in Entry /\ Passed(op[t].key, idx[t])
        /\ op[t].key \in Key /\ op[t].key # 0
    BY OperationIs DEF TypeOK, SearchInv
  <2>2. CASE keys[idx[t]] # 0
    <3>1. keys' = keys
      BY <2>2 DEF TypeOK
    <3> QED BY <1>2, <2>1, <2>2, <3>1
  <2>3. CASE keys[idx[t]] = 0
    <3>1. keys' = [keys EXCEPT ![idx[t]] = op[t].key] /\ Found(t)
      BY <2>3
    <3>2. TypeOK'
      BY <2>1, <3>1 DEF Found, TypeOK
    <3>3. \A key \in Key : \A e \in Entry : Passed(key, e) => Passed(key, e)'
      BY <2>1, <2>3, <3>1, ClaimKeepsPaths
    <3>4. PathInv'
      BY <2>1, <3>1, <3>3 DEF PathInv, TypeOK
    <3>5. SearchInv'
      <4> SUFFICES ASSUME NEW s \in Thread
                   PROVE  /\ pc'[s] \in {"probe", "claim"} => Passed(op[s].key, idx[s])'
                          /\ pc'[s] = "value" => keys'[idx'[s]] = op'[s].key
        BY DEF SearchInv
      <4>1. CASE s = t
        BY <2>1, <3>1, <4>1 DEF Found, TypeOK
      <4>2. CASE s # t
        <5>1. pc'[s] = pc[s] /\ op' = op /\ idx' = idx
          BY <3>1, <4>2 DEF Found, TypeOK
        <5>2. pc[s] # "out" => op[s].key \in Key /\ op[s].key # 0 /\ idx[s] \in Entry
          BY OperationIs DEF TypeOK
        <5>3. pc[s] \in {"probe", "claim"} => Passed(op[s].key, idx[s])'
          BY <3>3, <5>1, <5>2 DEF SearchInv, Passed
        <5>4. pc[s] = "value" => keys'[idx[s]] = op[s].key
          BY <2>3, <3>1, <5>2 DEF SearchInv, TypeOK
        <5> QED BY <5>1, <5>3, <5>4
      <4> QED BY <4>1, <4>2
    <3>6. FreshInv'
      BY <2>1, <3>1 DEF FreshInv, TypeOK
    <3> QED BY <3>2, <3>4, <3>5, <3>6
  <2> QED BY <2>2, <2>3
<1>5. ASSUME NEW t \in Thread, UseValue(t) PROVE IInv'
  <2> USE <1>5 DEF UseValue, Return
  <2>1. /\ op[t] \in Operation /\ idx[t] \in Entry
        /\ keys[idx[t]] = op[t].key /\ op[t].key # 0
    BY OperationIs DEF TypeOK, SearchInv
  <2>2. op[t].kind # "get" => op[t].item \in Item
    BY <2>1, OperationIs
  <2>3. TypeOK'
    BY <1>0, <2>1, <2>2 DEF Store, Load, AddIfUnset, TypeOK
  <2>4. SearchInv'
    BY DEF Store, Load, AddIfUnset, TypeOK, SearchInv, Passed
  <2>5. FreshInv'
    BY <2>1 DEF Store, Load, AddIfUnset, TypeOK, FreshInv
  <2> QED BY <2>3, <2>4, <2>5 DEF PathInv, Passed
<1>6. CASE UNCHANGED vars
  BY <1>6 DEF vars, TypeOK, PathInv, SearchInv, Passed, FreshInv
<1> QED BY <1>1, <1>3, <1>4, <1>5, <1>6 DEF Next, Step

LEMMA InvUnique == IInv => NoDuplicateKeys
BY UniqueEntry DEF IInv, NoDuplicateKeys

THEOREM Invariance == Spec => []IInv
BY InitInv, NextInv, PTL DEF Spec

(* The types hold.                                                         *)
THEOREM TypeCorrect == Spec => []TypeOK
BY Invariance, PTL DEF IInv

(* However many threads race to insert it, a key has one entry.            *)
THEOREM KeysUnique == Spec => []NoDuplicateKeys
BY InvUnique, Invariance, PTL

(* A claimed entry keeps its key.                                          *)
THEOREM KeysPermanent == Spec => KeysArePermanent
<1>1. IInv /\ [Next]_vars => [\A e \in Entry : keys[e] # 0 => keys'[e] = keys[e]]_keys
  <2> SUFFICES ASSUME IInv, [Next]_vars
               PROVE  keys' = keys \/ \A e \in Entry : keys[e] # 0 => keys'[e] = keys[e]
    OBVIOUS
  <2>1. ASSUME NEW t \in Thread, Claim(t)
        PROVE  \A e \in Entry : keys[e] # 0 => keys'[e] = keys[e]
    BY <2>1 DEF Claim, Claimed, IInv, TypeOK
  <2>2. ASSUME NEW t \in Thread, Probe(t) \/ UseValue(t) PROVE keys' = keys
    BY <2>2 DEF Probe, UseValue, table
  <2> QED BY <2>1, <2>2 DEF Next, Step, Call, vars, table
<1> QED BY <1>1, Invariance, PTL DEF Spec, KeysArePermanent

Onward == \A t \in Thread :
  pc[t] # "out" /\ pc'[t] # "out" /\ idx'[t] # idx[t] => idx'[t] # Home(op[t].key)

LEMMA SearchesGoOn == IInv /\ [Next]_vars => [Onward]_vars
<1>1. IInv /\ [Next]_vars => [Onward]_vars
  <2> USE DEF Onward
  <2> SUFFICES ASSUME IInv, Next, NEW t \in Thread,
                      pc[t] # "out", pc'[t] # "out", idx'[t] # idx[t]
               PROVE  idx'[t] # Home(op[t].key)
    OBVIOUS
  <2>1. \A s \in Thread \ {t} : Step(s) => idx'[t] = idx[t]
    BY DEF Step, Probe, Claim, UseValue, Store, Load, AddIfUnset, TryNextEntry,
           Found, Return, IInv, TypeOK
  <2>2. \A s \in Thread, o \in Operation : ~(Call(s, o) /\ s = t)
    BY DEF Call
  <2>3. \A s \in Thread \ {t}, o \in Operation : Call(s, o) => idx'[t] = idx[t]
    BY DEF Call, IInv, TypeOK
  <2>4. Step(t)
    BY <2>1, <2>2, <2>3 DEF Next
  <2>5. /\ op[t] \in Operation /\ op[t].key \in Key /\ op[t].key # 0
        /\ idx[t] \in Entry /\ Home(op[t].key) \in Entry
    BY OperationIs, HomeType DEF IInv, TypeOK
  <2>6. /\ TryNextEntry(t) /\ keys[idx[t]] \notin {0, op[t].key}
        /\ Passed(op[t].key, idx[t])
    BY <2>4 DEF Step, Probe, Claim, UseValue, Store, Load, AddIfUnset, Found, Return,
           Goto, IInv, TypeOK, SearchInv, StolenByOther
  <2> SUFFICES ASSUME NextEntry(idx[t]) = Home(op[t].key) PROVE FALSE
    BY <2>6 DEF TryNextEntry, IInv, TypeOK
  <2>7. \A e \in Entry : keys[e] \notin {0, op[t].key}
    BY <2>5, <2>6, BeforeNext DEF Passed
  <2> QED BY <2>5, <2>7, SomeEntry, InvUnique DEF IInv, TypeOK
<1> QED BY <1>1

(* A search does not go round: as the keys are at most as many as the      *)
(* entries, it finds its key or a free entry before.                       *)
THEOREM SearchesEnd == Spec => NoWrapAround
<1>1. NoWrapAround <=> [][Onward]_vars
  BY DEF NoWrapAround, Onward
<1> QED BY <1>1, SearchesGoOn, Invariance, PTL DEF Spec
-----------------------------------------------------------------------------
(* The refinement of AtomicMap.                                            *)

Pending == {t \in Thread : pc[t] # "out"}

(* The item of a key is the value of its entry, or 0 without one.          *)
MapSpec ==
  \A k \in Key :
    /\ \A e \in Entry : keys[e] = k => Map[k] = values[e]
    /\ (\A e \in Entry : keys[e] # k) => Map[k] = 0

LEMMA MapIs == NoDuplicateKeys => MapSpec
<1> SUFFICES ASSUME NoDuplicateKeys, NEW k \in Key
             PROVE  /\ \A e \in Entry : keys[e] = k => Map[k] = values[e]
                    /\ (\A e \in Entry : keys[e] # k) => Map[k] = 0
  BY DEF MapSpec
<1>1. ASSUME NEW e \in Entry, keys[e] = k PROVE Map[k] = values[e]
  <2> DEFINE c == CHOOSE d \in Entry : keys[d] = k
  <2>1. c \in Entry /\ keys[c] = k
    BY <1>1
  <2>2. c = e
    BY <1>1, <2>1, KeyAssumption DEF NoDuplicateKeys
  <2> QED BY <1>1, <2>2 DEF Map
<1>2. ASSUME \A e \in Entry : keys[e] # k PROVE Map[k] = 0
  BY <1>2 DEF Map
<1> QED BY <1>1, <1>2

LEMMA InitRefines == Init => Atomic!Init
<1> SUFFICES ASSUME Init PROVE Atomic!Init
  OBVIOUS
<1>1. Map = [k \in Key |-> 0]
  BY KeyAssumption DEF Init, Map
<1>2. {t \in Thread : pc[t] # "out"} = {}
  BY DEF Init
<1> QED BY <1>1, <1>2 DEF Init, Atomic!Init, NoOp, Atomic!NoOp

(* The steps of a call before its last change nothing a client can see.    *)
LEMMA Internal ==
  ASSUME NEW t \in Thread, TypeOK, pc[t] # "out", TryNextEntry(t) \/ Found(t), Map' = Map
  PROVE  UNCHANGED Atomic!vars
<1>1. Pending' = Pending /\ op' = op /\ ret' = ret
  BY DEF TryNextEntry, Found, Goto, Pending, TypeOK
<1> QED BY <1>1 DEF Atomic!vars, Pending

(* Writing the entry of a key changes the item of that key alone.          *)
LEMMA MapUpdate ==
  ASSUME NoDuplicateKeys, NoDuplicateKeys', NEW e \in Entry, keys[e] \in Key, keys' = keys,
         values \in [Entry -> Item \cup {0}], NEW v, values' = [values EXCEPT ![e] = v]
  PROVE  Map' = [Map EXCEPT ![keys[e]] = v]
<1>a. MapSpec /\ MapSpec'
  BY MapIs, PTL
<1>1. ASSUME NEW k \in Key, NEW d \in Entry, keys[d] = k
      PROVE  Map'[k] = (IF k = keys[e] THEN v ELSE Map[k])
  <2>1. Map[k] = values[d] /\ Map'[k] = values'[d]
    BY <1>a, <1>1 DEF MapSpec
  <2>2. k = keys[e] <=> d = e
    BY <1>1, KeyAssumption DEF NoDuplicateKeys
  <2> QED BY <2>1, <2>2
<1>2. ASSUME NEW k \in Key, \A d \in Entry : keys[d] # k
      PROVE  Map'[k] = (IF k = keys[e] THEN v ELSE Map[k])
  BY <1>a, <1>2 DEF MapSpec
<1>3. \A k \in Key : Map'[k] = IF k = keys[e] THEN v ELSE Map[k]
  BY <1>1, <1>2
<1>4. Map = [k \in Key |-> Map[k]] /\ Map' = [k \in Key |-> Map'[k]]
  BY DEF Map
<1> QED BY <1>3, <1>4

(* Claiming a fresh entry for a key without one leaves the map as it is.   *)
LEMMA MapClaim ==
  ASSUME NoDuplicateKeys, NoDuplicateKeys', keys \in [Entry -> Key \cup {0}],
         NEW f \in Entry, keys[f] = 0, values[f] = 0, values' = values,
         NEW key \in Key, \A e \in Entry : keys[e] # key, keys' = [keys EXCEPT ![f] = key]
  PROVE  Map' = Map
<1>a. MapSpec /\ MapSpec'
  BY MapIs, PTL
<1>1. \A e \in Entry : keys'[e] = IF e = f THEN key ELSE keys[e]
  OBVIOUS
<1>2. ASSUME NEW k \in Key PROVE Map'[k] = Map[k]
  <2>1. /\ (\A e \in Entry : keys[e] = k => Map[k] = values[e])'
        /\ ((\A e \in Entry : keys[e] # k) => Map[k] = 0)'
    BY <1>a DEF MapSpec
  <2>2. CASE k = key
    <3>1. Map'[k] = 0
      BY <1>1, <2>1, <2>2
    <3>2. Map[k] = 0
      BY <1>a, <2>2 DEF MapSpec
    <3> QED BY <3>1, <3>2
  <2>3. CASE k # key /\ \E e \in Entry : keys[e] = k
    <3>1. PICK e \in Entry : keys[e] = k
      BY <2>3
    <3>2. keys'[e] = k
      BY <1>1, <2>3, <3>1, KeyAssumption
    <3>3. Map'[k] = values[e]
      BY <2>1, <3>2
    <3>4. Map[k] = values[e]
      BY <1>a, <3>1 DEF MapSpec
    <3> QED BY <3>3, <3>4
  <2>4. CASE k # key /\ \A e \in Entry : keys[e] # k
    <3>1. \A e \in Entry : keys'[e] # k
      BY <1>1, <2>4
    <3>2. Map'[k] = 0
      BY <2>1, <3>1
    <3>3. Map[k] = 0
      BY <1>a, <2>4 DEF MapSpec
    <3> QED BY <3>2, <3>3
  <2> QED BY <2>2, <2>3, <2>4
<1> QED BY <1>2 DEF Map

(* A call that returns takes effect.                                       *)
LEMMA ReturnRefines ==
  ASSUME pc = [s \in Thread |-> pc[s]], ret = [s \in Thread |-> ret[s]],
         NEW t \in Thread, NEW r, pc[t] # "out", Return(t, r),
         \/ op[t].kind = "set" /\ r = ret[t] /\ Map' = [Map EXCEPT ![op[t].key] = op[t].item]
         \/ op[t].kind = "get" /\ r = Map[op[t].key] /\ Map' = Map
         \/ /\ op[t].kind = "add" /\ Map[op[t].key] = 0 /\ r = 1
            /\ Map' = [Map EXCEPT ![op[t].key] = op[t].item]
         \/ op[t].kind = "add" /\ Map[op[t].key] # 0 /\ r = 0 /\ Map' = Map
  PROVE  Atomic!Next
<1> USE DEF Return, Goto
<1>1. Pending' = Pending \ {t} /\ t \in Pending
  BY DEF Pending
<1>2. ret' = [ret EXCEPT ![t] = r] /\ (r = ret[t] => ret' = ret)
  OBVIOUS
<1>3. Atomic!Set(t) \/ Atomic!Get(t) \/ Atomic!Add(t)
  BY <1>2 DEF Atomic!Set, Atomic!Get, Atomic!Add
<1>4. Atomic!TakeEffect(t)
  BY <1>1, <1>3 DEF Atomic!TakeEffect, Pending, Atomic!NoOp, NoOp
<1> QED BY <1>4 DEF Atomic!Next

LEMMA NextRefines == IInv /\ IInv' /\ [Next]_vars => [Atomic!Next]_Atomic!vars
<1> SUFFICES ASSUME IInv, IInv', [Next]_vars PROVE [Atomic!Next]_Atomic!vars
  OBVIOUS
<1>a. TypeOK /\ PathInv /\ SearchInv /\ FreshInv /\ TypeOK' /\ PathInv'
  BY DEF IInv
<1>n. NoDuplicateKeys /\ NoDuplicateKeys'
  BY InvUnique, PTL
<1>m. MapSpec
  BY <1>n, MapIs
<1>b. Atomic!Op = Operation /\ Atomic!NoOp = NoOp
  BY DEF Atomic!Op, Operation, SetItem, AddItem, GetItem, Atomic!NoOp, NoOp
<1>c. ASSUME keys' = keys, values' = values PROVE Map' = Map
  BY <1>c DEF Map
<1>1. ASSUME NEW t \in Thread, NEW o \in Operation, Call(t, o) PROVE Atomic!Next
  <2> USE <1>1 DEF Call, Goto, table
  <2>1. Pending' = Pending \cup {t} /\ t \notin Pending
    BY <1>a DEF Pending, TypeOK
  <2>2. Atomic!Call(t, o)
    BY <1>c, <2>1 DEF Atomic!Call, Pending
  <2> QED BY <1>b, <2>2 DEF Atomic!Next
<1>2. pc = [s \in Thread |-> pc[s]] /\ ret = [s \in Thread |-> ret[s]]
  BY <1>a DEF TypeOK
<1>3. ASSUME NEW t \in Thread, Probe(t) PROVE [Atomic!Next]_Atomic!vars
  <2> USE <1>3 DEF Probe, table
  <2>1. Map' = Map
    BY <1>c
  <2>2. /\ op[t] \in Operation /\ op[t].key \in Key /\ idx[t] \in Entry
        /\ Passed(op[t].key, idx[t])
    BY <1>a, OperationIs DEF TypeOK, SearchInv
  <2>3. CASE TryNextEntry(t) \/ Found(t)
    BY <1>a, <2>1, <2>3, Internal
  <2>4. CASE keys[idx[t]] = 0 /\ op[t].kind = "get" /\ Return(t, 0)
    <3>1. Map[op[t].key] = 0
      BY <1>a, <1>m, <2>2, <2>4, FreeMeansAbsent DEF MapSpec
    <3> QED BY <1>2, <2>1, <2>4, <3>1, ReturnRefines
  <2>5. CASE Goto(t, "claim") /\ UNCHANGED <<op, idx, ret>>
    <3>1. Pending' = Pending
      BY <1>a, <2>5 DEF Goto, Pending, TypeOK
    <3> QED BY <2>1, <2>5, <3>1 DEF Atomic!vars, Pending
  <2> QED BY <2>3, <2>4, <2>5
<1>4. ASSUME NEW t \in Thread, Claim(t) PROVE UNCHANGED Atomic!vars
  <2> USE <1>4 DEF Claim, Claimed
  <2>1. /\ op[t].key \in Key /\ op[t].key # 0 /\ idx[t] \in Entry
        /\ Passed(op[t].key, idx[t])
    BY <1>a, OperationIs DEF TypeOK, SearchInv
  <2>2. CASE keys[idx[t]] # 0
    <3>1. keys' = keys
      BY <1>a, <2>2 DEF TypeOK
    <3> QED BY <1>a, <1>c, <3>1, Internal
  <2>3. CASE keys[idx[t]] = 0
    <3>1. \A e \in Entry : keys[e] # op[t].key
      BY <1>a, <2>1, <2>3, FreeMeansAbsent
    <3>2. values[idx[t]] = 0 /\ keys' = [keys EXCEPT ![idx[t]] = op[t].key] /\ keys \in [Entry -> Key \cup {0}]
      BY <1>a, <2>1, <2>3 DEF FreshInv, TypeOK
    <3>5. Map' = Map
      BY <1>n, <2>1, <2>3, <3>1, <3>2, MapClaim
    <3> QED BY <1>a, <3>5, Internal
  <2> QED BY <2>2, <2>3
<1>5. ASSUME NEW t \in Thread, UseValue(t) PROVE Atomic!Next
  <2> USE <1>5 DEF UseValue
  <2>1. idx[t] \in Entry /\ keys[idx[t]] = op[t].key /\ op[t].key \in Key
    BY <1>a, OperationIs DEF TypeOK, SearchInv
  <2>2. Map[op[t].key] = values[idx[t]]
    BY <1>m, <2>1 DEF MapSpec
  <2>3. \A v : values' = [values EXCEPT ![idx[t]] = v] => Map' = [Map EXCEPT ![op[t].key] = v]
    <3>1. keys' = keys /\ values \in [Entry -> Item \cup {0}] /\ keys[idx[t]] \in Key
      BY <1>a, <2>1 DEF TypeOK
    <3>2. ASSUME NEW v, values' = [values EXCEPT ![idx[t]] = v]
          PROVE  Map' = [Map EXCEPT ![keys[idx[t]]] = v]
      BY <1>n, <2>1, <3>1, <3>2, MapUpdate
    <3> QED BY <2>1, <3>2
  <2>4. CASE Store(t)
    BY <1>2, <2>3, <2>4, ReturnRefines DEF Store
  <2>5. CASE Load(t)
    BY <1>2, <1>c, <2>2, <2>5, ReturnRefines DEF Load
  <2>6. CASE AddIfUnset(t)
    BY <1>2, <1>c, <2>2, <2>3, <2>6, ReturnRefines DEF AddIfUnset, Unset
  <2> QED BY <2>4, <2>5, <2>6
<1>6. CASE UNCHANGED vars
  BY <1>6 DEF vars, Atomic!vars, Map
<1> QED BY <1>1, <1>3, <1>4, <1>5, <1>6 DEF Next, Step

(* The table is linearizable: set_item, get_item and add_item each take    *)
(* effect in one step, for all threads, keys, items and table sizes.       *)
THEOREM Linearizable == Spec => ImplementsMap
<1> USE DEF ImplementsMap, Atomic!Spec, Spec
<1> QED BY InitRefines, NextRefines, Invariance, PTL
=============================================================================
