--------------------------- MODULE AtomicsProofs ----------------------------
(***************************************************************************)
(* Proofs about SimAtomics and ReleaseAcquire.  The simulated atomics, for *)
(* every set of threads and values: the plain accesses to the cell exclude *)
(* each other, and the operations are atomic.  The node on release/acquire *)
(* atomics, for every number of words, writes and readers: what a read     *)
(* returns is the vector of one write.  The two tables, for every number of*)
(* threads and entries and all calls: total is right, and what main and the*)
(* threads have found they find again.                                     *)
(***************************************************************************)
EXTENDS MCAtomics, FiniteSetTheorems, SequenceTheorems, TLAPS

(* Mutual exclusion and its reason, and that a CAS which is about to write *)
(* has seen the value it compares with, an exchange the value it returns.  *)
CellInv ==
  /\ TypeOK
  /\ NoRace
  /\ \A t \in Thread : pc[t] = "write" =>
       /\ op[t].kind = "CAS" => val = op[t].c /\ x[t] = 1
       /\ op[t].kind = "exchange" => val = x[t]

LEMMA OperationIs ==
  ASSUME NEW o \in Operation
  PROVE  /\ o.kind \in {"load", "store", "exchange", "CAS"}
         /\ o.kind # "load" => o.v \in Val
BY DEF Operation, Load, Store, Exchange, CAS

LEMMA CellInit == Init => CellInv
BY DEF Init, CellInv, TypeOK, NoRace, Inside, Operation, Load

LEMMA CellNext == CellInv /\ [Next]_vars => CellInv'
<1> SUFFICES ASSUME CellInv, [Next]_vars PROVE CellInv'
  OBVIOUS
<1> USE DEF CellInv, NoRace, Inside, Goto
<1>1. ASSUME NEW t \in Thread, NEW o \in Operation, Call(t, o) PROVE CellInv'
  BY <1>1 DEF Call, TypeOK
<1>2. ASSUME NEW t \in Thread, Acquire(t) PROVE CellInv'
  <2> USE <1>2 DEF Acquire, CanAcquire, FirstAccess
  <2>1. op[t] \in Operation \cup [kind : {"free"}]
    BY DEF TypeOK
  <2>2. TypeOK'
    BY DEF TypeOK
  <2>3. NoRace'
    BY DEF TypeOK
  <2>4. pc'[t] = "write" => op[t].kind = "store"
    BY DEF TypeOK
  <2> QED BY <2>2, <2>3, <2>4 DEF TypeOK
<1>3. ASSUME NEW t \in Thread, ReadVal(t) PROVE CellInv'
  <2> USE <1>3 DEF ReadVal, Compare
  <2>1. TypeOK'
    BY DEF TypeOK
  <2>2. NoRace'
    BY DEF TypeOK
  <2> QED BY <2>1, <2>2 DEF TypeOK
<1>4. ASSUME NEW t \in Thread, WriteVal(t) PROVE CellInv'
  <2> USE <1>4 DEF WriteVal
  <2>1. op[t] \in Operation /\ op[t].kind # "load"
    BY DEF TypeOK
  <2>2. op[t].v \in Val
    BY <2>1, OperationIs
  <2> QED BY <2>2 DEF TypeOK
<1>5. ASSUME NEW t \in Thread, Release(t) PROVE CellInv'
  BY <1>5 DEF Release, Unlocked, TypeOK
<1>6. ASSUME NEW t \in Thread, FreeAtomic(t) PROVE CellInv'
  BY <1>6 DEF FreeAtomic, CanAcquire, TypeOK
<1>7. CASE UNCHANGED vars
  BY <1>7 DEF vars, TypeOK
<1> QED BY <1>1, <1>2, <1>3, <1>4, <1>5, <1>6, <1>7 DEF Next, Step

THEOREM Invariance == Spec => []CellInv
BY CellInit, CellNext, PTL DEF Spec

(* The types hold.                                                         *)
THEOREM TypeCorrect == Spec => []TypeOK
BY Invariance, PTL DEF CellInv

(* Every access to the plain cell is made by the owner of its lock alone.  *)
THEOREM MutualExclusion == Spec => []NoRace
BY Invariance, PTL DEF CellInv
-----------------------------------------------------------------------------
(* The refinement of AtomicCell.                                           *)

LEMMA InitRefines == Init => Cell!Init
<1> SUFFICES ASSUME Init PROVE Cell!Init
  OBVIOUS
<1>1. Stage = [t \in Thread |-> "out"]
  BY DEF Init, Stage
<1>2. Ret = [t \in Thread |-> 0]
  BY <1>1 DEF Init, Ret
<1> QED BY <1>1, <1>2 DEF Init, Cell!Init

(* How a step of thread t changes what callers see.                        *)
LEMMA CallersSee ==
  ASSUME NEW t \in Thread, TypeOK, TypeOK',
         \A s \in Thread \ {t} : pc'[s] = pc[s] /\ op'[s] = op[s] /\ x'[s] = x[s]
  PROVE  /\ Stage' = [Stage EXCEPT ![t] = Stage'[t]]
         /\ Ret' = [Ret EXCEPT ![t] = Ret'[t]]
<1>1. Stage' = [Stage EXCEPT ![t] = Stage'[t]]
  BY DEF Stage
<1>2. Ret' = [Ret EXCEPT ![t] = Ret'[t]]
  BY DEF Ret, Stage
<1> QED BY <1>1, <1>2

LEMMA NextRefines == CellInv /\ CellInv' /\ [Next]_vars => [Cell!Next]_Cell!vars
<1> SUFFICES ASSUME CellInv, CellInv', [Next]_vars PROVE [Cell!Next]_Cell!vars
  OBVIOUS
<1> USE DEF Goto
<1>0. TypeOK /\ TypeOK'
  BY DEF CellInv
<1>a. Operation = Cell!Op
  BY DEF Operation, Load, Store, Exchange, CAS, Cell!Op
<1>1. ASSUME NEW t \in Thread, NEW o \in Operation, Call(t, o) PROVE Cell!Next
  <2> USE <1>1 DEF Call
  <2>1. Stage[t] = "out" /\ Stage'[t] = "called" /\ Ret'[t] = 0
    BY <1>0 DEF Stage, Ret, TypeOK
  <2>2. Stage' = [Stage EXCEPT ![t] = "called"] /\ Ret' = [Ret EXCEPT ![t] = 0]
    BY <1>0, <2>1, CallersSee DEF TypeOK
  <2>3. Cell!Call(t, o)
    BY <2>1, <2>2 DEF Cell!Call
  <2> QED BY <2>3, <1>a DEF Cell!Next
<1>2. ASSUME NEW t \in Thread, Acquire(t) PROVE UNCHANGED Cell!vars
  <2> USE <1>2 DEF Acquire
  <2>0. FirstAccess(t) \in {"read", "write"}
    BY DEF FirstAccess
  <2>1. Stage'[t] = Stage[t] /\ Ret'[t] = Ret[t]
    BY <1>0, <2>0 DEF Stage, Ret, TypeOK
  <2>2. Stage' = [Stage EXCEPT ![t] = Stage[t]] /\ Ret' = [Ret EXCEPT ![t] = Ret[t]]
    BY <1>0, <2>1, CallersSee DEF TypeOK
  <2>3. Stage' = Stage /\ Ret' = Ret
    BY <2>2 DEF Stage, Ret
  <2> QED BY <2>3 DEF Cell!vars
<1>3. ASSUME NEW t \in Thread, ReadVal(t) PROVE [Cell!Next]_Cell!vars
  <2> USE <1>3 DEF ReadVal, Compare
  <2>0. op[t] \in Operation /\ op[t].kind # "store"
    BY <1>0 DEF TypeOK
  <2>1. CASE op[t].kind = "exchange" \/ (op[t].kind = "CAS" /\ val = op[t].c)
    <3>1. Stage'[t] = Stage[t] /\ Ret'[t] = Ret[t]
      BY <1>0, <2>1 DEF Stage, Ret, TypeOK
    <3>2. Stage' = [Stage EXCEPT ![t] = Stage[t]] /\ Ret' = [Ret EXCEPT ![t] = Ret[t]]
      BY <1>0, <3>1, CallersSee DEF TypeOK
    <3>3. Stage' = Stage /\ Ret' = Ret
      BY <3>2 DEF Stage, Ret
    <3> QED BY <3>3 DEF Cell!vars
  <2>2. CASE ~(op[t].kind = "exchange" \/ (op[t].kind = "CAS" /\ val = op[t].c))
    <3>1. pc'[t] = "release" /\ x'[t] = (IF op[t].kind # "CAS" THEN val ELSE 0)
      BY <1>0, <2>2 DEF TypeOK
    <3>2. Cell!After(op[t], val) = val /\ Cell!Result(op[t], val) = x'[t]
      BY <2>0, <2>2, <3>1, OperationIs DEF Cell!After, Cell!Result
    <3>3. Stage[t] = "called" /\ Stage'[t] = "done" /\ Ret'[t] = Cell!Result(op[t], val)
      BY <1>0, <2>0, <3>1, <3>2 DEF Stage, Ret, TypeOK
    <3>4. /\ Stage' = [Stage EXCEPT ![t] = "done"]
          /\ Ret' = [Ret EXCEPT ![t] = Cell!Result(op[t], val)]
      BY <1>0, <3>3, CallersSee DEF TypeOK
    <3>5. Cell!TakeEffect(t)
      BY <3>2, <3>3, <3>4 DEF Cell!TakeEffect
    <3> QED BY <3>5 DEF Cell!Next
  <2> QED BY <2>1, <2>2
<1>4. ASSUME NEW t \in Thread, WriteVal(t) PROVE Cell!Next
  <2> USE <1>4 DEF WriteVal
  <2>0. op[t] \in Operation /\ op[t].kind \in {"store", "exchange", "CAS"}
    BY <1>0, OperationIs DEF TypeOK
  <2>1. /\ op[t].kind = "CAS" => val = op[t].c /\ x[t] = 1
        /\ op[t].kind = "exchange" => val = x[t]
    BY DEF CellInv
  <2>2. Cell!After(op[t], val) = op[t].v
    BY <2>0, <2>1 DEF Cell!After
  <2>3. Cell!Result(op[t], val) = IF op[t].kind = "store" THEN 0 ELSE x[t]
    BY <2>0, <2>1 DEF Cell!Result
  <2>4. Stage[t] = "called" /\ Stage'[t] = "done" /\ Ret'[t] = Cell!Result(op[t], val)
    BY <1>0, <2>3 DEF Stage, Ret, TypeOK
  <2>5. /\ Stage' = [Stage EXCEPT ![t] = "done"]
        /\ Ret' = [Ret EXCEPT ![t] = Cell!Result(op[t], val)]
    BY <1>0, <2>4, CallersSee DEF TypeOK
  <2>6. Cell!TakeEffect(t)
    BY <2>2, <2>4, <2>5 DEF Cell!TakeEffect
  <2> QED BY <2>6 DEF Cell!Next
<1>5. ASSUME NEW t \in Thread, Release(t) PROVE Cell!Next
  <2> USE <1>5 DEF Release
  <2>1. Stage[t] = "done" /\ Stage'[t] = "out" /\ Ret'[t] = Ret[t]
    BY <1>0 DEF Stage, Ret, TypeOK
  <2>2. Stage' = [Stage EXCEPT ![t] = "out"] /\ Ret' = [Ret EXCEPT ![t] = Ret[t]]
    BY <1>0, <2>1, CallersSee DEF TypeOK
  <2>3. Ret' = Ret
    BY <2>2 DEF Ret
  <2>4. Cell!Return(t)
    BY <2>1, <2>2, <2>3 DEF Cell!Return
  <2> QED BY <2>4 DEF Cell!Next
<1>6. ASSUME NEW t \in Thread, FreeAtomic(t) PROVE Cell!Next
  <2> USE <1>6 DEF FreeAtomic
  <2>1. \A s \in Thread : Stage[s] = "out"
    BY DEF Stage
  <2>2. Stage' = Stage
    BY DEF Stage
  <2>3. Ret'[t] = val
    BY <1>0, <2>1, <2>2 DEF Ret, TypeOK
  <2>4. Ret' = [Ret EXCEPT ![t] = val]
    BY <1>0, <2>3, CallersSee DEF TypeOK
  <2>5. Cell!Free(t)
    BY <2>1, <2>2, <2>4 DEF Cell!Free
  <2> QED BY <2>5 DEF Cell!Next
<1>7. CASE UNCHANGED vars
  BY <1>7 DEF vars, Cell!vars, Stage, Ret
<1> QED
  BY <1>1, <1>2, <1>3, <1>4, <1>5, <1>6, <1>7 DEF Next, Step

(* Lock-based operations are atomic operations, whatever the threads and   *)
(* the values.                                                             *)
THEOREM Refinement == Spec => ImplementsCell
<1> USE DEF ImplementsCell, Cell!Spec, Spec
<1> QED BY InitRefines, NextRefines, Invariance, PTL

(* The runs of MCAtomics in which the simulated atomics work are theirs.   *)
THEOREM AtomicsAlone == AtomicsSpec => Spec
<1>1. AtomicsInit => Init
  BY DEF AtomicsInit
<1>2. [AtomicsNext]_<<program, vars, relaxedVars>> => [Next]_vars
  BY DEF AtomicsNext, vars
<1> QED BY <1>1, <1>2, PTL DEF AtomicsSpec, Spec

-----------------------------------------------------------------------------
(* The memory of ReleaseAcquire: what a store does to its messages.        *)
Message(Loc) == [val : Int, view : [Loc -> Nat], cas : BOOLEAN]
Shifted(e, l, p) == [e EXCEPT !.view = Relaxed!Moved(@, l, p)]

(* The sequence r is s with e inserted at p.                               *)
Inserting(S, r, s, p, e) ==
  /\ r \in Seq(S) /\ Len(r) = Len(s) + 1
  /\ \A i \in 1..Len(s) + 1 : r[i] = IF i < p THEN s[i] ELSE IF i = p THEN e ELSE s[i - 1]

LEMMA Inserted ==
  ASSUME NEW S, NEW s \in Seq(S), NEW p \in 1..Len(s) + 1, NEW e \in S
  PROVE  Inserting(S, Relaxed!InsertAt(s, p, e), s, p, e)
<1> DEFINE n == Len(s)
           a == SubSeq(s, 1, p - 1)
           c == SubSeq(s, p, n)
<1>1. n \in Nat /\ p \in Nat /\ \A i \in 1..n : s[i] \in S
  BY LenProperties
<1>2. a \in Seq(S) /\ Len(a) = p - 1 /\ \A i \in 1..p-1 : a[i] = s[i]
  <2>1. 1 \in Int /\ p - 1 \in Int /\ \A i \in 1..p-1 : s[i] \in S
    BY <1>1
  <2>2. Len(a) = IF 1 <= p - 1 THEN p - 1 - 1 + 1 ELSE 0
    BY <2>1, SubSeqProperties
  <2>3. a \in Seq(S) /\ \A i \in 1..p-1-1+1 : a[i] = s[1 + i - 1]
    BY <2>1, SubSeqProperties
  <2> HIDE DEF a
  <2> QED BY <1>1, <2>2, <2>3
<1>3. c \in Seq(S) /\ Len(c) = n - p + 1 /\ \A i \in 1..n-p+1 : c[i] = s[p + i - 1]
  <2>1. p \in Int /\ n \in Int /\ \A i \in p..n : s[i] \in S
    BY <1>1
  <2>2. Len(c) = IF p <= n THEN n - p + 1 ELSE 0
    BY <2>1, SubSeqProperties
  <2>3. c \in Seq(S) /\ \A i \in 1..n-p+1 : c[i] = s[p + i - 1]
    BY <2>1, SubSeqProperties
  <2>4. p <= n + 1
    BY <1>1
  <2> HIDE DEF c
  <2> QED BY <1>1, <2>2, <2>3, <2>4
<1> HIDE DEF a, c
<1>4. <<e>> \in Seq(S) /\ Len(<<e>>) = 1 /\ <<e>>[1] = e
  OBVIOUS
<1> DEFINE b == a \o <<e>>
<1>5. b \in Seq(S) /\ Len(b) = p /\ \A i \in 1..p : b[i] = IF i < p THEN s[i] ELSE e
  <2>1. b \in Seq(S) /\ Len(b) = Len(a) + 1 /\ \A i \in 1..Len(a)+1 : b[i] = IF i <= Len(a) THEN a[i] ELSE <<e>>[i - Len(a)]
    BY <1>2, <1>4, ConcatProperties
  <2> HIDE DEF b
  <2>2. Len(b) = p
    BY <1>1, <1>2, <2>1
  <2>3. ASSUME NEW i \in 1..p PROVE b[i] = IF i < p THEN s[i] ELSE e
    <3>1. CASE i < p
      <4>1. i \in 1..p-1 /\ i <= Len(a) /\ i \in 1..Len(a)+1
        BY <1>1, <1>2, <3>1
      <4> QED BY <1>2, <2>1, <3>1, <4>1
    <3>2. CASE i = p
      <4>1. ~(i <= Len(a)) /\ i \in 1..Len(a)+1 /\ i - Len(a) = 1
        BY <1>1, <1>2, <3>2
      <4> QED BY <1>4, <2>1, <3>2, <4>1
    <3> QED BY <1>1, <3>1, <3>2
  <2> QED BY <2>1, <2>2, <2>3
<1> HIDE DEF b
<1> DEFINE r == b \o c
<1>6. r \in Seq(S) /\ Len(r) = p + (n - p + 1) /\ \A i \in 1..p+(n-p+1) : r[i] = IF i <= p THEN b[i] ELSE c[i - p]
  <2>1. b \in Seq(S) /\ c \in Seq(S)
    BY <1>3, <1>5
  <2>2. r \in Seq(S) /\ Len(r) = Len(b) + Len(c) /\ \A i \in 1..Len(b)+Len(c) : r[i] = IF i <= Len(b) THEN b[i] ELSE c[i - Len(b)]
    BY <2>1, ConcatProperties
  <2>3. Len(b) = p /\ Len(c) = n - p + 1
    BY <1>3, <1>5
  <2> HIDE DEF r, n
  <2> QED BY <2>2, <2>3
<1> HIDE DEF r
<1>7. Len(r) = n + 1
  BY <1>1, <1>6
<1>8. ASSUME NEW i \in 1..n + 1 PROVE r[i] = IF i < p THEN s[i] ELSE IF i = p THEN e ELSE s[i - 1]
  <2>1. i \in 1..p+(n-p+1)
    BY <1>1
  <2>2. CASE i <= p
    <3>1. i \in 1..p
      BY <1>1, <2>2
    <3> QED BY <1>1, <1>5, <1>6, <2>1, <2>2, <3>1
  <2>3. CASE i > p
    <3>1. i - p \in 1..n-p+1 /\ p + (i - p) - 1 = i - 1 /\ ~(i <= p) /\ ~(i < p) /\ i # p
      BY <1>1, <2>3
    <3> QED BY <1>3, <1>6, <2>1, <3>1
  <2> QED BY <1>1, <2>2, <2>3
<1>9. Relaxed!InsertAt(s, p, e) = r
  BY DEF Relaxed!InsertAt, r, a, b, c
<1>10. Inserting(S, r, s, p, e)
  BY <1>6, <1>7, <1>8 DEF Inserting
<1> QED BY <1>9, <1>10

(* Message f is message e after a store at p of l.                         *)
IsMoved(f, e, l, p) == f.val = e.val /\ f.cas = e.cas /\ f.view = Relaxed!Moved(e.view, l, p)

LEMMA ShiftedIs ==
  ASSUME NEW Loc, NEW e \in Message(Loc), NEW l \in Loc, NEW p \in Nat
  PROVE  LET f == Shifted(e, l, p) IN
         /\ f \in Message(Loc) /\ f.val = e.val /\ f.cas = e.cas /\ f.view = Relaxed!Moved(e.view, l, p)
         /\ \A k \in Loc : f.view[k] = IF k = l /\ e.view[k] >= p THEN e.view[k] + 1 ELSE e.view[k]
         /\ IsMoved(f, e, l, p)
<1>1. e.view \in [Loc -> Nat] /\ e.view[l] \in Nat
  BY DEF Message
<1>2. Relaxed!Moved(e.view, l, p) \in [Loc -> Nat]
  BY <1>1 DEF Relaxed!Moved
<1>3. \A k \in Loc : Relaxed!Moved(e.view, l, p)[k] = IF k = l /\ e.view[k] >= p THEN e.view[k] + 1 ELSE e.view[k]
  BY <1>1 DEF Relaxed!Moved
<1> HIDE DEF Relaxed!Moved
<1>4. /\ Shifted(e, l, p) \in Message(Loc) /\ Shifted(e, l, p).val = e.val /\ Shifted(e, l, p).cas = e.cas
      /\ Shifted(e, l, p).view = Relaxed!Moved(e.view, l, p)
  BY <1>2 DEF Shifted, Message
<1>5. IsMoved(Shifted(e, l, p), e, l, p)
  BY <1>4 DEF IsMoved
<1> QED BY <1>3, <1>4, <1>5

(* The memory n is m, with a message in its place.                         *)
Storing(Loc, n, m, l, p, new) ==
  /\ n \in [Loc -> Seq(Message(Loc))]
  /\ Len(n[l]) = Len(m[l]) + 1
  /\ n[l][p] = new
  /\ \A i \in 1..Len(m[l]) + 1 : i < p => n[l][i] = Shifted(m[l][i], l, p)
  /\ \A i \in 1..Len(m[l]) + 1 : i > p => n[l][i] = Shifted(m[l][i - 1], l, p)
  /\ \A k \in Loc : k # l => Len(n[k]) = Len(m[k]) /\ \A i \in 1..Len(m[k]) : n[k][i] = Shifted(m[k][i], l, p)

LEMMA StoredIs ==
  ASSUME NEW Loc, NEW m \in [Loc -> Seq(Message(Loc))], NEW v \in [Loc -> Nat], NEW l \in Loc,
         NEW p \in 1..Len(m[l]) + 1, NEW d \in Int, NEW cas \in BOOLEAN
  PROVE  Storing(Loc, Relaxed!Stored(m, v, l, p, d, cas), m, l, p, [val |-> d, view |-> [v EXCEPT ![l] = p], cas |-> cas])
<1> DEFINE moved(k) == [i \in DOMAIN m[k] |-> Shifted(m[k][i], l, p)]
           new == [val |-> d, view |-> [v EXCEPT ![l] = p], cas |-> cas]
           n == Relaxed!Stored(m, v, l, p, d, cas)
<1>1. p \in Nat /\ Len(m[l]) \in Nat
  BY LenProperties
<1>2. ASSUME NEW k \in Loc
      PROVE  moved(k) \in Seq(Message(Loc)) /\ Len(moved(k)) = Len(m[k]) /\ \A i \in 1..Len(m[k]) : moved(k)[i] = Shifted(m[k][i], l, p)
  <2>1. m[k] \in Seq(Message(Loc)) /\ DOMAIN m[k] = 1..Len(m[k]) /\ Len(m[k]) \in Nat
    BY LenProperties
  <2>2. \A i \in 1..Len(m[k]) : Shifted(m[k][i], l, p) \in Message(Loc)
    <3> TAKE i \in 1..Len(m[k])
    <3>1. m[k][i] \in Message(Loc)
      BY <2>1, ElementOfSeq
    <3> QED BY <1>1, <3>1, ShiftedIs
  <2> HIDE DEF Shifted, Message
  <2> QED BY <2>1, <2>2
<1>3. new \in Message(Loc)
  BY <1>1 DEF Message
<1>4. n = [k \in Loc |-> IF k = l THEN Relaxed!InsertAt(moved(k), p, new) ELSE moved(k)]
  BY DEF Relaxed!Stored, Shifted
<1> HIDE DEF n, new, moved
<1>5. p \in 1..Len(moved(l)) + 1
  BY <1>2
<1>6. LET r == Relaxed!InsertAt(moved(l), p, new) IN
         /\ r \in Seq(Message(Loc)) /\ Len(r) = Len(moved(l)) + 1
         /\ \A i \in 1..Len(moved(l)) + 1 : r[i] = IF i < p THEN moved(l)[i] ELSE IF i = p THEN new ELSE moved(l)[i - 1]
  <2>1. PICK S : S = Message(Loc)
    OBVIOUS
  <2>2. PICK s \in Seq(S) : s = moved(l)
    BY <1>2, <2>1
  <2>3. p \in 1..Len(s) + 1 /\ new \in S
    BY <1>3, <1>5, <2>1, <2>2
  <2>4. Inserting(S, Relaxed!InsertAt(s, p, new), s, p, new)
    BY <2>3, Inserted
  <2> QED BY <2>1, <2>2, <2>4 DEF Inserting
<1>7. n[l] = Relaxed!InsertAt(moved(l), p, new) /\ \A k \in Loc : k # l => n[k] = moved(k)
  BY <1>4
<1>8. n \in [Loc -> Seq(Message(Loc))]
  BY <1>2, <1>4, <1>6
<1>9. Len(n[l]) = Len(m[l]) + 1 /\ \A i \in 1..Len(m[l]) + 1 : n[l][i] = IF i < p THEN moved(l)[i] ELSE IF i = p THEN new ELSE moved(l)[i - 1]
  BY <1>2, <1>6, <1>7
<1>10. n[l][p] = new
  BY <1>1, <1>9
<1>11. ASSUME NEW i \in 1..Len(m[l]) + 1
       PROVE  (i < p => n[l][i] = Shifted(m[l][i], l, p)) /\ (i > p => n[l][i] = Shifted(m[l][i - 1], l, p))
  <2>1. CASE i < p
    <3>1. i \in 1..Len(m[l]) /\ ~(i > p)
      BY <1>1, <2>1
    <3> QED BY <1>2, <1>9, <2>1, <3>1
  <2>2. CASE i > p
    <3>1. i - 1 \in 1..Len(m[l]) /\ ~(i < p) /\ i # p
      BY <1>1, <2>2
    <3> QED BY <1>2, <1>9, <2>2, <3>1
  <2> QED BY <2>1, <2>2
<1>12. ASSUME NEW k \in Loc, k # l PROVE Len(n[k]) = Len(m[k]) /\ \A i \in 1..Len(m[k]) : n[k][i] = Shifted(m[k][i], l, p)
  BY <1>2, <1>7, <1>12
<1>13. Storing(Loc, n, m, l, p, new)
  BY <1>8, <1>9, <1>10, <1>11, <1>12 DEF Storing
<1> QED BY <1>13 DEF n, new
-----------------------------------------------------------------------------
(* The node.                                                               *)
Word == Relaxed!Word
Ver  == Relaxed!Ver
NodeLoc == Relaxed!NodeLoc
Agent == Reader \cup {"writer"}
NodeMessage == Message(NodeLoc)

(* What can be seen: for each word that of the write that the version is   *)
(* of, or the one before, or while the version is odd the new one.         *)
NodeView(m, w) ==
  /\ w \in [NodeLoc -> Nat] /\ \A l \in NodeLoc : 1 <= w[l] /\ w[l] <= Len(m[l])
  /\ \A j \in Word : 2 * w[j] - 2 <= w[Ver] /\ w[Ver] <= 2 * w[j]

(* Versions and words count up from 0.                                     *)
MessagesInv ==
  /\ cells \in [NodeLoc -> Seq(NodeMessage)]
  /\ \A l \in NodeLoc : \A i \in 1..Len(cells[l]) :
       cells[l][i].val = i - 1 /\ NodeView(cells, cells[l][i].view) /\ cells[l][i].view[l] = i

WriterInv ==
  /\ wpc \in {"idle", "store"} /\ number \in Nat /\ wi \in 0..Size
  /\ Len(cells[Ver]) = IF wpc = "idle" THEN 2 * number + 1 ELSE 2 * number
  /\ \A j \in Word : Len(cells[j]) = IF wpc = "store" /\ wi <= j THEN number ELSE number + 1
  /\ \A l \in NodeLoc : seen["writer"][l] = Len(cells[l])

SeenInv == DOMAIN seen = Agent /\ \A a \in Agent : NodeView(cells, seen[a])

(* A reader that copies has seen the version in snap, and so the words of  *)
(* its write; the version before what it returned it will not see again.   *)
CopyInv(r) ==
  /\ snap[r] % 2 = 0 /\ 2 * got[r][0] <= snap[r] /\ snap[r] + 1 <= seen[r][Ver]
  /\ \A j \in Word : j < ri[r] => out[r][j] \in Nat /\ snap[r] <= 2 * out[r][j] /\ out[r][j] + 1 <= seen[r][j]
ReaderInv ==
  \A r \in Reader :
    /\ rpc[r] \in {"snap", "copy"} /\ ri[r] \in 0..Size /\ snap[r] \in Nat
    /\ got[r][0] \in Nat /\ 2 * got[r][0] + 1 <= seen[r][Ver] /\ \A j \in Word : got[r][j] = got[r][0]
    /\ rpc[r] = "copy" => CopyInv(r)
ReaderType ==
  /\ DOMAIN rpc = Reader /\ DOMAIN snap = Reader /\ DOMAIN ri = Reader /\ DOMAIN got = Reader
  /\ DOMAIN out = Reader /\ \A r \in Reader : DOMAIN out[r] = Word

NodeInv == MessagesInv /\ WriterInv /\ SeenInv /\ ReaderType /\ ReaderInv

LEMMA NodeNames ==
  /\ Word = 0..Size-1 /\ Ver = Size /\ NodeLoc = 0..Size /\ Word \subseteq NodeLoc /\ Ver \in NodeLoc /\ Ver \notin Word
  /\ 0 \in Word /\ Size \in Nat \ {0} /\ \A l \in NodeLoc : l \in Word \/ l = Ver
  /\ "writer" \in Agent /\ Reader \subseteq Agent /\ "writer" \notin Reader
BY NodeAssumption DEF Word, Ver, NodeLoc, Agent, Relaxed!Word, Relaxed!Ver, Relaxed!NodeLoc

LEMMA JoinedIs ==
  ASSUME NEW Loc, NEW v \in [Loc -> Nat], NEW w \in [Loc -> Nat]
  PROVE  /\ Relaxed!Joined(v, w) \in [Loc -> Nat]
         /\ \A l \in Loc : Relaxed!Joined(v, w)[l] = IF v[l] < w[l] THEN w[l] ELSE v[l]
BY DEF Relaxed!Joined

LEMMA NodeJoined ==
  ASSUME NEW m, NEW v, NEW w, NodeView(m, v), NodeView(m, w), \A l \in NodeLoc : Len(m[l]) \in Nat
  PROVE  /\ NodeView(m, Relaxed!Joined(v, w))
         /\ \A l \in NodeLoc : /\ Relaxed!Joined(v, w)[l] >= v[l] /\ Relaxed!Joined(v, w)[l] >= w[l]
                               /\ Relaxed!Joined(v, w)[l] \in Nat
<1> DEFINE u == Relaxed!Joined(v, w)
<1>1. u \in [NodeLoc -> Nat] /\ \A l \in NodeLoc : u[l] = IF v[l] < w[l] THEN w[l] ELSE v[l]
  BY JoinedIs DEF NodeView
<1> HIDE DEF u
<1>2. \A l \in NodeLoc : u[l] >= v[l] /\ u[l] >= w[l] /\ 1 <= u[l] /\ u[l] <= Len(m[l]) /\ u[l] \in Nat /\ v[l] \in Nat /\ w[l] \in Nat
  BY <1>1 DEF NodeView
<1>3. ASSUME NEW j \in Word PROVE 2 * u[j] - 2 <= u[Ver] /\ u[Ver] <= 2 * u[j]
  <2>1. /\ 2 * v[j] - 2 <= v[Ver] /\ v[Ver] <= 2 * v[j] /\ 2 * w[j] - 2 <= w[Ver] /\ w[Ver] <= 2 * w[j]
        /\ v[j] \in Nat /\ w[j] \in Nat /\ v[Ver] \in Nat /\ w[Ver] \in Nat
        /\ u[j] = (IF v[j] < w[j] THEN w[j] ELSE v[j]) /\ u[Ver] = (IF v[Ver] < w[Ver] THEN w[Ver] ELSE v[Ver])
    BY <1>1, <1>2, NodeNames DEF NodeView
  <2> QED BY <2>1
<1> QED BY <1>1, <1>2, <1>3 DEF NodeView, u

LEMMA NodeInit == Relaxed!KvInit => NodeInv
<1> SUFFICES ASSUME Relaxed!KvInit PROVE NodeInv
  OBVIOUS
<1> DEFINE first == [l \in NodeLoc |-> 1]
           msg == [val |-> 0, view |-> first, cas |-> FALSE]
<1>1. /\ cells = [l \in NodeLoc |-> <<msg>>] /\ seen = [a \in Agent |-> first]
      /\ wpc = "idle" /\ number = 0 /\ wi = 0
      /\ rpc = [r \in Reader |-> "snap"] /\ snap = [r \in Reader |-> 0] /\ ri = [r \in Reader |-> 0]
      /\ out = [r \in Reader |-> [j \in Word |-> 0]] /\ got = [r \in Reader |-> [j \in Word |-> 0]]
  BY DEF Relaxed!KvInit, Relaxed!FreshMemory, Relaxed!First, Relaxed!NoVector, Word, NodeLoc, Agent
<1>2. \A l \in NodeLoc : Len(cells[l]) = 1 /\ cells[l][1] = msg
  BY <1>1
<1>3. NodeView(cells, first)
  BY <1>2, NodeNames DEF NodeView
<1>4. MessagesInv
  <2>1. msg \in NodeMessage
    BY DEF NodeMessage, Message
  <2>2. cells \in [NodeLoc -> Seq(NodeMessage)]
    BY <1>1, <2>1
  <2>3. ASSUME NEW l \in NodeLoc, NEW i \in 1..Len(cells[l])
        PROVE  cells[l][i].val = i - 1 /\ NodeView(cells, cells[l][i].view) /\ cells[l][i].view[l] = i
    <3>0. Len(cells[l]) = 1
      BY <1>2
    <3>1. i = 1
      BY <3>0
    <3> QED BY <1>2, <1>3, <3>1
  <2> QED BY <2>2, <2>3 DEF MessagesInv
<1>5. WriterInv
  BY <1>1, <1>2, NodeNames DEF WriterInv
<1>6. SeenInv
  BY <1>1, <1>3 DEF SeenInv
<1>7. ReaderType /\ ReaderInv
  BY <1>1, NodeNames DEF ReaderType, ReaderInv
<1> QED BY <1>4, <1>5, <1>6, <1>7 DEF NodeInv

(* A store of the writer is the newest message of its location.            *)
LEMMA NodeStores ==
  ASSUME NodeInv, NEW l \in NodeLoc, NEW d \in Int, Relaxed!StoreRel(l, d)
  PROVE  /\ cells' \in [NodeLoc -> Seq(NodeMessage)]
         /\ Len(cells'[l]) = Len(cells[l]) + 1
         /\ \A k \in NodeLoc : k # l => Len(cells'[k]) = Len(cells[k])
         /\ \A k \in NodeLoc : \A i \in 1..Len(cells[k]) : cells'[k][i] = cells[k][i]
         /\ cells'[l][Len(cells[l]) + 1].val = d
         /\ cells'[l][Len(cells[l]) + 1].view = seen'["writer"]
         /\ DOMAIN seen' = Agent /\ seen'["writer"] \in [NodeLoc -> Nat]
         /\ \A k \in NodeLoc : seen'["writer"][k] = Len(cells'[k])
         /\ \A a \in Agent : a # "writer" => seen'[a] = seen[a]
<1> DEFINE v == seen["writer"]
           p == Len(cells[l]) + 1
           n == Relaxed!Stored(cells, v, l, p, d, FALSE)
           w == [v EXCEPT ![l] = p]
<1>1. /\ cells \in [NodeLoc -> Seq(NodeMessage)] /\ v \in [NodeLoc -> Nat] /\ v[l] = Len(cells[l])
      /\ \A k \in NodeLoc : v[k] = Len(cells[k]) /\ Len(cells[k]) \in Nat
      /\ DOMAIN seen = Agent /\ "writer" \in Agent /\ p \in 1..Len(cells[l]) + 1
  <2>1. cells \in [NodeLoc -> Seq(NodeMessage)] /\ DOMAIN seen = Agent /\ "writer" \in Agent
    BY NodeNames DEF NodeInv, MessagesInv, SeenInv
  <2>2. \A k \in NodeLoc : v[k] = Len(cells[k])
    BY DEF NodeInv, WriterInv
  <2>3. v \in [NodeLoc -> Nat]
    BY <2>1 DEF NodeInv, SeenInv, NodeView
  <2>4. \A k \in NodeLoc : Len(cells[k]) \in Nat
    BY <2>2, <2>3
  <2> QED BY <2>1, <2>2, <2>3, <2>4
<1>2. cells' = n /\ seen' = [seen EXCEPT !["writer"] = w]
  <2>1. cells' = Relaxed!Stored(cells, v, l, v[l] + 1, d, FALSE) /\ seen' = [seen EXCEPT !["writer"][l] = v[l] + 1]
    BY DEF Relaxed!StoreRel
  <2> QED BY <1>1, <2>1
<1>3. /\ n \in [NodeLoc -> Seq(NodeMessage)]
      /\ Len(n[l]) = Len(cells[l]) + 1
      /\ n[l][p] = [val |-> d, view |-> w, cas |-> FALSE]
      /\ \A i \in 1..Len(cells[l]) + 1 : i < p => n[l][i] = Shifted(cells[l][i], l, p)
      /\ \A k \in NodeLoc : k # l =>
           Len(n[k]) = Len(cells[k]) /\ \A i \in 1..Len(cells[k]) : n[k][i] = Shifted(cells[k][i], l, p)
  <2> HIDE DEF n, w, p, v, Message
  <2>1. cells \in [NodeLoc -> Seq(Message(NodeLoc))] /\ v \in [NodeLoc -> Nat] /\ p \in 1..Len(cells[l]) + 1 /\ FALSE \in BOOLEAN
    BY <1>1 DEF NodeMessage
  <2>2. Storing(NodeLoc, n, cells, l, p, [val |-> d, view |-> w, cas |-> FALSE])
    BY <2>1, StoredIs DEF n, w
  <2> QED BY <2>2 DEF Storing, NodeMessage
<1>4. ASSUME NEW k \in NodeLoc, NEW i \in 1..Len(cells[k]) PROVE Shifted(cells[k][i], l, p) = cells[k][i]
  <2>1. cells[k][i] \in NodeMessage /\ cells[k][i].view[l] < p /\ cells[k][i].view[l] \in Nat
    <3>1. NodeView(cells, cells[k][i].view)
      BY DEF NodeInv, MessagesInv
    <3>2. cells[k] \in Seq(NodeMessage)
      BY <1>1
    <3>3. cells[k][i] \in NodeMessage
      BY <3>2, ElementOfSeq
    <3> QED BY <1>1, <3>1, <3>3 DEF NodeView
  <2>2. Relaxed!Moved(cells[k][i].view, l, p) = cells[k][i].view
    <3>1. cells[k][i].view \in [NodeLoc -> Nat] /\ ~(cells[k][i].view[l] >= p) /\ p \in Nat
      BY <1>1, <2>1 DEF NodeMessage, Message
    <3> HIDE DEF p
    <3> QED BY <3>1 DEF Relaxed!Moved
  <2> QED BY <2>1, <2>2 DEF Shifted, NodeMessage, Message
<1> HIDE DEF n
<1>5. ASSUME NEW k \in NodeLoc, NEW i \in 1..Len(cells[k]) PROVE n[k][i] = cells[k][i]
  <2>1. CASE k = l
    <3>1. i \in 1..Len(cells[l]) + 1 /\ i < p
      BY <1>1, <2>1
    <3> QED BY <1>3, <1>4, <2>1, <3>1
  <2>2. CASE k # l
    BY <1>3, <1>4, <2>2
  <2> QED BY <2>1, <2>2
<1>6. seen'["writer"] = w /\ DOMAIN seen' = Agent /\ \A a \in Agent : a # "writer" => seen'[a] = seen[a]
  BY <1>1, <1>2
<1>7. w \in [NodeLoc -> Nat] /\ w[l] = p /\ \A k \in NodeLoc : k # l => w[k] = v[k]
  BY <1>1
<1>8. \A k \in NodeLoc : w[k] = Len(n[k])
  BY <1>1, <1>3, <1>7
<1>9. n[l][p].val = d /\ n[l][p].view = w
  BY <1>3
<1> QED BY <1>2, <1>3, <1>5, <1>6, <1>7, <1>8, <1>9

(* What is then left to show of a step of the writer.                      *)
LEMMA WriterKeeps ==
  ASSUME NodeInv, NEW l \in NodeLoc, NEW d \in Int, Relaxed!StoreRel(l, d), d = Len(cells[l]),
         UNCHANGED <<rpc, snap, out, ri, got>>,
         \A j \in Word : 2 * Len(cells'[j]) - 2 <= Len(cells'[Ver]) /\ Len(cells'[Ver]) <= 2 * Len(cells'[j])
  PROVE  MessagesInv' /\ SeenInv' /\ ReaderType' /\ ReaderInv' /\ \A k \in NodeLoc : seen'["writer"][k] = Len(cells'[k])
<1> DEFINE p == Len(cells[l]) + 1
           w == seen'["writer"]
<1>1. /\ cells' \in [NodeLoc -> Seq(NodeMessage)]
      /\ Len(cells'[l]) = p
      /\ \A k \in NodeLoc : k # l => Len(cells'[k]) = Len(cells[k])
      /\ \A k \in NodeLoc : \A i \in 1..Len(cells[k]) : cells'[k][i] = cells[k][i]
      /\ cells'[l][p].val = d
      /\ cells'[l][p].view = w
      /\ DOMAIN seen' = Agent /\ w \in [NodeLoc -> Nat]
      /\ \A k \in NodeLoc : w[k] = Len(cells'[k])
      /\ \A a \in Agent : a # "writer" => seen'[a] = seen[a]
  BY NodeStores
<1>2. \A k \in NodeLoc : Len(cells[k]) \in Nat /\ Len(cells'[k]) \in Nat /\ Len(cells[k]) <= Len(cells'[k]) /\ Len(cells'[k]) >= 1
  <2>1. \A k \in NodeLoc : Len(cells[k]) \in Nat /\ Len(cells[k]) >= 1
    <3>1. NodeView(cells, seen["writer"])
      BY NodeNames DEF NodeInv, SeenInv
    <3>2. \A k \in NodeLoc : seen["writer"][k] = Len(cells[k])
      BY DEF NodeInv, WriterInv
    <3> QED BY <3>1, <3>2 DEF NodeView
  <2> QED BY <1>1, <2>1
<1>3. ASSUME NEW u, NodeView(cells, u) PROVE NodeView(cells', u)
  BY <1>2, <1>3 DEF NodeView, NodeLoc, Ver, Word
<1>4. NodeView(cells', w)
  <2>1. \A k \in NodeLoc : 1 <= w[k] /\ w[k] <= Len(cells'[k])
    BY <1>1, <1>2
  <2>2. \A j \in Word : 2 * w[j] - 2 <= w[Ver] /\ w[Ver] <= 2 * w[j]
    BY <1>1, NodeNames
  <2> HIDE DEF w
  <2> QED BY <1>1, <2>1, <2>2 DEF NodeView
<1>5. MessagesInv'
  <2> SUFFICES ASSUME NEW k \in NodeLoc, NEW i \in 1..Len(cells'[k])
               PROVE  cells'[k][i].val = i - 1 /\ NodeView(cells', cells'[k][i].view) /\ cells'[k][i].view[k] = i
    BY <1>1 DEF MessagesInv, NodeLoc, NodeMessage
  <2>1. CASE i <= Len(cells[k])
    <3>1. i \in 1..Len(cells[k])
      BY <1>2, <2>1
    <3>2. cells'[k][i] = cells[k][i] /\ cells[k][i].val = i - 1 /\ NodeView(cells, cells[k][i].view) /\ cells[k][i].view[k] = i
      BY <1>1, <3>1 DEF NodeInv, MessagesInv
    <3> QED BY <1>3, <3>2
  <2>2. CASE ~(i <= Len(cells[k]))
    <3>1. k = l /\ i = p
      BY <1>1, <1>2, <2>2
    <3>2. d = p - 1 /\ w[l] = p
      BY <1>1, <1>2
    <3> QED BY <1>1, <1>4, <3>1, <3>2
  <2> QED BY <2>1, <2>2
<1>6. SeenInv'
  <2>1. \A a \in Agent : NodeView(cells', seen'[a])
    BY <1>1, <1>3, <1>4 DEF NodeInv, SeenInv
  <2> QED BY <1>1, <2>1 DEF SeenInv
<1>7. \A r \in Reader : seen'[r] = seen[r]
  BY <1>1, NodeNames
<1>8. ReaderType' /\ ReaderInv'
  BY <1>7 DEF NodeInv, ReaderType, ReaderInv, CopyInv, Ver, Word
<1> QED BY <1>1, <1>5, <1>6, <1>8

LEMMA WriterSteps ==
  ASSUME NodeInv, Relaxed!StartWrite \/ Relaxed!StoreWord \/ Relaxed!MarkClean
  PROVE  NodeInv'
<1> USE NodeNames
<1>0. /\ \A l \in NodeLoc : Len(cells[l]) \in Nat /\ seen["writer"][l] = Len(cells[l])
      /\ number \in Nat /\ wi \in 0..Size /\ wpc \in {"idle", "store"}
      /\ Len(cells[Ver]) = (IF wpc = "idle" THEN 2 * number + 1 ELSE 2 * number)
      /\ \A j \in Word : Len(cells[j]) = IF wpc = "store" /\ wi <= j THEN number ELSE number + 1
  <2>1. NodeView(cells, seen["writer"])
    BY DEF NodeInv, SeenInv
  <2> QED BY <2>1 DEF NodeInv, WriterInv, NodeView
<1>1. CASE Relaxed!StartWrite
  <2>1. /\ wpc = "idle" /\ number' = number + 1 /\ wi' = 0 /\ wpc' = "store"
        /\ UNCHANGED <<rpc, snap, out, ri, got>>
        /\ Relaxed!StoreRel(Ver, Relaxed!Newest(cells, Ver) + 1)
    BY <1>1 DEF Relaxed!StartWrite, Relaxed!kvReader, Ver
  <2>2. Relaxed!Newest(cells, Ver) + 1 = Len(cells[Ver])
    <3>1. Len(cells[Ver]) \in 1..Len(cells[Ver])
      BY <1>0, <2>1
    <3>2. cells[Ver][Len(cells[Ver])].val = Len(cells[Ver]) - 1
      BY <3>1 DEF NodeInv, MessagesInv
    <3> QED BY <1>0, <3>2 DEF Relaxed!Newest
  <2>3. Relaxed!StoreRel(Ver, Len(cells[Ver])) /\ Len(cells[Ver]) \in Int
    BY <1>0, <2>1, <2>2
  <2>4. Len(cells'[Ver]) = Len(cells[Ver]) + 1 /\ \A k \in NodeLoc : k # Ver => Len(cells'[k]) = Len(cells[k])
    BY <2>3, NodeStores
  <2>5. Len(cells'[Ver]) = 2 * number + 2 /\ \A j \in Word : Len(cells'[j]) = number + 1
    BY <1>0, <2>1, <2>4
  <2>6. \A j \in Word : 2 * Len(cells'[j]) - 2 <= Len(cells'[Ver]) /\ Len(cells'[Ver]) <= 2 * Len(cells'[j])
    BY <1>0, <2>5
  <2>7. MessagesInv' /\ SeenInv' /\ ReaderType' /\ ReaderInv' /\ \A k \in NodeLoc : seen'["writer"][k] = Len(cells'[k])
    BY <2>1, <2>3, <2>6, WriterKeeps
  <2>8. WriterInv'
    BY <1>0, <2>1, <2>5, <2>7 DEF WriterInv, Ver, NodeLoc, Word
  <2> QED BY <2>7, <2>8 DEF NodeInv
<1>2. CASE Relaxed!StoreWord
  <2>1. /\ wpc = "store" /\ wi < Size /\ wi' = wi + 1 /\ wpc' = wpc /\ number' = number
        /\ UNCHANGED <<rpc, snap, out, ri, got>>
        /\ Relaxed!StoreRel(wi, number)
    BY <1>2 DEF Relaxed!StoreWord, Relaxed!kvReader
  <2>2. wi \in Word /\ number = Len(cells[wi]) /\ wi \in Nat /\ wi # Ver /\ wi \in NodeLoc
    BY <1>0, <2>1
  <2>3. Relaxed!StoreRel(wi, Len(cells[wi])) /\ Len(cells[wi]) \in Int
    BY <1>0, <2>1, <2>2
  <2>4. Len(cells'[wi]) = Len(cells[wi]) + 1 /\ \A k \in NodeLoc : k # wi => Len(cells'[k]) = Len(cells[k])
    BY <2>2, <2>3, NodeStores
  <2>5. Len(cells'[Ver]) = 2 * number /\ \A j \in Word : Len(cells'[j]) = IF wi + 1 <= j THEN number ELSE number + 1
    BY <1>0, <2>1, <2>2, <2>4
  <2>6. \A j \in Word : 2 * Len(cells'[j]) - 2 <= Len(cells'[Ver]) /\ Len(cells'[Ver]) <= 2 * Len(cells'[j])
    BY <1>0, <2>5
  <2>7. MessagesInv' /\ SeenInv' /\ ReaderType' /\ ReaderInv' /\ \A k \in NodeLoc : seen'["writer"][k] = Len(cells'[k])
    BY <2>1, <2>2, <2>3, <2>6, WriterKeeps
  <2>8. WriterInv'
    BY <1>0, <2>1, <2>2, <2>5, <2>7 DEF WriterInv, Ver, NodeLoc, Word
  <2> QED BY <2>7, <2>8 DEF NodeInv
<1>3. CASE Relaxed!MarkClean
  <2>1. /\ wpc = "store" /\ wi = Size /\ wi' = wi /\ wpc' = "idle" /\ number' = number
        /\ UNCHANGED <<rpc, snap, out, ri, got>>
        /\ Relaxed!StoreRel(Ver, 2 * number)
    BY <1>3 DEF Relaxed!MarkClean, Relaxed!kvReader, Ver
  <2>2. 2 * number = Len(cells[Ver])
    BY <1>0, <2>1
  <2>3. Relaxed!StoreRel(Ver, Len(cells[Ver])) /\ Len(cells[Ver]) \in Int
    BY <1>0, <2>1, <2>2
  <2>4. Len(cells'[Ver]) = Len(cells[Ver]) + 1 /\ \A k \in NodeLoc : k # Ver => Len(cells'[k]) = Len(cells[k])
    BY <2>3, NodeStores
  <2>5. Len(cells'[Ver]) = 2 * number + 1 /\ \A j \in Word : Len(cells'[j]) = number + 1
    BY <1>0, <2>1, <2>2, <2>4
  <2>6. \A j \in Word : 2 * Len(cells'[j]) - 2 <= Len(cells'[Ver]) /\ Len(cells'[Ver]) <= 2 * Len(cells'[j])
    BY <1>0, <2>5
  <2>7. MessagesInv' /\ SeenInv' /\ ReaderType' /\ ReaderInv' /\ \A k \in NodeLoc : seen'["writer"][k] = Len(cells'[k])
    BY <2>1, <2>3, <2>6, WriterKeeps
  <2>8. WriterInv'
    BY <1>0, <2>1, <2>5, <2>7 DEF WriterInv, Ver, NodeLoc, Word
  <2> QED BY <2>7, <2>8 DEF NodeInv
<1> QED BY <1>1, <1>2, <1>3

(* A load moves the view of its reader on, at least to the message.        *)
LEMMA NodeLoads ==
  ASSUME NodeInv, NEW r \in Reader, NEW l \in NodeLoc, NEW i \in Relaxed!Reach(r, l),
         seen' = [seen EXCEPT ![r] = Relaxed!LoadAcq(r, l, i)], cells' = cells,
         wpc' = wpc, number' = number, wi' = wi
  PROVE  /\ MessagesInv' /\ WriterInv' /\ SeenInv'
         /\ i \in Nat /\ i >= seen[r][l] /\ seen'[r][l] >= i /\ Relaxed!Content(l, i) = i - 1 /\ i >= 1
         /\ \A k \in NodeLoc : seen[r][k] \in Nat /\ seen'[r][k] \in Nat /\ seen'[r][k] >= seen[r][k]
         /\ \A j \in Word : 2 * seen[r][j] - 2 <= seen[r][Ver] /\ seen[r][Ver] <= 2 * seen[r][j]
         /\ \A s \in Reader : s # r => seen'[s] = seen[s]
<1> DEFINE v == seen[r]
           w == cells[l][i].view
           u == Relaxed!Joined(v, w)
<1> USE NodeNames
<1>1. NodeView(cells, v) /\ DOMAIN seen = Agent /\ r \in Agent /\ r # "writer"
  BY DEF NodeInv, SeenInv
<1>2. \A k \in NodeLoc : Len(cells[k]) \in Nat
  <2>1. \A k \in NodeLoc : cells[k] \in Seq(NodeMessage)
    BY DEF NodeInv, MessagesInv
  <2> QED BY <2>1, LenProperties
<1>3. i \in 1..Len(cells[l]) /\ i >= v[l] /\ v[l] \in Nat
  <2>1. i \in v[l]..Len(cells[l]) /\ 1 <= v[l] /\ v[l] \in Nat
    BY <1>1 DEF Relaxed!Reach, Relaxed!Readable, NodeView
  <2> QED BY <1>2, <2>1
<1>4. NodeView(cells, w) /\ w[l] = i /\ cells[l][i].val = i - 1
  BY <1>3 DEF NodeInv, MessagesInv
<1>5. NodeView(cells, u) /\ \A k \in NodeLoc : u[k] >= v[k] /\ u[k] >= w[k] /\ u[k] \in Nat
  BY <1>1, <1>2, <1>4, NodeJoined
<1>6. seen' = [seen EXCEPT ![r] = u]
  BY DEF Relaxed!LoadAcq, Relaxed!Acquired
<1> HIDE DEF u
<1>7. seen'[r] = u /\ DOMAIN seen' = Agent /\ \A a \in Agent : a # r => seen'[a] = seen[a]
  BY <1>1, <1>6
<1>8. SeenInv'
  <2>1. \A a \in Agent : NodeView(cells', seen'[a])
    BY <1>5, <1>7 DEF NodeInv, SeenInv
  <2> QED BY <1>7, <2>1 DEF SeenInv
<1>9. MessagesInv'
  BY DEF NodeInv, MessagesInv, NodeLoc, NodeMessage
<1>10. WriterInv'
  BY <1>1, <1>7 DEF NodeInv, WriterInv, NodeLoc, Word, Ver
<1>11. seen'[r][l] >= i /\ Relaxed!Content(l, i) = i - 1 /\ i \in Nat /\ i >= 1
  BY <1>3, <1>4, <1>5, <1>7 DEF Relaxed!Content
<1> QED BY <1>1, <1>3, <1>5, <1>7, <1>8, <1>9, <1>10, <1>11 DEF NodeView

LEMMA Even == ASSUME NEW n \in Nat, n % 2 # 1 PROVE n % 2 = 0 /\ \E h \in Nat : n = 2 * h
<1>1. n % 2 = 0 /\ n = 2 * (n \div 2) /\ n \div 2 \in Nat
  OBVIOUS
<1> QED BY <1>1

LEMMA SnapCounts ==
  ASSUME NEW g \in Nat, NEW v \in Nat, NEW w \in Nat, NEW i \in Nat,
         2 * g + 1 <= v, v <= i, i <= w, i >= 1
  PROVE  2 * g + 1 <= w /\ 2 * g <= i - 1 /\ i - 1 + 1 <= w /\ i - 1 \in Nat
OBVIOUS

LEMMA WordCounts ==
  ASSUME NEW s \in Nat, NEW v \in Nat, NEW j \in Nat, NEW i \in Nat, NEW u \in Nat,
         s % 2 = 0, s + 1 <= v, v <= 2 * j, j <= i, i <= u, i >= 1
  PROVE  i - 1 \in Nat /\ s <= 2 * (i - 1) /\ i - 1 + 1 <= u
<1>1. PICK h \in Nat : s = 2 * h
  BY Even
<1> QED BY <1>1

LEMMA RecheckCounts ==
  ASSUME NEW o \in Nat, NEW h \in Nat, NEW j \in Nat, NEW v \in Nat, NEW i \in Nat,
         2 * h <= 2 * o, o + 1 <= j, 2 * j - 2 <= v, v <= i, i - 1 = 2 * h
  PROVE  o = h
OBVIOUS

LEMMA TakesSnap ==
  ASSUME NodeInv, NEW r \in Reader, Relaxed!TakeSnap(r)
  PROVE  NodeInv' /\ got' = got
<1>1. PICK i \in Relaxed!Reach(r, Ver) :
        /\ seen' = [seen EXCEPT ![r] = Relaxed!LoadAcq(r, Ver, i)]
        /\ snap' = [snap EXCEPT ![r] = Relaxed!Content(Ver, i)]
        /\ rpc' = [rpc EXCEPT ![r] = IF Relaxed!Content(Ver, i) % 2 = 1 THEN "snap" ELSE "copy"]
        /\ ri' = [ri EXCEPT ![r] = 0]
        /\ cells' = cells /\ wpc' = wpc /\ number' = number /\ wi' = wi /\ out' = out /\ got' = got
  BY DEF Relaxed!TakeSnap, Relaxed!kvWriter, Ver
<1>n. Ver \in NodeLoc /\ 0 \in Word
  BY NodeNames
<1>2. /\ MessagesInv' /\ WriterInv' /\ SeenInv'
      /\ i \in Nat /\ i >= seen[r][Ver] /\ seen'[r][Ver] >= i /\ Relaxed!Content(Ver, i) = i - 1 /\ i >= 1
      /\ \A k \in NodeLoc : seen[r][k] \in Nat /\ seen'[r][k] \in Nat /\ seen'[r][k] >= seen[r][k]
      /\ \A s \in Reader : s # r => seen'[s] = seen[s]
  BY <1>1, <1>n, NodeLoads
<1>3. /\ rpc'[r] = (IF (i - 1) % 2 = 1 THEN "snap" ELSE "copy") /\ snap'[r] = i - 1 /\ ri'[r] = 0
      /\ \A s \in Reader : s # r => rpc'[s] = rpc[s] /\ snap'[s] = snap[s] /\ ri'[s] = ri[s]
      /\ ReaderType'
  BY <1>1, <1>2 DEF NodeInv, ReaderType, Word
<1>4. ReaderInv'
  <2> SUFFICES ASSUME NEW s \in Reader PROVE ReaderInv!(s)'
    BY DEF ReaderInv
  <2>1. CASE s = r
    <3>1. got[r][0] \in Nat /\ 2 * got[r][0] + 1 <= seen[r][Ver] /\ \A j \in Word : got[r][j] = got[r][0]
      BY DEF NodeInv, ReaderInv
    <3>2. seen[r][Ver] \in Nat /\ seen'[r][Ver] \in Nat /\ seen'[r][Ver] >= i /\ seen[r][Ver] <= i /\ i \in Nat /\ i >= 1
      BY <1>2, <1>n
    <3>3. 2 * got[r][0] + 1 <= seen'[r][Ver] /\ 2 * got[r][0] <= i - 1 /\ i - 1 + 1 <= seen'[r][Ver] /\ i - 1 \in Nat
      BY <3>1, <3>2, SnapCounts
    <3>4. rpc'[r] = "copy" => (i - 1) % 2 = 0
      BY <1>3, <3>3, Even
    <3>5. got' = got /\ rpc'[r] \in {"snap", "copy"} /\ ri'[r] = 0 /\ snap'[r] = i - 1
      BY <1>1, <1>3
    <3>6. (\A j \in Word : ~(j < 0)) /\ 0 \in 0..Size
      BY NodeAssumption DEF Word, Relaxed!Word
    <3>7. rpc'[r] = "copy" => CopyInv(r)'
      BY <3>3, <3>4, <3>5, <3>6 DEF CopyInv, Ver, Word
    <3> HIDE DEF CopyInv
    <3> QED BY <2>1, <3>1, <3>3, <3>5, <3>6, <3>7 DEF Ver, Word
  <2>2. CASE s # r
    <3>1. seen'[s] = seen[s] /\ rpc'[s] = rpc[s] /\ snap'[s] = snap[s] /\ ri'[s] = ri[s] /\ out' = out /\ got' = got
      BY <1>1, <1>2, <1>3, <2>2
    <3> QED BY <3>1 DEF NodeInv, ReaderInv, CopyInv, Ver, Word
  <2> QED BY <2>1, <2>2
<1> QED BY <1>1, <1>2, <1>3, <1>4 DEF NodeInv

LEMMA CopiesWord ==
  ASSUME NodeInv, NEW r \in Reader, Relaxed!CopyWord(r)
  PROVE  NodeInv' /\ got' = got
<1> DEFINE c == ri[r]
<1>0. c \in Word /\ rpc[r] = "copy" /\ c \in NodeLoc /\ c \in Nat /\ c + 1 \in 0..Size
  <2>1. ri[r] \in 0..Size /\ ri[r] < Size /\ rpc[r] = "copy"
    BY DEF Relaxed!CopyWord, NodeInv, ReaderInv
  <2>2. Word = 0..Size-1 /\ NodeLoc = 0..Size /\ Size \in Nat
    BY NodeNames
  <2> QED BY <2>1, <2>2
<1>n. Ver \in NodeLoc /\ 0 \in Word /\ Word \subseteq NodeLoc
  BY NodeNames
<1>1. PICK i \in Relaxed!Reach(r, c) :
        /\ seen' = [seen EXCEPT ![r] = Relaxed!LoadAcq(r, c, i)]
        /\ out' = [out EXCEPT ![r][c] = Relaxed!Content(c, i)]
        /\ ri' = [ri EXCEPT ![r] = c + 1]
        /\ cells' = cells /\ wpc' = wpc /\ number' = number /\ wi' = wi /\ got' = got /\ rpc' = rpc /\ snap' = snap
  BY <1>0 DEF Relaxed!CopyWord, Relaxed!kvWriter
<1>2. /\ MessagesInv' /\ WriterInv' /\ SeenInv'
      /\ i \in Nat /\ i >= seen[r][c] /\ seen'[r][c] >= i /\ Relaxed!Content(c, i) = i - 1 /\ i >= 1
      /\ \A k \in NodeLoc : seen[r][k] \in Nat /\ seen'[r][k] \in Nat /\ seen'[r][k] >= seen[r][k]
      /\ \A j \in Word : 2 * seen[r][j] - 2 <= seen[r][Ver] /\ seen[r][Ver] <= 2 * seen[r][j]
      /\ \A s \in Reader : s # r => seen'[s] = seen[s]
  BY <1>0, <1>1, NodeLoads
<1>3. /\ out'[r][c] = i - 1 /\ ri'[r] = c + 1
      /\ \A j \in Word : j # c => out'[r][j] = out[r][j]
      /\ \A s \in Reader : s # r => out'[s] = out[s] /\ ri'[s] = ri[s]
      /\ ReaderType'
  BY <1>0, <1>1, <1>2 DEF NodeInv, ReaderType, Word
<1>4. ReaderInv'
  <2> SUFFICES ASSUME NEW s \in Reader PROVE ReaderInv!(s)'
    BY DEF ReaderInv
  <2>1. CASE s = r
    <3>1. /\ got[r][0] \in Nat /\ 2 * got[r][0] + 1 <= seen[r][Ver] /\ \A j \in Word : got[r][j] = got[r][0]
          /\ snap[r] \in Nat /\ CopyInv(r)
      BY <1>0 DEF NodeInv, ReaderInv
    <3>2. /\ seen[r][Ver] \in Nat /\ seen'[r][Ver] \in Nat /\ seen'[r][Ver] >= seen[r][Ver]
          /\ seen[r][c] \in Nat /\ seen'[r][c] \in Nat /\ seen[r][Ver] <= 2 * seen[r][c]
          /\ i \in Nat /\ i >= 1 /\ seen[r][c] <= i /\ i <= seen'[r][c]
      BY <1>0, <1>2, <1>n
    <3>3. snap[r] % 2 = 0 /\ 2 * got[r][0] <= snap[r] /\ snap[r] + 1 <= seen[r][Ver]
      BY <3>1 DEF CopyInv
    <3>4. i - 1 \in Nat /\ snap[r] <= 2 * (i - 1) /\ (i - 1) + 1 <= seen'[r][c]
      <4>1. snap[r] \in Nat
        BY <3>1
      <4> QED BY <3>2, <3>3, <4>1, WordCounts
    <3>5. ASSUME NEW j \in Word, j < c + 1
          PROVE  out'[r][j] \in Nat /\ snap[r] <= 2 * out'[r][j] /\ out'[r][j] + 1 <= seen'[r][j]
      <4>1. CASE j = c
        BY <1>3, <3>4, <4>1
      <4>2. CASE j # c
        <5>1. j < c /\ out'[r][j] = out[r][j] /\ seen'[r][j] >= seen[r][j] /\ seen[r][j] \in Nat /\ seen'[r][j] \in Nat
          <6>1. j \in NodeLoc /\ j \in Nat
            BY <1>n, <3>5 DEF Word, Relaxed!Word
          <6> QED BY <1>0, <1>2, <1>3, <3>5, <4>2, <6>1
        <5>2. out[r][j] \in Nat /\ snap[r] <= 2 * out[r][j] /\ out[r][j] + 1 <= seen[r][j]
          BY <3>1, <5>1 DEF CopyInv
        <5> HIDE DEF c
        <5> QED BY <5>1, <5>2
      <4> QED BY <4>1, <4>2
    <3>6. 2 * got[r][0] + 1 <= seen'[r][Ver] /\ snap[r] + 1 <= seen'[r][Ver]
      <4>1. got[r][0] \in Nat /\ 2 * got[r][0] + 1 <= seen[r][Ver] /\ snap[r] \in Nat
        BY <3>1
      <4> QED BY <3>2, <3>3, <4>1
    <3>7. got' = got /\ rpc' = rpc /\ snap' = snap /\ ri'[r] = c + 1
      BY <1>1, <1>3
    <3>8. CopyInv(r)'
      BY <3>3, <3>5, <3>6, <3>7 DEF CopyInv, Ver, Word
    <3> HIDE DEF CopyInv
    <3>9. got[r][0] \in Nat /\ snap[r] \in Nat /\ \A j \in Word : got[r][j] = got[r][0]
      BY <3>1
    <3> QED BY <1>0, <2>1, <3>9, <3>6, <3>7, <3>8 DEF Ver, Word
  <2>2. CASE s # r
    <3>1. seen'[s] = seen[s] /\ rpc'[s] = rpc[s] /\ snap'[s] = snap[s] /\ ri'[s] = ri[s] /\ out'[s] = out[s] /\ got' = got
      BY <1>1, <1>2, <1>3, <2>2
    <3> QED BY <3>1 DEF NodeInv, ReaderInv, CopyInv, Ver, Word
  <2> QED BY <2>1, <2>2
<1> QED BY <1>1, <1>2, <1>3, <1>4 DEF NodeInv

(* The same version a second time: its write's words, as those of a later  *)
(* one come with a later version.                                          *)
LEMMA Rechecks ==
  ASSUME NodeInv, NEW r \in Reader, Relaxed!Recheck(r)
  PROVE  /\ NodeInv'
         /\ \A s \in Reader : s # r => got'[s] = got[s]
         /\ \A j \in Word : got'[r][j] = got'[r][0] /\ got'[r][0] >= got[r][0]
<1>0. ri[r] = Size /\ rpc[r] = "copy"
  BY DEF Relaxed!Recheck
<1>1. PICK i \in Relaxed!Reach(r, Ver) :
        /\ seen' = [seen EXCEPT ![r] = Relaxed!LoadAcq(r, Ver, i)]
        /\ got' = IF Relaxed!Content(Ver, i) = snap[r] THEN [got EXCEPT ![r] = out[r]] ELSE got
        /\ rpc' = [rpc EXCEPT ![r] = "snap"]
        /\ cells' = cells /\ wpc' = wpc /\ number' = number /\ wi' = wi /\ snap' = snap /\ out' = out /\ ri' = ri
  BY <1>0 DEF Relaxed!Recheck, Relaxed!kvWriter, Ver
<1>n. Ver \in NodeLoc /\ 0 \in Word /\ Word \subseteq NodeLoc
  BY NodeNames
<1>2. /\ MessagesInv' /\ WriterInv' /\ SeenInv'
      /\ i \in Nat /\ i >= seen[r][Ver] /\ seen'[r][Ver] >= i /\ Relaxed!Content(Ver, i) = i - 1 /\ i >= 1
      /\ \A k \in NodeLoc : seen[r][k] \in Nat /\ seen'[r][k] \in Nat /\ seen'[r][k] >= seen[r][k]
      /\ \A j \in Word : 2 * seen[r][j] - 2 <= seen[r][Ver] /\ seen[r][Ver] <= 2 * seen[r][j]
      /\ \A s \in Reader : s # r => seen'[s] = seen[s]
  BY <1>1, <1>n, NodeLoads
<1>3. /\ got[r][0] \in Nat /\ 2 * got[r][0] + 1 <= seen[r][Ver] /\ \A j \in Word : got[r][j] = got[r][0]
      /\ snap[r] \in Nat /\ CopyInv(r)
  BY <1>0 DEF NodeInv, ReaderInv
<1>4. rpc'[r] = "snap" /\ (\A s \in Reader : s # r => rpc'[s] = rpc[s] /\ got'[s] = got[s]) /\ ReaderType'
  BY <1>1 DEF NodeInv, ReaderType, Word
<1>5. /\ \A j \in Word : got'[r][j] = got'[r][0]
      /\ got'[r][0] \in Nat /\ got'[r][0] >= got[r][0] /\ 2 * got'[r][0] + 1 <= seen'[r][Ver]
  <2>0. seen[r][Ver] \in Nat /\ seen'[r][Ver] \in Nat /\ seen'[r][Ver] >= seen[r][Ver]
    BY <1>2, <1>n
  <2>1. CASE i - 1 = snap[r]
    <3>1. got'[r] = out[r]
      BY <1>1, <1>2, <2>1 DEF NodeInv, ReaderType
    <3>2. PICK h \in Nat : snap[r] = 2 * h
      <4>1. snap[r] \in Nat /\ snap[r] % 2 = 0
        BY <1>3 DEF CopyInv
      <4>2. snap[r] % 2 # 1
        BY <4>1
      <4> QED BY <4>1, <4>2, Even
    <3>3. ASSUME NEW j \in Word PROVE out[r][j] = h
      <4>1. j < ri[r] /\ j \in NodeLoc
        BY <1>0, <1>n, NodeAssumption DEF Word, Relaxed!Word
      <4>2. out[r][j] \in Nat /\ snap[r] <= 2 * out[r][j] /\ out[r][j] + 1 <= seen[r][j]
        BY <1>3, <4>1 DEF CopyInv
      <4>3. seen[r][j] \in Nat /\ 2 * seen[r][j] - 2 <= seen[r][Ver]
        BY <1>2, <4>1
      <4>4. i \in Nat /\ seen[r][Ver] <= i /\ i - 1 = 2 * h /\ 2 * h <= 2 * out[r][j]
        BY <1>2, <2>0, <2>1, <3>2, <4>2
      <4> QED BY <2>0, <4>2, <4>3, <4>4, RecheckCounts
    <3>4. 2 * got[r][0] <= 2 * h /\ got[r][0] \in Nat /\ h \in Nat
      BY <1>3, <3>2 DEF CopyInv
    <3>5. got'[r][0] = h /\ \A j \in Word : got'[r][j] = got'[r][0]
      BY <1>n, <3>1, <3>3
    <3>6. i - 1 = 2 * h /\ i \in Nat /\ i <= seen'[r][Ver]
      BY <1>2, <2>1, <3>2
    <3>7. h >= got[r][0] /\ 2 * h + 1 <= seen'[r][Ver]
      BY <2>0, <3>4, <3>6
    <3> QED BY <3>5, <3>7
  <2>2. CASE i - 1 # snap[r]
    <3>1. got' = got
      BY <1>1, <1>2, <2>2
    <3>2. got[r][0] \in Nat /\ 2 * got[r][0] + 1 <= seen[r][Ver]
      BY <1>3
    <3>3. got[r][0] >= got[r][0] /\ 2 * got[r][0] + 1 <= seen'[r][Ver]
      BY <2>0, <3>2
    <3> QED BY <1>3, <3>1, <3>2, <3>3
  <2> QED BY <2>1, <2>2
<1>6. ReaderInv'
  <2> SUFFICES ASSUME NEW s \in Reader PROVE ReaderInv!(s)'
    BY DEF ReaderInv
  <2>1. CASE s = r
    <3>1. ri'[r] \in 0..Size /\ snap'[r] \in Nat
      BY <1>1 DEF NodeInv, ReaderInv
    <3> QED BY <1>4, <1>5, <2>1, <3>1 DEF Ver, Word
  <2>2. CASE s # r
    <3>1. seen'[s] = seen[s] /\ rpc'[s] = rpc[s] /\ snap'[s] = snap[s] /\ ri'[s] = ri[s] /\ out'[s] = out[s] /\ got'[s] = got[s]
      BY <1>1, <1>2, <1>4, <2>2
    <3> QED BY <3>1 DEF NodeInv, ReaderInv, CopyInv, Ver, Word
  <2> QED BY <2>1, <2>2
<1> QED BY <1>2, <1>4, <1>5, <1>6 DEF NodeInv

NodeVars == <<cells, seen, wpc, number, wi, rpc, snap, out, ri, got>>
ReadStep == \A r \in Reader, j \in Word : got'[r][j] = got'[r][0] /\ got'[r][0] >= got[r][0]

LEMMA NodeNext ==
  ASSUME NodeInv, [AtomicsNext]_<<program, vars, relaxedVars>>
  PROVE  NodeInv' /\ [ReadStep]_NodeVars
<1>1. ASSUME got' = got PROVE ReadStep
  <2> SUFFICES ASSUME NEW r \in Reader, NEW j \in Word PROVE got'[r][j] = got'[r][0] /\ got'[r][0] >= got[r][0]
    BY DEF ReadStep
  <2>1. got[r][0] \in Nat /\ got[r][j] = got[r][0]
    BY DEF NodeInv, ReaderInv
  <2> QED BY <1>1, <2>1
<1>2. CASE UNCHANGED NodeVars
  <2>1. /\ cells' = cells /\ seen' = seen /\ wpc' = wpc /\ number' = number /\ wi' = wi
        /\ rpc' = rpc /\ snap' = snap /\ out' = out /\ ri' = ri /\ got' = got
    BY <1>2 DEF NodeVars
  <2>2. MessagesInv' /\ SeenInv'
    BY <2>1 DEF NodeInv, MessagesInv, SeenInv
  <2>3. WriterInv' /\ ReaderType'
    BY <2>1 DEF NodeInv, WriterInv, ReaderType, Ver
  <2>4. ReaderInv'
    BY <2>1 DEF NodeInv, ReaderInv, CopyInv, Ver, Word
  <2> QED BY <1>2, <2>2, <2>3, <2>4 DEF NodeInv
<1>4. ASSUME NEW r \in Reader, Relaxed!TakeSnap(r) PROVE NodeInv' /\ ReadStep
  BY <1>1, <1>4, TakesSnap
<1>5. ASSUME NEW r \in Reader, Relaxed!CopyWord(r) PROVE NodeInv' /\ ReadStep
  BY <1>1, <1>5, CopiesWord
<1>6. ASSUME NEW r \in Reader, Relaxed!Recheck(r) PROVE NodeInv' /\ ReadStep
  <2>1. /\ NodeInv'
        /\ \A s \in Reader : s # r => got'[s] = got[s]
        /\ \A j \in Word : got'[r][j] = got'[r][0] /\ got'[r][0] >= got[r][0]
    BY <1>6, Rechecks
  <2>2. ASSUME NEW s \in Reader, NEW j \in Word PROVE got'[s][j] = got'[s][0] /\ got'[s][0] >= got[s][0]
    <3>1. CASE s = r
      BY <2>1, <3>1
    <3>2. CASE s # r
      <4>1. got[s][0] \in Nat /\ got[s][j] = got[s][0] /\ got'[s] = got[s]
        BY <2>1, <3>2 DEF NodeInv, ReaderInv
      <4> QED BY <4>1
    <3> QED BY <3>1, <3>2
  <2> QED BY <2>1, <2>2 DEF ReadStep
<1>7. ASSUME Relaxed!KvNext PROVE NodeInv' /\ ReadStep
  <2>1. CASE \E r \in Reader : Relaxed!TakeSnap(r) \/ Relaxed!CopyWord(r) \/ Relaxed!Recheck(r)
    <3>1. PICK r \in Reader : Relaxed!TakeSnap(r) \/ Relaxed!CopyWord(r) \/ Relaxed!Recheck(r)
      BY <2>1
    <3> QED BY <1>4, <1>5, <1>6, <3>1
  <2>2. CASE ~(\E r \in Reader : Relaxed!TakeSnap(r) \/ Relaxed!CopyWord(r) \/ Relaxed!Recheck(r))
    <3>1. Relaxed!StartWrite \/ Relaxed!StoreWord \/ Relaxed!MarkClean
      BY <1>7, <2>2 DEF Relaxed!KvNext
    <3>2. NodeInv'
      BY <3>1, WriterSteps
    <3>3. got' = got
      BY <3>1 DEF Relaxed!StartWrite, Relaxed!StoreWord, Relaxed!MarkClean, Relaxed!kvReader
    <3> QED BY <1>1, <3>2, <3>3
  <2> QED BY <2>1, <2>2
<1>8. Relaxed!KvNext \/ UNCHANGED NodeVars
  BY DEF AtomicsNext, Relaxed!RaNext, relaxedVars, NodeVars, Relaxed!kvVars, Relaxed!kvWriter, Relaxed!kvReader
<1> QED BY <1>2, <1>7, <1>8

THEOREM NodeInvariance == AtomicsSpec => []NodeInv
<1>1. AtomicsInit => NodeInv
  BY NodeInit DEF AtomicsInit, Relaxed!RaInit
<1>2. NodeInv /\ [AtomicsNext]_<<program, vars, relaxedVars>> => NodeInv'
  BY NodeNext
<1> QED BY <1>1, <1>2, PTL DEF AtomicsSpec

(* Whatever messages the memory lets the loads of a reader take, what read *)
(* returns are the words of one write, and of none before that of its last *)
(* return (the retry loop of read).                                        *)
THEOREM NodeReads == AtomicsSpec => ReadsAdvance
<1>1. NodeInv /\ [AtomicsNext]_<<program, vars, relaxedVars>>
        => [\A r \in Reader, j \in Relaxed!Word : got'[r][j] = got'[r][0] /\ got'[r][0] >= got[r][0]]_Relaxed!kvVars
  <2> SUFFICES ASSUME NodeInv, [AtomicsNext]_<<program, vars, relaxedVars>>
               PROVE  [\A r \in Reader, j \in Relaxed!Word : got'[r][j] = got'[r][0] /\ got'[r][0] >= got[r][0]]_Relaxed!kvVars
    OBVIOUS
  <2>1. [ReadStep]_NodeVars
    BY NodeNext
  <2> QED BY <2>1 DEF ReadStep, NodeVars, Word, Relaxed!kvVars, Relaxed!kvWriter, Relaxed!kvReader
<1>2. QED BY <1>1, NodeInvariance, PTL DEF AtomicsSpec, ReadsAdvance, Relaxed!ReadsAdvance

-----------------------------------------------------------------------------
(* The tables.                                                             *)
Entry == Relaxed!Entry
Threads == Relaxed!Threads
Main == Relaxed!Main
Holder == Threads \cup {Main}
TableLoc == Relaxed!TableLoc
KeyOf(e) == Relaxed!KeyOf(e)
ValueOf(e) == Relaxed!ValueOf(e)
Home(k) == Relaxed!Home(k)
Op(t) == Relaxed!Op(t)
CallOf(t, c) == Calls[t + 1][c]
CallsOf(t) == 1..Len(Calls[t + 1])
TableMessage == Message(TableLoc)

(* Entries in the order in which a search from home sees them.             *)
Distance(home, e) == IF e >= home THEN e - home ELSE e - home + ARRAY_SIZE
Before(home, e) == {d \in Entry : Distance(home, d) < Distance(home, e)}
NextEntry(e) == (e + 1) % ARRAY_SIZE

LEMMA EntryNames ==
  /\ Entry = 0..ARRAY_SIZE-1 /\ ARRAY_SIZE \in Nat \ {0}
  /\ \A e \in Entry : KeyOf(e) \in TableLoc /\ ValueOf(e) \in TableLoc
  /\ \A d, e \in Entry : KeyOf(d) # ValueOf(e) /\ (KeyOf(d) = KeyOf(e) => d = e) /\ (ValueOf(d) = ValueOf(e) => d = e)
BY TableAssumption
   DEF Entry, TableLoc, KeyOf, ValueOf, Relaxed!Entry, Relaxed!TableLoc, Relaxed!KeyOf, Relaxed!ValueOf

LEMMA ThreadNames ==
  /\ Threads = 0..NThreads-1 /\ Main = NThreads /\ NThreads \in Nat \ {0} /\ Main \notin Threads
  /\ Threads \subseteq Holder /\ Main \in Holder /\ 0 \in Threads
BY TableAssumption DEF Threads, Main, Holder, Relaxed!Threads, Relaxed!Main

LEMMA CallTypes ==
  ASSUME NEW t \in Threads
  PROVE  /\ Len(Calls[t + 1]) \in Nat /\ DOMAIN Calls[t + 1] = CallsOf(t)
         /\ \A c \in CallsOf(t) : /\ CallOf(t, c).kind \in {"set", "get", "add"}
                                  /\ CallOf(t, c).key \in Nat /\ CallOf(t, c).key # 0
<1>1. t + 1 \in 1..NThreads
  BY ThreadNames
<1>2. Calls[t + 1] \in Seq([kind : {"set", "get", "add"}, key : Nat \ {0}])
  BY <1>1, CallsAssumption
<1>3. Len(Calls[t + 1]) \in Nat /\ DOMAIN Calls[t + 1] = CallsOf(t)
  BY <1>2, LenProperties DEF CallsOf
<1>4. \A c \in CallsOf(t) : Calls[t + 1][c] \in [kind : {"set", "get", "add"}, key : Nat \ {0}]
  BY <1>2, ElementOfSeq DEF CallsOf
<1> QED BY <1>3, <1>4 DEF CallOf

LEMMA ModType == ASSUME NEW a \in Int, NEW n \in Nat \ {0} PROVE a % n \in 0..n-1
OBVIOUS

LEMMA HomeType == ASSUME NEW k \in Nat PROVE Home(k) \in Entry
<1>1. k % ARRAY_SIZE \in Int /\ 654435761 % ARRAY_SIZE \in Int
  BY ModType, TableAssumption
<1> DEFINE p == (k % ARRAY_SIZE) * (654435761 % ARRAY_SIZE)
<1>2. p \in Int
  BY <1>1
<1>3. p % ARRAY_SIZE \in 0..ARRAY_SIZE-1
  BY <1>2, ModType, TableAssumption
<1> QED BY <1>3 DEF Home, Relaxed!Home, Entry, Relaxed!Entry

LEMMA DistanceOrder ==
  ASSUME NEW h \in Entry, NEW d \in Entry, NEW e \in Entry
  PROVE  d = e \/ d \in Before(h, e) \/ e \in Before(h, d)
BY EntryNames DEF Distance, Before

LEMMA NotBeforeItself ==
  ASSUME NEW h \in Entry, NEW e \in Entry
  PROVE  e \notin Before(h, e) /\ Before(h, h) = {}
BY EntryNames DEF Distance, Before

LEMMA NextEntryIs == ASSUME NEW e \in Entry PROVE NextEntry(e) \in Entry /\ NextEntry(e) = IF e + 1 = ARRAY_SIZE THEN 0 ELSE e + 1
BY EntryNames DEF NextEntry

LEMMA BeforeNext ==
  ASSUME NEW h \in Entry, NEW e \in Entry, NEW d \in Before(h, NextEntry(e))
  PROVE  d \in Entry /\ (d = e \/ d \in Before(h, e))
<1> DEFINE n == NextEntry(e)
<1>1. n \in Entry /\ n = (IF e + 1 = ARRAY_SIZE THEN 0 ELSE e + 1)
  BY NextEntryIs
<1> HIDE DEF n
<1>2. d \in Entry /\ Distance(h, d) < Distance(h, n)
  BY DEF Before, n
<1>3. d = e \/ Distance(h, d) < Distance(h, e)
  BY <1>1, <1>2, EntryNames DEF Distance
<1> QED BY <1>2, <1>3 DEF Before

(* The key of an entry, 0 if it is free; whether a view has seen it, or a  *)
(* value.                                                                  *)
KeyAt(m, e) == IF Len(m[KeyOf(e)]) = 1 THEN 0 ELSE m[KeyOf(e)][2].val
Sees(v, l) == v[l] >= 2

(* A view that has seen the key of an entry has seen those of all entries  *)
(* that a search for it passes.                                            *)
GoodView(m, v) ==
  /\ v \in [TableLoc -> Nat] /\ \A l \in TableLoc : 1 <= v[l] /\ v[l] <= Len(m[l])
  /\ \A e \in Entry : Sees(v, KeyOf(e)) => \A d \in Before(Home(KeyAt(m, e)), e) : Sees(v, KeyOf(d))

AddKey(k) == \E t \in Threads : \E c \in CallsOf(t) : CallOf(t, c).kind = "add" /\ CallOf(t, c).key = k

KeyMessages(m, e) ==
  LET s == m[KeyOf(e)] IN
  /\ Len(s) \in {1, 2} /\ s[1].val = 0
  /\ Len(s) = 2 => s[2].val \in Nat \ {0} /\ s[2].cas /\ Sees(s[2].view, KeyOf(e))

(* The value of a free entry has not been stored; with release/acquire     *)
(* that of a key that is only added is stored once.                        *)
ValueMessages(m, f, e) ==
  LET s == m[ValueOf(e)] IN
  /\ Len(s) \in Nat \ {0} /\ s[1].val = 0
  /\ \A i \in 1..Len(s) : i # 1 => s[i].val = 1 /\ Sees(s[i].view, ValueOf(e))
  /\ KeyAt(m, e) = 0 => Len(s) = 1
  /\ AddKey(KeyAt(m, e)) /\ f = "hashtable_atomic_ra" => Len(s) \in {1, 2} /\ (Len(s) = 2 => s[2].cas)

MessageViews(m) == \A l \in TableLoc : \A i \in 1..Len(m[l]) : GoodView(m, m[l][i].view)
MemGood(m, f) ==
  /\ m \in [TableLoc -> Seq(TableMessage)] /\ MessageViews(m)
  /\ \A e \in Entry : KeyMessages(m, e) /\ ValueMessages(m, f, e)
MemInv == MemGood(mem, file)

ViewInv ==
  /\ DOMAIN view = Holder /\ \A a \in Holder : GoodView(mem, view[a])
  /\ joinLock \in [Threads -> [held : BOOLEAN, view : [TableLoc -> Nat]]] /\ \A t \in Threads : GoodView(mem, joinLock[t].view)

(* What a step of thread t may do to the memory and to what is seen of it. *)
Grows(t) ==
  /\ \A a \in Holder : \A l \in TableLoc : Sees(view[a], l) => Sees(view'[a], l)
  /\ \A a \in Holder : a # t => \A l \in TableLoc : Sees(view'[a], l) => Sees(view[a], l)
  /\ \A s \in Threads : /\ joinLock'[s].held = joinLock[s].held
                        /\ \A l \in TableLoc : Sees(joinLock'[s].view, l) <=> Sees(joinLock[s].view, l)
  /\ \A e \in Entry : KeyAt(mem, e) # 0 => KeyAt(mem', e) = KeyAt(mem, e)
KeysSame == \A e \in Entry : KeyAt(mem', e) = KeyAt(mem, e)
ValuesSame == \A e \in Entry : Len(mem'[ValueOf(e)]) = Len(mem[ValueOf(e)])

LEMMA KeyAtIs ==
  ASSUME NEW m, NEW f, MemGood(m, f), NEW e \in Entry
  PROVE  /\ KeyAt(m, e) \in Nat /\ Len(m[KeyOf(e)]) \in {1, 2} /\ m[KeyOf(e)][1].val = 0
         /\ KeyAt(m, e) = 0 <=> Len(m[KeyOf(e)]) = 1
         /\ Len(m[KeyOf(e)]) = 2 => /\ KeyAt(m, e) = m[KeyOf(e)][2].val /\ m[KeyOf(e)][2].cas
                                    /\ Sees(m[KeyOf(e)][2].view, KeyOf(e))
<1>1. KeyMessages(m, e)
  BY DEF MemGood
<1>2. CASE Len(m[KeyOf(e)]) = 1
  BY <1>1, <1>2 DEF KeyMessages, KeyAt
<1>3. CASE Len(m[KeyOf(e)]) = 2
  BY <1>1, <1>3 DEF KeyMessages, KeyAt
<1> QED BY <1>1, <1>2, <1>3 DEF KeyMessages

(* An entry whose key has been seen is not free.                           *)
LEMMA SeenKey ==
  ASSUME NEW m, NEW f, MemGood(m, f), NEW e \in Entry, NEW v, GoodView(m, v), Sees(v, KeyOf(e))
  PROVE  KeyAt(m, e) # 0 /\ Len(m[KeyOf(e)]) = 2 /\ v[KeyOf(e)] = 2
<1>1. KeyOf(e) \in TableLoc
  BY EntryNames
<1>2. PICK n, j : n = Len(m[KeyOf(e)]) /\ j = v[KeyOf(e)]
  OBVIOUS
<1>3. j \in Nat /\ j >= 2 /\ j <= n
  BY <1>1, <1>2 DEF GoodView, Sees
<1>4. n \in {1, 2} /\ (KeyAt(m, e) = 0 <=> n = 1)
  BY <1>2, KeyAtIs
<1>5. n = 2 /\ j = 2
  BY <1>3, <1>4
<1> QED BY <1>2, <1>4, <1>5

LEMMA Lengths ==
  ASSUME NEW m, NEW f, MemGood(m, f)
  PROVE  \A l \in TableLoc : m[l] \in Seq(TableMessage) /\ Len(m[l]) \in Nat
BY LenProperties DEF MemGood

LEMMA GoodJoined ==
  ASSUME NEW m, NEW f, MemGood(m, f), NEW v, NEW w, GoodView(m, v), GoodView(m, w)
  PROVE  /\ GoodView(m, Relaxed!Joined(v, w))
         /\ \A l \in TableLoc : Sees(Relaxed!Joined(v, w), l) <=> Sees(v, l) \/ Sees(w, l)
         /\ \A l \in TableLoc : Relaxed!Joined(v, w)[l] >= v[l]
<1> DEFINE u == Relaxed!Joined(v, w)
<1>1. v \in [TableLoc -> Nat] /\ w \in [TableLoc -> Nat]
  BY DEF GoodView
<1>2. u \in [TableLoc -> Nat] /\ \A l \in TableLoc : u[l] = IF v[l] < w[l] THEN w[l] ELSE v[l]
  BY <1>1, JoinedIs
<1> HIDE DEF u
<1>3. \A l \in TableLoc : (Sees(u, l) <=> Sees(v, l) \/ Sees(w, l)) /\ u[l] >= v[l]
  BY <1>1, <1>2 DEF Sees
<1>4. \A l \in TableLoc : 1 <= u[l] /\ u[l] <= Len(m[l])
  BY <1>2 DEF GoodView
<1>5. ASSUME NEW e \in Entry, Sees(u, KeyOf(e)), NEW d \in Before(Home(KeyAt(m, e)), e) PROVE Sees(u, KeyOf(d))
  <2>1. d \in Entry /\ KeyOf(e) \in TableLoc /\ KeyOf(d) \in TableLoc
    BY EntryNames DEF Before
  <2>2. Sees(v, KeyOf(d)) \/ Sees(w, KeyOf(d))
    BY <1>3, <1>5, <2>1 DEF GoodView
  <2> QED BY <1>3, <2>1, <2>2
<1>6. GoodView(m, u)
  BY <1>2, <1>4, <1>5 DEF GoodView
<1> QED BY <1>3, <1>6 DEF u

(* The memory n is m with one more message at l; keys stay.                *)
Longer(n, m, l) ==
  /\ \A k \in TableLoc : Len(n[k]) = IF k = l THEN Len(m[k]) + 1 ELSE Len(m[k])
  /\ \A e \in Entry : KeyAt(m, e) # 0 => KeyAt(n, e) = KeyAt(m, e)

(* A view that is moved on still sees the same.                            *)
LEMMA MovedGood ==
  ASSUME NEW m, NEW f, MemGood(m, f), NEW n, NEW w, GoodView(m, w), NEW l \in TableLoc, NEW p \in Nat, p >= 2,
         Longer(n, m, l)
  PROVE  /\ GoodView(n, Relaxed!Moved(w, l, p))
         /\ \A k \in TableLoc : Sees(Relaxed!Moved(w, l, p), k) <=> Sees(w, k)
<1> DEFINE u == Relaxed!Moved(w, l, p)
<1>1. w \in [TableLoc -> Nat] /\ \A k \in TableLoc : 1 <= w[k] /\ w[k] <= Len(m[k])
  BY DEF GoodView
<1>2. u \in [TableLoc -> Nat] /\ \A k \in TableLoc : u[k] = IF k = l /\ w[k] >= p THEN w[k] + 1 ELSE w[k]
  BY <1>1 DEF Relaxed!Moved
<1> HIDE DEF u
<1>3. ASSUME NEW k \in TableLoc PROVE (Sees(u, k) <=> Sees(w, k)) /\ 1 <= u[k] /\ u[k] <= Len(n[k])
  <2>1. PICK i, j, a, b : i = w[k] /\ j = u[k] /\ a = Len(m[k]) /\ b = Len(n[k])
    OBVIOUS
  <2>2. i \in Nat /\ 1 <= i /\ i <= a /\ a \in Nat
    BY <1>1, <2>1, Lengths
  <2>3. j = (IF k = l /\ i >= p THEN i + 1 ELSE i) /\ b = (IF k = l THEN a + 1 ELSE a)
    BY <1>2, <2>1 DEF Longer
  <2>4. (j >= 2 <=> i >= 2) /\ 1 <= j /\ j <= b
    BY <2>2, <2>3
  <2> QED BY <2>1, <2>4 DEF Sees
<1>4. ASSUME NEW e \in Entry, Sees(u, KeyOf(e)), NEW d \in Before(Home(KeyAt(n, e)), e) PROVE Sees(u, KeyOf(d))
  <2>1. KeyOf(e) \in TableLoc /\ Sees(w, KeyOf(e))
    BY <1>3, <1>4, EntryNames
  <2>2. KeyAt(n, e) = KeyAt(m, e)
    BY <2>1, SeenKey DEF Longer
  <2>3. d \in Before(Home(KeyAt(m, e)), e) /\ d \in Entry /\ KeyOf(d) \in TableLoc
    BY <2>2, EntryNames DEF Before
  <2>4. Sees(w, KeyOf(d))
    BY <2>1, <2>3 DEF GoodView
  <2> QED BY <1>3, <2>3, <2>4
<1>5. GoodView(n, u)
  BY <1>2, <1>3, <1>4 DEF GoodView
<1> QED BY <1>3, <1>5 DEF u

(* If l is the key of an entry, v has seen the path to it.                 *)
PathSeen(n, v, l) == \A e \in Entry : l = KeyOf(e) => \A d \in Before(Home(KeyAt(n, e)), e) : Sees(v, KeyOf(d))

Put(v, l, p) == [v EXCEPT ![l] = p]

StoresAt(n, m, f, v, l, p) ==
  /\ MemGood(m, f) /\ GoodView(m, v) /\ l \in TableLoc /\ p \in Nat /\ p >= 2 /\ p <= Len(m[l]) + 1
  /\ Longer(n, m, l) /\ PathSeen(n, v, l)

(* The view of the message itself; if it is that of a key, the path to its *)
(* entry has been seen.                                                    *)
LEMMA NewGood ==
  ASSUME NEW m, NEW f, NEW n, NEW v, NEW l, NEW p, StoresAt(n, m, f, v, l, p)
  PROVE  /\ GoodView(n, Put(v, l, p))
         /\ \A k \in TableLoc : Sees(Put(v, l, p), k) <=> k = l \/ Sees(v, k)
<1> DEFINE u == Put(v, l, p)
<1> USE DEF StoresAt
<1>1. v \in [TableLoc -> Nat] /\ \A k \in TableLoc : 1 <= v[k] /\ v[k] <= Len(m[k])
  BY DEF GoodView
<1>2. u \in [TableLoc -> Nat] /\ \A k \in TableLoc : u[k] = IF k = l THEN p ELSE v[k]
  BY <1>1 DEF Put
<1> HIDE DEF u
<1>3. ASSUME NEW k \in TableLoc PROVE (Sees(u, k) <=> k = l \/ Sees(v, k)) /\ 1 <= u[k] /\ u[k] <= Len(n[k])
  <2>1. PICK i, j, a, b : i = v[k] /\ j = u[k] /\ a = Len(m[k]) /\ b = Len(n[k])
    OBVIOUS
  <2>2. i \in Nat /\ 1 <= i /\ i <= a /\ a \in Nat
    BY <1>1, <2>1, Lengths
  <2>3. j = (IF k = l THEN p ELSE i) /\ b = (IF k = l THEN a + 1 ELSE a) /\ (k = l => p <= a + 1)
    BY <1>2, <2>1 DEF Longer
  <2>4. (j >= 2 <=> k = l \/ i >= 2) /\ 1 <= j /\ j <= b
    BY <2>2, <2>3
  <2> QED BY <2>1, <2>4 DEF Sees
<1>4. ASSUME NEW e \in Entry, Sees(u, KeyOf(e)), NEW d \in Before(Home(KeyAt(n, e)), e) PROVE Sees(u, KeyOf(d))
  <2>1. KeyOf(e) \in TableLoc /\ d \in Entry /\ KeyOf(d) \in TableLoc
    BY EntryNames DEF Before
  <2>2. CASE l = KeyOf(e)
    BY <1>3, <2>1, <2>2 DEF PathSeen
  <2>3. CASE l # KeyOf(e)
    <3>1. Sees(v, KeyOf(e))
      BY <1>3, <1>4, <2>1, <2>3
    <3>2. KeyAt(n, e) = KeyAt(m, e)
      BY <3>1, SeenKey DEF Longer
    <3>3. Sees(v, KeyOf(d))
      BY <3>1, <3>2 DEF GoodView
    <3> QED BY <1>3, <2>1, <3>3
  <2> QED BY <2>2, <2>3
<1>5. GoodView(n, u)
  BY <1>2, <1>3, <1>4 DEF GoodView
<1> QED BY <1>3, <1>5 DEF u

LEMMA Chosen ==
  ASSUME MemInv, ViewInv, NEW a \in Holder, NEW l \in TableLoc, NEW i \in Relaxed!Choice(a, l)
  PROVE  i \in Nat /\ 1 <= i /\ view[a][l] \in Nat /\ view[a][l] <= i /\ i <= Len(mem[l]) /\ i \in 1..Len(mem[l])
<1>1. PICK j, n : j = view[a][l] /\ n = Len(mem[l])
  OBVIOUS
<1>2. j \in Nat /\ 1 <= j /\ j <= n /\ n \in Nat
  BY <1>1, Lengths DEF ViewInv, GoodView, MemInv
<1>3. i = n \/ i \in j..n
  BY <1>1 DEF Relaxed!Choice, Relaxed!Readable
<1> QED BY <1>1, <1>2, <1>3

(* A load changes what its thread has seen, and nothing else.              *)
LEMMA Loads ==
  ASSUME MemInv, ViewInv, NEW t \in Threads, NEW l \in TableLoc, NEW i \in Relaxed!Choice(t, l),
         Relaxed!Loaded(t, l, i), UNCHANGED <<mem, joinLock, file>>
  PROVE  /\ MemInv' /\ ViewInv' /\ Grows(t) /\ KeysSame /\ ValuesSame
         /\ Sees(view[t], l) => i # 1
         /\ Sees(mem[l][i].view, l) => Sees(view'[t], l)
<1> DEFINE w == mem[l][i].view
           u == Relaxed!Joined(view[t], w)
<1>0. t \in Holder
  BY ThreadNames
<1>1. GoodView(mem, view[t]) /\ GoodView(mem, w) /\ MemGood(mem, file)
  BY <1>0, Chosen DEF ViewInv, MemInv, MemGood, MessageViews
<1>2. GoodView(mem, u) /\ \A k \in TableLoc : Sees(u, k) <=> Sees(view[t], k) \/ Sees(w, k)
  BY <1>1, GoodJoined
<1>3. view' = [view EXCEPT ![t] = u]
  BY DEF Relaxed!Loaded, Relaxed!Acquired
<1> HIDE DEF u, w
<1>4. view'[t] = u /\ DOMAIN view' = Holder /\ \A a \in Holder : a # t => view'[a] = view[a]
  BY <1>0, <1>3 DEF ViewInv
<1>5. MemInv'
  BY DEF MemInv
<1>6. ViewInv'
  <2>1. ASSUME NEW a \in Holder PROVE GoodView(mem', view'[a])
    BY <1>2, <1>4 DEF ViewInv
  <2> QED BY <1>4, <2>1 DEF ViewInv
<1>7. Grows(t) /\ KeysSame /\ ValuesSame
  BY <1>2, <1>4 DEF Grows, KeysSame, ValuesSame
<1>8. Sees(view[t], l) => i # 1
  BY <1>0, Chosen DEF Sees
<1> QED BY <1>2, <1>4, <1>5, <1>6, <1>7, <1>8 DEF w

LEMMA LoadsKey ==
  ASSUME MemInv, ViewInv, NEW t \in Threads, NEW e \in Entry, NEW i \in Relaxed!Choice(t, KeyOf(e)),
         Relaxed!Loaded(t, KeyOf(e), i), UNCHANGED <<mem, joinLock, file>>
  PROVE  /\ Relaxed!ValueAt(KeyOf(e), i) = 0 => ~Sees(view[t], KeyOf(e)) /\ i = 1
         /\ Relaxed!ValueAt(KeyOf(e), i) # 0 => Relaxed!ValueAt(KeyOf(e), i) = KeyAt(mem, e) /\ Sees(view'[t], KeyOf(e))
<1>1. KeyOf(e) \in TableLoc /\ t \in Holder /\ MemGood(mem, file)
  BY EntryNames, ThreadNames DEF MemInv
<1>2. i \in 1..Len(mem[KeyOf(e)])
  BY <1>1, Chosen
<1>3. /\ KeyAt(mem, e) \in Nat /\ Len(mem[KeyOf(e)]) \in {1, 2} /\ mem[KeyOf(e)][1].val = 0
      /\ Len(mem[KeyOf(e)]) = 1 => KeyAt(mem, e) = 0
      /\ Len(mem[KeyOf(e)]) = 2 => KeyAt(mem, e) = mem[KeyOf(e)][2].val /\ Sees(mem[KeyOf(e)][2].view, KeyOf(e)) /\ KeyAt(mem, e) # 0
  BY <1>1, KeyAtIs
<1>4. i = 1 \/ (i = 2 /\ Len(mem[KeyOf(e)]) = 2)
  <2>1. PICK n : n = Len(mem[KeyOf(e)])
    OBVIOUS
  <2>2. i \in 1..n /\ n \in {1, 2}
    BY <1>2, <1>3, <2>1
  <2>3. i = 1 \/ (i = 2 /\ n = 2)
    BY <2>2
  <2> QED BY <2>1, <2>3
<1>5. (Sees(view[t], KeyOf(e)) => i # 1) /\ (Sees(mem[KeyOf(e)][i].view, KeyOf(e)) => Sees(view'[t], KeyOf(e)))
  BY <1>1, Loads
<1> QED BY <1>3, <1>4, <1>5 DEF Relaxed!ValueAt

LEMMA LoadsValue ==
  ASSUME MemInv, ViewInv, NEW t \in Threads, NEW e \in Entry, NEW i \in Relaxed!Choice(t, ValueOf(e)),
         Relaxed!Loaded(t, ValueOf(e), i), UNCHANGED <<mem, joinLock, file>>
  PROVE  /\ Relaxed!ValueAt(ValueOf(e), i) \in {0, 1}
         /\ Relaxed!ValueAt(ValueOf(e), i) = 0 => ~Sees(view[t], ValueOf(e)) /\ i = 1
         /\ Relaxed!ValueAt(ValueOf(e), i) # 0 => Sees(view'[t], ValueOf(e))
<1>1. ValueOf(e) \in TableLoc /\ t \in Holder /\ ValueMessages(mem, file, e)
  BY EntryNames, ThreadNames DEF MemInv, MemGood
<1>2. i \in 1..Len(mem[ValueOf(e)])
  BY <1>1, Chosen
<1>3. /\ mem[ValueOf(e)][1].val = 0
      /\ i # 1 => mem[ValueOf(e)][i].val = 1 /\ Sees(mem[ValueOf(e)][i].view, ValueOf(e))
  BY <1>1, <1>2 DEF ValueMessages
<1>4. (Sees(view[t], ValueOf(e)) => i # 1) /\ (Sees(mem[ValueOf(e)][i].view, ValueOf(e)) => Sees(view'[t], ValueOf(e)))
  BY <1>1, Loads
<1> QED BY <1>3, <1>4 DEF Relaxed!ValueAt

NewMessage(v, l, p, d, cas) == [val |-> d, view |-> [v EXCEPT ![l] = p], cas |-> cas]

Rearranging(n, m, l, p, new) ==
  /\ n \in [TableLoc -> Seq(TableMessage)]
  /\ \A k \in TableLoc : Len(n[k]) = IF k = l THEN Len(m[k]) + 1 ELSE Len(m[k])
  /\ n[l][p] = new
  /\ \A k \in TableLoc : k # l => \A i \in 1..Len(m[k]) : IsMoved(n[k][i], m[k][i], l, p)
  /\ \A i \in 1..Len(m[l]) : i < p => IsMoved(n[l][i], m[l][i], l, p)
  /\ \A i \in 1..Len(m[l]) : i >= p => IsMoved(n[l][i + 1], m[l][i], l, p)

LEMMA Rearranged ==
  ASSUME NEW m, NEW f, MemGood(m, f), NEW n, NEW new, NEW l \in TableLoc, NEW p \in Nat, p >= 1, p <= Len(m[l]) + 1,
         Storing(TableLoc, n, m, l, p, new)
  PROVE  Rearranging(n, m, l, p, new)
<1>1. \A k \in TableLoc : m[k] \in Seq(TableMessage) /\ Len(m[k]) \in Nat
  BY Lengths
<1>2. ASSUME NEW k \in TableLoc, NEW i \in 1..Len(m[k]) PROVE IsMoved(Shifted(m[k][i], l, p), m[k][i], l, p)
  <2>1. m[k][i] \in Message(TableLoc)
    BY <1>1, ElementOfSeq DEF TableMessage
  <2>2. PICK q \in Message(TableLoc) : q = m[k][i]
    BY <2>1
  <2>3. IsMoved(Shifted(q, l, p), q, l, p)
    BY ShiftedIs
  <2> QED BY <2>2, <2>3
<1> HIDE DEF IsMoved
<1>3. ASSUME NEW i \in 1..Len(m[l]), i >= p PROVE IsMoved(n[l][i + 1], m[l][i], l, p)
  <2>1. i + 1 \in 1..Len(m[l]) + 1 /\ i + 1 > p /\ (i + 1) - 1 = i
    BY <1>1, <1>3
  <2>2. n[l][i + 1] = Shifted(m[l][i], l, p)
    BY <2>1 DEF Storing
  <2> QED BY <1>2, <2>2
<1>4. ASSUME NEW i \in 1..Len(m[l]), i < p PROVE IsMoved(n[l][i], m[l][i], l, p)
  <2>1. i \in 1..Len(m[l]) + 1
    BY <1>1
  <2>2. n[l][i] = Shifted(m[l][i], l, p)
    BY <1>4, <2>1 DEF Storing
  <2> QED BY <1>2, <2>2
<1>5. ASSUME NEW k \in TableLoc, k # l, NEW i \in 1..Len(m[k]) PROVE IsMoved(n[k][i], m[k][i], l, p)
  BY <1>2, <1>5 DEF Storing
<1> QED BY <1>3, <1>4, <1>5 DEF Rearranging, Storing, TableMessage

LEMMA WrittenIs ==
  ASSUME MemInv, NEW t \in Threads, NEW l \in TableLoc, NEW v \in [TableLoc -> Nat], NEW p \in Nat, p >= 1, p <= Len(mem[l]) + 1,
         NEW d \in Int, NEW cas \in BOOLEAN, Relaxed!Written(t, v, l, p, d, cas)
  PROVE  Rearranging(mem', mem, l, p, NewMessage(v, l, p, d, cas))
<1>1. mem \in [TableLoc -> Seq(Message(TableLoc))] /\ Len(mem[l]) \in Nat
  BY Lengths DEF MemInv, MemGood, TableMessage
<1>2. p \in 1..Len(mem[l]) + 1
  BY <1>1
<1>3. mem' = Relaxed!Stored(mem, v, l, p, d, cas)
  BY DEF Relaxed!Written
<1>4. PICK new : new = NewMessage(v, l, p, d, cas)
  OBVIOUS
<1>5. Storing(TableLoc, mem', mem, l, p, new)
  BY <1>1, <1>2, <1>3, <1>4, StoredIs DEF NewMessage
<1>6. MemGood(mem, file)
  BY DEF MemInv
<1>7. Rearranging(mem', mem, l, p, new)
  BY <1>5, <1>6, Rearranged
<1> QED BY <1>4, <1>7

SeenAlike(m, l, p) ==
  \A k \in TableLoc : \A i \in 1..Len(m[k]) :
    \A q : IsMoved(q, m[k][i], l, p) => \A j \in TableLoc : Sees(q.view, j) <=> Sees(m[k][i].view, j)

StoreStep(t, l, v, p, d, cas) ==
  /\ t \in Threads /\ l \in TableLoc /\ GoodView(mem, v) /\ \A k \in TableLoc : Sees(view[t], k) => Sees(v, k)
  /\ p \in Nat /\ p >= 2 /\ p <= Len(mem[l]) + 1 /\ d \in Int /\ cas \in BOOLEAN
  /\ Relaxed!Written(t, v, l, p, d, cas) /\ PathSeen(mem', v, l)
  /\ \A e \in Entry : KeyAt(mem, e) # 0 => KeyAt(mem', e) = KeyAt(mem, e)

(* What a store does to what is seen, when no key changes.                 *)
LEMMA Stores ==
  ASSUME MemInv, ViewInv, NEW t, NEW l, NEW v, NEW p, NEW d, NEW cas, StoreStep(t, l, v, p, d, cas)
  PROVE  /\ MessageViews(mem') /\ ViewInv' /\ Grows(t) /\ Sees(view'[t], l)
         /\ SeenAlike(mem, l, p)
         /\ Sees(NewMessage(v, l, p, d, cas).view, l)
<1> DEFINE u == Put(v, l, p)
           new == NewMessage(v, l, p, d, cas)
<1> USE DEF StoreStep
<1>0. t \in Holder /\ Main \in Holder /\ Main # t /\ Threads \subseteq Holder /\ MemGood(mem, file)
  BY ThreadNames DEF MemInv
<1>1. v \in [TableLoc -> Nat] /\ p >= 1 /\ new.view = u
  BY DEF GoodView, NewMessage, Put
<1>2. Rearranging(mem', mem, l, p, new)
  BY <1>1, WrittenIs
<1>n. Longer(mem', mem, l)
  BY <1>2 DEF Longer, Rearranging
<1>3. ASSUME NEW w, GoodView(mem, w)
      PROVE  GoodView(mem', Relaxed!Moved(w, l, p)) /\ \A k \in TableLoc : Sees(Relaxed!Moved(w, l, p), k) <=> Sees(w, k)
  BY <1>0, <1>n, <1>3, MovedGood
<1>4. GoodView(mem', u) /\ \A k \in TableLoc : Sees(u, k) <=> k = l \/ Sees(v, k)
  <2>1. StoresAt(mem', mem, file, v, l, p)
    BY <1>0, <1>n DEF StoresAt
  <2> QED BY <2>1, NewGood
<1>5. /\ DOMAIN view' = Holder /\ view'[t] = u /\ \A a \in Holder : a # t => view'[a] = Relaxed!Moved(view[a], l, p)
      /\ \A s \in Threads : joinLock'[s] = [joinLock[s] EXCEPT !.view = Relaxed!Moved(joinLock[s].view, l, p)]
      /\ DOMAIN joinLock' = Threads /\ joinLock' = [s \in Threads |-> joinLock'[s]]
  BY <1>0 DEF Relaxed!Written, ViewInv, Threads, Put
<1> HIDE DEF u, new
<1>6. ASSUME NEW s \in Threads
      PROVE  /\ joinLock'[s] \in [held : BOOLEAN, view : [TableLoc -> Nat]] /\ joinLock'[s].held = joinLock[s].held
             /\ joinLock'[s].view = Relaxed!Moved(joinLock[s].view, l, p)
  <2>1. joinLock[s] \in [held : BOOLEAN, view : [TableLoc -> Nat]] /\ GoodView(mem, joinLock[s].view)
    BY DEF ViewInv
  <2>2. Relaxed!Moved(joinLock[s].view, l, p) \in [TableLoc -> Nat]
    BY <1>3, <2>1 DEF GoodView
  <2> QED BY <1>5, <2>1, <2>2
<1>7. ViewInv'
  <2>1. ASSUME NEW a \in Holder PROVE GoodView(mem', view'[a])
    <3>1. CASE a = t
      BY <1>4, <1>5, <3>1
    <3>2. CASE a # t
      <4>1. GoodView(mem, view[a])
        BY DEF ViewInv
      <4>2. GoodView(mem', Relaxed!Moved(view[a], l, p))
        BY <1>3, <4>1
      <4> QED BY <1>5, <3>2, <4>2
    <3> QED BY <3>1, <3>2
  <2>2. ASSUME NEW s \in Threads PROVE GoodView(mem', joinLock'[s].view)
    <3>1. GoodView(mem, joinLock[s].view)
      BY DEF ViewInv
    <3>2. GoodView(mem', Relaxed!Moved(joinLock[s].view, l, p))
      BY <1>3, <3>1
    <3> QED BY <1>6, <3>2
  <2>3. joinLock' \in [Threads -> [held : BOOLEAN, view : [TableLoc -> Nat]]]
    BY <1>5, <1>6
  <2> QED BY <1>5, <2>1, <2>2, <2>3 DEF ViewInv
<1>8. MessageViews(mem')
  <2> SUFFICES ASSUME NEW k \in TableLoc, NEW j \in 1..Len(mem'[k]) PROVE GoodView(mem', mem'[k][j].view)
    BY DEF MessageViews
  <2>1. \A i \in 1..Len(mem[k]) : GoodView(mem, mem[k][i].view)
    BY <1>0 DEF MemGood, MessageViews
  <2>2. ASSUME NEW i \in 1..Len(mem[k]), IsMoved(mem'[k][j], mem[k][i], l, p) PROVE GoodView(mem', mem'[k][j].view)
    BY <1>3, <2>1, <2>2 DEF IsMoved
  <2>3. CASE k # l
    BY <1>2, <2>2, <2>3 DEF Rearranging
  <2>4. CASE k = l
    <3>1. Len(mem[l]) \in Nat /\ j \in 1..Len(mem[l]) + 1
      BY <1>0, <1>2, <2>4, Lengths DEF Rearranging
    <3>2. CASE j < p
      <4>1. j \in 1..Len(mem[l])
        BY <3>1, <3>2
      <4> QED BY <1>2, <2>2, <2>4, <3>2, <4>1 DEF Rearranging
    <3>3. CASE j = p
      BY <1>1, <1>2, <1>4, <2>4, <3>3 DEF Rearranging
    <3>4. CASE j > p
      <4>1. PICK i \in 1..Len(mem[l]) : i >= p /\ j = i + 1
        <5>1. j - 1 \in 1..Len(mem[l]) /\ j - 1 >= p /\ j = (j - 1) + 1
          BY <3>1, <3>4
        <5> QED BY <5>1
      <4> QED BY <1>2, <2>2, <2>4, <4>1 DEF Rearranging
    <3> QED BY <3>1, <3>2, <3>3, <3>4
  <2> QED BY <2>3, <2>4
<1>9. Grows(t)
  <2>1. ASSUME NEW a \in Holder, a # t, NEW k \in TableLoc PROVE Sees(view'[a], k) <=> Sees(view[a], k)
    <3>1. GoodView(mem, view[a])
      BY DEF ViewInv
    <3> QED BY <1>3, <1>5, <2>1, <3>1
  <2>2. ASSUME NEW s \in Threads, NEW k \in TableLoc PROVE Sees(joinLock'[s].view, k) <=> Sees(joinLock[s].view, k)
    <3>1. GoodView(mem, joinLock[s].view)
      BY DEF ViewInv
    <3> QED BY <1>3, <1>6, <3>1
  <2>3. \A k \in TableLoc : Sees(view[t], k) => Sees(view'[t], k)
    BY <1>4, <1>5
  <2> QED BY <1>6, <2>1, <2>2, <2>3 DEF Grows
<1>10. ASSUME NEW k \in TableLoc, NEW i \in 1..Len(mem[k]), NEW q, IsMoved(q, mem[k][i], l, p), NEW j \in TableLoc
       PROVE  Sees(q.view, j) <=> Sees(mem[k][i].view, j)
  <2>1. GoodView(mem, mem[k][i].view)
    BY <1>0 DEF MemGood, MessageViews
  <2> QED BY <1>3, <1>10, <2>1 DEF IsMoved
<1> QED BY <1>1, <1>4, <1>5, <1>7, <1>8, <1>9, <1>10 DEF new, SeenAlike

(* The key of an entry whose location is not stored to.                    *)
LEMMA KeyKept ==
  ASSUME NEW m, NEW f, MemGood(m, f), NEW n, NEW l \in TableLoc, NEW p, NEW new, Rearranging(n, m, l, p, new), SeenAlike(m, l, p),
         NEW e \in Entry, KeyOf(e) # l
  PROVE  KeyAt(n, e) = KeyAt(m, e) /\ KeyMessages(n, e)
<1>1. KeyOf(e) \in TableLoc /\ KeyMessages(m, e)
  BY EntryNames DEF MemGood
<1>2. PICK s, r : s = m[KeyOf(e)] /\ r = n[KeyOf(e)]
  OBVIOUS
<1>3. Len(r) = Len(s) /\ \A i \in 1..Len(s) : IsMoved(r[i], s[i], l, p)
  BY <1>1, <1>2 DEF Rearranging
<1>4. Len(s) \in {1, 2} /\ s[1].val = 0 /\ (Len(s) = 2 => s[2].val \in Nat \ {0} /\ s[2].cas /\ Sees(s[2].view, KeyOf(e)))
  BY <1>1, <1>2 DEF KeyMessages
<1>5. r[1].val = 0
  BY <1>3, <1>4 DEF IsMoved
<1>6. ASSUME Len(s) = 2 PROVE r[2].val = s[2].val /\ r[2].cas /\ Sees(r[2].view, KeyOf(e))
  <2>1. 2 \in 1..Len(s)
    BY <1>6
  <2>2. IsMoved(r[2], s[2], l, p)
    BY <1>3, <2>1
  <2>3. Sees(r[2].view, KeyOf(e))
    BY <1>1, <1>2, <1>4, <1>6, <2>1, <2>2 DEF SeenAlike
  <2> QED BY <1>4, <1>6, <2>2, <2>3 DEF IsMoved
<1>7. KeyMessages(n, e)
  BY <1>2, <1>3, <1>4, <1>5, <1>6 DEF KeyMessages
<1>8. KeyAt(n, e) = KeyAt(m, e)
  BY <1>2, <1>3, <1>4, <1>6 DEF KeyAt
<1> QED BY <1>7, <1>8

(* A value whose location is not stored to.                                *)
LEMMA ValueKept ==
  ASSUME NEW m, NEW f, MemGood(m, f), NEW n, NEW l \in TableLoc, NEW p, NEW new, Rearranging(n, m, l, p, new), SeenAlike(m, l, p),
         NEW e \in Entry, ValueOf(e) # l, KeyAt(m, e) = 0 \/ KeyAt(n, e) = KeyAt(m, e)
  PROVE  Len(n[ValueOf(e)]) = Len(m[ValueOf(e)]) /\ ValueMessages(n, f, e)
<1>1. ValueOf(e) \in TableLoc /\ ValueMessages(m, f, e)
  BY EntryNames DEF MemGood
<1>2. PICK s, r : s = m[ValueOf(e)] /\ r = n[ValueOf(e)]
  OBVIOUS
<1>3. Len(r) = Len(s) /\ \A i \in 1..Len(s) : IsMoved(r[i], s[i], l, p)
  BY <1>1, <1>2 DEF Rearranging
<1>4. /\ Len(s) \in Nat \ {0} /\ s[1].val = 0
      /\ \A i \in 1..Len(s) : i # 1 => s[i].val = 1 /\ Sees(s[i].view, ValueOf(e))
      /\ KeyAt(m, e) = 0 => Len(s) = 1
      /\ AddKey(KeyAt(m, e)) /\ f = "hashtable_atomic_ra" => Len(s) \in {1, 2} /\ (Len(s) = 2 => s[2].cas)
  BY <1>1, <1>2 DEF ValueMessages
<1>5. r[1].val = 0
  BY <1>3, <1>4 DEF IsMoved
<1>6. ASSUME NEW i \in 1..Len(s), i # 1 PROVE r[i].val = 1 /\ Sees(r[i].view, ValueOf(e))
  <2>1. IsMoved(r[i], s[i], l, p)
    BY <1>3
  <2>2. Sees(r[i].view, ValueOf(e))
    BY <1>1, <1>2, <1>4, <1>6, <2>1 DEF SeenAlike
  <2> QED BY <1>4, <1>6, <2>1, <2>2 DEF IsMoved
<1>7. ASSUME Len(s) = 2 PROVE r[2].cas = s[2].cas
  <2>1. 2 \in 1..Len(s)
    BY <1>7
  <2> QED BY <1>3, <2>1 DEF IsMoved
<1>8. KeyAt(n, e) = 0 => Len(s) = 1
  BY <1>4
<1>9. AddKey(KeyAt(n, e)) /\ f = "hashtable_atomic_ra" => Len(s) \in {1, 2} /\ (Len(s) = 2 => r[2].cas)
  BY <1>4, <1>7
<1>10. ValueMessages(n, f, e)
  BY <1>2, <1>3, <1>4, <1>5, <1>6, <1>8, <1>9 DEF ValueMessages
<1> QED BY <1>2, <1>3, <1>10

(* A CAS claims a free entry.                                              *)
ClaimStep(t, e, v, k) ==
  /\ t \in Threads /\ e \in Entry /\ GoodView(mem, v) /\ \A j \in TableLoc : Sees(view[t], j) => Sees(v, j)
  /\ KeyAt(mem, e) = 0 /\ k \in Nat /\ k # 0 /\ Relaxed!Written(t, v, KeyOf(e), 2, k, TRUE)
  /\ \A d \in Before(Home(k), e) : Sees(v, KeyOf(d))
  /\ file' = file

LEMMA StoresKey ==
  ASSUME MemInv, ViewInv, NEW t, NEW e, NEW v, NEW k, ClaimStep(t, e, v, k)
  PROVE  /\ MemInv' /\ ViewInv' /\ Grows(t) /\ ValuesSame /\ Sees(view'[t], KeyOf(e))
         /\ KeyAt(mem', e) = k /\ \A d \in Entry : d # e => KeyAt(mem', d) = KeyAt(mem, d)
<1> DEFINE l == KeyOf(e)
           new == NewMessage(v, l, 2, k, TRUE)
<1>0. /\ t \in Threads /\ e \in Entry /\ GoodView(mem, v) /\ \A j \in TableLoc : Sees(view[t], j) => Sees(v, j)
      /\ KeyAt(mem, e) = 0 /\ k \in Nat /\ k # 0 /\ Relaxed!Written(t, v, KeyOf(e), 2, k, TRUE)
      /\ \A d \in Before(Home(k), e) : Sees(v, KeyOf(d))
      /\ file' = file
  BY DEF ClaimStep
<1> USE <1>0
<1>1. l \in TableLoc /\ MemGood(mem, file) /\ v \in [TableLoc -> Nat] /\ k \in Int
  BY EntryNames DEF MemInv, GoodView
<1>2. Len(mem[l]) = 1 /\ mem[l][1].val = 0
  BY <1>1, KeyAtIs
<1>3. 2 <= Len(mem[l]) + 1 /\ 2 >= 1 /\ 2 \in Nat /\ 2 >= 2
  BY <1>2
<1> HIDE DEF l
<1>4. Rearranging(mem', mem, l, 2, new)
  BY <1>1, <1>3, WrittenIs DEF l
<1>5. new.val = k /\ new.cas = TRUE
  BY DEF NewMessage
<1> HIDE DEF new
<1>6. Len(mem'[l]) = 2 /\ mem'[l][2] = new /\ mem'[l][1].val = 0
  <2>1. 1 \in 1..Len(mem[l]) /\ 1 < 2
    BY <1>2
  <2>2. IsMoved(mem'[l][1], mem[l][1], l, 2)
    BY <1>4, <2>1 DEF Rearranging
  <2>3. mem'[l][1].val = 0
    BY <1>2, <2>2 DEF IsMoved
  <2>4. Len(mem'[l]) = Len(mem[l]) + 1 /\ mem'[l][2] = new
    BY <1>1, <1>4 DEF Rearranging
  <2> QED BY <1>2, <2>3, <2>4
<1>7. KeyAt(mem', e) = k
  BY <1>5, <1>6 DEF KeyAt, l
<1>8. SeenAlike(mem, l, 2) /\ MessageViews(mem') /\ ViewInv' /\ Grows(t) /\ Sees(view'[t], l) /\ Sees(new.view, l)
  <2>1. ASSUME NEW d \in Entry, KeyAt(mem, d) # 0 PROVE KeyAt(mem', d) = KeyAt(mem, d)
    <3>1. KeyOf(d) # l /\ KeyOf(d) \in TableLoc
      BY <2>1, EntryNames DEF l
    <3>2. Len(mem'[KeyOf(d)]) = Len(mem[KeyOf(d)]) /\ \A i \in 1..Len(mem[KeyOf(d)]) : IsMoved(mem'[KeyOf(d)][i], mem[KeyOf(d)][i], l, 2)
      BY <1>4, <3>1 DEF Rearranging
    <3>3. Len(mem[KeyOf(d)]) = 2
      BY <1>1, <2>1, KeyAtIs
    <3>4. 2 \in 1..Len(mem[KeyOf(d)])
      BY <3>3
    <3>5. mem'[KeyOf(d)][2].val = mem[KeyOf(d)][2].val
      BY <3>2, <3>4 DEF IsMoved
    <3> QED BY <3>2, <3>3, <3>5 DEF KeyAt
  <2>2. PathSeen(mem', v, l)
    BY <1>7, EntryNames DEF PathSeen, l
  <2>3. Relaxed!Written(t, v, l, 2, k, TRUE)
    BY DEF l
  <2>4. StoreStep(t, l, v, 2, k, TRUE)
    BY <1>1, <1>3, <2>1, <2>2, <2>3 DEF StoreStep
  <2>5. /\ MessageViews(mem') /\ ViewInv' /\ Grows(t) /\ Sees(view'[t], l) /\ SeenAlike(mem, l, 2)
        /\ Sees(NewMessage(v, l, 2, k, TRUE).view, l)
    BY <2>4, Stores
  <2> QED BY <2>5 DEF new
<1>9. ASSUME NEW d \in Entry, d # e PROVE KeyAt(mem', d) = KeyAt(mem, d) /\ KeyMessages(mem', d)
  <2>1. KeyOf(d) # l
    BY <1>9, EntryNames DEF l
  <2> QED BY <1>1, <1>4, <1>8, <2>1, KeyKept
<1>10. KeyMessages(mem', e)
  BY <1>5, <1>6, <1>8 DEF KeyMessages, l
<1>11. ASSUME NEW d \in Entry PROVE Len(mem'[ValueOf(d)]) = Len(mem[ValueOf(d)]) /\ ValueMessages(mem', file, d)
  <2>1. ValueOf(d) # l /\ (KeyAt(mem, d) = 0 \/ KeyAt(mem', d) = KeyAt(mem, d))
    BY <1>9, EntryNames DEF l
  <2> QED BY <1>1, <1>4, <1>8, <2>1, ValueKept
<1>12. MemInv'
  BY <1>4, <1>8, <1>9, <1>10, <1>11 DEF MemInv, MemGood, Rearranging
<1> QED BY <1>7, <1>8, <1>9, <1>11, <1>12 DEF l, ValuesSame

(* A store of a value.  With release/acquire that of a key which is only   *)
(* added is stored once, by a CAS.                                         *)
ValueStep(t, e, v, p, cas) ==
  /\ t \in Threads /\ e \in Entry /\ GoodView(mem, v) /\ \A j \in TableLoc : Sees(view[t], j) => Sees(v, j)
  /\ KeyAt(mem, e) # 0 /\ p \in Nat /\ p >= 2 /\ p <= Len(mem[ValueOf(e)]) + 1 /\ cas \in BOOLEAN
  /\ Relaxed!Written(t, v, ValueOf(e), p, 1, cas)
  /\ AddKey(KeyAt(mem, e)) /\ file = "hashtable_atomic_ra" => Len(mem[ValueOf(e)]) = 1 /\ cas
  /\ file' = file

LEMMA StoresValue ==
  ASSUME MemInv, ViewInv, NEW t, NEW e, NEW v, NEW p, NEW cas, ValueStep(t, e, v, p, cas)
  PROVE  /\ MemInv' /\ ViewInv' /\ Grows(t) /\ KeysSame /\ Sees(view'[t], ValueOf(e))
         /\ Len(mem'[ValueOf(e)]) >= 2
         /\ \A d \in Entry : d # e => Len(mem'[ValueOf(d)]) = Len(mem[ValueOf(d)])
<1> DEFINE l == ValueOf(e)
           new == NewMessage(v, l, p, 1, cas)
<1>0. /\ t \in Threads /\ e \in Entry /\ GoodView(mem, v) /\ \A j \in TableLoc : Sees(view[t], j) => Sees(v, j)
      /\ KeyAt(mem, e) # 0 /\ p \in Nat /\ p >= 2 /\ p <= Len(mem[ValueOf(e)]) + 1 /\ cas \in BOOLEAN
      /\ Relaxed!Written(t, v, ValueOf(e), p, 1, cas)
      /\ AddKey(KeyAt(mem, e)) /\ file = "hashtable_atomic_ra" => Len(mem[ValueOf(e)]) = 1 /\ cas
      /\ file' = file
  BY DEF ValueStep
<1> USE <1>0
<1>1. l \in TableLoc /\ MemGood(mem, file) /\ v \in [TableLoc -> Nat] /\ 1 \in Int
  BY EntryNames DEF MemInv, GoodView
<1>2. p >= 1 /\ p <= Len(mem[l]) + 1
  OBVIOUS
<1> HIDE DEF l
<1>3. Relaxed!Written(t, v, l, p, 1, cas)
  BY DEF l
<1>4. Rearranging(mem', mem, l, p, new)
  BY <1>1, <1>2, <1>3, WrittenIs
<1>5. new.val = 1 /\ new.cas = cas
  BY DEF NewMessage
<1> HIDE DEF new
<1>6. ASSUME NEW d \in Entry PROVE KeyAt(mem', d) = KeyAt(mem, d)
  <2>1. KeyOf(d) # l /\ KeyOf(d) \in TableLoc
    BY EntryNames DEF l
  <2>2. PICK s, r : s = mem[KeyOf(d)] /\ r = mem'[KeyOf(d)]
    OBVIOUS
  <2>3. Len(r) = Len(s) /\ \A i \in 1..Len(s) : IsMoved(r[i], s[i], l, p)
    BY <1>4, <2>1, <2>2 DEF Rearranging
  <2>4. Len(s) \in {1, 2}
    BY <1>1, <2>2, KeyAtIs
  <2>5. Len(s) # 1 => r[2].val = s[2].val
    <3>1. Len(s) # 1 => 2 \in 1..Len(s)
      <4>1. PICK n \in {1, 2} : n = Len(s)
        BY <2>4
      <4>2. n # 1 => 2 \in 1..n
        BY <4>1
      <4> QED BY <4>1, <4>2
    <3>2. Len(s) # 1 => IsMoved(r[2], s[2], l, p)
      BY <2>3, <3>1
    <3> QED BY <3>2 DEF IsMoved
  <2> QED BY <2>2, <2>3, <2>5 DEF KeyAt
<1>7. SeenAlike(mem, l, p) /\ MessageViews(mem') /\ ViewInv' /\ Grows(t) /\ Sees(view'[t], l) /\ Sees(new.view, l)
  <2>1. PathSeen(mem', v, l)
    BY EntryNames DEF PathSeen, l
  <2>2. StoreStep(t, l, v, p, 1, cas)
    BY <1>1, <1>2, <1>3, <1>6, <2>1 DEF StoreStep
  <2>3. /\ MessageViews(mem') /\ ViewInv' /\ Grows(t) /\ Sees(view'[t], l) /\ SeenAlike(mem, l, p)
        /\ Sees(NewMessage(v, l, p, 1, cas).view, l)
    BY <2>2, Stores
  <2> QED BY <2>3 DEF new
<1>8. ASSUME NEW d \in Entry PROVE KeyMessages(mem', d)
  <2>1. KeyOf(d) # l
    BY EntryNames DEF l
  <2> QED BY <1>1, <1>4, <1>7, <2>1, KeyKept
<1>9. ASSUME NEW d \in Entry, d # e PROVE Len(mem'[ValueOf(d)]) = Len(mem[ValueOf(d)]) /\ ValueMessages(mem', file, d)
  <2>1. ValueOf(d) # l /\ KeyAt(mem', d) = KeyAt(mem, d)
    BY <1>6, <1>9, EntryNames DEF l
  <2> QED BY <1>1, <1>4, <1>7, <2>1, ValueKept
<1>10. Len(mem'[l]) >= 2 /\ ValueMessages(mem', file, e)
  <2>1. PICK s, r : s = mem[l] /\ r = mem'[l]
    OBVIOUS
  <2>2. PICK n : n = Len(s)
    OBVIOUS
  <2>3. /\ Len(r) = n + 1 /\ r[p] = new
        /\ \A i \in 1..n : i < p => IsMoved(r[i], s[i], l, p)
        /\ \A i \in 1..n : i >= p => IsMoved(r[i + 1], s[i], l, p)
    BY <1>1, <1>4, <2>1, <2>2 DEF Rearranging
  <2>4. /\ n \in Nat \ {0} /\ s[1].val = 0 /\ (AddKey(KeyAt(mem, e)) /\ file = "hashtable_atomic_ra" => n = 1 /\ cas)
        /\ \A i \in 1..n : i # 1 => s[i].val = 1 /\ Sees(s[i].view, l)
    BY <1>1, <2>1, <2>2 DEF MemGood, ValueMessages, l
  <2>5. ASSUME NEW i \in 1..n, i # 1, NEW j, IsMoved(r[j], s[i], l, p) PROVE r[j].val = 1 /\ Sees(r[j].view, l)
    <3>1. Sees(r[j].view, l) <=> Sees(mem[l][i].view, l)
      BY <1>1, <1>7, <2>1, <2>2, <2>5 DEF SeenAlike
    <3> QED BY <2>1, <2>4, <2>5, <3>1 DEF IsMoved
  <2>6. ASSUME NEW j \in 1..n + 1, j # 1 PROVE r[j].val = 1 /\ Sees(r[j].view, l)
    <3>1. CASE j < p
      <4>1. j \in 1..n
        BY <1>2, <2>1, <2>2, <2>4, <3>1
      <4> QED BY <2>3, <2>5, <2>6, <3>1, <4>1
    <3>2. CASE j = p
      BY <1>5, <1>7, <2>3, <3>2
    <3>3. CASE j > p
      <4>1. PICK i \in 1..n : i >= p /\ j = i + 1 /\ i # 1
        <5>1. j - 1 \in 1..n /\ j - 1 >= p /\ j = (j - 1) + 1 /\ j - 1 # 1
          BY <2>4, <3>3
        <5> QED BY <5>1
      <4> QED BY <2>3, <2>5, <4>1
    <3> QED BY <2>4, <3>1, <3>2, <3>3
  <2>7. r[1].val = 0
    <3>1. 1 \in 1..n /\ 1 < p
      BY <2>4
    <3> QED BY <2>3, <2>4, <3>1 DEF IsMoved
  <2>8. n = 1 => r[2].cas = cas
    <3>1. n = 1 => p = 2
      BY <1>2, <2>1, <2>2
    <3> QED BY <1>5, <2>3, <3>1
  <2>9. Len(r) \in Nat \ {0} /\ Len(r) >= 2 /\ (n = 1 => Len(r) = 2)
    BY <2>3, <2>4
  <2>10. AddKey(KeyAt(mem', e)) /\ file = "hashtable_atomic_ra" => Len(r) \in {1, 2} /\ (Len(r) = 2 => r[2].cas)
    BY <1>6, <2>4, <2>8, <2>9
  <2>11. KeyAt(mem', e) # 0
    BY <1>6
  <2> QED BY <2>1, <2>3, <2>6, <2>7, <2>9, <2>10, <2>11 DEF ValueMessages, l
<1>11. MemInv'
  BY <1>4, <1>7, <1>8, <1>9, <1>10 DEF MemInv, MemGood, Rearranging
<1> QED BY <1>6, <1>7, <1>9, <1>10, <1>11 DEF l, KeysSame

-----------------------------------------------------------------------------
(* The threads of the tables.                                              *)

(* Thread t at l, with idx i, has made n calls, which returned r.          *)
ThreadFits(t, l, i, n, r) ==
  /\ l \in {"new", "loop", "probe", "recheck", "claim", "value", "done"}
  /\ i \in Entry /\ n \in 0..Len(Calls[t + 1]) /\ r \in Seq({0, 1})
  /\ Len(r) = IF l \in {"new", "loop", "done"} THEN n ELSE n - 1
  /\ (l = "new" => n = 0) /\ (l = "done" => n = Len(Calls[t + 1]))
ThreadInv ==
  /\ DOMAIN tpc = Threads /\ DOMAIN idx = Threads /\ DOMAIN called = Threads /\ DOMAIN rets = Threads
  /\ \A t \in Threads : ThreadFits(t, tpc[t], idx[t], called[t], rets[t])

(* The lock of a thread passes on what the thread has seen.                *)
LockInv ==
  \A t \in Threads :
    /\ joinLock[t].held <=> tpc[t] # "done"
    /\ ~joinLock[t].held => \A l \in TableLoc : Sees(view[t], l) => Sees(joinLock[t].view, l)

(* The entries that a search for k passes before e hold other keys.        *)
Passed(m, k, e) == \A d \in Before(Home(k), e) : KeyAt(m, d) \notin {0, k}
PathInv == \A e \in Entry : KeyAt(mem, e) # 0 => Passed(mem, KeyAt(mem, e), e)

(* What a thread at l, at entry i in a call o, has seen of its search.     *)
Search(m, v, l, i, o) ==
  /\ l \in {"probe", "claim", "recheck"} => Passed(m, o.key, i) /\ \A d \in Before(Home(o.key), i) : Sees(v, KeyOf(d))
  /\ l = "recheck" => Sees(v, KeyOf(i))
  /\ l \in {"claim", "recheck"} => o.kind # "get"
  /\ l = "value" => KeyAt(m, i) = o.key /\ Sees(v, KeyOf(i))
SearchInv == \A t \in Threads : Search(mem, view[t], tpc[t], idx[t], CallOf(t, called[t]))

(* Some thread has stored the value of a claimed entry, or will.           *)
Claimer(e, v, l, i, o) == l # "new" /\ (Sees(v, ValueOf(e)) \/ (l = "value" /\ i = e /\ o.kind # "get"))
ClaimInv ==
  \A e \in Entry : KeyAt(mem, e) # 0 =>
    \E t \in Threads : Claimer(e, view[t], tpc[t], idx[t], CallOf(t, called[t]))

(* What is known after call o has returned r.                              *)
Located(m, v, k) == \E e \in Entry : KeyAt(m, e) = k /\ Sees(v, KeyOf(e))
Found(m, v, k) == \E e \in Entry : KeyAt(m, e) = k /\ Sees(v, KeyOf(e)) /\ Sees(v, ValueOf(e))
Returned(m, v, f, r, o) ==
  /\ o.kind # "get" => Located(m, v, o.key)
  /\ o.kind = "set" \/ r # 0 \/ (o.kind = "add" /\ f = "hashtable_atomic_ra") => Found(m, v, o.key)
ReturnInv == \A t \in Threads : \A c \in 1..Len(rets[t]) : Returned(mem, view[t], file, rets[t][c], CallOf(t, c))

GetsFind(t, r) ==
  \A b, c \in 1..Len(r) :
    /\ b < c /\ CallOf(t, b).key = CallOf(t, c).key /\ CallOf(t, c).kind = "get"
    /\ CallOf(t, b).kind = "set" \/ r[b] # 0
    => r[c] # 0
GetInv == \A t \in Threads : GetsFind(t, rets[t])

(* The add that got its key: the one that was first to store the value, or *)
(* in hashtable1 the one that claimed the entry.                           *)
Won(t, c, l, n, r, f) ==
  /\ CallOf(t, c).kind = "add"
  /\ (c \in 1..Len(r) /\ r[c] = 1) \/ (f = "hashtable1" /\ l = "value" /\ c = n)
Marked(m, f, k) == \E e \in Entry : KeyAt(m, e) = k /\ (f = "hashtable_atomic_ra" => Len(m[ValueOf(e)]) >= 2)
HasWon(t, c) == Won(t, c, tpc[t], called[t], rets[t], file)
WonInv ==
  /\ \A t \in Threads : \A c \in CallsOf(t) : HasWon(t, c) => Marked(mem, file, CallOf(t, c).key)
  /\ \A s, t \in Threads : \A b \in CallsOf(s), c \in CallsOf(t) :
       HasWon(s, b) /\ HasWon(t, c) /\ CallOf(s, b).key = CallOf(t, c).key => s = t /\ b = c
  /\ \A t \in Threads : \A c \in CallsOf(t) : CallOf(t, c).kind = "add" /\ Marked(mem, file, CallOf(t, c).key) =>
       \E s \in Threads : \E b \in CallsOf(s) : HasWon(s, b) /\ CallOf(s, b).key = CallOf(t, c).key

(* What main has of the threads it has joined.                             *)
Joining == IF mpc = "done" THEN Threads ELSE IF mpc = "join" THEN 0..nth-1 ELSE {}
WonKeys(t, r) == {CallOf(t, c).key : c \in {d \in 1..Len(r) : CallOf(t, d).kind = "add" /\ r[d] = 1}}
MainInv ==
  /\ mpc \in {"spawn", "join", "done"} /\ nth \in Threads
  /\ mpc = "spawn" => \A t \in Threads : t >= nth <=> tpc[t] = "new"
  /\ mpc # "spawn" => \A t \in Threads : tpc[t] # "new"
  /\ \A t \in Joining : ~joinLock[t].held /\ \A l \in TableLoc : Sees(joinLock[t].view, l) => Sees(view[Main], l)
  /\ total = Cardinality(UNION {WonKeys(t, rets[t]) : t \in Joining})
  /\ IsFiniteSet(UNION {WonKeys(t, rets[t]) : t \in Joining})

SharedInv == MemInv /\ ViewInv /\ PathInv
StepsInv == ThreadInv /\ LockInv /\ SearchInv /\ ClaimInv /\ ReturnInv /\ GetInv /\ MainInv
TableInv == SharedInv /\ StepsInv /\ WonInv

(* A key has one entry: of two, one would be before the other.             *)
LEMMA OneEntry ==
  ASSUME MemInv, PathInv, NEW d \in Entry, NEW e \in Entry, KeyAt(mem, d) # 0, KeyAt(mem, d) = KeyAt(mem, e)
  PROVE  d = e
<1>1. Home(KeyAt(mem, d)) \in Entry
  BY KeyAtIs, HomeType DEF MemInv
<1>2. d = e \/ d \in Before(Home(KeyAt(mem, d)), e) \/ e \in Before(Home(KeyAt(mem, d)), d)
  BY <1>1, DistanceOrder
<1> QED BY <1>2 DEF PathInv, Passed

(* Once a search has come to a free entry, its key has none.               *)
LEMMA FreeMeansAbsent ==
  ASSUME MemInv, PathInv, NEW k \in Nat, k # 0, NEW f \in Entry, Passed(mem, k, f), KeyAt(mem, f) = 0, NEW e \in Entry
  PROVE  KeyAt(mem, e) # k
<1> SUFFICES ASSUME KeyAt(mem, e) = k PROVE FALSE
  OBVIOUS
<1>1. Home(k) \in Entry
  BY HomeType
<1>2. e = f \/ e \in Before(Home(k), f) \/ f \in Before(Home(k), e)
  BY <1>1, DistanceOrder
<1> QED BY <1>2 DEF PathInv, Passed

LEMMA BeforeEntries == \A h, e : Before(h, e) \subseteq Entry
BY DEF Before

(* What thread s knows stays true when t takes a step.                     *)
LEMMA KnowledgeStays ==
  ASSUME NEW t, NEW s \in Threads, Grows(t), NEW o, o.key # 0
  PROVE  /\ \A l : \A i \in Entry : Search(mem, view[s], l, i, o) => Search(mem', view'[s], l, i, o)
         /\ \A f, r : Returned(mem, view[s], f, r, o) => Returned(mem', view'[s], f, r, o)
         /\ \A k : k # 0 /\ Located(mem, view[s], k) => Located(mem', view'[s], k)
         /\ \A k : k # 0 /\ Found(mem, view[s], k) => Found(mem', view'[s], k)
<1>1. \A l \in TableLoc : Sees(view[s], l) => Sees(view'[s], l)
  BY ThreadNames DEF Grows
<1>2. \A e \in Entry : KeyAt(mem, e) # 0 => KeyAt(mem', e) = KeyAt(mem, e)
  BY DEF Grows
<1>3. \A k, e : Passed(mem, k, e) => Passed(mem', k, e)
  BY <1>2, BeforeEntries DEF Passed
<1>4. \A k : k # 0 /\ Located(mem, view[s], k) => Located(mem', view'[s], k)
  BY <1>1, <1>2, EntryNames DEF Located
<1>5. \A k : k # 0 /\ Found(mem, view[s], k) => Found(mem', view'[s], k)
  BY <1>1, <1>2, EntryNames DEF Found
<1>6. ASSUME NEW l, NEW i \in Entry, Search(mem, view[s], l, i, o) PROVE Search(mem', view'[s], l, i, o)
  <2>1. \A d \in Before(Home(o.key), i) : KeyOf(d) \in TableLoc
    BY BeforeEntries, EntryNames
  <2>2. l \in {"probe", "claim", "recheck"} => Passed(mem', o.key, i) /\ \A d \in Before(Home(o.key), i) : Sees(view'[s], KeyOf(d))
    BY <1>1, <1>3, <1>6, <2>1 DEF Search
  <2>3. l = "recheck" => Sees(view'[s], KeyOf(i))
    BY <1>1, <1>6, EntryNames DEF Search
  <2>4. l = "value" => KeyAt(mem', i) = o.key /\ Sees(view'[s], KeyOf(i))
    BY <1>1, <1>2, <1>6, EntryNames DEF Search
  <2> QED BY <1>6, <2>2, <2>3, <2>4 DEF Search
<1>7. \A f, r : Returned(mem, view[s], f, r, o) => Returned(mem', view'[s], f, r, o)
  BY <1>4, <1>5 DEF Returned
<1> QED BY <1>4, <1>5, <1>6, <1>7

LEMMA ActiveCall ==
  ASSUME ThreadInv, NEW s \in Threads
  PROVE  /\ tpc[s] \notin {"new", "loop", "done"} => called[s] \in CallsOf(s) /\ Len(rets[s]) + 1 = called[s]
         /\ Len(rets[s]) \in Nat /\ \A c \in 1..Len(rets[s]) : c \in CallsOf(s) /\ rets[s][c] \in {0, 1}
         /\ \A c \in CallsOf(s) : CallOf(s, c).key \in Nat /\ CallOf(s, c).key # 0
<1>1. ThreadFits(s, tpc[s], idx[s], called[s], rets[s])
  BY DEF ThreadInv
<1>2. PICK n, r, k : n = called[s] /\ r = Len(rets[s]) /\ k = Len(Calls[s + 1])
  OBVIOUS
<1>3. k \in Nat /\ n \in 0..k /\ r \in Nat /\ (r = n \/ r = n - 1)
  BY <1>1, <1>2, CallTypes, LenProperties DEF ThreadFits
<1>4. tpc[s] \notin {"new", "loop", "done"} => r = n - 1
  BY <1>1, <1>2 DEF ThreadFits
<1>5. (r = n - 1 => n \in 1..k /\ r + 1 = n) /\ \A c \in 1..r : c \in 1..k
  BY <1>3
<1>6. \A c \in 1..Len(rets[s]) : rets[s][c] \in {0, 1}
  BY <1>1, ElementOfSeq DEF ThreadFits
<1> QED BY <1>2, <1>3, <1>4, <1>5, <1>6, CallTypes DEF CallsOf

(* Thread t begins a call, or takes a step of one.                         *)
OthersStay(t) ==
  /\ \A s \in Threads : s # t => tpc'[s] = tpc[s] /\ idx'[s] = idx[s] /\ called'[s] = called[s] /\ rets'[s] = rets[s]
  /\ DOMAIN tpc' = Threads /\ DOMAIN idx' = Threads /\ DOMAIN called' = Threads /\ DOMAIN rets' = Threads
  /\ UNCHANGED <<mpc, nth, total, file>>
ReturnsOne(t, r, o) ==
  /\ r \in {0, 1} /\ rets'[t] = Append(rets[t], r) /\ Len(rets[t]) + 1 = called[t] /\ o = CallOf(t, called[t])
  /\ Returned(mem', view'[t], file, r, o)
  /\ o.kind = "get" /\ r = 0 => ~Found(mem, view[t], o.key)
StepFits(t) ==
  /\ t \in Threads /\ OthersStay(t) /\ Grows(t) /\ MemInv' /\ ViewInv' /\ PathInv'
  /\ tpc[t] \notin {"new", "done"} /\ tpc'[t] \notin {"new", "done"}
  /\ ThreadFits(t, tpc'[t], idx'[t], called'[t], rets'[t])
  /\ Search(mem', view'[t], tpc'[t], idx'[t], CallOf(t, called'[t]))
  /\ \A e \in Entry : KeyAt(mem, e) = 0 /\ KeyAt(mem', e) # 0 => Claimer(e, view'[t], tpc'[t], idx'[t], CallOf(t, called'[t]))
  /\ tpc[t] = "value" /\ CallOf(t, called[t]).kind # "get" => Sees(view'[t], ValueOf(idx[t]))
  /\ rets'[t] = rets[t] \/ \E r, o : ReturnsOne(t, r, o)

LEMMA SearchStays ==
  ASSUME ThreadInv, SearchInv, NEW t, StepFits(t)
  PROVE  SearchInv'
<1> SUFFICES ASSUME NEW s \in Threads, s # t PROVE Search(mem', view'[s], tpc'[s], idx'[s], CallOf(s, called'[s]))
  BY DEF SearchInv, StepFits
<1>1. tpc'[s] = tpc[s] /\ idx'[s] = idx[s] /\ called'[s] = called[s] /\ idx[s] \in Entry /\ Grows(t)
  BY DEF StepFits, OthersStay, ThreadInv, ThreadFits
<1>2. Search(mem, view[s], tpc[s], idx[s], CallOf(s, called[s]))
  BY DEF SearchInv
<1>3. CASE tpc[s] \in {"new", "loop", "done"}
  BY <1>1, <1>3 DEF Search
<1>4. CASE tpc[s] \notin {"new", "loop", "done"}
  <2>1. CallOf(s, called[s]).key # 0
    BY <1>4, ActiveCall
  <2> QED BY <1>1, <1>2, <2>1, KnowledgeStays
<1> QED BY <1>3, <1>4

LEMMA ReturnsStay ==
  ASSUME ThreadInv, ReturnInv, NEW t, StepFits(t)
  PROVE  ReturnInv'
<1> SUFFICES ASSUME NEW s \in Threads, NEW c \in 1..Len(rets'[s]) PROVE Returned(mem', view'[s], file, rets'[s][c], CallOf(s, c))
  BY DEF ReturnInv, StepFits, OthersStay
<1>1. ASSUME NEW b \in 1..Len(rets[s]) PROVE Returned(mem', view'[s], file, rets[s][b], CallOf(s, b))
  <2>1. CallOf(s, b).key # 0 /\ Grows(t)
    BY ActiveCall DEF StepFits
  <2>2. Returned(mem, view[s], file, rets[s][b], CallOf(s, b))
    BY DEF ReturnInv
  <2> QED BY <2>1, <2>2, KnowledgeStays
<1>2. CASE rets'[s] = rets[s]
  BY <1>1, <1>2
<1>3. CASE rets'[s] # rets[s]
  <2>1. s = t
    BY <1>3 DEF StepFits, OthersStay
  <2>2. PICK r, o : ReturnsOne(s, r, o)
    BY <1>3, <2>1 DEF StepFits
  <2>3. rets[s] \in Seq({0, 1}) /\ Len(rets[s]) \in Nat
    BY ActiveCall DEF ThreadInv, ThreadFits
  <2>4. Len(rets'[s]) = Len(rets[s]) + 1 /\ rets'[s][Len(rets[s]) + 1] = r /\ \A b \in 1..Len(rets[s]) : rets'[s][b] = rets[s][b]
    BY <2>2, <2>3, AppendProperties DEF ReturnsOne
  <2>5. c \in 1..Len(rets[s]) \/ c = Len(rets[s]) + 1
    BY <2>3, <2>4
  <2>6. CASE c \in 1..Len(rets[s])
    BY <1>1, <2>4, <2>6
  <2>7. CASE c = Len(rets[s]) + 1
    BY <2>1, <2>2, <2>4, <2>7 DEF ReturnsOne
  <2> QED BY <2>5, <2>6, <2>7
<1> QED BY <1>2, <1>3

LEMMA GetsStay ==
  ASSUME ThreadInv, ReturnInv, GetInv, NEW t, StepFits(t)
  PROVE  GetInv'
<1> SUFFICES ASSUME NEW s \in Threads PROVE GetsFind(s, rets'[s])
  BY DEF GetInv
<1>1. GetsFind(s, rets[s])
  BY DEF GetInv
<1>2. CASE rets'[s] = rets[s]
  BY <1>1, <1>2
<1>3. CASE rets'[s] # rets[s]
  <2>1. s = t
    BY <1>3 DEF StepFits, OthersStay
  <2>2. PICK r, o : ReturnsOne(s, r, o)
    BY <1>3, <2>1 DEF StepFits
  <2>3. rets[s] \in Seq({0, 1})
    BY DEF ThreadInv, ThreadFits
  <2>4. PICK n \in Nat : n = Len(rets[s])
    BY ActiveCall
  <2>5. Len(rets'[s]) = n + 1 /\ rets'[s][n + 1] = r /\ \A b \in 1..n : rets'[s][b] = rets[s][b]
    BY <2>2, <2>3, <2>4, AppendProperties DEF ReturnsOne
  <2> SUFFICES ASSUME NEW b \in 1..n + 1, NEW c \in 1..n + 1, b < c,
                      CallOf(s, b).key = CallOf(s, c).key, CallOf(s, c).kind = "get",
                      CallOf(s, b).kind = "set" \/ rets'[s][b] # 0
               PROVE  rets'[s][c] # 0
    BY <2>5 DEF GetsFind
  <2>6. b \in 1..n /\ (c \in 1..n \/ c = n + 1)
    OBVIOUS
  <2>7. CASE c \in 1..n
    BY <1>1, <2>4, <2>5, <2>6, <2>7 DEF GetsFind
  <2>8. CASE c = n + 1
    <3>1. Returned(mem, view[s], file, rets[s][b], CallOf(s, b))
      BY <2>4, <2>6 DEF ReturnInv
    <3>2. Found(mem, view[s], CallOf(s, b).key)
      BY <2>5, <2>6, <3>1 DEF Returned
    <3>3. o = CallOf(s, c)
      BY <2>2, <2>4, <2>8 DEF ReturnsOne
    <3> QED BY <2>1, <2>2, <2>5, <2>8, <3>2, <3>3 DEF ReturnsOne
  <2> QED BY <2>6, <2>7, <2>8
<1> QED BY <1>2, <1>3

LEMMA ClaimsStay ==
  ASSUME ClaimInv, NEW t, StepFits(t)
  PROVE  ClaimInv'
<1> SUFFICES ASSUME NEW e \in Entry, KeyAt(mem', e) # 0
             PROVE  \E s \in Threads : Claimer(e, view'[s], tpc'[s], idx'[s], CallOf(s, called'[s]))
  BY DEF ClaimInv
<1>1. CASE KeyAt(mem, e) = 0
  BY <1>1 DEF StepFits
<1>2. CASE KeyAt(mem, e) # 0
  <2>1. PICK s \in Threads : Claimer(e, view[s], tpc[s], idx[s], CallOf(s, called[s]))
    BY <1>2 DEF ClaimInv
  <2>2. Sees(view[s], ValueOf(e)) => Sees(view'[s], ValueOf(e))
    BY EntryNames, ThreadNames DEF StepFits, Grows
  <2>3. CASE s # t
    BY <2>1, <2>2, <2>3 DEF Claimer, StepFits, OthersStay
  <2>4. CASE s = t
    BY <2>1, <2>2, <2>4 DEF Claimer, StepFits
  <2> QED BY <2>3, <2>4
<1> QED BY <1>1, <1>2

LEMMA LocksStay ==
  ASSUME ThreadInv, LockInv, ViewInv, NEW t, StepFits(t)
  PROVE  LockInv'
<1> SUFFICES ASSUME NEW s \in Threads
             PROVE  /\ joinLock'[s].held <=> tpc'[s] # "done"
                    /\ ~joinLock'[s].held => \A l \in TableLoc : Sees(view'[s], l) => Sees(joinLock'[s].view, l)
  BY DEF LockInv
<1>1. joinLock'[s].held = joinLock[s].held /\ \A l \in TableLoc : Sees(joinLock'[s].view, l) <=> Sees(joinLock[s].view, l)
  BY DEF StepFits, Grows
<1>2. joinLock[s].held <=> tpc[s] # "done"
  BY DEF LockInv
<1>3. CASE s = t
  BY <1>1, <1>2, <1>3 DEF StepFits
<1>4. CASE s # t
  <2>1. tpc'[s] = tpc[s] /\ \A l \in TableLoc : Sees(view'[s], l) => Sees(view[s], l)
    BY <1>4, ThreadNames DEF StepFits, OthersStay, Grows
  <2> QED BY <1>1, <1>2, <2>1 DEF LockInv
<1> QED BY <1>3, <1>4

LEMMA MainStays ==
  ASSUME LockInv, MainInv, NEW t, StepFits(t)
  PROVE  MainInv'
<1>1. mpc' = mpc /\ nth' = nth /\ total' = total /\ Joining' = Joining
  BY DEF StepFits, OthersStay, Joining
<1>2. nth \in Threads /\ Joining \subseteq Threads /\ mpc \in {"spawn", "join", "done"}
  BY ThreadNames DEF Joining, MainInv
<1>3. ASSUME NEW s \in Joining
      PROVE  /\ ~joinLock'[s].held /\ \A l \in TableLoc : Sees(joinLock'[s].view, l) => Sees(view'[Main], l)
             /\ rets'[s] = rets[s]
  <2>1. s \in Threads /\ ~joinLock[s].held /\ \A l \in TableLoc : Sees(joinLock[s].view, l) => Sees(view[Main], l)
    BY <1>2 DEF MainInv
  <2>2. s # t
    BY <2>1 DEF LockInv, StepFits
  <2>3. rets'[s] = rets[s]
    BY <2>1, <2>2 DEF StepFits, OthersStay
  <2>4. /\ joinLock'[s].held = joinLock[s].held
        /\ \A l \in TableLoc : /\ Sees(joinLock'[s].view, l) <=> Sees(joinLock[s].view, l)
                               /\ Sees(view[Main], l) => Sees(view'[Main], l)
    BY <2>1, ThreadNames DEF StepFits, Grows
  <2> QED BY <2>1, <2>3, <2>4
<1>4. UNION {WonKeys(s, rets'[s]) : s \in Joining'} = UNION {WonKeys(s, rets[s]) : s \in Joining}
  BY <1>1, <1>3
<1>5. /\ mpc = "spawn" => \A s \in Threads : s >= nth <=> tpc'[s] = "new"
      /\ mpc # "spawn" => \A s \in Threads : tpc'[s] # "new"
  BY DEF MainInv, StepFits, OthersStay
<1>6. /\ total = Cardinality(UNION {WonKeys(s, rets[s]) : s \in Joining})
      /\ IsFiniteSet(UNION {WonKeys(s, rets[s]) : s \in Joining})
  BY DEF MainInv
<1>7. /\ total' = Cardinality(UNION {WonKeys(s, rets'[s]) : s \in Joining'})
      /\ IsFiniteSet(UNION {WonKeys(s, rets'[s]) : s \in Joining'})
  BY <1>1, <1>4, <1>6
<1> HIDE DEF MainInv
<1> QED BY <1>1, <1>2, <1>3, <1>5, <1>7 DEF MainInv

LEMMA StepStays ==
  ASSUME SharedInv, StepsInv, NEW t, StepFits(t)
  PROVE  SharedInv' /\ StepsInv'
<1>1. ThreadInv'
  BY DEF StepsInv, ThreadInv, StepFits, OthersStay
<1>2. SharedInv'
  BY DEF SharedInv, StepFits
<1> QED BY <1>1, <1>2, SearchStays, ReturnsStay, GetsStay, ClaimsStay, LocksStay, MainStays DEF SharedInv, StepsInv

(* A step of thread t that wins no key, and one by which its call o does.  *)
WonAfter(s, c) == Won(s, c, tpc'[s], called'[s], rets'[s], file)
NobodyWins(t) ==
  /\ \A c \in CallsOf(t) : WonAfter(t, c) <=> HasWon(t, c)
  /\ \A k : AddKey(k) => (Marked(mem', file, k) <=> Marked(mem, file, k))
Wins(t, o) ==
  /\ o \in CallsOf(t) /\ CallOf(t, o).kind = "add" /\ ~Marked(mem, file, CallOf(t, o).key)
  /\ \A c \in CallsOf(t) : WonAfter(t, c) <=> HasWon(t, c) \/ c = o
  /\ \A k : AddKey(k) => (Marked(mem', file, k) <=> Marked(mem, file, k) \/ k = CallOf(t, o).key)

LEMMA WinnersStay ==
  ASSUME WonInv, NEW t \in Threads, OthersStay(t), NobodyWins(t) \/ \E o : Wins(t, o)
  PROVE  WonInv'
<1>1. ASSUME NEW s \in Threads, s # t, NEW c PROVE WonAfter(s, c) <=> HasWon(s, c)
  BY <1>1 DEF OthersStay, WonAfter, HasWon
<1>2. file' = file
  BY DEF OthersStay
<1>3. ASSUME NEW s \in Threads, NEW c \in CallsOf(s), CallOf(s, c).kind = "add" PROVE AddKey(CallOf(s, c).key)
  BY <1>3 DEF AddKey
<1>4. ASSUME NEW s \in Threads, NEW c, WonAfter(s, c) \/ HasWon(s, c) PROVE CallOf(s, c).kind = "add"
  BY <1>4 DEF WonAfter, HasWon, Won
<1>5. /\ \A s \in Threads : \A c \in CallsOf(s) : HasWon(s, c) => Marked(mem, file, CallOf(s, c).key)
      /\ \A s, r \in Threads : \A b \in CallsOf(s), c \in CallsOf(r) :
           HasWon(s, b) /\ HasWon(r, c) /\ CallOf(s, b).key = CallOf(r, c).key => s = r /\ b = c
      /\ \A s \in Threads : \A c \in CallsOf(s) : CallOf(s, c).kind = "add" /\ Marked(mem, file, CallOf(s, c).key) =>
           \E r \in Threads : \E b \in CallsOf(r) : HasWon(r, b) /\ CallOf(r, b).key = CallOf(s, c).key
  BY DEF WonInv
<1> DEFINE After ==
      /\ \A s \in Threads : \A c \in CallsOf(s) : WonAfter(s, c) => Marked(mem', file, CallOf(s, c).key)
      /\ \A s, r \in Threads : \A b \in CallsOf(s), c \in CallsOf(r) :
           WonAfter(s, b) /\ WonAfter(r, c) /\ CallOf(s, b).key = CallOf(r, c).key => s = r /\ b = c
      /\ \A s \in Threads : \A c \in CallsOf(s) : CallOf(s, c).kind = "add" /\ Marked(mem', file, CallOf(s, c).key) =>
           \E r \in Threads : \E b \in CallsOf(r) : WonAfter(r, b) /\ CallOf(r, b).key = CallOf(s, c).key
<1>6. ASSUME NobodyWins(t) PROVE After
  <2>1. \A s \in Threads : \A c \in CallsOf(s) : WonAfter(s, c) <=> HasWon(s, c)
    BY <1>1, <1>6 DEF NobodyWins
  <2>2. \A s \in Threads : \A c \in CallsOf(s) : CallOf(s, c).kind = "add" =>
          (Marked(mem', file, CallOf(s, c).key) <=> Marked(mem, file, CallOf(s, c).key))
    BY <1>3, <1>6 DEF NobodyWins
  <2>3. \A s \in Threads : \A c \in CallsOf(s) : WonAfter(s, c) => Marked(mem', file, CallOf(s, c).key)
    BY <1>4, <1>5, <2>1, <2>2
  <2>4. \A s, r \in Threads : \A b \in CallsOf(s), c \in CallsOf(r) :
           WonAfter(s, b) /\ WonAfter(r, c) /\ CallOf(s, b).key = CallOf(r, c).key => s = r /\ b = c
    BY <1>5, <2>1
  <2>5. ASSUME NEW s \in Threads, NEW c \in CallsOf(s), CallOf(s, c).kind = "add", Marked(mem', file, CallOf(s, c).key)
        PROVE  \E r \in Threads : \E b \in CallsOf(r) : WonAfter(r, b) /\ CallOf(r, b).key = CallOf(s, c).key
    BY <1>5, <2>1, <2>2, <2>5
  <2> QED BY <2>3, <2>4, <2>5
<1>7. ASSUME NEW o, Wins(t, o) PROVE After
  <2>1. \A s \in Threads : \A c \in CallsOf(s) : WonAfter(s, c) <=> HasWon(s, c) \/ (s = t /\ c = o)
    BY <1>1, <1>7 DEF Wins
  <2>2. \A s \in Threads : \A c \in CallsOf(s) : CallOf(s, c).kind = "add" =>
          (Marked(mem', file, CallOf(s, c).key) <=> Marked(mem, file, CallOf(s, c).key) \/ CallOf(s, c).key = CallOf(t, o).key)
    BY <1>3, <1>7 DEF Wins
  <2>3. o \in CallsOf(t) /\ CallOf(t, o).kind = "add" /\ ~Marked(mem, file, CallOf(t, o).key)
    BY <1>7 DEF Wins
  <2>4. \A s \in Threads : \A c \in CallsOf(s) : WonAfter(s, c) => Marked(mem', file, CallOf(s, c).key)
    BY <1>4, <1>5, <2>1, <2>2, <2>3
  <2>5. ASSUME NEW s \in Threads, NEW r \in Threads, NEW b \in CallsOf(s), NEW c \in CallsOf(r),
               WonAfter(s, b), WonAfter(r, c), CallOf(s, b).key = CallOf(r, c).key
        PROVE  s = r /\ b = c
    BY <1>5, <2>1, <2>3, <2>5
  <2>6. ASSUME NEW s \in Threads, NEW c \in CallsOf(s), CallOf(s, c).kind = "add", Marked(mem', file, CallOf(s, c).key)
        PROVE  \E r \in Threads : \E b \in CallsOf(r) : WonAfter(r, b) /\ CallOf(r, b).key = CallOf(s, c).key
    BY <1>5, <2>1, <2>2, <2>3, <2>6
  <2> QED BY <2>4, <2>5, <2>6
<1> HIDE DEF After
<1>8. After
  BY <1>6, <1>7
<1>9. \A s \in Threads : \A c \in CallsOf(s) : HasWon(s, c)' <=> WonAfter(s, c)
  BY <1>2 DEF HasWon, WonAfter
<1> QED BY <1>2, <1>8, <1>9 DEF WonInv, After

StepResult(t) == StepFits(t) /\ (NobodyWins(t) \/ \E o : Wins(t, o))
InCall == {"probe", "recheck", "claim", "value"}

(* Thread t goes on with its call, at l, with idx i.                       *)
Moves(t, l, i) ==
  /\ OthersStay(t) /\ tpc'[t] = l /\ idx'[t] = i /\ called'[t] = called[t] /\ rets'[t] = rets[t]
  /\ l \in InCall /\ i \in Entry
Ends(t, r) ==
  /\ OthersStay(t) /\ tpc'[t] = "loop" /\ idx'[t] = idx[t] /\ called'[t] = called[t] /\ rets'[t] = Append(rets[t], r)
  /\ r \in {0, 1}

LEMMA WentIs ==
  ASSUME ThreadInv, NEW t \in Threads, NEW l \in InCall, Relaxed!Went(t, l), UNCHANGED <<mpc, nth, total, file>>
  PROVE  Moves(t, l, idx[t])
BY DEF ThreadInv, ThreadFits, Relaxed!Went, Relaxed!Goto, Moves, OthersStay

LEMMA TryNextIs ==
  ASSUME ThreadInv, NEW t \in Threads, Relaxed!TryNext(t), UNCHANGED <<mpc, nth, total, file>>
  PROVE  Moves(t, "probe", NextEntry(idx[t]))
<1>1. idx[t] \in Entry
  BY DEF ThreadInv, ThreadFits
<1>2. NextEntry(idx[t]) \in Entry
  BY <1>1, NextEntryIs
<1> QED BY <1>2 DEF ThreadInv, Relaxed!TryNext, Relaxed!Goto, Moves, OthersStay, InCall, NextEntry

LEMMA ReturnIs ==
  ASSUME ThreadInv, NEW t \in Threads, NEW r \in {0, 1}, Relaxed!Return(t, r), UNCHANGED <<mpc, nth, total, file>>
  PROVE  Ends(t, r)
BY DEF ThreadInv, Relaxed!Return, Relaxed!Goto, Ends, OthersStay

LEMMA MovesFit ==
  ASSUME ThreadInv, NEW t \in Threads, tpc[t] \in InCall, NEW l, NEW i, Moves(t, l, i)
  PROVE  /\ ThreadFits(t, tpc'[t], idx'[t], called'[t], rets'[t])
         /\ called[t] \in CallsOf(t) /\ called'[t] = called[t] /\ tpc'[t] = l /\ idx'[t] = i
         /\ \A c \in CallsOf(t) : c # called[t] => (WonAfter(t, c) <=> HasWon(t, c))
         /\ HasWon(t, called[t]) <=> CallOf(t, called[t]).kind = "add" /\ file = "hashtable1" /\ tpc[t] = "value"
         /\ WonAfter(t, called[t]) <=> CallOf(t, called[t]).kind = "add" /\ file = "hashtable1" /\ l = "value"
<1>1. called[t] \in CallsOf(t) /\ Len(rets[t]) + 1 = called[t] /\ Len(rets[t]) \in Nat
  BY ActiveCall DEF InCall
<1>2. called[t] \notin 1..Len(rets[t])
  BY <1>1
<1>3. ThreadFits(t, tpc[t], idx[t], called[t], rets[t])
  BY DEF ThreadInv
<1>4. ThreadFits(t, tpc'[t], idx'[t], called'[t], rets'[t])
  BY <1>3 DEF ThreadFits, Moves, InCall
<1> QED BY <1>1, <1>2, <1>4 DEF Moves, WonAfter, HasWon, Won

LEMMA EndsFit ==
  ASSUME ThreadInv, NEW t \in Threads, tpc[t] \in InCall, NEW r, Ends(t, r)
  PROVE  /\ ThreadFits(t, tpc'[t], idx'[t], called'[t], rets'[t])
         /\ called[t] \in CallsOf(t) /\ called'[t] = called[t] /\ tpc'[t] = "loop" /\ Len(rets[t]) + 1 = called[t]
         /\ \A c \in CallsOf(t) : c # called[t] => (WonAfter(t, c) <=> HasWon(t, c))
         /\ HasWon(t, called[t]) <=> CallOf(t, called[t]).kind = "add" /\ file = "hashtable1" /\ tpc[t] = "value"
         /\ WonAfter(t, called[t]) <=> CallOf(t, called[t]).kind = "add" /\ r = 1
<1>1. called[t] \in CallsOf(t) /\ Len(rets[t]) + 1 = called[t] /\ Len(rets[t]) \in Nat
  BY ActiveCall DEF InCall
<1>2. ThreadFits(t, tpc[t], idx[t], called[t], rets[t])
  BY DEF ThreadInv
<1>3. rets[t] \in Seq({0, 1}) /\ r \in {0, 1} /\ rets'[t] = Append(rets[t], r)
  BY <1>2 DEF ThreadFits, Ends
<1>4. PICK n, k : n = Len(rets[t]) /\ k = Len(rets'[t])
  OBVIOUS
<1>5. rets'[t] \in Seq({0, 1}) /\ k = n + 1 /\ rets'[t][n + 1] = r /\ \A c \in 1..n : rets'[t][c] = rets[t][c]
  BY <1>3, <1>4, AppendProperties
<1>6. n \in Nat /\ called[t] = n + 1 /\ n + 1 \notin 1..n /\ n + 1 \in 1..k /\ \A c \in CallsOf(t) : c # n + 1 => (c \in 1..k <=> c \in 1..n)
  BY <1>1, <1>4, <1>5 DEF CallsOf
<1>7. ThreadFits(t, tpc'[t], idx'[t], called'[t], rets'[t])
  BY <1>2, <1>4, <1>5, <1>6 DEF ThreadFits, Ends
<1>8. \A c \in CallsOf(t) : c # called[t] => (WonAfter(t, c) <=> HasWon(t, c))
  BY <1>4, <1>5, <1>6 DEF Ends, WonAfter, HasWon, Won
<1>9. HasWon(t, called[t]) <=> CallOf(t, called[t]).kind = "add" /\ file = "hashtable1" /\ tpc[t] = "value"
  BY <1>4, <1>6 DEF HasWon, Won
<1>10. WonAfter(t, called[t]) <=> CallOf(t, called[t]).kind = "add" /\ r = 1
  BY <1>4, <1>5, <1>6 DEF Ends, WonAfter, Won
<1> QED BY <1>1, <1>7, <1>8, <1>9, <1>10 DEF Ends

LEMMA PathsStay ==
  ASSUME PathInv, NEW t, Grows(t), KeysSame
  PROVE  PathInv'
BY BeforeEntries DEF PathInv, Passed, KeysSame

LEMMA MarksStay ==
  ASSUME KeysSame, file = "hashtable1" \/ ValuesSame
  PROVE  \A k : Marked(mem', file, k) <=> Marked(mem, file, k)
BY DEF KeysSame, ValuesSame, Marked

LEMMA Begins ==
  ASSUME SharedInv, StepsInv, NEW t \in Threads, Relaxed!Begin(t), file' = file
  PROVE  StepResult(t)
<1> DEFINE n == called[t] + 1
           o == CallOf(t, n)
<1>1. ThreadFits(t, tpc[t], idx[t], called[t], rets[t]) /\ tpc[t] = "loop" /\ called[t] < Len(Calls[t + 1])
  BY DEF StepsInv, ThreadInv, Relaxed!Begin
<1>2. n \in CallsOf(t) /\ n \in 0..Len(Calls[t + 1]) /\ n - 1 = called[t]
  BY <1>1, CallTypes DEF ThreadFits, CallsOf
<1>3. o.key \in Nat /\ o.key # 0 /\ Home(o.key) \in Entry
  BY <1>2, CallTypes, HomeType
<1>4. /\ OthersStay(t) /\ tpc'[t] = "probe" /\ called'[t] = n /\ rets'[t] = rets[t] /\ idx'[t] = Home(o.key)
      /\ UNCHANGED <<mem, view, joinLock>>
  BY DEF Relaxed!Begin, Relaxed!Goto, Relaxed!mainVars, StepsInv, ThreadInv, OthersStay, Home, CallOf
<1>5. MemInv' /\ ViewInv' /\ PathInv' /\ Grows(t) /\ KeysSame /\ ValuesSame
  BY <1>4 DEF SharedInv, MemInv, ViewInv, PathInv, Grows, KeysSame, ValuesSame, OthersStay
<1> HIDE DEF n, o
<1>6. ThreadFits(t, tpc'[t], idx'[t], called'[t], rets'[t])
  BY <1>1, <1>2, <1>3, <1>4 DEF ThreadFits
<1>7. Search(mem', view'[t], tpc'[t], idx'[t], CallOf(t, called'[t]))
  BY <1>3, <1>4, NotBeforeItself DEF Search, Passed, o
<1>8. StepFits(t)
  BY <1>1, <1>4, <1>5, <1>6, <1>7 DEF StepFits, KeysSame
<1>9. NobodyWins(t)
  BY <1>1, <1>4, <1>5, MarksStay DEF NobodyWins, WonAfter, HasWon, Won
<1> QED BY <1>8, <1>9 DEF StepResult

(* A step that moves on in its call, after a load.                         *)
LEMMA MoveResult ==
  ASSUME SharedInv, StepsInv, NEW t \in Threads, tpc[t] \in InCall \ {"value"}, NEW l, NEW i, Moves(t, l, i),
         MemInv', ViewInv', Grows(t), KeysSame, ValuesSame,
         Search(mem', view'[t], l, i, CallOf(t, called[t])),
         l = "value" => CallOf(t, called[t]).kind # "add" \/ file # "hashtable1"
  PROVE  StepResult(t)
<1>1. ThreadInv /\ PathInv'
  BY PathsStay DEF SharedInv, StepsInv
<1>2. /\ ThreadFits(t, tpc'[t], idx'[t], called'[t], rets'[t])
      /\ called[t] \in CallsOf(t) /\ called'[t] = called[t] /\ tpc'[t] = l /\ idx'[t] = i
      /\ \A c \in CallsOf(t) : c # called[t] => (WonAfter(t, c) <=> HasWon(t, c))
      /\ HasWon(t, called[t]) <=> CallOf(t, called[t]).kind = "add" /\ file = "hashtable1" /\ tpc[t] = "value"
      /\ WonAfter(t, called[t]) <=> CallOf(t, called[t]).kind = "add" /\ file = "hashtable1" /\ l = "value"
  BY <1>1, MovesFit
<1>3. OthersStay(t) /\ rets'[t] = rets[t] /\ l \in InCall
  BY DEF Moves
<1>4. StepFits(t)
  BY <1>1, <1>2, <1>3 DEF StepFits, KeysSame, InCall
<1>5. NobodyWins(t)
  BY <1>2, MarksStay DEF NobodyWins
<1> QED BY <1>4, <1>5 DEF StepResult

(* A step that ends its call with r.                                       *)
LEMMA EndFits ==
  ASSUME SharedInv, StepsInv, NEW t \in Threads, tpc[t] \in InCall, NEW r, Ends(t, r),
         MemInv', ViewInv', Grows(t), KeysSame,
         Returned(mem', view'[t], file, r, CallOf(t, called[t])),
         CallOf(t, called[t]).kind = "get" /\ r = 0 => ~Found(mem, view[t], CallOf(t, called[t]).key),
         tpc[t] = "value" /\ CallOf(t, called[t]).kind # "get" => Sees(view'[t], ValueOf(idx[t]))
  PROVE  StepFits(t)
<1>1. ThreadInv /\ PathInv'
  BY PathsStay DEF SharedInv, StepsInv
<1>2. /\ ThreadFits(t, tpc'[t], idx'[t], called'[t], rets'[t])
      /\ called[t] \in CallsOf(t) /\ called'[t] = called[t] /\ tpc'[t] = "loop" /\ Len(rets[t]) + 1 = called[t]
  BY <1>1, EndsFit
<1>3. OthersStay(t) /\ r \in {0, 1} /\ rets'[t] = Append(rets[t], r)
  BY DEF Ends
<1>4. ReturnsOne(t, r, CallOf(t, called[t]))
  BY <1>2, <1>3 DEF ReturnsOne
<1>5. Search(mem', view'[t], tpc'[t], idx'[t], CallOf(t, called'[t]))
  BY <1>2 DEF Search
<1> QED BY <1>1, <1>2, <1>3, <1>4, <1>5 DEF StepFits, KeysSame, InCall

LEMMA EndResult ==
  ASSUME ThreadInv, NEW t \in Threads, tpc[t] \in InCall, NEW r, Ends(t, r), StepFits(t),
         CallOf(t, called[t]).kind = "add" => (r = 1 <=> file = "hashtable1" /\ tpc[t] = "value"),
         \A k : AddKey(k) => (Marked(mem', file, k) <=> Marked(mem, file, k))
  PROVE  StepResult(t)
<1>1. /\ \A c \in CallsOf(t) : c # called[t] => (WonAfter(t, c) <=> HasWon(t, c))
      /\ HasWon(t, called[t]) <=> CallOf(t, called[t]).kind = "add" /\ file = "hashtable1" /\ tpc[t] = "value"
      /\ WonAfter(t, called[t]) <=> CallOf(t, called[t]).kind = "add" /\ r = 1
  BY EndsFit
<1>2. NobodyWins(t)
  BY <1>1 DEF NobodyWins
<1> QED BY <1>2 DEF StepResult

(* A search that finds a free entry would have seen its key.               *)
LEMMA FreeMeansUnseen ==
  ASSUME MemInv, NEW v, GoodView(mem, v), NEW k \in Nat, k # 0, NEW f \in Entry, Passed(mem, k, f), ~Sees(v, KeyOf(f))
  PROVE  ~Located(mem, v, k) /\ ~Found(mem, v, k)
<1> SUFFICES ASSUME NEW e \in Entry, KeyAt(mem, e) = k, Sees(v, KeyOf(e)) PROVE FALSE
  BY DEF Located, Found
<1>1. Home(k) \in Entry
  BY HomeType
<1>2. e = f \/ e \in Before(Home(k), f) \/ f \in Before(Home(k), e)
  BY <1>1, DistanceOrder
<1> QED BY <1>2 DEF Passed, GoodView

LEMMA PassNext ==
  ASSUME NEW m, NEW v, NEW k \in Nat, NEW i \in Entry, Passed(m, k, i), \A d \in Before(Home(k), i) : Sees(v, KeyOf(d)),
         KeyAt(m, i) \notin {0, k}, Sees(v, KeyOf(i))
  PROVE  Passed(m, k, NextEntry(i)) /\ \A d \in Before(Home(k), NextEntry(i)) : Sees(v, KeyOf(d))
<1>1. \A d \in Before(Home(k), NextEntry(i)) : d = i \/ d \in Before(Home(k), i)
  BY HomeType, BeforeNext
<1> QED BY <1>1 DEF Passed

LEMMA Probes ==
  ASSUME SharedInv, StepsInv, NEW t \in Threads, Relaxed!Probe(t), file' = file
  PROVE  StepResult(t)
<1> DEFINE j == idx[t]
           o == CallOf(t, called[t])
<1>1. /\ tpc[t] \in {"probe", "recheck"} /\ UNCHANGED <<mem, joinLock>> /\ UNCHANGED <<mpc, nth, total, file>>
      /\ Relaxed!Op(t) = o
  BY DEF Relaxed!Probe, Relaxed!mainVars, Relaxed!Op, CallOf
<1>2. PICK i \in Relaxed!Choice(t, KeyOf(j)) :
       /\ Relaxed!Loaded(t, KeyOf(j), i)
       /\ CASE Relaxed!ValueAt(KeyOf(j), i) = o.key -> Relaxed!HasKey(t)
            [] Relaxed!ValueAt(KeyOf(j), i) \notin {0, o.key} -> Relaxed!TryNext(t)
            [] Relaxed!ValueAt(KeyOf(j), i) = 0 /\ tpc[t] = "recheck" -> Relaxed!TryNext(t)
            [] Relaxed!ValueAt(KeyOf(j), i) = 0 /\ tpc[t] = "probe" ->
                 IF o.kind = "get" THEN Relaxed!Return(t, 0) ELSE Relaxed!Went(t, "claim")
  BY <1>1 DEF Relaxed!Probe, KeyOf
<1>3. MemInv /\ ViewInv /\ ThreadInv /\ PathInv /\ GoodView(mem, view[t])
  BY ThreadNames DEF SharedInv, StepsInv, ViewInv
<1>4. /\ j \in Entry /\ KeyOf(j) \in TableLoc /\ o.key \in Nat /\ o.key # 0 /\ tpc[t] \in InCall \ {"value"}
      /\ called[t] \in CallsOf(t) /\ o.kind \in {"set", "get", "add"}
  <2>1. j \in Entry
    BY <1>3 DEF ThreadInv, ThreadFits
  <2>2. called[t] \in CallsOf(t)
    BY <1>1, <1>3, ActiveCall
  <2> QED BY <1>1, <2>1, <2>2, EntryNames, CallTypes DEF InCall
<1>5. Search(mem, view[t], tpc[t], j, o)
  BY DEF StepsInv, SearchInv
<1>6. /\ MemInv' /\ ViewInv' /\ Grows(t) /\ KeysSame /\ ValuesSame /\ mem' = mem
      /\ \A k : Marked(mem', file, k) <=> Marked(mem, file, k)
  BY <1>1, <1>2, <1>3, <1>4, Loads, MarksStay
<1> DEFINE probed == Relaxed!ValueAt(KeyOf(j), i)
<1>7. /\ probed = 0 => ~Sees(view[t], KeyOf(j))
      /\ probed # 0 => probed = KeyAt(mem, j) /\ Sees(view'[t], KeyOf(j))
  BY <1>1, <1>2, <1>3, <1>4, LoadsKey
<1>8. /\ Passed(mem, o.key, j) /\ \A d \in Before(Home(o.key), j) : Sees(view[t], KeyOf(d)) /\ Sees(view'[t], KeyOf(d))
      /\ tpc[t] = "recheck" => Sees(view[t], KeyOf(j))
  <2>1. Passed(mem, o.key, j) /\ \A d \in Before(Home(o.key), j) : Sees(view[t], KeyOf(d))
    BY <1>1, <1>5 DEF Search
  <2>2. \A d \in Before(Home(o.key), j) : KeyOf(d) \in TableLoc
    BY BeforeEntries, EntryNames
  <2> QED BY <1>5, <1>6, <2>1, <2>2, ThreadNames DEF Grows, Search
<1> HIDE DEF j, o, probed
<1>9. CASE probed = o.key
  <2>1. Relaxed!HasKey(t)
    BY <1>2, <1>4, <1>9 DEF probed
  <2>2. KeyAt(mem', j) = o.key /\ Sees(view'[t], KeyOf(j))
    BY <1>4, <1>6, <1>7, <1>9
  <2>3. CASE file = "hashtable1" /\ o.kind = "add"
    <3>1. Relaxed!Return(t, 0)
      BY <1>1, <2>1, <2>3 DEF Relaxed!HasKey
    <3>2. Ends(t, 0)
      BY <1>1, <1>3, <3>1, ReturnIs
    <3>3. Returned(mem', view'[t], file, 0, o)
      BY <1>4, <2>2, <2>3 DEF Returned, Located
    <3>4. StepFits(t)
      BY <1>4, <1>6, <2>3, <3>2, <3>3, EndFits DEF o
    <3> QED BY <1>3, <1>4, <1>6, <3>2, <3>4, EndResult DEF o
  <2>4. CASE ~(file = "hashtable1" /\ o.kind = "add")
    <3>1. Relaxed!Went(t, "value")
      BY <1>1, <2>1, <2>4 DEF Relaxed!HasKey
    <3>2. Moves(t, "value", j)
      BY <1>1, <1>3, <3>1, WentIs DEF j, InCall
    <3>3. Search(mem', view'[t], "value", j, o)
      BY <2>2 DEF Search
    <3> QED BY <1>4, <1>6, <2>4, <3>2, <3>3, MoveResult DEF o
  <2> QED BY <2>3, <2>4
<1>10. CASE probed \notin {0, o.key}
  <2>1. Relaxed!TryNext(t)
    BY <1>2, <1>4, <1>10 DEF probed
  <2>2. Moves(t, "probe", NextEntry(j))
    BY <1>1, <1>3, <2>1, TryNextIs DEF j
  <2>3. Passed(mem', o.key, NextEntry(j)) /\ \A d \in Before(Home(o.key), NextEntry(j)) : Sees(view'[t], KeyOf(d))
    BY <1>4, <1>6, <1>7, <1>8, <1>10, PassNext
  <2>4. Search(mem', view'[t], "probe", NextEntry(j), o)
    BY <2>3 DEF Search
  <2> QED BY <1>4, <1>6, <2>2, <2>4, MoveResult DEF o
<1>11. CASE probed = 0
  <2>1. tpc[t] = "probe" /\ ~Sees(view[t], KeyOf(j))
    BY <1>1, <1>7, <1>8, <1>11
  <2>2. IF o.kind = "get" THEN Relaxed!Return(t, 0) ELSE Relaxed!Went(t, "claim")
    BY <1>2, <1>4, <1>11, <2>1 DEF probed
  <2>3. CASE o.kind = "get"
    <3>1. Ends(t, 0)
      BY <1>1, <1>3, <2>2, <2>3, ReturnIs
    <3>2. Returned(mem', view'[t], file, 0, o)
      BY <2>3 DEF Returned
    <3>3. ~Found(mem, view[t], o.key)
      BY <1>3, <1>4, <1>8, <2>1, FreeMeansUnseen
    <3>4. StepFits(t)
      BY <1>4, <1>6, <2>1, <3>1, <3>2, <3>3, EndFits DEF o
    <3> QED BY <1>3, <1>4, <1>6, <2>3, <3>1, <3>4, EndResult DEF o
  <2>4. CASE o.kind # "get"
    <3>1. Moves(t, "claim", j)
      BY <1>1, <1>3, <2>2, <2>4, WentIs DEF j, InCall
    <3>2. Search(mem', view'[t], "claim", j, o)
      BY <1>6, <1>8, <2>4 DEF Search
    <3> QED BY <1>4, <1>6, <3>1, <3>2, MoveResult DEF o
  <2> QED BY <2>3, <2>4
<1> QED BY <1>9, <1>10, <1>11

Tables == {"hashtable_atomic_ra", "hashtable1"}

LEMMA AddKeys ==
  /\ \A k : AddKey(k) => k \in Nat /\ k # 0
  /\ \A t \in Threads : \A c \in CallsOf(t) : CallOf(t, c).kind = "set" => ~AddKey(CallOf(t, c).key)
<1>1. \A k : AddKey(k) => k \in Nat /\ k # 0
  BY CallTypes DEF AddKey
<1>2. ASSUME NEW s \in Threads, NEW t \in Threads, NEW b \in CallsOf(s), NEW c \in CallsOf(t),
             CallOf(s, b).kind = "set", CallOf(t, c).kind = "add"
      PROVE  CallOf(s, b).key # CallOf(t, c).key
  <2>1. s + 1 \in 1..NThreads /\ t + 1 \in 1..NThreads
    BY ThreadNames
  <2>2. b \in DOMAIN Calls[s + 1] /\ c \in DOMAIN Calls[t + 1]
    BY CallTypes
  <2> QED BY <1>2, <2>1, <2>2, CallsAssumption DEF CallOf
<1> QED BY <1>1, <1>2 DEF AddKey

(* A claim does not mark its key before its value is stored, unless it is  *)
(* one of hashtable1.                                                      *)
LEMMA ClaimMarks ==
  ASSUME MemInv, NEW e \in Entry, KeyAt(mem, e) = 0, NEW o, KeyAt(mem', e) = o, ValuesSame,
         \A d \in Entry : d # e => KeyAt(mem', d) = KeyAt(mem, d), NEW k, k # 0
  PROVE  Marked(mem', file, k) <=> Marked(mem, file, k) \/ (file # "hashtable_atomic_ra" /\ k = o)
<1>1. Len(mem[ValueOf(e)]) = 1
  BY DEF MemInv, MemGood, ValueMessages
<1>2. \A d \in Entry : Len(mem'[ValueOf(d)]) = Len(mem[ValueOf(d)])
  BY DEF ValuesSame
<1>3. ~(Len(mem'[ValueOf(e)]) >= 2)
  <2>1. PICK n : n = Len(mem'[ValueOf(e)])
    OBVIOUS
  <2>2. n = 1
    BY <1>1, <1>2, <2>1
  <2> QED BY <2>1, <2>2
<1> QED BY <1>2, <1>3 DEF Marked

LEMMA ClaimWins ==
  ASSUME SharedInv, StepsInv, file \in Tables, file' = file, UNCHANGED <<mpc, nth, total>>,
         NEW t \in Threads, tpc[t] = "claim", NEW j \in Entry, j = idx[t],
         NEW o, o = CallOf(t, called[t]), NEW i \in Relaxed!Choice(t, KeyOf(j)),
         Relaxed!CasWins(t, KeyOf(j), i, o.key), Relaxed!Went(t, "value")
  PROVE  StepResult(t)
<1>1. MemInv /\ ViewInv /\ ThreadInv /\ PathInv /\ MemGood(mem, file) /\ GoodView(mem, view[t]) /\ t \in Holder
  BY ThreadNames DEF SharedInv, StepsInv, ViewInv, MemInv
<1>2. /\ KeyOf(j) \in TableLoc /\ o.key \in Nat /\ o.key # 0 /\ tpc[t] \in InCall
      /\ called[t] \in CallsOf(t) /\ o.kind \in {"set", "get", "add"}
  BY <1>1, ActiveCall, EntryNames, CallTypes DEF InCall
<1>3. Moves(t, "value", j)
  BY <1>1, WentIs DEF InCall
<1>4. /\ Passed(mem, o.key, j) /\ \A d \in Before(Home(o.key), j) : Sees(view[t], KeyOf(d))
      /\ o.kind # "get"
  BY DEF StepsInv, SearchInv, Search
<1> DEFINE l == KeyOf(j)
           v == Relaxed!Joined(view[t], mem[l][i].view)
<1>5. /\ mem[l][i].val = 0 /\ i + 1 \in Relaxed!Places(mem, v, l)
      /\ Relaxed!Written(t, v, l, i + 1, o.key, TRUE)
  BY DEF Relaxed!CasWins, Relaxed!ValueAt, Relaxed!Acquired
<1>6. i \in 1..Len(mem[l])
  BY <1>1, <1>2, Chosen
<1>7. GoodView(mem, v) /\ \A k \in TableLoc : Sees(view[t], k) => Sees(v, k)
  <2>1. GoodView(mem, mem[l][i].view)
    BY <1>1, <1>2, <1>6 DEF MemGood, MessageViews
  <2> QED BY <1>1, <2>1, GoodJoined
<1> HIDE DEF v
<1>8. i = 1 /\ KeyAt(mem, j) = 0
  <2>1. /\ Len(mem[l]) \in {1, 2} /\ (Len(mem[l]) = 1 => KeyAt(mem, j) = 0)
        /\ Len(mem[l]) = 2 => KeyAt(mem, j) = mem[l][2].val /\ mem[l][2].cas /\ KeyAt(mem, j) # 0
    BY <1>1, KeyAtIs
  <2>2. PICK n \in {1, 2} : n = Len(mem[l])
    BY <2>1
  <2>3. i = 1 \/ (i = 2 /\ n = 2)
    <3>1. i \in 1..n
      BY <1>6, <2>2
    <3> QED BY <3>1
  <2>4. i = 1
    BY <1>5, <2>1, <2>2, <2>3
  <2>5. n # 2
    BY <1>5, <2>1, <2>2, <2>4 DEF Relaxed!Places
  <2> QED BY <2>1, <2>2, <2>4, <2>5
<1>9. Relaxed!Written(t, v, l, 2, o.key, TRUE)
  <2>1. i + 1 = 2
    BY <1>8
  <2> QED BY <1>5, <2>1
<1>10. \A d \in Before(Home(o.key), j) : Sees(v, KeyOf(d))
  BY <1>4, <1>7, BeforeEntries, EntryNames
<1>11. /\ MemInv' /\ ViewInv' /\ Grows(t) /\ ValuesSame /\ Sees(view'[t], l)
       /\ KeyAt(mem', j) = o.key /\ \A d \in Entry : d # j => KeyAt(mem', d) = KeyAt(mem, d)
  <2>1. ClaimStep(t, j, v, o.key)
    BY <1>2, <1>7, <1>8, <1>9, <1>10 DEF ClaimStep
  <2> QED BY <1>1, <2>1, StoresKey
<1>12. PathInv'
  <2> SUFFICES ASSUME NEW e \in Entry, KeyAt(mem', e) # 0, NEW d \in Before(Home(KeyAt(mem', e)), e)
               PROVE  KeyAt(mem', d) \notin {0, KeyAt(mem', e)}
    BY DEF PathInv, Passed
  <2>1. d \in Entry
    BY BeforeEntries
  <2>2. KeyAt(mem, d) \notin {0, KeyAt(mem', e)}
    <3>1. CASE e = j
      BY <1>4, <1>11, <3>1 DEF Passed
    <3>2. CASE e # j
      BY <1>1, <1>11, <3>2 DEF PathInv, Passed
    <3> QED BY <3>1, <3>2
  <2> QED BY <1>8, <1>11, <2>1, <2>2
<1>13. /\ ThreadFits(t, tpc'[t], idx'[t], called'[t], rets'[t])
       /\ called'[t] = called[t] /\ tpc'[t] = "value" /\ idx'[t] = j
       /\ \A c \in CallsOf(t) : c # called[t] => (WonAfter(t, c) <=> HasWon(t, c))
       /\ HasWon(t, called[t]) <=> CallOf(t, called[t]).kind = "add" /\ file = "hashtable1" /\ tpc[t] = "value"
       /\ WonAfter(t, called[t]) <=> CallOf(t, called[t]).kind = "add" /\ file = "hashtable1" /\ "value" = "value"
  BY <1>1, <1>2, <1>3, MovesFit
<1>14. StepFits(t)
  <2>1. Search(mem', view'[t], "value", j, o)
    BY <1>11 DEF Search
  <2>2. \A e \in Entry : KeyAt(mem, e) = 0 /\ KeyAt(mem', e) # 0 => Claimer(e, view'[t], "value", j, o)
    BY <1>4, <1>11 DEF Claimer
  <2>3. OthersStay(t) /\ rets'[t] = rets[t]
    BY <1>3 DEF Moves
  <2> QED BY <1>11, <1>12, <1>13, <2>1, <2>2, <2>3 DEF StepFits
<1>15. \A k : AddKey(k) => (Marked(mem', file, k) <=> Marked(mem, file, k) \/ (file # "hashtable_atomic_ra" /\ k = o.key))
  BY <1>1, <1>8, <1>11, ClaimMarks, AddKeys
<1>16. CASE file = "hashtable1" /\ o.kind = "add"
  <2>1. ~Marked(mem, file, o.key)
    BY <1>1, <1>2, <1>4, <1>8, FreeMeansAbsent DEF Marked
  <2>2. Wins(t, called[t])
    BY <1>2, <1>13, <1>15, <1>16, <2>1 DEF Wins
  <2> QED BY <1>14, <2>2 DEF StepResult
<1>17. CASE ~(file = "hashtable1" /\ o.kind = "add")
  <2>1. \A k : AddKey(k) => (Marked(mem', file, k) <=> Marked(mem, file, k))
    BY <1>2, <1>4, <1>15, <1>17, AddKeys DEF Tables
  <2>2. NobodyWins(t)
    BY <1>13, <1>17, <2>1 DEF NobodyWins
  <2> QED BY <1>14, <2>2 DEF StepResult
<1> QED BY <1>16, <1>17

LEMMA Claims ==
  ASSUME SharedInv, StepsInv, NEW t \in Threads, Relaxed!Claim(t), file' = file, file \in Tables
  PROVE  StepResult(t)
<1> DEFINE j == idx[t]
           o == CallOf(t, called[t])
<1>1. tpc[t] = "claim" /\ UNCHANGED <<mpc, nth, total, file>> /\ Relaxed!Op(t) = o
  BY DEF Relaxed!Claim, Relaxed!mainVars, Relaxed!Op, CallOf
<1>2. PICK i \in Relaxed!Choice(t, KeyOf(j)) :
        \/ Relaxed!CasWins(t, KeyOf(j), i, o.key) /\ Relaxed!Went(t, "value")
        \/ Relaxed!CasFails(t, KeyOf(j), i) /\ Relaxed!Went(t, "recheck")
  BY <1>1 DEF Relaxed!Claim, KeyOf
<1>3. MemInv /\ ViewInv /\ ThreadInv /\ j \in Entry /\ tpc[t] \in InCall \ {"value"}
  BY <1>1 DEF SharedInv, StepsInv, ThreadInv, ThreadFits, InCall
<1>4. Search(mem, view[t], tpc[t], j, o)
  BY DEF StepsInv, SearchInv
<1> HIDE DEF j
<1>5. CASE Relaxed!CasWins(t, KeyOf(j), i, o.key) /\ Relaxed!Went(t, "value")
  BY <1>1, <1>3, <1>5, ClaimWins DEF j
<1>6. CASE Relaxed!CasFails(t, KeyOf(j), i) /\ Relaxed!Went(t, "recheck")
  <2>1. /\ Relaxed!ValueAt(KeyOf(j), i) # 0 /\ Relaxed!Loaded(t, KeyOf(j), i)
        /\ UNCHANGED <<mem, joinLock, file>>
    BY <1>1, <1>6 DEF Relaxed!CasFails
  <2>2. Sees(view'[t], KeyOf(j))
    BY <1>3, <2>1, LoadsKey
  <2>3. MemInv' /\ ViewInv' /\ Grows(t) /\ KeysSame /\ ValuesSame
    BY <1>3, <2>1, Loads, EntryNames
  <2>4. Moves(t, "recheck", j)
    BY <1>1, <1>3, <1>6, WentIs DEF j, InCall
  <2>5. Passed(mem, o.key, j) /\ o.kind # "get" /\ \A d \in Before(Home(o.key), j) : Sees(view[t], KeyOf(d))
    BY <1>1, <1>4 DEF Search
  <2>6. \A d \in Before(Home(o.key), j) : Sees(view'[t], KeyOf(d))
    BY <2>3, <2>5, BeforeEntries, EntryNames, ThreadNames DEF Grows
  <2>7. Search(mem', view'[t], "recheck", j, o)
    BY <2>1, <2>2, <2>5, <2>6 DEF Search
  <2> QED BY <1>3, <2>3, <2>4, <2>7, MoveResult
<1> QED BY <1>2, <1>5, <1>6

(* The store of a value, by a call that is there.                          *)
LEMMA ValueResult ==
  ASSUME SharedInv, StepsInv, file \in Tables, file' = file, UNCHANGED <<mpc, nth, total>>,
         NEW t \in Threads, tpc[t] = "value", NEW j \in Entry, j = idx[t],
         NEW o, o = CallOf(t, called[t]), o.kind # "get",
         NEW v, NEW p, NEW cas, ValueStep(t, j, v, p, cas),
         NEW r \in {0, 1}, Relaxed!Return(t, r), o.kind = "add" <=> r = 1
  PROVE  StepResult(t)
<1>1. MemInv /\ ViewInv /\ ThreadInv /\ PathInv /\ MemGood(mem, file)
  BY DEF SharedInv, StepsInv, MemInv
<1>2. o.key \in Nat /\ o.key # 0 /\ called[t] \in CallsOf(t) /\ o.kind \in {"set", "add"} /\ tpc[t] \in InCall
  BY <1>1, ActiveCall, CallTypes DEF InCall
<1>3. Ends(t, r)
  BY <1>1, ReturnIs
<1>4. KeyAt(mem, j) = o.key /\ Sees(view[t], KeyOf(j))
  BY DEF StepsInv, SearchInv, Search
<1>5. /\ MemInv' /\ ViewInv' /\ Grows(t) /\ KeysSame /\ Sees(view'[t], ValueOf(j))
      /\ Len(mem'[ValueOf(j)]) >= 2
      /\ \A d \in Entry : d # j => Len(mem'[ValueOf(d)]) = Len(mem[ValueOf(d)])
  BY <1>1, StoresValue
<1>6. Sees(view'[t], KeyOf(j)) /\ KeyAt(mem', j) = o.key
  BY <1>4, <1>5, EntryNames, ThreadNames DEF Grows, KeysSame
<1>7. Returned(mem', view'[t], file, r, o)
  BY <1>5, <1>6 DEF Returned, Located, Found
<1>8. StepFits(t)
  BY <1>2, <1>3, <1>5, <1>7, EndFits
<1>9. \A d \in Entry : KeyAt(mem', d) = KeyAt(mem, d) /\ (KeyAt(mem, d) = o.key => d = j)
  BY <1>1, <1>2, <1>4, <1>5, OneEntry DEF KeysSame
<1>10. \A k : Marked(mem', file, k) <=> Marked(mem, file, k) \/ k = o.key
  <2>1. \A k : k # o.key => (Marked(mem', file, k) <=> Marked(mem, file, k))
    BY <1>4, <1>5, <1>9 DEF Marked
  <2>2. Marked(mem', file, o.key)
    BY <1>5, <1>6 DEF Marked
  <2> QED BY <2>1, <2>2
<1>11. CASE o.kind = "set"
  <2>1. \A k : AddKey(k) => (Marked(mem', file, k) <=> Marked(mem, file, k))
    BY <1>2, <1>10, <1>11, AddKeys
  <2> QED BY <1>1, <1>2, <1>3, <1>8, <1>11, <2>1, EndResult
<1>12. CASE o.kind = "add" /\ file = "hashtable1"
  <2>1. Marked(mem, file, o.key)
    BY <1>4, <1>12 DEF Marked
  <2>2. \A k : AddKey(k) => (Marked(mem', file, k) <=> Marked(mem, file, k))
    BY <1>10, <2>1
  <2> QED BY <1>1, <1>2, <1>3, <1>8, <1>12, <2>2, EndResult
<1>13. CASE o.kind = "add" /\ file = "hashtable_atomic_ra"
  <2>1. AddKey(o.key)
    BY <1>2, <1>13 DEF AddKey
  <2>2. Len(mem[ValueOf(j)]) = 1
    BY <1>4, <1>13, <2>1 DEF ValueStep
  <2>3. ~(Len(mem[ValueOf(j)]) >= 2)
    <3>1. PICK n : n = Len(mem[ValueOf(j)])
      OBVIOUS
    <3> QED BY <2>2, <3>1
  <2>4. ~Marked(mem, file, o.key)
    BY <1>9, <1>13, <2>3 DEF Marked
  <2>5. /\ \A c \in CallsOf(t) : c # called[t] => (WonAfter(t, c) <=> HasWon(t, c))
        /\ WonAfter(t, called[t])
    BY <1>1, <1>2, <1>3, <1>13, EndsFit
  <2>6. Wins(t, called[t])
    BY <1>2, <1>10, <1>13, <2>4, <2>5 DEF Wins
  <2> QED BY <1>8, <2>6 DEF StepResult
<1> QED BY <1>2, <1>11, <1>12, <1>13 DEF Tables

(* A place for a store, and the place after the message of a CAS.          *)
LEMMA Placed ==
  ASSUME SharedInv, NEW t \in Threads, NEW l \in TableLoc, NEW p \in Relaxed!Place(t, l)
  PROVE  p \in Nat /\ p >= 2 /\ p <= Len(mem[l]) + 1
<1>1. PICK j, n : j = view[t][l] /\ n = Len(mem[l])
  OBVIOUS
<1>2. j \in Nat /\ 1 <= j /\ j <= n /\ n \in Nat
  BY <1>1, Lengths, ThreadNames DEF SharedInv, ViewInv, GoodView, MemInv
<1>3. p = n + 1 \/ p \in j + 1 .. n + 1
  BY <1>1 DEF Relaxed!Place, Relaxed!Places
<1> QED BY <1>1, <1>2, <1>3

LEMMA StoresOver ==
  ASSUME SharedInv, StepsInv, file \in Tables, file' = file, UNCHANGED <<mpc, nth, total>>,
         NEW t \in Threads, tpc[t] = "value", NEW o, o = CallOf(t, called[t]), o.kind # "get",
         o.kind = "set" \/ file = "hashtable1",
         NEW p \in Relaxed!Place(t, ValueOf(idx[t])), Relaxed!Written(t, view[t], ValueOf(idx[t]), p, 1, FALSE),
         NEW r \in {0, 1}, Relaxed!Return(t, r), o.kind = "add" <=> r = 1
  PROVE  StepResult(t)
<1> DEFINE j == idx[t]
<1>1. ThreadInv /\ j \in Entry /\ ValueOf(j) \in TableLoc
  BY EntryNames DEF StepsInv, ThreadInv, ThreadFits
<1>2. p \in Nat /\ p >= 2 /\ p <= Len(mem[ValueOf(j)]) + 1
  BY <1>1, Placed
<1>3. called[t] \in CallsOf(t) /\ o.key # 0 /\ KeyAt(mem, j) = o.key
  BY <1>1, ActiveCall, CallTypes DEF StepsInv, SearchInv, Search
<1>4. ~(AddKey(KeyAt(mem, j)) /\ file = "hashtable_atomic_ra")
  BY <1>3, AddKeys
<1>5. GoodView(mem, view[t])
  BY ThreadNames DEF SharedInv, ViewInv
<1>6. ValueStep(t, j, view[t], p, FALSE)
  BY <1>1, <1>2, <1>3, <1>4, <1>5 DEF ValueStep
<1> HIDE DEF j
<1>7. j = idx[t]
  BY DEF j
<1> QED BY <1>1, <1>6, <1>7, ValueResult

LEMMA SetsValue ==
  ASSUME SharedInv, StepsInv, file \in Tables, file' = file, NEW t \in Threads, Relaxed!SetValue(t)
  PROVE  StepResult(t)
<1> DEFINE o == CallOf(t, called[t])
<1>1. /\ tpc[t] = "value" /\ o.kind = "set" /\ UNCHANGED <<mpc, nth, total>> /\ Relaxed!Return(t, 0)
      /\ \E p \in Relaxed!Place(t, ValueOf(idx[t])) : Relaxed!Written(t, view[t], ValueOf(idx[t]), p, 1, FALSE)
  BY DEF Relaxed!SetValue, Relaxed!mainVars, Relaxed!Op, CallOf, ValueOf
<1>2. PICK p \in Relaxed!Place(t, ValueOf(idx[t])) : Relaxed!Written(t, view[t], ValueOf(idx[t]), p, 1, FALSE)
  BY <1>1
<1>3. PICK r \in {0, 1} : r = 0 /\ Relaxed!Return(t, r)
  BY <1>1
<1>4. o.kind # "get" /\ (o.kind = "set" \/ file = "hashtable1") /\ (o.kind = "add" <=> r = 1)
  BY <1>1, <1>3
<1> QED BY <1>1, <1>2, <1>3, <1>4, StoresOver

LEMMA AddsValueSC ==
  ASSUME SharedInv, StepsInv, file \in Tables, file' = file, NEW t \in Threads, Relaxed!AddValueSC(t)
  PROVE  StepResult(t)
<1> DEFINE o == CallOf(t, called[t])
<1>1. /\ tpc[t] = "value" /\ o.kind = "add" /\ file = "hashtable1" /\ UNCHANGED <<mpc, nth, total>> /\ Relaxed!Return(t, 1)
      /\ \E p \in Relaxed!Place(t, ValueOf(idx[t])) : Relaxed!Written(t, view[t], ValueOf(idx[t]), p, 1, FALSE)
  BY DEF Relaxed!AddValueSC, Relaxed!mainVars, Relaxed!Op, CallOf, ValueOf
<1>2. PICK p \in Relaxed!Place(t, ValueOf(idx[t])) : Relaxed!Written(t, view[t], ValueOf(idx[t]), p, 1, FALSE)
  BY <1>1
<1>3. PICK r \in {0, 1} : r = 1 /\ Relaxed!Return(t, r)
  BY <1>1
<1>4. o.kind # "get" /\ (o.kind = "set" \/ file = "hashtable1") /\ (o.kind = "add" <=> r = 1)
  BY <1>1, <1>3
<1> QED BY <1>1, <1>2, <1>3, <1>4, StoresOver

(* A load of the value that ends the call with what it has read.           *)
LEMMA LoadResult ==
  ASSUME SharedInv, StepsInv, NEW t \in Threads, tpc[t] = "value", NEW j \in Entry, j = idx[t],
         NEW o, o = CallOf(t, called[t]), NEW i \in Relaxed!Choice(t, ValueOf(j)), Relaxed!Loaded(t, ValueOf(j), i),
         UNCHANGED <<mem, joinLock, file>>, UNCHANGED <<mpc, nth, total>>, NEW r, Relaxed!Return(t, r),
         \/ o.kind = "get" /\ r = Relaxed!ValueAt(ValueOf(j), i)
         \/ o.kind = "add" /\ file = "hashtable_atomic_ra" /\ r = 0 /\ Relaxed!ValueAt(ValueOf(j), i) # 0
  PROVE  StepResult(t)
<1>1. MemInv /\ ViewInv /\ ThreadInv /\ PathInv
  BY DEF SharedInv, StepsInv
<1>2. o.key \in Nat /\ o.key # 0 /\ called[t] \in CallsOf(t) /\ tpc[t] \in InCall
  BY <1>1, ActiveCall, CallTypes DEF InCall
<1>3. KeyAt(mem, j) = o.key /\ Sees(view[t], KeyOf(j))
  BY DEF StepsInv, SearchInv, Search
<1>4. /\ Relaxed!ValueAt(ValueOf(j), i) \in {0, 1}
      /\ Relaxed!ValueAt(ValueOf(j), i) = 0 => ~Sees(view[t], ValueOf(j))
      /\ Relaxed!ValueAt(ValueOf(j), i) # 0 => Sees(view'[t], ValueOf(j))
  BY <1>1, LoadsValue
<1>5. MemInv' /\ ViewInv' /\ Grows(t) /\ KeysSame /\ ValuesSame
  BY <1>1, Loads, EntryNames
<1>6. Ends(t, r)
  BY <1>1, <1>4, ReturnIs
<1>7. Sees(view'[t], KeyOf(j)) /\ KeyAt(mem', j) = o.key
  BY <1>3, <1>5, EntryNames, ThreadNames DEF Grows
<1>8. Returned(mem', view'[t], file, r, o)
  BY <1>4, <1>7 DEF Returned, Located, Found
<1>9. o.kind = "get" /\ r = 0 => ~Found(mem, view[t], o.key)
  <2>1. \A e \in Entry : KeyAt(mem, e) = o.key => e = j
    BY <1>1, <1>2, <1>3, OneEntry
  <2> QED BY <1>4, <2>1 DEF Found
<1>10. o.kind # "get" => Sees(view'[t], ValueOf(j))
  BY <1>4
<1>11. StepFits(t)
  BY <1>2, <1>5, <1>6, <1>8, <1>9, <1>10, EndFits
<1>12. \A k : Marked(mem', file, k) <=> Marked(mem, file, k)
  BY <1>5, MarksStay
<1> QED BY <1>1, <1>2, <1>6, <1>11, <1>12, EndResult

LEMMA GetsValue ==
  ASSUME SharedInv, StepsInv, file' = file, NEW t \in Threads, Relaxed!GetValue(t)
  PROVE  StepResult(t)
<1> DEFINE j == idx[t]
           o == CallOf(t, called[t])
<1>1. /\ tpc[t] = "value" /\ o.kind = "get" /\ UNCHANGED <<mpc, nth, total>> /\ UNCHANGED <<mem, joinLock, file>>
      /\ \E i \in Relaxed!Choice(t, ValueOf(j)) :
           Relaxed!Loaded(t, ValueOf(j), i) /\ Relaxed!Return(t, Relaxed!ValueAt(ValueOf(j), i))
  BY DEF Relaxed!GetValue, Relaxed!mainVars, Relaxed!Op, CallOf, ValueOf
<1>2. PICK i \in Relaxed!Choice(t, ValueOf(j)) :
           Relaxed!Loaded(t, ValueOf(j), i) /\ Relaxed!Return(t, Relaxed!ValueAt(ValueOf(j), i))
  BY <1>1
<1>3. PICK r : r = Relaxed!ValueAt(ValueOf(j), i) /\ Relaxed!Return(t, r)
  BY <1>2
<1>4. j \in Entry
  BY DEF StepsInv, ThreadInv, ThreadFits
<1> QED BY <1>1, <1>2, <1>3, <1>4, LoadResult

LEMMA AddsValueRA ==
  ASSUME SharedInv, StepsInv, file \in Tables, file' = file, NEW t \in Threads, Relaxed!AddValueRA(t)
  PROVE  StepResult(t)
<1> DEFINE j == idx[t]
           o == CallOf(t, called[t])
           l == ValueOf(j)
<1>1. /\ tpc[t] = "value" /\ o.kind = "add" /\ file = "hashtable_atomic_ra" /\ UNCHANGED <<mpc, nth, total>>
      /\ \E i \in Relaxed!Choice(t, l) :
           \/ Relaxed!CasWins(t, l, i, 1) /\ Relaxed!Return(t, 1)
           \/ Relaxed!CasFails(t, l, i) /\ Relaxed!Return(t, 0)
  BY DEF Relaxed!AddValueRA, Relaxed!mainVars, Relaxed!Op, CallOf, ValueOf
<1>2. PICK i \in Relaxed!Choice(t, l) :
           \/ Relaxed!CasWins(t, l, i, 1) /\ Relaxed!Return(t, 1)
           \/ Relaxed!CasFails(t, l, i) /\ Relaxed!Return(t, 0)
  BY <1>1
<1>3. j \in Entry /\ l \in TableLoc /\ MemInv /\ ViewInv /\ ThreadInv
  BY EntryNames DEF SharedInv, StepsInv, ThreadInv, ThreadFits
<1>4. o.key # 0 /\ KeyAt(mem, j) = o.key /\ called[t] \in CallsOf(t)
  BY <1>1, <1>3, ActiveCall DEF StepsInv, SearchInv, Search
<1>5. AddKey(KeyAt(mem, j))
  BY <1>1, <1>4 DEF AddKey
<1>6. CASE Relaxed!CasFails(t, l, i) /\ Relaxed!Return(t, 0)
  <2>1. /\ Relaxed!ValueAt(l, i) # 0 /\ Relaxed!Loaded(t, l, i)
        /\ UNCHANGED <<mem, joinLock, file>>
    BY <1>6 DEF Relaxed!CasFails
  <2>2. PICK r : r = 0 /\ Relaxed!Return(t, r)
    BY <1>6
  <2> QED BY <1>1, <1>3, <2>1, <2>2, LoadResult
<1>7. CASE Relaxed!CasWins(t, l, i, 1) /\ Relaxed!Return(t, 1)
  <2> DEFINE v == Relaxed!Joined(view[t], mem[l][i].view)
  <2>1. /\ mem[l][i].val = 0 /\ i + 1 \in Relaxed!Places(mem, v, l)
        /\ Relaxed!Written(t, v, l, i + 1, 1, TRUE)
    BY <1>7 DEF Relaxed!CasWins, Relaxed!ValueAt, Relaxed!Acquired
  <2>2. i \in 1..Len(mem[l]) /\ t \in Holder
    BY <1>3, Chosen, ThreadNames
  <2>3. GoodView(mem, v) /\ \A k \in TableLoc : Sees(view[t], k) => Sees(v, k)
    <3>1. GoodView(mem, mem[l][i].view) /\ GoodView(mem, view[t]) /\ MemGood(mem, file)
      BY <1>3, <2>2 DEF MemInv, MemGood, MessageViews, ViewInv
    <3> QED BY <3>1, GoodJoined
  <2> HIDE DEF v
  <2>4. i = 1 /\ Len(mem[l]) = 1
    <3>1. /\ Len(mem[l]) \in {1, 2} /\ (Len(mem[l]) = 2 => mem[l][2].cas)
          /\ \A k \in 1..Len(mem[l]) : k # 1 => mem[l][k].val = 1
      BY <1>1, <1>3, <1>5 DEF MemInv, MemGood, ValueMessages
    <3>2. PICK n \in {1, 2} : n = Len(mem[l])
      BY <3>1
    <3>3. i = 1
      BY <2>1, <2>2, <3>1
    <3>4. n # 2
      BY <2>1, <3>1, <3>2, <3>3 DEF Relaxed!Places
    <3> QED BY <3>2, <3>3, <3>4
  <2>5. PICK p : p = i + 1
    OBVIOUS
  <2>6. p \in Nat /\ p >= 2 /\ p <= Len(mem[l]) + 1
    <3>1. PICK n : n = Len(mem[l])
      OBVIOUS
    <3> QED BY <2>4, <2>5, <3>1
  <2>7. Relaxed!Written(t, v, l, p, 1, TRUE) /\ TRUE \in BOOLEAN
    BY <2>1, <2>5
  <2> HIDE DEF j, l
  <2>8. ValueStep(t, j, v, p, TRUE)
    BY <1>3, <1>4, <2>3, <2>4, <2>6, <2>7 DEF ValueStep, l
  <2>9. PICK r \in {0, 1} : r = 1 /\ Relaxed!Return(t, r)
    BY <1>7
  <2> QED BY <1>1, <1>3, <2>8, <2>9, ValueResult DEF j
<1> QED BY <1>2, <1>6, <1>7

-----------------------------------------------------------------------------
(* The end of f, and main.                                                 *)

(* The threads are where they were, or one of them where it is in no call. *)
LEMMA IdleWins ==
  ASSUME WonInv, UNCHANGED <<mem, called, rets, file>>,
         \A s \in Threads : tpc'[s] = tpc[s] \/ (tpc[s] # "value" /\ tpc'[s] # "value")
  PROVE  WonInv'
<1>1. \A s \in Threads : \A c : Won(s, c, tpc'[s], called'[s], rets'[s], file') <=> Won(s, c, tpc[s], called[s], rets[s], file)
  BY DEF Won
<1>2. \A s \in Threads : \A c : HasWon(s, c)' <=> HasWon(s, c)
  BY <1>1 DEF HasWon
<1>3. \A k : Marked(mem, file, k)' <=> Marked(mem, file, k)
  BY DEF Marked
<1> QED BY <1>2, <1>3 DEF WonInv

LEMMA Releases ==
  ASSUME SharedInv, StepsInv, WonInv, NEW t \in Threads, Relaxed!ReleaseJoin(t), file' = file
  PROVE  TableInv'
<1>1. /\ tpc[t] = "loop" /\ called[t] = Len(Calls[t + 1])
      /\ tpc' = [tpc EXCEPT ![t] = "done"]
      /\ joinLock' = [joinLock EXCEPT ![t] = [held |-> FALSE, view |-> view[t]]]
      /\ UNCHANGED <<mem, view, called, idx, rets>> /\ UNCHANGED <<mpc, nth, total>>
  BY DEF Relaxed!ReleaseJoin, Relaxed!Passed, Relaxed!Goto, Relaxed!mainVars
<1>2. MemInv /\ ViewInv /\ ThreadInv /\ PathInv /\ LockInv /\ SearchInv /\ ClaimInv /\ ReturnInv /\ GetInv /\ MainInv
  BY DEF SharedInv, StepsInv
<1>3. /\ GoodView(mem, view[t]) /\ view[t] \in [TableLoc -> Nat] /\ DOMAIN tpc = Threads
      /\ joinLock \in [Threads -> [held : BOOLEAN, view : [TableLoc -> Nat]]]
  BY <1>2, ThreadNames DEF ViewInv, GoodView, ThreadInv
<1>4. /\ tpc'[t] = "done" /\ joinLock'[t].held = FALSE /\ joinLock'[t].view = view[t]
      /\ \A s \in Threads : s # t => tpc'[s] = tpc[s] /\ joinLock'[s] = joinLock[s]
      /\ DOMAIN tpc' = Threads /\ joinLock' \in [Threads -> [held : BOOLEAN, view : [TableLoc -> Nat]]]
  BY <1>1, <1>3
<1>5. MemInv' /\ PathInv'
  BY <1>1, <1>2 DEF MemInv, PathInv
<1>6. ViewInv'
  BY <1>1, <1>2, <1>3, <1>4 DEF ViewInv
<1>7. ThreadInv'
  <2>1. ThreadFits(t, "loop", idx[t], called[t], rets[t])
    BY <1>1, <1>2 DEF ThreadInv
  <2>2. ThreadFits(t, "done", idx[t], called[t], rets[t])
    BY <1>1, <2>1 DEF ThreadFits
  <2> QED BY <1>1, <1>2, <1>4, <2>2 DEF ThreadInv
<1>8. LockInv'
  BY <1>1, <1>2, <1>4 DEF LockInv
<1>9. SearchInv'
  <2> SUFFICES ASSUME NEW s \in Threads PROVE Search(mem, view[s], tpc'[s], idx[s], CallOf(s, called[s]))
    BY <1>1 DEF SearchInv
  <2> QED BY <1>2, <1>4 DEF Search, SearchInv
<1>10. ClaimInv'
  <2> SUFFICES ASSUME NEW e \in Entry, KeyAt(mem, e) # 0
               PROVE  \E s \in Threads : Claimer(e, view[s], tpc'[s], idx[s], CallOf(s, called[s]))
    BY <1>1 DEF ClaimInv
  <2>1. PICK s \in Threads : Claimer(e, view[s], tpc[s], idx[s], CallOf(s, called[s]))
    BY <1>2 DEF ClaimInv
  <2>2. Claimer(e, view[s], tpc'[s], idx[s], CallOf(s, called[s]))
    BY <1>1, <1>4, <2>1 DEF Claimer
  <2> QED BY <2>2
<1>11. ReturnInv' /\ GetInv'
  BY <1>1, <1>2 DEF ReturnInv, GetInv
<1>12. MainInv'
  <2>1. Joining' = Joining /\ Joining \subseteq Threads
    BY <1>1, <1>2, ThreadNames DEF Joining, MainInv
  <2>2. \A s \in Joining : ~joinLock[s].held /\ \A l \in TableLoc : Sees(joinLock[s].view, l) => Sees(view[Main], l)
    BY <1>2 DEF MainInv
  <2>3. t \notin Joining
    BY <1>1, <1>2, <2>2 DEF LockInv
  <2>4. \A s \in Joining : joinLock'[s] = joinLock[s]
    BY <1>4, <2>1, <2>3
  <2>5. \A s \in Joining' : ~joinLock'[s].held /\ \A l \in TableLoc : Sees(joinLock'[s].view, l) => Sees(view'[Main], l)
    BY <1>1, <2>1, <2>2, <2>4
  <2>6. /\ mpc' = "spawn" => \A s \in Threads : s >= nth' <=> tpc'[s] = "new"
        /\ mpc' # "spawn" => \A s \in Threads : tpc'[s] # "new"
    BY <1>1, <1>2, <1>4 DEF MainInv
  <2>7. /\ total' = Cardinality(UNION {WonKeys(s, rets'[s]) : s \in Joining'})
        /\ IsFiniteSet(UNION {WonKeys(s, rets'[s]) : s \in Joining'})
        /\ mpc' \in {"spawn", "join", "done"} /\ nth' \in Threads
    BY <1>1, <1>2, <2>1 DEF MainInv
  <2> HIDE DEF MainInv
  <2> QED BY <2>5, <2>6, <2>7 DEF MainInv
<1>13. WonInv'
  BY <1>1, <1>4, IdleWins
<1> QED BY <1>5, <1>6, <1>7, <1>8, <1>9, <1>10, <1>11, <1>12, <1>13 DEF TableInv, SharedInv, StepsInv

LEMMA Spawns ==
  ASSUME SharedInv, StepsInv, WonInv, Relaxed!Spawn, file' = file
  PROVE  TableInv'
<1> DEFINE t == nth
<1>1. /\ mpc = "spawn" /\ tpc' = [tpc EXCEPT ![t] = "loop"] /\ view' = [view EXCEPT ![t] = view[Main]]
      /\ IF nth + 1 < NThreads THEN nth' = nth + 1 /\ mpc' = mpc ELSE nth' = 0 /\ mpc' = "join"
      /\ UNCHANGED <<mem, called, idx, rets, joinLock, total>>
  BY DEF Relaxed!Spawn, Main
<1>2. MemInv /\ ViewInv /\ ThreadInv /\ PathInv /\ LockInv /\ SearchInv /\ ClaimInv /\ ReturnInv /\ GetInv /\ MainInv
  BY DEF SharedInv, StepsInv
<1>3. t \in Threads /\ t # Main /\ t \in Nat /\ tpc[t] = "new" /\ \A s \in Threads : s >= nth <=> tpc[s] = "new"
  BY <1>1, <1>2, ThreadNames DEF MainInv
<1>4. /\ tpc'[t] = "loop" /\ view'[t] = view[Main] /\ DOMAIN tpc' = Threads /\ DOMAIN view' = Holder
      /\ \A s \in Threads : s # t => tpc'[s] = tpc[s] /\ view'[s] = view[s]
      /\ \A a \in Holder : a # t => view'[a] = view[a]
  BY <1>1, <1>2, <1>3, ThreadNames DEF ThreadInv, ViewInv
<1>5. MemInv' /\ PathInv'
  BY <1>1, <1>2 DEF MemInv, PathInv
<1>6. ViewInv'
  BY <1>1, <1>2, <1>4, ThreadNames DEF ViewInv
<1>7. ThreadFits(t, "new", idx[t], called[t], rets[t])
  BY <1>2, <1>3 DEF ThreadInv
<1>8. ThreadInv'
  <2>1. ThreadFits(t, "loop", idx[t], called[t], rets[t])
    BY <1>7 DEF ThreadFits
  <2> QED BY <1>1, <1>2, <1>4, <2>1 DEF ThreadInv
<1>9. LockInv'
  BY <1>1, <1>2, <1>3, <1>4 DEF LockInv
<1>10. SearchInv'
  <2> SUFFICES ASSUME NEW s \in Threads PROVE Search(mem, view'[s], tpc'[s], idx[s], CallOf(s, called[s]))
    BY <1>1 DEF SearchInv
  <2> QED BY <1>2, <1>4 DEF Search, SearchInv
<1>11. ClaimInv'
  <2> SUFFICES ASSUME NEW e \in Entry, KeyAt(mem, e) # 0
               PROVE  \E s \in Threads : Claimer(e, view'[s], tpc'[s], idx[s], CallOf(s, called[s]))
    BY <1>1 DEF ClaimInv
  <2>1. PICK s \in Threads : Claimer(e, view[s], tpc[s], idx[s], CallOf(s, called[s]))
    BY <1>2 DEF ClaimInv
  <2>2. s # t
    BY <1>3, <2>1 DEF Claimer
  <2> QED BY <1>4, <2>1, <2>2
<1>12. ReturnInv'
  <2> SUFFICES ASSUME NEW s \in Threads, NEW c \in 1..Len(rets[s]) PROVE Returned(mem, view'[s], file, rets[s][c], CallOf(s, c))
    BY <1>1 DEF ReturnInv
  <2>1. s # t
    BY <1>7 DEF ThreadFits
  <2> QED BY <1>2, <1>4, <2>1 DEF ReturnInv
<1>13. GetInv'
  BY <1>1, <1>2 DEF GetInv
<1>14. MainInv'
  <2>1. Joining = {} /\ Joining' = {}
    BY <1>1 DEF Joining
  <2>2. CASE nth + 1 < NThreads
    <3>1. nth' = nth + 1 /\ mpc' = "spawn" /\ nth' \in Threads
      BY <1>1, <1>3, <2>2, ThreadNames
    <3>2. ASSUME NEW s \in Threads PROVE s >= nth' <=> tpc'[s] = "new"
      <4>1. s \in Nat /\ (s >= nth' <=> s >= t /\ s # t)
        BY <1>3, <3>1, ThreadNames
      <4>2. s >= nth <=> tpc[s] = "new"
        BY <1>3
      <4>3. s = t => tpc'[s] # "new"
        BY <1>4
      <4>4. s # t => tpc'[s] = tpc[s]
        BY <1>4
      <4> QED BY <4>1, <4>2, <4>3, <4>4
    <3> QED BY <1>1, <1>2, <2>1, <3>1, <3>2 DEF MainInv
  <2>3. CASE ~(nth + 1 < NThreads)
    <3>1. nth' = 0 /\ mpc' = "join" /\ 0 \in Threads
      BY <1>1, <2>3, ThreadNames
    <3>2. ASSUME NEW s \in Threads PROVE tpc'[s] # "new"
      <4>1. s # t => ~(s >= nth)
        BY <1>3, <2>3, ThreadNames
      <4> QED BY <1>3, <1>4, <4>1
    <3> QED BY <1>1, <1>2, <2>1, <3>1, <3>2 DEF MainInv
  <2> QED BY <2>2, <2>3
<1>15. WonInv'
  BY <1>1, <1>3, <1>4, IdleWins
<1> QED BY <1>5, <1>6, <1>8, <1>9, <1>10, <1>11, <1>12, <1>13, <1>14, <1>15 DEF TableInv, SharedInv, StepsInv

LEMMA SameCardinality == \A S : Relaxed!Cardinality(S) = Cardinality(S)
BY DEF Relaxed!Cardinality, Cardinality

LEMMA WonKeysAre ==
  ASSUME ThreadInv, NEW t \in Threads, NEW k \in WonKeys(t, rets[t])
  PROVE  \E c \in CallsOf(t) : HasWon(t, c) /\ CallOf(t, c).key = k
<1>1. PICK c \in 1..Len(rets[t]) : CallOf(t, c).kind = "add" /\ rets[t][c] = 1 /\ CallOf(t, c).key = k
  BY DEF WonKeys
<1>2. c \in CallsOf(t)
  BY ActiveCall
<1> QED BY <1>1, <1>2 DEF HasWon, Won

(* The adds of a thread that have succeeded are of different keys.         *)
LEMMA SuccessesAre ==
  ASSUME ThreadInv, WonInv, NEW t \in Threads
  PROVE  /\ IsFiniteSet(WonKeys(t, rets[t])) /\ Cardinality(WonKeys(t, rets[t])) = Relaxed!Successes(t)
         /\ Relaxed!Successes(t) \in Nat
<1> DEFINE won == {d \in 1..Len(rets[t]) : CallOf(t, d).kind = "add" /\ rets[t][d] = 1}
           keys == WonKeys(t, rets[t])
           f == [d \in won |-> CallOf(t, d).key]
<1>1. rets[t] \in Seq({0, 1}) /\ Len(rets[t]) \in Nat /\ DOMAIN rets[t] = 1..Len(rets[t])
  BY LenProperties DEF ThreadInv, ThreadFits
<1>2. Relaxed!Successes(t) = Cardinality(won)
  <2>1. Relaxed!Successes(t) = Relaxed!Cardinality(won)
    BY <1>1 DEF Relaxed!Successes, CallOf
  <2> QED BY <2>1, SameCardinality
<1>3. IsFiniteSet(won)
  <2>1. IsFiniteSet(1..Len(rets[t])) /\ won \in SUBSET (1..Len(rets[t]))
    BY <1>1, FS_Interval
  <2> QED BY <2>1, FS_Subset
<1>4. \A c, d \in won : CallOf(t, c).key = CallOf(t, d).key => c = d
  <2>1. \A d \in won : d \in CallsOf(t) /\ HasWon(t, d)
    BY ActiveCall DEF HasWon, Won
  <2> QED BY <2>1 DEF WonInv
<1>5. keys = {CallOf(t, d).key : d \in won}
  BY DEF WonKeys
<1>6. f \in [won -> keys] /\ \A d \in won : f[d] = CallOf(t, d).key
  BY <1>5
<1>7. \A k \in keys : \E d \in won : f[d] = k
  BY <1>5, <1>6
<1>8. \A c, d \in won : f[c] = f[d] => c = d
  BY <1>4, <1>6
<1> HIDE DEF won, keys, f
<1>9. ExistsBijection(won, keys)
  <2>1. f \in Injection(won, keys)
    BY <1>6, <1>8 DEF Injection, IsInjective
  <2>2. f \in Surjection(won, keys)
    BY <1>6, <1>7 DEF Surjection
  <2> QED BY <2>1, <2>2 DEF ExistsBijection, Bijection
<1>10. IsFiniteSet(keys) /\ Cardinality(keys) = Cardinality(won) /\ Cardinality(won) \in Nat
  BY <1>3, <1>9, FS_Bijection, FS_CardinalityType
<1> QED BY <1>2, <1>10 DEF keys

LEMMA Joins ==
  ASSUME SharedInv, StepsInv, WonInv, Relaxed!Join, file' = file
  PROVE  TableInv'
<1> DEFINE t == nth
           w == joinLock[t].view
           U(J) == UNION {WonKeys(s, rets[s]) : s \in J}
<1>1. /\ mpc = "join" /\ ~joinLock[t].held /\ view' = [view EXCEPT ![Main] = Relaxed!Joined(view[Main], w)]
      /\ total' = total + Relaxed!Successes(t)
      /\ IF nth + 1 < NThreads THEN nth' = nth + 1 /\ mpc' = mpc ELSE mpc' = "done" /\ nth' = nth
      /\ UNCHANGED <<mem, tpc, called, idx, rets, joinLock>>
  BY DEF Relaxed!Join, Relaxed!threadVars, Main
<1>2. MemInv /\ ViewInv /\ ThreadInv /\ PathInv /\ LockInv /\ SearchInv /\ ClaimInv /\ ReturnInv /\ GetInv /\ MainInv
  BY DEF SharedInv, StepsInv
<1>3. t \in Threads /\ Joining = 0..nth-1 /\ Joining \subseteq Threads /\ t \notin Joining
  BY <1>1, <1>2, ThreadNames DEF MainInv, Joining
<1>4. Joining' = Joining \cup {t}
  <2>1. CASE nth + 1 < NThreads
    <3>1. nth' = nth + 1 /\ mpc' = "join"
      BY <1>1, <2>1
    <3> QED BY <1>3, <3>1, ThreadNames DEF Joining
  <2>2. CASE ~(nth + 1 < NThreads)
    <3>1. mpc' = "done" /\ Joining' = Threads
      BY <1>1, <2>2 DEF Joining
    <3> QED BY <1>3, <2>2, <3>1, ThreadNames
  <2> QED BY <2>1, <2>2
<1>5. /\ GoodView(mem, view'[Main]) /\ DOMAIN view' = Holder /\ \A s \in Threads : view'[s] = view[s]
      /\ \A l \in TableLoc : Sees(view'[Main], l) <=> Sees(view[Main], l) \/ Sees(w, l)
  <2>1. GoodView(mem, w) /\ GoodView(mem, view[Main]) /\ MemGood(mem, file) /\ DOMAIN view = Holder
    BY <1>2, <1>3, ThreadNames DEF ViewInv, MemInv
  <2>2. view'[Main] = Relaxed!Joined(view[Main], w) /\ DOMAIN view' = Holder /\ \A s \in Threads : view'[s] = view[s]
    BY <1>1, <2>1, ThreadNames
  <2> QED BY <2>1, <2>2, GoodJoined
<1> HIDE DEF w, t
<1>6. MemInv' /\ PathInv'
  BY <1>1, <1>2 DEF MemInv, PathInv
<1>7. ViewInv'
  BY <1>1, <1>2, <1>5 DEF ViewInv, Holder
<1>8. ThreadInv' /\ LockInv' /\ GetInv'
  BY <1>1, <1>2, <1>5 DEF ThreadInv, LockInv, GetInv
<1>9. SearchInv'
  BY <1>1, <1>2, <1>5 DEF SearchInv
<1>10. ClaimInv'
  BY <1>1, <1>2, <1>5 DEF ClaimInv
<1>11. ReturnInv'
  BY <1>1, <1>2, <1>5 DEF ReturnInv
<1>12. U(Joining \cup {t}) = U(Joining) \cup WonKeys(t, rets[t])
  OBVIOUS
<1>13. U(Joining) \cap WonKeys(t, rets[t]) = {}
  <2> SUFFICES ASSUME NEW s \in Joining, NEW k \in WonKeys(s, rets[s]), k \in WonKeys(t, rets[t]) PROVE FALSE
    OBVIOUS
  <2>1. PICK b \in CallsOf(s) : HasWon(s, b) /\ CallOf(s, b).key = k
    BY <1>2, <1>3, WonKeysAre
  <2>2. PICK c \in CallsOf(t) : HasWon(t, c) /\ CallOf(t, c).key = k
    BY <1>2, <1>3, WonKeysAre
  <2> QED BY <1>3, <2>1, <2>2 DEF WonInv
<1>14. total = Cardinality(U(Joining)) /\ IsFiniteSet(U(Joining))
  BY <1>2 DEF MainInv
<1> HIDE DEF U
<1>15. total' = Cardinality(U(Joining')) /\ IsFiniteSet(U(Joining'))
  <2>1. /\ IsFiniteSet(WonKeys(t, rets[t])) /\ Cardinality(WonKeys(t, rets[t])) = Relaxed!Successes(t)
        /\ Relaxed!Successes(t) \in Nat
    BY <1>2, <1>3, SuccessesAre
  <2>2. PICK X, Y : X = U(Joining) /\ Y = WonKeys(t, rets[t])
    OBVIOUS
  <2>3. IsFiniteSet(X) /\ IsFiniteSet(Y) /\ X \cap Y = {} /\ U(Joining') = X \cup Y
    BY <1>4, <1>12, <1>13, <1>14, <2>1, <2>2
  <2>4. /\ IsFiniteSet(X \cup Y) /\ Cardinality(X \cup Y) = Cardinality(X) + Cardinality(Y) - Cardinality(X \cap Y)
        /\ Cardinality(X \cap Y) = 0 /\ Cardinality(X) \in Nat /\ Cardinality(Y) \in Nat
    BY <2>3, FS_Union, FS_EmptySet, FS_CardinalityType
  <2> QED BY <1>1, <1>14, <2>1, <2>2, <2>3, <2>4
<1>16. MainInv'
  <2>1. ASSUME NEW s \in Joining' PROVE ~joinLock[s].held /\ \A l \in TableLoc : Sees(joinLock[s].view, l) => Sees(view'[Main], l)
    BY <1>1, <1>2, <1>4, <1>5 DEF MainInv, w
  <2>2. nth' \in Threads /\ mpc' \in {"join", "done"}
    BY <1>1, <1>3, ThreadNames DEF t
  <2>3. \A s \in Threads : tpc'[s] # "new"
    BY <1>1, <1>2 DEF MainInv
  <2>4. /\ total' = Cardinality(UNION {WonKeys(s, rets'[s]) : s \in Joining'})
        /\ IsFiniteSet(UNION {WonKeys(s, rets'[s]) : s \in Joining'})
    BY <1>1, <1>15 DEF U
  <2>5. \A s \in Joining' : ~joinLock'[s].held /\ \A l \in TableLoc : Sees(joinLock'[s].view, l) => Sees(view'[Main], l)
    BY <1>1, <2>1
  <2>6. mpc' # "spawn"
    BY <2>2
  <2> QED BY <2>2, <2>3, <2>4, <2>5, <2>6 DEF MainInv
<1>17. WonInv'
  BY <1>1, IdleWins
<1> QED BY <1>6, <1>7, <1>8, <1>9, <1>10, <1>11, <1>16, <1>17 DEF TableInv, SharedInv, StepsInv

-----------------------------------------------------------------------------
LEMMA TableInit == Relaxed!HtInit => TableInv
<1> SUFFICES ASSUME Relaxed!HtInit PROVE TableInv
  OBVIOUS
<1> DEFINE first == [l \in TableLoc |-> 1]
           msg == [val |-> 0, view |-> first, cas |-> FALSE]
<1>1. /\ mem = [l \in TableLoc |-> <<msg>>] /\ view = [t \in Holder |-> first]
      /\ tpc = [t \in Threads |-> "new"] /\ called = [t \in Threads |-> 0] /\ idx = [t \in Threads |-> 0]
      /\ rets = [t \in Threads |-> <<>>] /\ joinLock = [t \in Threads |-> [held |-> TRUE, view |-> first]]
      /\ mpc = "spawn" /\ nth = 0 /\ total = 0
  BY DEF Relaxed!HtInit, Relaxed!FreshMemory, Relaxed!First, TableLoc, Holder, Threads, Main
<1>2. \A l \in TableLoc : Len(mem[l]) = 1 /\ mem[l][1] = msg /\ DOMAIN mem[l] = 1..1
  BY <1>1
<1>3. \A e \in Entry : Len(mem[KeyOf(e)]) = 1 /\ Len(mem[ValueOf(e)]) = 1 /\ KeyAt(mem, e) = 0
  BY <1>2, EntryNames DEF KeyAt
<1>4. first \in [TableLoc -> Nat] /\ \A l \in TableLoc : first[l] = 1 /\ ~Sees(first, l)
  BY DEF Sees
<1> HIDE DEF first
<1>5. GoodView(mem, first)
  BY <1>2, <1>4, EntryNames DEF GoodView
<1>6. MemInv
  <2>1. msg \in TableMessage /\ msg.view = first /\ msg.val = 0
    BY <1>4 DEF TableMessage, Message
  <2>2. mem \in [TableLoc -> Seq(TableMessage)]
    BY <1>1, <2>1
  <2> HIDE DEF msg
  <2>3. MessageViews(mem)
    <3> SUFFICES ASSUME NEW l \in TableLoc, NEW i \in 1..Len(mem[l]) PROVE GoodView(mem, mem[l][i].view)
      BY DEF MessageViews
    <3>1. i \in 1..1
      BY <1>2
    <3>2. i = 1
      BY <3>1
    <3> QED BY <1>2, <1>5, <2>1, <3>2
  <2>4. ASSUME NEW e \in Entry PROVE KeyMessages(mem, e) /\ ValueMessages(mem, file, e)
    <3>1. mem[KeyOf(e)][1].val = 0 /\ mem[ValueOf(e)][1].val = 0
      BY <1>2, <2>1, EntryNames
    <3>2. \A i \in 1..Len(mem[ValueOf(e)]) : i = 1
      <4>1. \A i \in 1..1 : i = 1
        OBVIOUS
      <4> QED BY <1>3, <4>1
    <3>3. Len(mem[KeyOf(e)]) # 2 /\ Len(mem[ValueOf(e)]) # 2 /\ Len(mem[ValueOf(e)]) \in Nat \ {0}
      <4>1. 1 # 2 /\ 1 \in Nat \ {0}
        OBVIOUS
      <4> QED BY <1>3, <4>1
    <3> QED BY <1>3, <3>1, <3>2, <3>3 DEF KeyMessages, ValueMessages
  <2> QED BY <2>2, <2>3, <2>4 DEF MemInv, MemGood
<1>7. ViewInv
  BY <1>1, <1>4, <1>5 DEF ViewInv
<1>8. PathInv /\ ClaimInv
  BY <1>3 DEF PathInv, ClaimInv
<1>9. \A t \in Threads : tpc[t] = "new" /\ called[t] = 0 /\ idx[t] = 0 /\ rets[t] = <<>> /\ Len(rets[t]) = 0 /\ joinLock[t].held
  BY <1>1
<1>10. ThreadInv
  <2>1. 0 \in Entry
    BY EntryNames
  <2>2. ASSUME NEW t \in Threads PROVE ThreadFits(t, tpc[t], idx[t], called[t], rets[t])
    <3>1. 0 \in 0..Len(Calls[t + 1]) /\ <<>> \in Seq({0, 1}) /\ Len(<<>>) = 0
      <4>1. Len(Calls[t + 1]) \in Nat
        BY CallTypes
      <4>2. \A n \in Nat : 0 \in 0..n
        OBVIOUS
      <4>3. <<>> \in Seq({0, 1}) /\ Len(<<>>) = 0
        OBVIOUS
      <4> QED BY <4>1, <4>2, <4>3
    <3>2. tpc[t] = "new" /\ called[t] = 0 /\ idx[t] = 0 /\ rets[t] = <<>>
      BY <1>9
    <3>3. ThreadFits(t, "new", 0, 0, <<>>)
      BY <2>1, <3>1 DEF ThreadFits
    <3> QED BY <3>2, <3>3
  <2> QED BY <1>1, <2>2 DEF ThreadInv
<1>11. LockInv /\ SearchInv
  BY <1>9 DEF LockInv, SearchInv, Search
<1>12. ReturnInv /\ GetInv
  <2>1. \A t \in Threads : 1..Len(rets[t]) = {}
    BY <1>9
  <2> QED BY <2>1 DEF ReturnInv, GetInv, GetsFind
<1>13. MainInv
  <2>1. Joining = {} /\ UNION {WonKeys(t, rets[t]) : t \in Joining} = {}
    BY <1>1 DEF Joining
  <2>2. 0 \in Threads /\ \A t \in Threads : t >= 0
    BY ThreadNames
  <2> QED BY <1>1, <1>9, <2>1, <2>2, FS_EmptySet DEF MainInv
<1>14. WonInv
  <2>1. \A t \in Threads : \A c : ~HasWon(t, c)
    <3>1. \A t \in Threads : 1..Len(rets[t]) = {}
      BY <1>9
    <3> QED BY <1>9, <3>1 DEF HasWon, Won
  <2>2. \A k : k # 0 => ~Marked(mem, file, k)
    BY <1>3 DEF Marked
  <2>3. \A t \in Threads : \A c \in CallsOf(t) : CallOf(t, c).key # 0
    BY CallTypes
  <2> QED BY <2>1, <2>2, <2>3 DEF WonInv
<1> QED BY <1>6, <1>7, <1>8, <1>10, <1>11, <1>12, <1>13, <1>14 DEF TableInv, SharedInv, StepsInv

TableVars == <<file, mem, view, tpc, called, idx, rets, joinLock, mpc, nth, total>>

LEMMA TableStays ==
  ASSUME TableInv, UNCHANGED TableVars
  PROVE  TableInv'
<1>1. UNCHANGED file /\ UNCHANGED mem /\ UNCHANGED view /\ UNCHANGED tpc /\ UNCHANGED called /\ UNCHANGED idx /\ UNCHANGED rets
      /\ UNCHANGED joinLock /\ UNCHANGED mpc /\ UNCHANGED nth /\ UNCHANGED total
  BY DEF TableVars
<1>2. MemInv' /\ ViewInv' /\ PathInv'
  BY <1>1 DEF TableInv, SharedInv, MemInv, ViewInv, PathInv
<1>3. ThreadInv' /\ LockInv' /\ SearchInv' /\ ClaimInv'
  BY <1>1 DEF TableInv, StepsInv, ThreadInv, LockInv, SearchInv, ClaimInv
<1>4. ReturnInv' /\ GetInv'
  BY <1>1 DEF TableInv, StepsInv, ReturnInv, GetInv
<1>5. MainInv'
  BY <1>1 DEF TableInv, StepsInv, MainInv, Joining
<1>6. WonInv'
  BY <1>1, IdleWins DEF TableInv
<1> QED BY <1>2, <1>3, <1>4, <1>5, <1>6 DEF TableInv, SharedInv, StepsInv

LEMMA ThreadSteps ==
  ASSUME TableInv, file \in Tables, file' = file, NEW t \in Threads, Relaxed!ThreadStep(t)
  PROVE  TableInv'
<1>1. SharedInv /\ StepsInv /\ WonInv
  BY DEF TableInv
<1>2. CASE Relaxed!ReleaseJoin(t)
  BY <1>1, <1>2, Releases
<1>3. CASE ~Relaxed!ReleaseJoin(t)
  <2>1. StepResult(t)
    BY <1>1, <1>3, Begins, Probes, Claims, SetsValue, GetsValue, AddsValueRA, AddsValueSC DEF Relaxed!ThreadStep
  <2>2. StepFits(t) /\ OthersStay(t) /\ (NobodyWins(t) \/ \E o : Wins(t, o))
    BY <2>1 DEF StepResult, StepFits
  <2>3. SharedInv' /\ StepsInv'
    BY <1>1, <2>2, StepStays
  <2>4. WonInv'
    BY <1>1, <2>2, WinnersStay
  <2> QED BY <2>3, <2>4 DEF TableInv
<1> QED BY <1>2, <1>3

LEMMA TableNext ==
  ASSUME file \in Relaxed!Programs, TableInv, [AtomicsNext]_<<program, vars, relaxedVars>>
  PROVE  file' \in Relaxed!Programs /\ TableInv'
<1>1. CASE UNCHANGED TableVars
  BY <1>1, TableStays DEF TableVars
<1>2. CASE file # "kvnode_atomic_ra" /\ Relaxed!HtNext /\ file' = file
  <2>1. file \in Tables
    BY <1>2 DEF Relaxed!Programs, Tables
  <2>2. SharedInv /\ StepsInv /\ WonInv
    BY DEF TableInv
  <2>3. CASE Relaxed!Spawn
    BY <1>2, <2>2, <2>3, Spawns
  <2>4. CASE Relaxed!Join
    BY <1>2, <2>2, <2>4, Joins
  <2>5. CASE \E t \in Threads : Relaxed!ThreadStep(t)
    BY <1>2, <2>1, <2>5, ThreadSteps
  <2> QED BY <1>2, <2>3, <2>4, <2>5 DEF Relaxed!HtNext, Threads
<1>3. UNCHANGED TableVars \/ (file # "kvnode_atomic_ra" /\ Relaxed!HtNext /\ file' = file)
  BY DEF AtomicsNext, Relaxed!RaNext, relaxedVars, TableVars, Relaxed!htVars, Relaxed!threadVars, Relaxed!mainVars
<1> QED BY <1>1, <1>2, <1>3

THEOREM TableInvariance == AtomicsSpec => [](file \in Relaxed!Programs /\ TableInv)
<1>1. AtomicsInit => file \in Relaxed!Programs /\ TableInv
  BY TableInit DEF AtomicsInit, Relaxed!RaInit
<1>2. (file \in Relaxed!Programs /\ TableInv) /\ [AtomicsNext]_<<program, vars, relaxedVars>>
        => (file \in Relaxed!Programs /\ TableInv)'
  BY TableNext
<1> QED BY <1>1, <1>2, PTL DEF AtomicsSpec

(* When all threads are joined, main has seen the key and the value of     *)
(* every call that is not a get, and every key of an add has been won.     *)
LEMMA AllJoined ==
  ASSUME TableInv, mpc = "done", NEW t \in Threads
  PROVE  /\ tpc[t] = "done" /\ \A l \in TableLoc : Sees(view[t], l) => Sees(view[Main], l)
         /\ 1..Len(rets[t]) = CallsOf(t)
<1>1. t \in Joining
  BY DEF Joining
<1>2. ~joinLock[t].held /\ \A l \in TableLoc : Sees(joinLock[t].view, l) => Sees(view[Main], l)
  BY <1>1 DEF TableInv, StepsInv, MainInv
<1>3. tpc[t] = "done" /\ \A l \in TableLoc : Sees(view[t], l) => Sees(joinLock[t].view, l)
  BY <1>2 DEF TableInv, StepsInv, LockInv
<1>4. Len(rets[t]) = Len(Calls[t + 1])
  BY <1>3 DEF TableInv, StepsInv, ThreadInv, ThreadFits
<1> QED BY <1>2, <1>3, <1>4 DEF CallsOf

LEMMA AllSeen ==
  ASSUME TableInv, mpc = "done", NEW t \in Threads, NEW c \in CallsOf(t), CallOf(t, c).kind # "get"
  PROVE  \E e \in Entry : /\ KeyAt(mem, e) = CallOf(t, c).key /\ Sees(view[Main], KeyOf(e)) /\ Sees(view[Main], ValueOf(e))
                          /\ Len(mem[ValueOf(e)]) >= 2
<1> DEFINE k == CallOf(t, c).key
<1>1. c \in 1..Len(rets[t]) /\ k # 0
  BY AllJoined, CallTypes
<1>2. Returned(mem, view[t], file, rets[t][c], CallOf(t, c))
  BY <1>1 DEF TableInv, StepsInv, ReturnInv
<1>3. PICK e \in Entry : KeyAt(mem, e) = k /\ Sees(view[t], KeyOf(e))
  BY <1>2 DEF Returned, Located
<1>4. KeyOf(e) \in TableLoc /\ ValueOf(e) \in TableLoc
  BY EntryNames
<1>5. PICK s \in Threads : Claimer(e, view[s], tpc[s], idx[s], CallOf(s, called[s]))
  BY <1>1, <1>3 DEF TableInv, StepsInv, ClaimInv
<1>6. tpc[s] = "done"
  BY AllJoined
<1>7. Sees(view[s], ValueOf(e))
  BY <1>5, <1>6 DEF Claimer
<1>8. Sees(view[Main], KeyOf(e)) /\ Sees(view[Main], ValueOf(e))
  BY <1>3, <1>4, <1>7, AllJoined
<1>9. Len(mem[ValueOf(e)]) >= 2
  <2>1. PICK i, n : i = view[Main][ValueOf(e)] /\ n = Len(mem[ValueOf(e)])
    OBVIOUS
  <2>2. i \in Nat /\ i >= 2 /\ i <= n /\ n \in Nat
    BY <1>4, <1>8, <2>1, ThreadNames, Lengths DEF Sees, TableInv, SharedInv, ViewInv, GoodView, MemInv
  <2> QED BY <2>1, <2>2
<1> QED BY <1>3, <1>8, <1>9

AddKeySet == {k \in Nat : AddKey(k)}

LEMMA AllWon ==
  ASSUME TableInv, mpc = "done"
  PROVE  UNION {WonKeys(t, rets[t]) : t \in Threads} = AddKeySet
<1>1. ASSUME NEW t \in Threads, NEW k \in WonKeys(t, rets[t]) PROVE AddKey(k)
  <2>1. PICK c \in CallsOf(t) : HasWon(t, c) /\ CallOf(t, c).key = k
    BY WonKeysAre DEF TableInv, StepsInv
  <2> QED BY <2>1 DEF HasWon, Won, AddKey
<1>2. ASSUME NEW k, AddKey(k) PROVE \E t \in Threads : k \in WonKeys(t, rets[t])
  <2>0. PICK t \in Threads : \E c \in CallsOf(t) : CallOf(t, c).kind = "add" /\ CallOf(t, c).key = k
    BY <1>2 DEF AddKey
  <2>1. PICK c \in CallsOf(t) : CallOf(t, c).kind = "add" /\ CallOf(t, c).key = k
    BY <2>0
  <2>2. PICK e \in Entry : KeyAt(mem, e) = k /\ Len(mem[ValueOf(e)]) >= 2
    BY <2>1, AllSeen
  <2>3. Marked(mem, file, k)
    BY <2>2 DEF Marked
  <2>a. PICK s \in Threads : \E b \in CallsOf(s) : HasWon(s, b) /\ CallOf(s, b).key = k
    BY <2>1, <2>3 DEF TableInv, WonInv
  <2>4. PICK b \in CallsOf(s) : HasWon(s, b) /\ CallOf(s, b).key = k
    BY <2>a
  <2>5. tpc[s] = "done"
    BY AllJoined
  <2>6. b \in 1..Len(rets[s]) /\ rets[s][b] = 1 /\ CallOf(s, b).kind = "add"
    BY <2>4, <2>5 DEF HasWon, Won
  <2> QED BY <2>4, <2>6 DEF WonKeys
<1>3. \A k : AddKey(k) => k \in Nat
  BY AddKeys
<1> QED BY <1>1, <1>2, <1>3 DEF AddKeySet

(* What main finds of a key.                                               *)
LEMMA MainFinds ==
  ASSUME TableInv, NEW k \in Nat, k # 0, NEW e \in Entry, KeyAt(mem, e) = k,
         Sees(view[Main], KeyOf(e)), Sees(view[Main], ValueOf(e))
  PROVE  /\ \A i \in Relaxed!Choice(Main, KeyOf(e)) : Relaxed!ValueAt(KeyOf(e), i) = k
         /\ \A i \in Relaxed!Choice(Main, ValueOf(e)) : Relaxed!ValueAt(ValueOf(e), i) = 1
         /\ \A d \in Entry : Relaxed!Newest(mem, KeyOf(d)) = k => d = e
<1>1. MemInv /\ ViewInv /\ PathInv /\ MemGood(mem, file) /\ KeyOf(e) \in TableLoc /\ ValueOf(e) \in TableLoc /\ Main \in Holder
  BY EntryNames, ThreadNames DEF TableInv, SharedInv, MemInv
<1>2. ASSUME NEW i \in Relaxed!Choice(Main, KeyOf(e)) PROVE Relaxed!ValueAt(KeyOf(e), i) = k
  <2>1. PICK j, n : j = view[Main][KeyOf(e)] /\ n = Len(mem[KeyOf(e)])
    OBVIOUS
  <2>2. i \in Nat /\ j \in Nat /\ j <= i /\ i <= n /\ j >= 2
    BY <1>1, <2>1, Chosen DEF Sees
  <2>3. n \in {1, 2} /\ (n = 2 => KeyAt(mem, e) = mem[KeyOf(e)][2].val)
    BY <1>1, <2>1, KeyAtIs
  <2>4. i = 2 /\ n = 2
    BY <2>2, <2>3
  <2> QED BY <2>3, <2>4 DEF Relaxed!ValueAt
<1>3. ASSUME NEW i \in Relaxed!Choice(Main, ValueOf(e)) PROVE Relaxed!ValueAt(ValueOf(e), i) = 1
  <2>1. PICK j : j = view[Main][ValueOf(e)]
    OBVIOUS
  <2>2. i \in 1..Len(mem[ValueOf(e)]) /\ i \in Nat /\ j \in Nat /\ j <= i /\ j >= 2
    BY <1>1, <2>1, Chosen DEF Sees
  <2>3. i # 1
    BY <2>2
  <2> QED BY <1>1, <2>2, <2>3 DEF Relaxed!ValueAt, MemGood, ValueMessages
<1>4. ASSUME NEW d \in Entry, Relaxed!Newest(mem, KeyOf(d)) = k PROVE d = e
  <2>1. /\ Len(mem[KeyOf(d)]) \in {1, 2} /\ mem[KeyOf(d)][1].val = 0
        /\ Len(mem[KeyOf(d)]) = 2 => KeyAt(mem, d) = mem[KeyOf(d)][2].val
    BY <1>1, KeyAtIs
  <2>2. KeyAt(mem, d) = k
    BY <1>4, <2>1 DEF Relaxed!Newest
  <2> QED BY <1>1, <2>2, OneEntry
<1> QED BY <1>2, <1>3, <1>4

LEMMA CallSets ==
  /\ {c.key : c \in {d \in Relaxed!AllCalls : d.kind = "add"}} = AddKeySet
  /\ \A k \in {c.key : c \in {d \in Relaxed!AllCalls : d.kind # "get"}} :
       \E t \in Threads : \E c \in CallsOf(t) : CallOf(t, c).kind # "get" /\ CallOf(t, c).key = k
<1>1. \A d : d \in Relaxed!AllCalls <=> \E t \in Threads : \E c \in CallsOf(t) : d = CallOf(t, c)
  BY CallTypes DEF Relaxed!AllCalls, CallOf, Threads
<1>2. \A k : AddKey(k) <=> \E d \in Relaxed!AllCalls : d.kind = "add" /\ d.key = k
  BY <1>1 DEF AddKey
<1>3. \A k : AddKey(k) => k \in Nat
  BY AddKeys
<1>4. {c.key : c \in {d \in Relaxed!AllCalls : d.kind = "add"}} = AddKeySet
  BY <1>2, <1>3 DEF AddKeySet
<1> QED BY <1>1, <1>4

(* In both tables, whatever messages the memory lets the loads take:       *)
(* total is the number of the different keys that are added; when the      *)
(* threads are joined main sees each key in one entry, with its value; and *)
(* what a thread has found once its gets find again.                       *)
THEOREM TotalsAreRight == AtomicsSpec => []TotalIsNumberOfAdds
<1>1. ASSUME TableInv PROVE TotalIsNumberOfAdds
  <2>1. Relaxed!NothingUnseen
    <3> SUFFICES ASSUME NEW t \in Threads, NEW b \in DOMAIN rets[t], NEW c \in DOMAIN rets[t],
                        b < c, Calls[t + 1][b].key = Calls[t + 1][c].key, Calls[t + 1][c].kind = "get",
                        Calls[t + 1][b].kind = "set" \/ rets[t][b] # 0
                 PROVE  rets[t][c] # 0
      BY DEF Relaxed!NothingUnseen, Threads
    <3>1. GetsFind(t, rets[t]) /\ DOMAIN rets[t] = 1..Len(rets[t])
      BY <1>1, LenProperties DEF TableInv, StepsInv, GetInv, ThreadInv, ThreadFits
    <3> QED BY <3>1 DEF GetsFind, CallOf
  <2>2. Relaxed!TotalIsNumberOfAdds
    <3> SUFFICES ASSUME mpc = "done"
                 PROVE  /\ total = Cardinality(AddKeySet)
                        /\ \A k \in {c.key : c \in {d \in Relaxed!AllCalls : d.kind # "get"}} :
                             \E e \in Entry : /\ \A i \in Relaxed!Choice(Main, KeyOf(e)) : Relaxed!ValueAt(KeyOf(e), i) = k
                                              /\ \A i \in Relaxed!Choice(Main, ValueOf(e)) : Relaxed!ValueAt(ValueOf(e), i) = 1
                                              /\ \A d \in Entry : Relaxed!Newest(mem, KeyOf(d)) = k => d = e
      BY CallSets, SameCardinality DEF Relaxed!TotalIsNumberOfAdds, Entry, Main, KeyOf, ValueOf
    <3>1. total = Cardinality(UNION {WonKeys(t, rets[t]) : t \in Threads})
      BY <1>1 DEF TableInv, StepsInv, MainInv, Joining
    <3>2. total = Cardinality(AddKeySet)
      BY <1>1, <3>1, AllWon
    <3>3. ASSUME NEW k \in {c.key : c \in {d \in Relaxed!AllCalls : d.kind # "get"}}
          PROVE  \E e \in Entry : /\ \A i \in Relaxed!Choice(Main, KeyOf(e)) : Relaxed!ValueAt(KeyOf(e), i) = k
                                  /\ \A i \in Relaxed!Choice(Main, ValueOf(e)) : Relaxed!ValueAt(ValueOf(e), i) = 1
                                  /\ \A d \in Entry : Relaxed!Newest(mem, KeyOf(d)) = k => d = e
      <4>0. PICK t \in Threads : \E c \in CallsOf(t) : CallOf(t, c).kind # "get" /\ CallOf(t, c).key = k
        BY CallSets
      <4>1. PICK c \in CallsOf(t) : CallOf(t, c).kind # "get" /\ CallOf(t, c).key = k
        BY <4>0
      <4>2. k \in Nat /\ k # 0
        BY <4>1, CallTypes
      <4>3. PICK e \in Entry : KeyAt(mem, e) = k /\ Sees(view[Main], KeyOf(e)) /\ Sees(view[Main], ValueOf(e))
        BY <1>1, <4>1, AllSeen
      <4> QED BY <1>1, <4>2, <4>3, MainFinds
    <3> QED BY <3>2, <3>3
  <2> QED BY <2>1, <2>2 DEF TotalIsNumberOfAdds
<1> QED BY <1>1, TableInvariance, PTL
=============================================================================
