-------------------------- MODULE StructuresProofs --------------------------
(***************************************************************************)
(* Proofs about two of the structures of atomics/ and progs/.  Of Kvnode,  *)
(* for any readers, words and number of words: a copy made under one       *)
(* version is whole, and the node is an atomic register.  Of BstConc, for  *)
(* any finite sets of threads, nodes and keys: it is a search tree all the *)
(* time, and a dictionary.                                                 *)
(***************************************************************************)
EXTENDS Kvnode, BstConc, FiniteSetTheorems, WellFoundedInduction, TLAPS

Even(n) == n % 2 = 0

(* The version is odd exactly while the writer stores words.               *)
VersionInv ==
  /\ Even(version) <=> wpc # "store"
  /\ wpc = "dirty" => version = v /\ v + 2 <= MaxVersion
  /\ wpc = "store" => version = v + 1 /\ v + 2 <= MaxVersion

(* The words the writer has stored.                                        *)
WriteInv == wpc = "store" => \A j \in Word : j < wi => data[j] = in[j]

(* A reader copies under an even version that is not newer than the node's.*)
SnapInv == \A r \in Reader : rpc[r] = "copy" => Even(snap[r]) /\ snap[r] <= version

NodeInv == TypeOK /\ VersionInv /\ WriteInv /\ SnapInv /\ CopiesHold

LEMMA Parity == \A n \in Nat : /\ Even(n) => ~Even(n + 1) /\ Even(n + 2)
                              /\ Even(0)
  BY DEF Even

(* make_node gives the invariant.                                          *)
LEMMA NodeInitInv == Init => NodeInv
  BY Parity, SizeAssumption, ZeroAssumption, VersionAssumption
  DEF Init, NodeInv, TypeOK, VersionInv, WriteInv, SnapInv, CopiesHold, Vector, ZeroVector

-----------------------------------------------------------------------------
(* Every step keeps it.                                                    *)
LEMMA NodeNextInv == NodeInv /\ [Next]_vars => NodeInv'
<1> SUFFICES ASSUME NodeInv, [Next]_vars PROVE NodeInv'
  OBVIOUS
<1> USE SizeAssumption, VersionAssumption DEF NodeInv, TypeOK, VersionInv
<1>v. version \in Nat /\ v \in Nat
  OBVIOUS
<1>p. /\ Even(v) => ~Even(v + 1)
      /\ Even(v) => Even(v + 2)
  BY Parity, <1>v
<1>e. wpc \in {"dirty", "store"} => v + 2 \in 0 .. MaxVersion
  BY <1>v
<1>1. CASE MarkDirty
  <2> USE <1>1 DEF MarkDirty, Dirty, readerVars
  <2>1. TypeOK' /\ VersionInv'
    BY <1>v, <1>p, <1>e
  <2>2. WriteInv'
    BY DEF WriteInv, Word
  <2>3. SnapInv' /\ CopiesHold'
    BY <1>v, <1>p DEF SnapInv, CopiesHold
  <2> QED BY <2>1, <2>2, <2>3
<1>2. CASE StoreWord
  <2> USE <1>2 DEF StoreWord, readerVars
  <2>1. TypeOK' /\ VersionInv'
    BY DEF Vector, Word
  <2>2. WriteInv'
    BY DEF WriteInv, Word, Vector
  <2>3. SnapInv' /\ CopiesHold'
    BY DEF SnapInv, CopiesHold
  <2> QED BY <2>1, <2>2, <2>3
<1>3. CASE MarkClean
  <2> USE <1>3 DEF MarkClean, Clean, readerVars
  <2>1. Even(v)
    <3>1. ~Even(v + 1)
      OBVIOUS
    <3>2. \A n \in Nat : ~Even(n + 1) => Even(n)
      BY DEF Even
    <3> QED BY <3>1, <3>2, <1>v
  <2>2. TypeOK' /\ VersionInv'
    BY <1>v, <1>p, <1>e, <2>1
  <2>3. WriteInv'
    BY DEF WriteInv
  <2>4. SnapInv' /\ CopiesHold'
    BY <1>v DEF SnapInv, CopiesHold
  <2> QED BY <2>2, <2>3, <2>4
<1>4. CASE \E vec \in Vector : StartWrite(vec)
  <2> PICK vec \in Vector : StartWrite(vec)
    BY <1>4
  <2> USE DEF StartWrite, readerVars
  <2>1. TypeOK' /\ VersionInv' /\ WriteInv'
    BY <1>v DEF WriteInv
  <2>2. SnapInv' /\ CopiesHold'
    BY DEF SnapInv, CopiesHold
  <2> QED BY <2>1, <2>2
<1>5. ASSUME NEW r \in Reader, StartRead(r) PROVE NodeInv'
  BY <1>5 DEF StartRead, writerVars, WriteInv, SnapInv, CopiesHold
<1>6. ASSUME NEW r \in Reader, TakeSnap(r) PROVE NodeInv'
  <2> USE <1>6 DEF TakeSnap, writerVars
  <2>1. TypeOK' /\ VersionInv' /\ WriteInv'
    BY DEF WriteInv
  <2>2. SnapInv'
    BY <1>v DEF SnapInv, Usable, Even
  <2>3. CopiesHold'
    BY DEF CopiesHold, Word
  <2> QED BY <2>1, <2>2, <2>3
<1>7. ASSUME NEW r \in Reader, CopyWord(r) PROVE NodeInv'
  <2> USE <1>7 DEF CopyWord, writerVars
  <2>1. ri[r] \in Word /\ out[r] \in Vector /\ data[ri[r]] \in Val
    BY DEF Word, Vector
  <2>2. TypeOK' /\ VersionInv' /\ WriteInv' /\ SnapInv'
    BY <2>1 DEF WriteInv, SnapInv, Vector
  <2>3. CopiesHold'
    BY <2>1 DEF CopiesHold, Word, Vector
  <2> QED BY <2>2, <2>3
<1>8. ASSUME NEW r \in Reader, Recheck(r) PROVE NodeInv'
  <2> USE <1>8 DEF Recheck, writerVars
  <2>1. TypeOK' /\ VersionInv' /\ WriteInv'
    BY DEF WriteInv
  <2>2. SnapInv' /\ CopiesHold'
    BY DEF SnapInv, CopiesHold
  <2> QED BY <2>1, <2>2
<1>9. CASE UNCHANGED vars
  BY <1>9 DEF vars, writerVars, readerVars, WriteInv, SnapInv, CopiesHold
<1> QED
  BY <1>1, <1>2, <1>3, <1>4, <1>5, <1>6, <1>7, <1>8, <1>9 DEF Next, WriterStep, ReaderStep

(* The invariant holds in every behaviour.                                 *)
THEOREM NodeInvariance == Spec => []NodeInv
  BY NodeInitInv, NodeNextInv, PTL DEF Spec

(* The variables have their types.                                         *)
THEOREM NodeTypeCorrect == Spec => []TypeOK
  BY NodeInvariance, PTL DEF NodeInv

(* As long as the version that read saw stands, what it has copied is in   *)
(* the node.                                                               *)
THEOREM CopiesAreWhole == Spec => []CopiesHold
  BY NodeInvariance, PTL DEF NodeInv

-----------------------------------------------------------------------------
(* make_node makes a register of zeros.                                    *)
LEMMA NodeInitRefines == Init => Register!Init
  BY DEF Init, Register!Init

(* MarkDirty is the write of the register, the Recheck that returns is the *)
(* read: the version is then even and was all the while, so that every     *)
(* word of the copy is still in the node.                                  *)
LEMMA NodeNextRefines == NodeInv /\ NodeInv' /\ [Next]_vars => [Register!Next]_Register!vars
<1> SUFFICES ASSUME NodeInv, NodeInv', [Next]_vars PROVE [Register!Next]_Register!vars
  OBVIOUS
<1> USE SizeAssumption DEF Register!Next, Register!vars, Register!Write, Register!Read
<1>1. CASE MarkDirty
  BY <1>1 DEF MarkDirty, readerVars, NodeInv, TypeOK
<1>2. CASE StoreWord
  BY <1>2 DEF StoreWord, readerVars
<1>3. CASE MarkClean
  <2>1. data = in
    <3>1. \A j \in Word : data[j] = in[j]
      BY <1>3 DEF MarkClean, Written, NodeInv, WriteInv, Word
    <3> QED BY <3>1 DEF NodeInv, TypeOK, Vector
  <2> QED BY <1>3, <2>1 DEF MarkClean, readerVars
<1>4. CASE \E vec \in Vector : StartWrite(vec)
  BY <1>4 DEF StartWrite, readerVars
<1>5. ASSUME NEW r \in Reader, StartRead(r) PROVE UNCHANGED Register!vars
  BY <1>5 DEF StartRead, writerVars
<1>6. ASSUME NEW r \in Reader, TakeSnap(r) PROVE UNCHANGED Register!vars
  BY <1>6 DEF TakeSnap, writerVars
<1>7. ASSUME NEW r \in Reader, CopyWord(r) PROVE UNCHANGED Register!vars
  BY <1>7 DEF CopyWord, writerVars
<1>8. ASSUME NEW r \in Reader, Recheck(r) PROVE [Register!Next]_Register!vars
  <2> USE <1>8 DEF Recheck, writerVars
  <2>1. CASE ~Unchanged(r)
    BY <2>1
  <2>2. CASE Unchanged(r)
    <3>1. wpc # "store"
      BY <2>2 DEF Unchanged, NodeInv, SnapInv, VersionInv
    <3>2. out[r] = data
      <4>1. \A j \in Word : out[r][j] = data[j]
        BY <2>2 DEF Unchanged, NodeInv, CopiesHold, Word
      <4> QED BY <4>1 DEF NodeInv, TypeOK, Vector
    <3>3. Register!Read(r)
      BY <2>2, <3>1, <3>2
    <3> QED BY <3>3
  <2> QED BY <2>1, <2>2
<1>9. CASE UNCHANGED vars
  BY <1>9 DEF vars, writerVars, readerVars
<1> QED
  BY <1>1, <1>2, <1>3, <1>4, <1>5, <1>6, <1>7, <1>8, <1>9 DEF Next, WriterStep, ReaderStep

(* The node is an atomic register, for any number of readers and words.    *)
THEOREM NodeIsRegister == Spec => ImplementsRegister
  BY NodeInitRefines, NodeNextRefines, NodeInvariance, PTL DEF Spec, ImplementsRegister, Register!Spec

-----------------------------------------------------------------------------
(* The search tree.  The invariant says where things are by searches, not  *)
(* by shape: OnPath is the set of nodes that a search for a key comes to.  *)
(* Each node that has a key is on the path to it, no two boxes point to    *)
(* one node, and a thread on its way is on the path to its key.  An insert *)
(* makes paths longer, so that threads without a lock stay on them; a      *)
(* delete, which changes paths, is alone.  That keys are in order, that    *)
(* the tree has no loops and that a key occurs once all follow from that.  *)

(* A finite set of integers has a least element: the only induction there  *)
(* is here.                                                                *)
LEMMA FiniteHasLeast ==
  ASSUME NEW S, IsFiniteSet(S), S \subseteq Int, S # {}
  PROVE  \E e \in S : \A f \in S : e <= f
<1> DEFINE HasLeast(T) == \E e \in T : \A f \in T : e <= f
           Bad == {T \in SUBSET S : T # {} /\ ~HasLeast(T)}
<1> SUFFICES ASSUME Bad # {} PROVE FALSE
  OBVIOUS
<1>1. IsWellFoundedOn(StrictSubsetOrdering(S), SUBSET S)
  BY FS_StrictSubsetOrderingWellFounded, FS_FiniteSubsetsOfFinite
<1>2. PICK T \in Bad : \A U \in Bad : ~(<<U, T>> \in StrictSubsetOrdering(S))
  <2> HIDE DEF Bad
  <2>1. Bad \subseteq SUBSET S
    BY DEF Bad
  <2> QED BY <1>1, <2>1, WFMin
<1>3. PICK x \in T : TRUE
  OBVIOUS
<1>4. T \ {x} \notin Bad
  BY <1>2, <1>3 DEF StrictSubsetOrdering
<1>5. CASE T \ {x} = {}
  BY <1>3, <1>5
<1>6. CASE HasLeast(T \ {x})
  <2>1. PICK e \in T \ {x} : \A f \in T \ {x} : e <= f
    BY <1>6
  <2>2. HasLeast(T)
    BY <1>3, <2>1
  <2> QED BY <2>2
<1> QED BY <1>4, <1>5, <1>6

-----------------------------------------------------------------------------
(* What is below a node: Below takes as many steps as there are keys.      *)
Grown(tr, S) == UNION {IF tr[m] = NULL THEN {m} ELSE {m, tr[m].left, tr[m].right} : m \in S}
Reach(tr, n, N) == CHOOSE f : f = [k \in 0..N |-> IF k = 0 THEN {n} ELSE Grown(tr, f[k - 1])]

(* Below is defined by recursion on the number of steps: there is such a   *)
(* function.                                                               *)
LEMMA ReachExists ==
  ASSUME NEW tr, NEW n, NEW N \in Nat
  PROVE  Reach(tr, n, N) = [k \in 0..N |-> IF k = 0 THEN {n} ELSE Grown(tr, Reach(tr, n, N)[k - 1])]
<1> DEFINE Upto(k, f) == f = [i \in 0..k |-> IF i = 0 THEN {n} ELSE Grown(tr, f[i - 1])]
           missing == {k \in 0..N : ~\E f : Upto(k, f)}
<1>1. missing = {}
  <2> SUFFICES ASSUME missing # {} PROVE FALSE
    OBVIOUS
  <2>1. IsFiniteSet(0..N)
    BY FS_Interval
  <2>2. IsFiniteSet(missing) /\ missing \subseteq Int
    BY <2>1, FS_Subset
  <2>3. PICK k \in missing : \A j \in missing : k <= j
    <3> HIDE DEF missing
    <3> QED BY <2>2, FiniteHasLeast
  <2>4. k \in 0..N /\ ~\E f : Upto(k, f)
    BY <2>3
  <2>5. k # 0
    <3> DEFINE f == [i \in 0..0 |-> {n}]
    <3>1. \A i \in 0..0 : f[i] = IF i = 0 THEN {n} ELSE Grown(tr, f[i - 1])
      OBVIOUS
    <3>2. f = [i \in 0..0 |-> f[i]]
      OBVIOUS
    <3>3. Upto(0, f)
      <4> HIDE DEF f
      <4>1. [i \in 0..0 |-> f[i]] = [i \in 0..0 |-> IF i = 0 THEN {n} ELSE Grown(tr, f[i - 1])]
        BY <3>1
      <4> QED BY <3>2, <4>1
    <3> QED BY <2>4, <3>3
  <2>6. k - 1 \in 0..N /\ k - 1 \notin missing
    <3>1. k - 1 \in 0..N /\ ~(k <= k - 1)
      BY <2>4, <2>5
    <3> HIDE DEF missing
    <3> QED BY <2>3, <3>1
  <2>7. PICK g : Upto(k - 1, g)
    BY <2>6
  <2> DEFINE f == [i \in 0..k |-> IF i < k THEN g[i] ELSE Grown(tr, g[k - 1])]
  <2>8. \A i \in 0..k : f[i] = IF i = 0 THEN {n} ELSE Grown(tr, f[i - 1])
    <3> SUFFICES ASSUME NEW i \in 0..k PROVE f[i] = IF i = 0 THEN {n} ELSE Grown(tr, f[i - 1])
      OBVIOUS
    <3>1. CASE i < k
      <4>1. i \in 0..k-1 /\ (i # 0 => i - 1 \in 0..k /\ i - 1 < k)
        BY <2>4, <3>1
      <4>2. g[i] = IF i = 0 THEN {n} ELSE Grown(tr, g[i - 1])
        BY <2>7, <4>1
      <4>3. f[i] = g[i] /\ (i # 0 => f[i - 1] = g[i - 1])
        BY <3>1, <4>1
      <4> QED BY <4>2, <4>3
    <3>2. CASE i = k
      <4>1. f[k] = Grown(tr, g[k - 1]) /\ k - 1 \in 0..k /\ k - 1 < k /\ f[k - 1] = g[k - 1]
        BY <2>4, <2>5
      <4> QED BY <2>5, <3>2, <4>1
    <3> QED BY <2>4, <3>1, <3>2
  <2>9. Upto(k, f)
    <3>1. f = [i \in 0..k |-> f[i]]
      OBVIOUS
    <3>2. [i \in 0..k |-> f[i]] = [i \in 0..k |-> IF i = 0 THEN {n} ELSE Grown(tr, f[i - 1])]
      <4> HIDE DEF f
      <4> QED BY <2>8
    <3> HIDE DEF f
    <3> QED BY <3>1, <3>2
  <2> QED BY <2>4, <2>9
<1>2. \E f : Upto(N, f)
  <2>1. N \in 0..N
    OBVIOUS
  <2> HIDE DEF Upto
  <2> QED BY <1>1, <2>1
<1>3. Upto(N, CHOOSE f : Upto(N, f))
  <2> HIDE DEF Upto
  <2> QED BY <1>2
<1>4. Reach(tr, n, N) = CHOOSE f : Upto(N, f)
  BY DEF Reach
<1> QED BY <1>3, <1>4

(* Its equations.                                                          *)
LEMMA ReachSteps ==
  ASSUME NEW tr, NEW n, NEW N \in Nat
  PROVE  /\ Reach(tr, n, N)[0] = {n}
         /\ \A k \in 0..N : k # 0 => Reach(tr, n, N)[k] = Grown(tr, Reach(tr, n, N)[k - 1])
<1> DEFINE R == Reach(tr, n, N)
<1>1. R = [k \in 0..N |-> IF k = 0 THEN {n} ELSE Grown(tr, R[k - 1])]
  BY ReachExists
<1> HIDE DEF R
<1>2. \A k \in 0..N : R[k] = IF k = 0 THEN {n} ELSE Grown(tr, R[k - 1])
  BY <1>1, Zenon
<1>3. 0 \in 0..N
  OBVIOUS
<1> QED BY <1>2, <1>3 DEF R

(* Below of the model, as a function of the tree.                          *)
LEMMA BelowReach ==
  ASSUME NEW n
  PROVE  Below(n) = Reach(tree, n, Cardinality(Key))[Cardinality(Key)]
BY DEF Below, Reach, Grown

Full(tr) == {n \in Node : tr[n] # NULL}
IsTree(tr) == tr \in [Node -> {NULL} \cup [key : Key, value : Item, left : Node, right : Node]]
Closed(tr, S) == \A m \in S : tr[m] # NULL => tr[m].left \in S /\ tr[m].right \in S
IsBelow(tr, n, B) ==
  /\ B \subseteq Node /\ n \in B /\ Closed(tr, B)
  /\ \A S \in SUBSET Node : n \in S /\ Closed(tr, S) => B \subseteq S

(* The fields of a node; key 0 is that of NULL alone.                      *)
LEMMA TreeFields ==
  ASSUME ConstantsFit, NEW tr, IsTree(tr), NEW n \in Node
  PROVE  /\ tr[n] = NULL <=> tr[n].key = 0
         /\ tr[n] # NULL => /\ tr[n].key \in Key /\ tr[n].key \in Int /\ tr[n].value \in Item
                            /\ tr[n].left \in Node /\ tr[n].right \in Node
<1>1. tr[n] \in {NULL} \cup [key : Key, value : Item, left : Node, right : Node]
  BY DEF IsTree
<1>2. CASE tr[n] = NULL
  BY <1>2 DEF NULL
<1>3. CASE tr[n] \in [key : Key, value : Item, left : Node, right : Node]
  <2>1. tr[n].key \in Key /\ tr[n].key \in Int /\ tr[n].key # 0
    BY <1>3 DEF ConstantsFit
  <2>2. tr[n] # NULL
    BY <2>1 DEF NULL
  <2> QED BY <1>3, <2>1, <2>2
<1> QED BY <1>1, <1>2, <1>3

(* One more step adds the children and nothing outside a closed set.       *)
LEMMA GrownIs ==
  ASSUME NEW tr, NEW S
  PROVE  /\ S \subseteq Grown(tr, S)
         /\ \A m \in S : tr[m] # NULL => tr[m].left \in Grown(tr, S) /\ tr[m].right \in Grown(tr, S)
         /\ \A T : S \subseteq T /\ Closed(tr, T) => Grown(tr, S) \subseteq T
         /\ Closed(tr, S) => Grown(tr, S) = S
<1>1. \A x : x \in Grown(tr, S) <=>
        \E m \in S : x = m \/ (tr[m] # NULL /\ (x = tr[m].left \/ x = tr[m].right))
  BY DEF Grown
<1>2. S \subseteq Grown(tr, S)
  BY <1>1
<1>3. \A m \in S : tr[m] # NULL => tr[m].left \in Grown(tr, S) /\ tr[m].right \in Grown(tr, S)
  BY <1>1
<1>4. ASSUME NEW T, S \subseteq T, Closed(tr, T) PROVE Grown(tr, S) \subseteq T
  BY <1>1, <1>4 DEF Closed
<1> HIDE DEF Grown
<1> QED BY <1>2, <1>3, <1>4

(* As many steps as there are full nodes reach everything below: a step    *)
(* that does not end adds one.                                             *)
LEMMA ReachIsBelow ==
  ASSUME ConstantsFit, NEW tr, IsTree(tr), NEW n \in Node, NEW N \in Nat, Cardinality(Full(tr)) <= N
  PROVE  IsBelow(tr, n, Reach(tr, n, N)[N])
<1> DEFINE R == Reach(tr, n, N)
<1>1. R[0] = {n} /\ \A k \in 0..N : k # 0 => R[k] = Grown(tr, R[k - 1])
  BY ReachSteps
<1> HIDE DEF R
<1>f. IsFiniteSet(0..N)
  BY FS_Interval
(* Any set with what holds at 0, and at k if at k - 1.                     *)
<1>i. ASSUME NEW P, 0 \in P, \A k \in 1..N : k - 1 \in P => k \in P PROVE 0..N \subseteq P
  <2> DEFINE missing == {k \in 0..N : k \notin P}
  <2> SUFFICES ASSUME missing # {} PROVE FALSE
    OBVIOUS
  <2>1. IsFiniteSet(missing) /\ missing \subseteq Int
    BY <1>f, FS_Subset
  <2>2. PICK k \in missing : \A j \in missing : k <= j
    <3> HIDE DEF missing
    <3> QED BY <2>1, FiniteHasLeast
  <2>3. k \in 1..N /\ k \notin P
    BY <1>i, <2>2
  <2>4. k - 1 \notin P
    BY <1>i, <2>3
  <2>5. k - 1 \in missing /\ ~(k <= k - 1)
    BY <2>3, <2>4
  <2> QED BY <2>2, <2>5
<1>2. \A k \in 0..N : R[k] \subseteq Node /\ n \in R[k]
  <2> DEFINE P == {k \in 0..N : R[k] \subseteq Node /\ n \in R[k]}
  <2>1. 0 \in P
    BY <1>1
  <2>2. ASSUME NEW k \in 1..N, k - 1 \in P PROVE k \in P
    <3>1. R[k] = Grown(tr, R[k - 1]) /\ R[k - 1] \subseteq Node /\ n \in R[k - 1] /\ k \in 0..N
      BY <1>1, <2>2
    <3>2. Closed(tr, Node)
      BY TreeFields DEF Closed
    <3> QED BY <3>1, <3>2, GrownIs
  <2> HIDE DEF P
  <2>3. 0..N \subseteq P
    BY <1>i, <2>1, <2>2
  <2> QED BY <2>3 DEF P
<1>3. ASSUME NEW S \in SUBSET Node, n \in S, Closed(tr, S) PROVE R[N] \subseteq S
  <2> DEFINE P == {k \in 0..N : R[k] \subseteq S}
  <2>1. 0 \in P
    BY <1>1, <1>3
  <2>2. ASSUME NEW k \in 1..N, k - 1 \in P PROVE k \in P
    <3>1. R[k] = Grown(tr, R[k - 1]) /\ R[k - 1] \subseteq S /\ k \in 0..N
      BY <1>1, <2>2
    <3> QED BY <3>1, <1>3, GrownIs
  <2> HIDE DEF P
  <2>3. 0..N \subseteq P
    BY <1>i, <2>1, <2>2
  <2> QED BY <2>3 DEF P
<1>4. ASSUME NEW k \in 1..N, Closed(tr, R[k - 1]) PROVE Closed(tr, R[k])
  <2>1. R[k] = Grown(tr, R[k - 1])
    BY <1>1
  <2> QED BY <2>1, <1>4, GrownIs
<1> DEFINE held(k) == Full(tr) \cap R[k]
<1>5. IsFiniteSet(Full(tr)) /\ \A k \in 0..N : IsFiniteSet(held(k)) /\ Cardinality(held(k)) \in Nat
  <2>1. IsFiniteSet(Full(tr))
    BY FS_Subset DEF ConstantsFit, Full
  <2> QED BY <2>1, FS_Intersection, FS_CardinalityType
(* As long as it is not closed a step adds a full node.                    *)
<1>6. ASSUME NEW k \in 1..N, ~Closed(tr, R[k]) PROVE Cardinality(held(k)) > Cardinality(held(k - 1))
  <2>1. R[k] = Grown(tr, R[k - 1]) /\ k \in 0..N /\ k - 1 \in 0..N
    BY <1>1
  <2>2. PICK m \in R[k] : tr[m] # NULL /\ ~(tr[m].left \in R[k] /\ tr[m].right \in R[k])
    BY <1>6 DEF Closed
  <2>3. m \notin R[k - 1] /\ R[k - 1] \subseteq R[k]
    BY <2>1, <2>2, GrownIs
  <2>4. m \in held(k) /\ m \notin held(k - 1) /\ held(k - 1) \subseteq held(k)
    BY <1>2, <2>1, <2>2, <2>3 DEF Full
  <2> HIDE DEF held
  <2>5. IsFiniteSet(held(k)) /\ IsFiniteSet(held(k - 1)) /\ Cardinality(held(k)) \in Nat /\ Cardinality(held(k - 1)) \in Nat
    BY <1>5, <2>1
  <2>6. Cardinality(held(k - 1)) <= Cardinality(held(k)) /\ (Cardinality(held(k)) = Cardinality(held(k - 1)) => held(k) = held(k - 1))
    BY <2>4, <2>5, FS_Subset
  <2> QED BY <2>4, <2>5, <2>6
<1>7. Closed(tr, R[N])
  <2> SUFFICES ASSUME ~Closed(tr, R[N]) PROVE FALSE
    OBVIOUS
  <2> DEFINE P == {k \in 0..N : Closed(tr, R[k]) => Closed(tr, R[N])}
             Q == {k \in 0..N : Cardinality(held(k)) >= k + 1}
  (* None was closed before.                                               *)
  <2>1. \A k \in 0..N : ~Closed(tr, R[k])
    <3> SUFFICES ASSUME NEW k \in 0..N, Closed(tr, R[k]) PROVE FALSE
      OBVIOUS
    <3> DEFINE T == {j \in 0..N : j >= k => Closed(tr, R[j])}
    <3>1. 0 \in T
      <4>1. 0 >= k => k = 0
        OBVIOUS
      <4> QED BY <4>1
    <3>2. ASSUME NEW j \in 1..N, j - 1 \in T PROVE j \in T
      <4>1. CASE j = k
        BY <4>1
      <4>2. CASE j # k
        <5>1. j >= k => j - 1 >= k
          BY <4>2
        <5> QED BY <3>2, <1>4, <5>1
      <4> QED BY <4>1, <4>2
    <3>3. N \in T
      <4> HIDE DEF T
      <4>1. 0..N \subseteq T
        BY <1>i, <3>1, <3>2
      <4> QED BY <4>1
    <3> QED BY <3>3
  <2>2. 0 \in Q
    <3>1. n \in held(0)
      <4>1. ~Closed(tr, {n})
        BY <1>1, <2>1
      <4> QED BY <1>1, <4>1 DEF Closed, Full
    <3>2. IsFiniteSet(held(0)) /\ Cardinality(held(0)) \in Nat
      BY <1>5
    <3> HIDE DEF held
    <3>3. Cardinality(held(0)) # 0
      BY <3>1, <3>2, FS_EmptySet
    <3> QED BY <3>2, <3>3
  <2>3. ASSUME NEW k \in 1..N, k - 1 \in Q PROVE k \in Q
    <3> HIDE DEF held
    <3>1. Cardinality(held(k)) > Cardinality(held(k - 1)) /\ Cardinality(held(k)) \in Nat /\ Cardinality(held(k - 1)) \in Nat
      BY <1>5, <1>6, <2>1
    <3>2. Cardinality(held(k - 1)) >= k - 1 + 1
      BY <2>3
    <3> QED BY <3>1, <3>2
  <2>4. N \in Q
    <3> HIDE DEF Q
    <3>1. 0..N \subseteq Q
      BY <1>i, <2>2, <2>3
    <3> QED BY <3>1
  <2>5. Cardinality(held(N)) <= Cardinality(Full(tr)) /\ Cardinality(held(N)) \in Nat /\ Cardinality(Full(tr)) \in Nat
    BY <1>5, FS_Intersection, FS_CardinalityType
  <2> HIDE DEF held
  <2> QED BY <2>4, <2>5
<1>8. R[N] \subseteq Node /\ n \in R[N]
  BY <1>2
<1> QED BY <1>3, <1>7, <1>8 DEF IsBelow, R

-----------------------------------------------------------------------------
(* The nodes that a search for a key comes to.                             *)
NextOn(tr, k, m) == IF k < tr[m].key THEN tr[m].left ELSE tr[m].right
Ends(tr, k, m) == tr[m] = NULL \/ tr[m].key = k
PathClosed(tr, k, S) == \A m \in S : ~Ends(tr, k, m) => NextOn(tr, k, m) \in S
OnPath(tr, rt, k) == {n \in Node : \A S \in SUBSET Node : rt \in S /\ PathClosed(tr, k, S) => n \in S}

(* A path starts at the root and goes on until it ends.                    *)
LEMMA PathSteps ==
  ASSUME ConstantsFit, NEW tr, IsTree(tr), NEW rt \in Node, NEW k
  PROVE  rt \in OnPath(tr, rt, k) /\ PathClosed(tr, k, OnPath(tr, rt, k))
<1>1. ASSUME NEW m \in OnPath(tr, rt, k), ~Ends(tr, k, m) PROVE NextOn(tr, k, m) \in OnPath(tr, rt, k)
  <2>1. m \in Node /\ tr[m] # NULL
    BY <1>1 DEF OnPath, Ends
  <2>2. NextOn(tr, k, m) \in Node
    BY <2>1, TreeFields DEF NextOn
  <2>3. ASSUME NEW S \in SUBSET Node, rt \in S, PathClosed(tr, k, S) PROVE NextOn(tr, k, m) \in S
    <3>1. m \in S
      BY <1>1, <2>3 DEF OnPath
    <3> QED BY <1>1, <2>3, <3>1 DEF PathClosed
  <2> QED BY <2>2, <2>3 DEF OnPath
<1> QED BY <1>1 DEF PathClosed, OnPath

(* It ends at one node.                                                    *)
LEMMA PathEndsOnce ==
  ASSUME ConstantsFit, NEW tr, IsTree(tr), NEW rt \in Node, NEW k,
         NEW n \in OnPath(tr, rt, k), Ends(tr, k, n), NEW m \in OnPath(tr, rt, k), Ends(tr, k, m)
  PROVE  n = m
<1> DEFINE S == {x \in Node : n \in OnPath(tr, x, k)}
<1>1. rt \in S
  OBVIOUS
<1>2. ASSUME NEW x \in S, ~Ends(tr, k, x) PROVE NextOn(tr, k, x) \in S
  <2>1. x \in Node /\ n \in Node /\ n \in OnPath(tr, x, k) /\ x # n
    BY <1>2 DEF OnPath
  <2>2. NextOn(tr, k, x) \in Node
    BY <1>2, <2>1, TreeFields DEF NextOn, Ends
  <2>3. ASSUME NEW T \in SUBSET Node, NextOn(tr, k, x) \in T, PathClosed(tr, k, T) PROVE n \in T
    <3>1. T \cup {x} \in SUBSET Node /\ x \in T \cup {x}
      BY <2>1
    <3>2. PathClosed(tr, k, T \cup {x})
      BY <2>3 DEF PathClosed
    <3>3. n \in T \cup {x}
      BY <2>1, <3>1, <3>2 DEF OnPath
    <3> QED BY <2>1, <3>3
  <2> QED BY <2>1, <2>2, <2>3 DEF OnPath
<1>3. PathClosed(tr, k, S)
  BY <1>2 DEF PathClosed
<1>4. m \in S
  <2>1. S \in SUBSET Node
    OBVIOUS
  <2> HIDE DEF S
  <2> QED BY <2>1, <1>1, <1>3 DEF OnPath
<1>5. {m} \in SUBSET Node /\ PathClosed(tr, k, {m})
  BY DEF PathClosed, OnPath
<1>6. n \in OnPath(tr, m, k)
  BY <1>4
<1> QED BY <1>5, <1>6 DEF OnPath

(* No two boxes point to the same node, and each node is where a search for*)
(* its key comes to.                                                       *)
Apart(tr, rt) ==
  \A n, m \in Full(tr) :
    /\ tr[n].left # rt /\ tr[n].right # rt
    /\ tr[n].left # tr[m].right
    /\ tr[n].left = tr[m].left => n = m
    /\ tr[n].right = tr[m].right => n = m
Found(tr, rt) == \A n \in Full(tr) : n \in OnPath(tr, rt, tr[n].key)
Inside(tr, rt, md) ==
  /\ md \subseteq Node /\ rt \in md
  /\ \A n \in Full(tr) : n \in md /\ tr[n].left \in md /\ tr[n].right \in md
Good(tr, rt, md) == IsTree(tr) /\ Inside(tr, rt, md) /\ Apart(tr, rt) /\ Found(tr, rt)

(* Two nodes with one key are on one path.                                 *)
LEMMA KeysDiffer ==
  ASSUME ConstantsFit, NEW tr, NEW rt, NEW md, Good(tr, rt, md),
         NEW n \in Full(tr), NEW m \in Full(tr), tr[n].key = tr[m].key
  PROVE  n = m
<1>1. n \in OnPath(tr, rt, tr[n].key) /\ m \in OnPath(tr, rt, tr[n].key) /\ rt \in Node /\ IsTree(tr)
  BY DEF Good, Found, Inside
<1>2. Ends(tr, tr[n].key, n) /\ Ends(tr, tr[n].key, m)
  BY DEF Ends
<1> QED BY <1>1, <1>2, PathEndsOnce

(* There are no more full nodes than keys.                                 *)
LEMMA FullBound ==
  ASSUME ConstantsFit, NEW tr, NEW rt, NEW md, Good(tr, rt, md)
  PROVE  Cardinality(Full(tr)) <= Cardinality(Key) /\ Cardinality(Key) \in Nat
<1> DEFINE keyOf == [n \in Full(tr) |-> tr[n].key]
<1>1. \A n \in Full(tr) : tr[n].key \in Key
  BY TreeFields DEF Good, Full
<1>2. \A n, m \in Full(tr) : tr[n].key = tr[m].key => n = m
  BY KeysDiffer
<1>3. keyOf \in Injection(Full(tr), Key)
  BY <1>1, <1>2 DEF Injection, IsInjective
<1> HIDE DEF keyOf
<1> QED BY <1>3, FS_Injection, FS_CardinalityType DEF ConstantsFit

(* So that Below is the smallest closed set.                               *)
LEMMA BelowIs ==
  ASSUME ConstantsFit, NEW tr, NEW rt, NEW md, Good(tr, rt, md), NEW n \in Node
  PROVE  IsBelow(tr, n, Reach(tr, n, Cardinality(Key))[Cardinality(Key)])
BY FullBound, ReachIsBelow DEF Good

(* All full nodes are below the root.                                      *)
LEMMA FullBelow ==
  ASSUME ConstantsFit, NEW tr, NEW rt, NEW md, Good(tr, rt, md), NEW B, IsBelow(tr, rt, B)
  PROVE  Full(tr) \subseteq B
<1> SUFFICES ASSUME NEW n \in Full(tr) PROVE n \in B
  OBVIOUS
<1>1. n \in OnPath(tr, rt, tr[n].key)
  BY DEF Good, Found
<1>2. B \in SUBSET Node /\ rt \in B /\ PathClosed(tr, tr[n].key, B)
  BY DEF IsBelow, Closed, PathClosed, Ends, NextOn
<1> QED BY <1>1, <1>2 DEF OnPath

(* What hangs from a box has no other way in.                              *)
LEMMA WaysIn ==
  ASSUME ConstantsFit, NEW tr, NEW n \in Node, NEW B, IsBelow(tr, n, B), NEW m \in B, m # n
  PROVE  \E x \in B : tr[x] # NULL /\ (m = tr[x].left \/ m = tr[x].right)
<1> DEFINE S == {n} \cup {y \in B : \E x \in B : tr[x] # NULL /\ (y = tr[x].left \/ y = tr[x].right)}
<1>1. S \subseteq B
  BY DEF IsBelow
<1>2. Closed(tr, S)
  BY <1>1 DEF Closed, IsBelow
<1>3. S \in SUBSET Node /\ n \in S
  BY <1>1 DEF IsBelow
<1>4. m \in S
  <2> HIDE DEF S
  <2> QED BY <1>2, <1>3 DEF IsBelow
<1> QED BY <1>4

(* A path to a key to the left of n passes n on its left, and so to the    *)
(* right.                                                                  *)
LEMMA KeysInOrder ==
  ASSUME ConstantsFit, NEW tr, NEW rt, NEW md, Good(tr, rt, md), NEW n \in Full(tr), NEW B, NEW m \in B, tr[m] # NULL
  PROVE  /\ IsBelow(tr, tr[n].left, B) => tr[m].key < tr[n].key
         /\ IsBelow(tr, tr[n].right, B) => tr[m].key > tr[n].key
<1> SUFFICES ASSUME NEW c, c = tr[n].left \/ c = tr[n].right, IsBelow(tr, c, B)
             PROVE  /\ c = tr[n].left => tr[m].key < tr[n].key
                    /\ c = tr[n].right => tr[m].key > tr[n].key
  OBVIOUS
<1>1. n \in Node /\ tr[n] # NULL /\ m \in Node /\ m \in Full(tr) /\ rt \in Node /\ IsTree(tr) /\ c \in Node
  BY TreeFields DEF Full, IsBelow, Good, Inside
<1>2. tr[n].key \in Int /\ tr[m].key \in Int /\ c # rt
  BY <1>1, TreeFields DEF Good, Apart
<1> DEFINE k == tr[m].key
           S == Node \ B
<1>3. m \in OnPath(tr, rt, k)
  BY <1>1 DEF Good, Found
<1>4. ASSUME NEW x \in S, ~Ends(tr, k, x), NextOn(tr, k, x) \in B PROVE x = n /\ NextOn(tr, k, n) = c
  <2>1. x \in Full(tr)
    BY <1>4 DEF Ends, Full
  <2>2. NextOn(tr, k, x) = tr[x].left \/ NextOn(tr, k, x) = tr[x].right
    BY DEF NextOn
  <2>3. CASE NextOn(tr, k, x) = c
    <3>1. Apart(tr, rt)
      BY DEF Good
    <3> QED BY <2>1, <2>2, <2>3, <3>1 DEF Apart
  <2>4. CASE NextOn(tr, k, x) # c
    <3>1. PICK y \in B : tr[y] # NULL /\ (NextOn(tr, k, x) = tr[y].left \/ NextOn(tr, k, x) = tr[y].right)
      BY <1>1, <1>4, <2>4, WaysIn
    <3>2. y \in Full(tr) /\ Apart(tr, rt)
      BY <3>1 DEF Full, IsBelow, Good
    <3>3. x = y
      BY <2>1, <2>2, <3>1, <3>2 DEF Apart
    <3> QED BY <1>4, <3>1, <3>3
  <2> QED BY <2>3, <2>4
<1>5. rt \in S
  <2> SUFFICES ASSUME rt \in B PROVE FALSE
    BY <1>1
  <2>1. PICK x \in B : tr[x] # NULL /\ (rt = tr[x].left \/ rt = tr[x].right)
    BY <1>1, <1>2, WaysIn
  <2>2. x \in Full(tr) /\ Apart(tr, rt)
    BY <2>1 DEF Full, IsBelow, Good
  <2> QED BY <2>1, <2>2 DEF Apart
<1>6. ~PathClosed(tr, k, S)
  <2>1. S \in SUBSET Node /\ m \notin S
    OBVIOUS
  <2> HIDE DEF S
  <2> QED BY <1>3, <1>5, <2>1 DEF OnPath
<1>7. PICK x \in S : ~Ends(tr, k, x) /\ NextOn(tr, k, x) \notin S
  BY <1>6 DEF PathClosed
<1>8. NextOn(tr, k, x) \in B
  BY <1>1, <1>7, TreeFields DEF Ends, NextOn
<1>9. ~Ends(tr, k, n) /\ NextOn(tr, k, n) = c
  BY <1>4, <1>7, <1>8
<1>10. tr[n].left # tr[n].right
  BY <1>1 DEF Good, Apart, Full
<1> QED BY <1>1, <1>2, <1>9, <1>10 DEF NextOn, Ends

(* Every node but the root hangs from one box of a full one.               *)
LEMMA CountNodes ==
  ASSUME ConstantsFit, NEW tr, NEW rt, NEW md, Good(tr, rt, md), NEW B, IsBelow(tr, rt, B)
  PROVE  Cardinality(B) = 2 * Cardinality({n \in B : tr[n] # NULL}) + 1
<1> DEFINE F == {n \in B : tr[n] # NULL}
           L == {tr[n].left : n \in F}
           R == {tr[n].right : n \in F}
           lf == [n \in F |-> tr[n].left]
           rf == [n \in F |-> tr[n].right]
<1>1. F \subseteq Full(tr) /\ B \subseteq Node /\ rt \in B /\ Apart(tr, rt) /\ rt \in Node
  BY DEF IsBelow, Full, Good
<1>2. IsFiniteSet(B) /\ IsFiniteSet(F)
  <2>1. IsFiniteSet(B)
    BY <1>1, FS_Subset DEF ConstantsFit
  <2> QED BY <2>1, FS_Subset
<1>3. lf \in Bijection(F, L) /\ rf \in Bijection(F, R)
  <2>1. \A n, m \in F : (tr[n].left = tr[m].left => n = m) /\ (tr[n].right = tr[m].right => n = m)
    BY <1>1 DEF Apart
  <2> HIDE DEF F
  <2> QED BY <2>1 DEF Bijection, Injection, Surjection, IsInjective
<1>4. IsFiniteSet(L) /\ IsFiniteSet(R) /\ Cardinality(L) = Cardinality(F) /\ Cardinality(R) = Cardinality(F)
  <2> HIDE DEF F, L, R, lf, rf
  <2> QED BY <1>2, <1>3, FS_Bijection DEF ExistsBijection
<1>5. L \cap R = {} /\ rt \notin L \cup R
  BY <1>1 DEF Apart
<1>6. B = (L \cup R) \cup {rt}
  <2>1. L \cup R \subseteq B
    BY DEF IsBelow, Closed
  <2>2. \A m \in B : m # rt => m \in L \cup R
    BY <1>1, WaysIn
  <2> QED BY <1>1, <2>1, <2>2
<1> HIDE DEF F, L, R
<1>7. IsFiniteSet(L \cup R) /\ Cardinality(L \cup R) = Cardinality(F) + Cardinality(F)
  <2>1. Cardinality(L \cup R) = Cardinality(L) + Cardinality(R) - Cardinality(L \cap R) /\ IsFiniteSet(L \cup R)
    BY <1>4, FS_Union
  <2>2. Cardinality(L \cap R) = 0 /\ Cardinality(F) \in Nat
    BY <1>2, <1>5, FS_EmptySet, FS_CardinalityType
  <2> QED BY <1>4, <2>1, <2>2
<1>8. Cardinality(B) = Cardinality(L \cup R) + 1 /\ Cardinality(F) \in Nat
  BY <1>2, <1>5, <1>6, <1>7, FS_AddElement, FS_CardinalityType
<1>9. Cardinality(B) = 2 * Cardinality(F) + 1
  BY <1>7, <1>8
<1> QED BY <1>9 DEF F

-----------------------------------------------------------------------------
(* What the calls do to the tree, as changes of single fields.             *)

(* No path leaves what is made.                                            *)
LEMMA PathInside ==
  ASSUME ConstantsFit, NEW tr, NEW rt, NEW md, Good(tr, rt, md), NEW k
  PROVE  OnPath(tr, rt, k) \subseteq md
<1>1. md \in SUBSET Node /\ rt \in md /\ PathClosed(tr, k, md)
  BY DEF Good, Inside, Full, PathClosed, Ends, NextOn
<1> QED BY <1>1 DEF OnPath

(* No node is below itself.                                                *)
LEMMA NoLoops ==
  ASSUME ConstantsFit, NEW tr, NEW rt, NEW md, Good(tr, rt, md), NEW n \in Full(tr),
         NEW c, c = tr[n].left \/ c = tr[n].right
  PROVE  /\ c # n
         /\ tr[c] # NULL => /\ tr[c].left # n /\ tr[c].right # n
                            /\ c = tr[n].left => tr[c].key < tr[n].key
                            /\ c = tr[n].right => tr[c].key > tr[n].key
<1> DEFINE B == Reach(tr, c, Cardinality(Key))[Cardinality(Key)]
<1>1. n \in Node /\ tr[n] # NULL /\ c \in Node /\ tr[n].key \in Int
  BY TreeFields DEF Full, Good
<1>2. IsBelow(tr, c, B)
  BY <1>1, BelowIs
<1> HIDE DEF B
<1>3. c \in B /\ (tr[c] # NULL => tr[c].left \in B /\ tr[c].right \in B)
  BY <1>2 DEF IsBelow, Closed
<1>4. n \notin B
  BY <1>1, <1>2, KeysInOrder
<1>5. tr[c] # NULL => /\ c = tr[n].left => tr[c].key < tr[n].key
                      /\ c = tr[n].right => tr[c].key > tr[n].key
  BY <1>2, <1>3, KeysInOrder
<1> QED BY <1>3, <1>4, <1>5

(* A node becomes a leaf.                                                  *)
Leaf(tr, w, n, k, i, p1, p2) ==
  w = [tr EXCEPT ![n] = [key |-> k, value |-> i, left |-> p1, right |-> p2]]

(* What a new leaf is.                                                     *)
LEMMA LeafIsTree ==
  ASSUME ConstantsFit, NEW tr, IsTree(tr), NEW n \in Node, NEW k \in Key, NEW i \in Item,
         NEW p1 \in Node, NEW p2 \in Node, NEW w, Leaf(tr, w, n, k, i, p1, p2)
  PROVE  /\ IsTree(w)
         /\ w[n] # NULL /\ w[n].key = k /\ w[n].value = i /\ w[n].left = p1 /\ w[n].right = p2
         /\ \A m \in Node : m # n => w[m] = tr[m]
         /\ Full(w) = Full(tr) \cup {n}
<1>1. IsTree(w)
  BY DEF IsTree, Leaf
<1>2. w[n] = [key |-> k, value |-> i, left |-> p1, right |-> p2] /\ \A m \in Node : m # n => w[m] = tr[m]
  BY DEF IsTree, Leaf
<1>3. w[n].key = k /\ k # 0
  BY <1>2 DEF ConstantsFit
<1>4. w[n] # NULL
  BY <1>1, <1>3, TreeFields
<1>5. Full(w) = Full(tr) \cup {n}
  BY <1>2, <1>4 DEF Full
<1> QED BY <1>1, <1>2, <1>4, <1>5

(* All paths stay, some get longer.                                        *)
LEMMA LeafGood ==
  ASSUME ConstantsFit, NEW tr, NEW rt, NEW md, Good(tr, rt, md),
         NEW k \in Key, NEW i \in Item, NEW n \in OnPath(tr, rt, k), tr[n] = NULL,
         NEW p1 \in Node \ md, NEW p2 \in Node \ md, p1 # p2,
         NEW w, Leaf(tr, w, n, k, i, p1, p2)
  PROVE  /\ Good(w, rt, md \cup {p1, p2})
         /\ \A j : OnPath(tr, rt, j) \subseteq OnPath(w, rt, j)
<1>1. n \in Node /\ n \in md /\ IsTree(tr) /\ rt \in md
  BY PathInside DEF OnPath, Good, Inside
<1>2. /\ IsTree(w) /\ w[n] # NULL /\ w[n].key = k /\ w[n].left = p1 /\ w[n].right = p2
      /\ \A m \in Node : m # n => w[m] = tr[m]
      /\ Full(w) = Full(tr) \cup {n} /\ Full(tr) \subseteq Node /\ n \notin Full(tr)
  BY <1>1, LeafIsTree DEF Full
<1>3. \A j : OnPath(tr, rt, j) \subseteq OnPath(w, rt, j)
  <2> SUFFICES ASSUME NEW j, NEW S \in SUBSET Node, PathClosed(w, j, S) PROVE PathClosed(tr, j, S)
    BY DEF OnPath
  <2> QED BY <1>1, <1>2 DEF PathClosed, Ends, NextOn
<1>4. Inside(w, rt, md \cup {p1, p2})
  BY <1>1, <1>2 DEF Good, Inside
<1>5. Apart(w, rt)
  <2>1. \A m \in Full(tr) : w[m] = tr[m] /\ tr[m].left \in md /\ tr[m].right \in md
    BY <1>2 DEF Good, Inside
  <2> QED BY <1>1, <1>2, <2>1 DEF Good, Apart
<1>6. Found(w, rt)
  <2>1. n \in OnPath(w, rt, w[n].key)
    BY <1>2, <1>3
  <2>2. \A m \in Full(tr) : m \in OnPath(w, rt, w[m].key)
    BY <1>2, <1>3 DEF Good, Found
  <2> QED BY <1>2, <2>1, <2>2 DEF Found
<1> QED BY <1>2, <1>3, <1>4, <1>5, <1>6 DEF Good

(* A value is replaced.                                                    *)
SameLinks(tr, w) ==
  \A m \in Node : /\ w[m] = NULL <=> tr[m] = NULL
                  /\ w[m].key = tr[m].key
                  /\ tr[m] # NULL => w[m].left = tr[m].left /\ w[m].right = tr[m].right

(* All paths stay as they are.                                             *)
LEMMA SameLinksGood ==
  ASSUME ConstantsFit, NEW tr, NEW rt, NEW md, Good(tr, rt, md), NEW w, IsTree(w), SameLinks(tr, w)
  PROVE  Good(w, rt, md) /\ \A j : OnPath(w, rt, j) = OnPath(tr, rt, j)
<1>1. Full(w) = Full(tr) /\ Full(tr) \subseteq Node
  BY DEF Full, SameLinks
<1>2. \A j : OnPath(w, rt, j) = OnPath(tr, rt, j)
  <2>1. ASSUME NEW j, NEW S \in SUBSET Node PROVE PathClosed(w, j, S) <=> PathClosed(tr, j, S)
    BY DEF PathClosed, Ends, NextOn, SameLinks
  <2> QED BY <2>1 DEF OnPath
<1>3. Inside(w, rt, md) /\ Apart(w, rt)
  BY <1>1 DEF Good, Inside, Apart, SameLinks, Full
<1>4. Found(w, rt)
  <2> SUFFICES ASSUME NEW n \in Full(w) PROVE n \in OnPath(w, rt, w[n].key)
    BY DEF Found
  <2>1. n \in Node /\ n \in Full(tr)
    BY <1>1
  <2>2. n \in OnPath(tr, rt, tr[n].key)
    BY <2>1 DEF Good, Found
  <2>3. w[n].key = tr[n].key
    BY <2>1 DEF SameLinks
  <2> QED BY <1>2, <2>2, <2>3
<1> QED BY <1>2, <1>3, <1>4 DEF Good

(* The node p is taken out, with its empty right subtree; what pointed to  *)
(* it points to its left subtree.                                          *)
To(p, m, y) == IF y = p THEN m ELSE y
Unlinked(tr, rt, w, vr, p) ==
  /\ vr = To(p, tr[p].left, rt) /\ w[p] = NULL
  /\ \A x \in Node : x # p =>
       /\ w[x] = NULL <=> tr[x] = NULL
       /\ w[x].key = tr[x].key
       /\ tr[x] # NULL => /\ w[x].value = tr[x].value
                          /\ w[x].left = To(p, tr[p].left, tr[x].left)
                          /\ w[x].right = To(p, tr[p].left, tr[x].right)

(* A path that went through p to its left goes there without p.            *)
LEMMA UnlinkGood ==
  ASSUME ConstantsFit, NEW tr, NEW rt, NEW md, Good(tr, rt, md), NEW p \in Full(tr), tr[tr[p].right] = NULL,
         NEW w, NEW vr, IsTree(w), Unlinked(tr, rt, w, vr, p)
  PROVE  Good(w, vr, md) /\ Full(w) = Full(tr) \ {p}
<1> DEFINE l == tr[p].left
           r == tr[p].right
<1>1. p \in Node /\ tr[p] # NULL /\ l \in Node /\ r \in Node /\ l # r /\ l # p /\ r # p /\ rt # l /\ rt # r
  BY TreeFields, NoLoops DEF Good, Apart, Full
<1>2. Full(w) = Full(tr) \ {p} /\ Full(tr) \subseteq Node
  BY DEF Full, Unlinked
<1>3. Inside(w, vr, md)
  <2>1. rt \in md /\ md \subseteq Node /\ l \in md /\ vr \in {rt, l}
    BY DEF Good, Inside, Unlinked, To
  <2>2. \A n \in Full(w) : /\ n \in md /\ tr[n].left \in md /\ tr[n].right \in md
                           /\ w[n].left \in {tr[n].left, l} /\ w[n].right \in {tr[n].right, l}
    BY <1>2 DEF Good, Inside, Unlinked, To, Full
  <2> QED BY <2>1, <2>2 DEF Inside
<1>4. Apart(w, vr)
  <2>1. \A n \in Full(w) : /\ tr[n].left # l /\ tr[n].right # l
                           /\ w[n].left = To(p, l, tr[n].left) /\ w[n].right = To(p, l, tr[n].right)
    BY <1>2 DEF Good, Apart, Unlinked, Full
  <2> QED BY <1>1, <1>2, <2>1 DEF Good, Apart, Unlinked, To
<1>5. ASSUME NEW n \in Full(w) PROVE n \in OnPath(w, vr, w[n].key)
  <2> DEFINE k == tr[n].key
  <2>1. n \in Node /\ n # p /\ n # r /\ tr[n] # NULL /\ w[n].key = k /\ n \in Full(tr)
    BY <1>2 DEF Full, Unlinked
  <2>2. n \in OnPath(tr, rt, k)
    BY <2>1 DEF Good, Found
  <2>3. ASSUME NEW S \in SUBSET Node, vr \in S, PathClosed(w, k, S) PROVE n \in S
    <3> DEFINE T == IF l \in S THEN S \cup {p, r} ELSE S \ {p}
    <3>1. T \in SUBSET Node /\ rt \in T
      BY <1>1, <2>3 DEF Unlinked, To
    <3>2. ASSUME NEW x \in T, ~Ends(tr, k, x) PROVE NextOn(tr, k, x) \in T
      <4>1. x # r /\ x \in Node /\ tr[x] # NULL
        BY <1>1, <3>1, <3>2 DEF Ends
      <4>2. CASE x = p
        BY <4>2 DEF NextOn
      <4>3. CASE x # p
        <5>1. x \in S
          BY <4>1, <4>3
        <5>2. ~Ends(w, k, x) /\ NextOn(w, k, x) = To(p, l, NextOn(tr, k, x))
          BY <3>2, <4>1, <4>3 DEF Unlinked, Ends, NextOn
        <5>3. To(p, l, NextOn(tr, k, x)) \in S
          BY <2>3, <5>1, <5>2 DEF PathClosed
        <5> QED BY <5>3 DEF To
      <4> QED BY <4>2, <4>3
    <3>3. PathClosed(tr, k, T)
      BY <3>2 DEF PathClosed
    <3>4. n \in T
      <4> HIDE DEF T
      <4> QED BY <2>2, <3>1, <3>3 DEF OnPath
    <3> QED BY <2>1, <3>4
  <2> QED BY <2>1, <2>3 DEF OnPath
<1> QED BY <1>2, <1>3, <1>4, <1>5 DEF Good, Found

(* The node p and its right child r change places; r's left subtree goes   *)
(* to p.                                                                   *)
Rotated(tr, rt, w, vr, p, r) ==
  /\ vr = To(p, r, rt)
  /\ \A x \in Node :
       /\ w[x] = NULL <=> tr[x] = NULL
       /\ w[x].key = tr[x].key
       /\ tr[x] # NULL => w[x].value = tr[x].value
       /\ tr[x] # NULL /\ x # p /\ x # r => /\ w[x].left = To(p, r, tr[x].left)
                                            /\ w[x].right = To(p, r, tr[x].right)
  /\ w[r].left = p /\ w[r].right = tr[r].right
  /\ w[p].left = tr[p].left /\ w[p].right = tr[r].left

(* A path that went through p comes to r first.                            *)
LEMMA RotateGood ==
  ASSUME ConstantsFit, NEW tr, NEW rt, NEW md, Good(tr, rt, md), NEW p \in Full(tr), NEW r, r = tr[p].right,
         tr[r] # NULL, NEW w, NEW vr, IsTree(w), Rotated(tr, rt, w, vr, p, r)
  PROVE  Good(w, vr, md) /\ Full(w) = Full(tr)
<1> DEFINE l == tr[p].left
           m == tr[r].left
           s == tr[r].right
<1>1. p \in Node /\ tr[p] # NULL /\ r \in Full(tr) /\ r \in Node
  BY TreeFields DEF Good, Full
<1>2. /\ l \in Node /\ m \in Node /\ s \in Node
      /\ l # p /\ r # p /\ m # p /\ s # p /\ m # r /\ s # r /\ rt # r
      /\ tr[p].key < tr[r].key
  BY <1>1, TreeFields, NoLoops DEF Good, Apart
<1>3. l # r /\ l # m /\ l # s /\ m # s
  BY <1>1, <1>2 DEF Good, Apart
<1>4. Full(w) = Full(tr) /\ Full(tr) \subseteq Node
  BY DEF Full, Rotated
<1>5. Inside(w, vr, md)
  <2>1. rt \in md /\ md \subseteq Node /\ p \in md /\ r \in md /\ l \in md /\ m \in md /\ s \in md /\ vr \in {rt, r}
    BY <1>1 DEF Good, Inside, Rotated, To
  <2>2. \A n \in Full(tr) : /\ n \in md /\ tr[n].left \in md /\ tr[n].right \in md
                            /\ w[n].left \in {tr[n].left, p, r, l} /\ w[n].right \in {tr[n].right, r, s, m}
    BY <1>4 DEF Good, Inside, Rotated, To, Full
  <2> QED BY <1>4, <2>1, <2>2 DEF Inside
<1>6. Apart(w, vr)
  <2>1. \A n \in Full(tr) :
          /\ tr[n].left # r /\ (tr[n].right = r => n = p)
          /\ (tr[n].left = l => n = p) /\ tr[n].right # l
          /\ (tr[n].left = m => n = r) /\ tr[n].right # m
          /\ (tr[n].right = s => n = r) /\ tr[n].left # s
          /\ tr[n].left # rt /\ tr[n].right # rt
    BY <1>1 DEF Good, Apart
  <2>2. \A n \in Full(tr) :
          /\ n = p => w[n].left = l /\ w[n].right = m
          /\ n = r => w[n].left = p /\ w[n].right = s
          /\ n \notin {p, r} => w[n].left = To(p, r, tr[n].left) /\ w[n].right = To(p, r, tr[n].right)
    BY <1>4 DEF Rotated, Full
  <2>3. vr = To(p, r, rt)
    BY DEF Rotated
  <2>4. \A n, o \in Full(tr) : /\ tr[n].left # tr[o].right
                               /\ tr[n].left = tr[o].left => n = o
                               /\ tr[n].right = tr[o].right => n = o
    BY DEF Good, Apart
  <2>5. \A n \in Full(tr) : w[n].left # vr /\ w[n].right # vr
    BY <1>1, <1>2, <1>3, <2>1, <2>2, <2>3 DEF To
  <2>6. \A n, o \in Full(tr) : w[n].left # w[o].right
    BY <1>1, <1>2, <1>3, <2>1, <2>2, <2>4 DEF To
  <2>7. \A n, o \in Full(tr) : w[n].left = w[o].left => n = o
    BY <1>1, <1>2, <1>3, <2>1, <2>2, <2>4 DEF To
  <2>8. \A n, o \in Full(tr) : w[n].right = w[o].right => n = o
    BY <1>1, <1>2, <1>3, <2>1, <2>2, <2>4 DEF To
  <2> QED BY <1>4, <2>5, <2>6, <2>7, <2>8 DEF Apart
<1>7. ASSUME NEW n \in Full(w) PROVE n \in OnPath(w, vr, w[n].key)
  <2> DEFINE k == tr[n].key
  <2>1. n \in Node /\ tr[n] # NULL /\ w[n].key = k /\ n \in Full(tr) /\ k \in Int /\ tr[p].key \in Int /\ tr[r].key \in Int
    BY <1>1, <1>4, TreeFields DEF Full, Rotated, Good
  <2>2. n \in OnPath(tr, rt, k)
    BY <2>1 DEF Good, Found
  <2>k. (k = tr[p].key => n = p) /\ (k = tr[r].key => n = r)
    BY <1>1, <2>1, KeysDiffer
  <2>3. ASSUME NEW S \in SUBSET Node, vr \in S, PathClosed(w, k, S) PROVE n \in S
    <3> DEFINE T == IF r \notin S THEN S \ {p, r}
                    ELSE IF k > tr[p].key THEN S \cup {p, r} ELSE (S \cup {p}) \ {r}
    <3>1. T \in SUBSET Node /\ rt \in T
      <4>1. vr = To(p, r, rt)
        BY DEF Rotated
      <4>2. rt \in Node
        BY DEF Good, Inside
      <4> QED BY <1>1, <1>2, <2>3, <4>1, <4>2 DEF To
    <3>w. /\ ~Ends(w, k, r) <=> k # tr[r].key
          /\ ~Ends(w, k, p) <=> k # tr[p].key
          /\ NextOn(w, k, r) = IF k < tr[r].key THEN p ELSE s
          /\ NextOn(w, k, p) = IF k < tr[p].key THEN l ELSE m
      BY <1>1 DEF Rotated, Ends, NextOn, Full
    <3>2. ASSUME NEW x \in T, ~Ends(tr, k, x) PROVE NextOn(tr, k, x) \in T
      <4>0. x \in Node /\ tr[x] # NULL /\ x \in Full(tr)
        BY <3>1, <3>2 DEF Ends, Full
      <4>1. CASE x = p
        <5>1. r \in S /\ k # tr[p].key
          BY <1>1, <3>2, <4>1 DEF Ends
        <5>2. CASE k > tr[p].key
          BY <2>1, <4>1, <5>1, <5>2 DEF NextOn
        <5>3. CASE k < tr[p].key
          <6>1. k < tr[r].key /\ k # tr[r].key
            BY <1>2, <2>1, <5>3
          <6>2. p \in S
            BY <2>3, <3>w, <5>1, <6>1 DEF PathClosed
          <6>3. l \in S
            BY <2>3, <3>w, <5>1, <5>3, <6>2 DEF PathClosed
          <6> QED BY <1>2, <1>3, <4>1, <5>1, <5>3, <6>3 DEF NextOn
        <5> QED BY <2>1, <5>1, <5>2, <5>3
      <4>2. CASE x = r
        <5>1. r \in S /\ k > tr[p].key /\ k # tr[r].key /\ k # tr[p].key
          BY <1>1, <2>1, <3>2, <4>2 DEF Ends
        <5>2. CASE k < tr[r].key
          <6>1. p \in S
            BY <2>3, <3>w, <5>1, <5>2 DEF PathClosed
          <6>2. m \in S
            BY <2>1, <2>3, <3>w, <5>1, <6>1 DEF PathClosed
          <6> QED BY <4>2, <5>1, <5>2, <6>2 DEF NextOn
        <5>3. CASE ~(k < tr[r].key)
          <6>1. s \in S
            BY <2>3, <3>w, <5>1, <5>3 DEF PathClosed
          <6> QED BY <4>2, <5>1, <5>3, <6>1 DEF NextOn
        <5> QED BY <5>2, <5>3
      <4>3. CASE x # p /\ x # r
        <5>1. x \in S
          BY <4>3
        <5>2. ~Ends(w, k, x) /\ NextOn(w, k, x) = To(p, r, NextOn(tr, k, x))
          BY <3>2, <4>0, <4>3 DEF Rotated, Ends, NextOn
        <5>3. To(p, r, NextOn(tr, k, x)) \in S
          BY <2>3, <5>1, <5>2 DEF PathClosed
        <5>4. NextOn(tr, k, x) # r
          BY <1>1, <4>0, <4>3 DEF NextOn, Good, Apart
        <5> QED BY <5>3, <5>4 DEF To
      <4> QED BY <4>1, <4>2, <4>3
    <3>3. PathClosed(tr, k, T)
      BY <3>2 DEF PathClosed
    <3>4. n \in T
      <4> HIDE DEF T
      <4> QED BY <2>2, <3>1, <3>3 DEF OnPath
    <3>5. CASE n = p
      <4>1. r \in S /\ k < tr[r].key /\ k # tr[r].key
        BY <1>1, <1>2, <2>1, <3>4, <3>5
      <4> QED BY <2>3, <3>w, <3>5, <4>1 DEF PathClosed
    <3>6. CASE n = r
      BY <3>4, <3>6
    <3>7. CASE n # p /\ n # r
      BY <3>4, <3>7
    <3> QED BY <3>5, <3>6, <3>7
  <2> QED BY <2>1, <2>3 DEF OnPath
<1> QED BY <1>4, <1>5, <1>6, <1>7 DEF Good, Found

-----------------------------------------------------------------------------
(* Boxes: the root, or a field of a tree.                                  *)
Side2 == {"left", "right"}
Boxes == {Root} \cup [node : Node, side : Side2]
AtBox(tr, rt, b) == IF b = Root THEN rt ELSE IF b.side = "left" THEN tr[b.node].left ELSE tr[b.node].right
BoxOk(tr, b) == b \in Boxes /\ (b # Root => tr[b.node] # NULL)

(* The fields of a box.                                                    *)
LEMMA BoxIs ==
  ASSUME NEW b \in Boxes
  PROVE  b = Root \/ (b # Root /\ b.node \in Node /\ b.side \in {"left", "right"})
BY DEF Boxes, Root, Side2

(* A box in a tree is not the root.                                        *)
LEMMA NewBox ==
  ASSUME NEW n \in Node, NEW side \in {"left", "right"}
  PROVE  /\ [node |-> n, side |-> side] \in Boxes /\ [node |-> n, side |-> side] # Root
         /\ [node |-> n, side |-> side].node = n /\ [node |-> n, side |-> side].side = side
<1> DEFINE b == [node |-> n, side |-> side]
<1>1. DOMAIN b = {"node", "side"} /\ DOMAIN Root = {"node"}
  BY DEF Root
<1> QED BY <1>1 DEF Boxes, Side2

(* *b = m changes one field, or none in the trees.                         *)
LEMMA AssignedIs ==
  ASSUME ConstantsFit, NEW tr, IsTree(tr), NEW b, BoxOk(tr, b), NEW m \in Node,
         NEW w, w = Assigned(tr, b, m)
  PROVE  /\ IsTree(w)
         /\ \A x \in Node : (b = Root \/ x # b.node) => w[x] = tr[x]
         /\ \A x \in Node :
              /\ w[x] = NULL <=> tr[x] = NULL
              /\ w[x].key = tr[x].key
              /\ tr[x] # NULL =>
                   /\ w[x].value = tr[x].value
                   /\ w[x].left = IF b # Root /\ b.node = x /\ b.side = "left" THEN m ELSE tr[x].left
                   /\ w[x].right = IF b # Root /\ b.node = x /\ b.side = "right" THEN m ELSE tr[x].right
<1>1. CASE b = Root
  BY <1>1 DEF Assigned
<1>2. CASE b # Root
  <2> DEFINE n == b.node
             Records == [key : Key, value : Item, left : Node, right : Node]
  <2>1. n \in Node /\ b.side \in {"left", "right"} /\ tr[n] # NULL /\ tr[n] \in Records
    BY <1>2, BoxIs DEF BoxOk, IsTree
  <2>2. w = [tr EXCEPT ![n] = IF b.side = "left" THEN [tr[n] EXCEPT !.left = m] ELSE [tr[n] EXCEPT !.right = m]]
    BY <1>2, <2>1 DEF Assigned
  <2>3. /\ w[n] = IF b.side = "left" THEN [tr[n] EXCEPT !.left = m] ELSE [tr[n] EXCEPT !.right = m]
        /\ \A x \in Node : x # n => w[x] = tr[x]
    BY <2>1, <2>2 DEF IsTree
  <2>4. /\ w[n] \in Records
        /\ w[n].key = tr[n].key /\ w[n].value = tr[n].value
        /\ w[n].left = IF b.side = "left" THEN m ELSE tr[n].left
        /\ w[n].right = IF b.side = "right" THEN m ELSE tr[n].right
    BY <2>1, <2>3
  <2>5. IsTree(w)
    BY <2>1, <2>2, <2>3, <2>4 DEF IsTree
  <2>6. w[n] # NULL
    BY <2>1, <2>4, <2>5, TreeFields
  <2> QED BY <1>2, <2>1, <2>3, <2>4, <2>5, <2>6
<1> QED BY <1>1, <1>2

(* What a box points to is what points nowhere else.                       *)
LEMMA BoxOnly ==
  ASSUME ConstantsFit, NEW tr, NEW rt, NEW md, Good(tr, rt, md), NEW b, BoxOk(tr, b), NEW p, p = AtBox(tr, rt, b)
  PROVE  /\ p \in Node
         /\ b = Root <=> p = rt
         /\ \A x \in Full(tr) : /\ tr[x].left = p <=> b # Root /\ b.node = x /\ b.side = "left"
                                /\ tr[x].right = p <=> b # Root /\ b.node = x /\ b.side = "right"
<1>1. b = Root \/ (b # Root /\ b.node \in Full(tr) /\ b.side \in {"left", "right"})
  BY BoxIs DEF BoxOk, Full
<1>2. p \in Node
  BY <1>1, TreeFields DEF Good, Inside, Full, AtBox
<1> QED BY <1>1, <1>2 DEF AtBox, Good, Apart

(* *b = what is there changes nothing.                                     *)
LEMMA AssignSame ==
  ASSUME ConstantsFit, NEW tr, IsTree(tr), NEW rt \in Node, NEW b, BoxOk(tr, b)
  PROVE  Assigned(tr, b, AtBox(tr, rt, b)) = tr
<1>1. CASE b = Root
  BY <1>1 DEF Assigned
<1>2. CASE b # Root
  <2>1. b.node \in Node /\ b.side \in {"left", "right"} /\ tr[b.node] # NULL
    BY <1>2, BoxIs DEF BoxOk
  <2>2. tr[b.node] \in [key : Key, value : Item, left : Node, right : Node]
    BY <2>1 DEF IsTree
  <2>3. [tr[b.node] EXCEPT !.left = tr[b.node].left] = tr[b.node] /\ [tr[b.node] EXCEPT !.right = tr[b.node].right] = tr[b.node]
    BY <2>2
  <2>4. CASE b.side = "left"
    <3>1. Assigned(tr, b, AtBox(tr, rt, b)) = [tr EXCEPT ![b.node] = [tr[b.node] EXCEPT !.left = tr[b.node].left]]
      BY <1>2, <2>4 DEF Assigned, AtBox
    <3>2. Assigned(tr, b, AtBox(tr, rt, b)) = [tr EXCEPT ![b.node] = tr[b.node]]
      BY <2>3, <3>1
    <3> QED BY <3>2 DEF IsTree
  <2>5. CASE b.side = "right"
    <3>1. Assigned(tr, b, AtBox(tr, rt, b)) = [tr EXCEPT ![b.node] = [tr[b.node] EXCEPT !.right = tr[b.node].right]]
      BY <1>2, <2>5 DEF Assigned, AtBox
    <3>2. Assigned(tr, b, AtBox(tr, rt, b)) = [tr EXCEPT ![b.node] = tr[b.node]]
      BY <2>3, <3>1
    <3> QED BY <3>2 DEF IsTree
  <2> QED BY <2>1, <2>4, <2>5
<1> QED BY <1>1, <1>2

(* What the assignments of pushdown_left take out.                         *)
LEMMA UnlinkedTree ==
  ASSUME ConstantsFit, NEW tr, NEW rt, NEW md, Good(tr, rt, md), NEW b, BoxOk(tr, b),
         NEW p, p = AtBox(tr, rt, b), tr[p] # NULL,
         NEW w, w = [Assigned(tr, b, tr[p].left) EXCEPT ![p] = NULL],
         NEW vr, vr = IF b = Root THEN tr[p].left ELSE rt
  PROVE  IsTree(w) /\ Unlinked(tr, rt, w, vr, p)
<1> DEFINE u == Assigned(tr, b, tr[p].left)
<1>1. p \in Node /\ tr[p].left \in Node /\ IsTree(tr) /\ p \in Full(tr)
  BY BoxOnly, TreeFields DEF Good, Full
<1>2. /\ IsTree(u)
      /\ \A x \in Node :
           /\ u[x] = NULL <=> tr[x] = NULL
           /\ u[x].key = tr[x].key
           /\ tr[x] # NULL =>
                /\ u[x].value = tr[x].value
                /\ u[x].left = IF b # Root /\ b.node = x /\ b.side = "left" THEN tr[p].left ELSE tr[x].left
                /\ u[x].right = IF b # Root /\ b.node = x /\ b.side = "right" THEN tr[p].left ELSE tr[x].right
  BY <1>1, AssignedIs
<1> HIDE DEF u
<1>3. w[p] = NULL /\ (\A x \in Node : x # p => w[x] = u[x]) /\ IsTree(w)
  BY <1>1, <1>2 DEF u, IsTree
<1>4. \A x \in Node : tr[x] # NULL => /\ tr[x].left = p <=> b # Root /\ b.node = x /\ b.side = "left"
                                      /\ tr[x].right = p <=> b # Root /\ b.node = x /\ b.side = "right"
  BY BoxOnly DEF Full
<1>5. b = Root <=> p = rt
  BY BoxOnly
<1> QED BY <1>2, <1>3, <1>4, <1>5 DEF Unlinked, To

Turning(tr, b, p, r) == Assigned([tr EXCEPT ![p].right = tr[r].left, ![r].left = p], b, r)

(* What those of turn_left turn.                                           *)
LEMMA RotatedTree ==
  ASSUME ConstantsFit, NEW tr, NEW rt, NEW md, Good(tr, rt, md), NEW b, BoxOk(tr, b),
         NEW p, p = AtBox(tr, rt, b), tr[p] # NULL, NEW r, r = tr[p].right, tr[r] # NULL,
         NEW w, w = Turning(tr, b, p, r),
         NEW vr, vr = IF b = Root THEN r ELSE rt
  PROVE  IsTree(w) /\ Rotated(tr, rt, w, vr, p, r)
<1> DEFINE Records == [key : Key, value : Item, left : Node, right : Node]
           u == [tr EXCEPT ![p].right = tr[r].left, ![r].left = p]
<1>1. p \in Node /\ r \in Node /\ tr[r].left \in Node /\ IsTree(tr) /\ p \in Full(tr) /\ r # p /\ r \in Full(tr)
  <2>1. p \in Node /\ p \in Full(tr) /\ IsTree(tr)
    BY BoxOnly DEF Good, Full
  <2> QED BY <2>1, NoLoops, TreeFields DEF Full
<1>2. tr[p] \in Records /\ tr[r] \in Records
  BY <1>1 DEF IsTree
<1>3. /\ u[p] = [tr[p] EXCEPT !.right = tr[r].left] /\ u[r] = [tr[r] EXCEPT !.left = p]
      /\ \A x \in Node : x # p /\ x # r => u[x] = tr[x]
      /\ u = [x \in Node |-> u[x]]
  BY <1>1 DEF IsTree
<1>w. w = Assigned(u, b, r)
  BY DEF Turning
<1> HIDE DEF u
<1>4. /\ u[p] \in Records /\ u[p].key = tr[p].key /\ u[p].value = tr[p].value /\ u[p].left = tr[p].left /\ u[p].right = tr[r].left
      /\ u[r] \in Records /\ u[r].key = tr[r].key /\ u[r].value = tr[r].value /\ u[r].left = p /\ u[r].right = tr[r].right
  BY <1>1, <1>2, <1>3
<1>5. IsTree(u)
  BY <1>1, <1>3, <1>4 DEF IsTree
<1>6. u[p] # NULL /\ u[r] # NULL
  <2>1. tr[p].key # 0 /\ tr[r].key # 0
    BY <1>1, TreeFields
  <2> QED BY <1>1, <1>4, <1>5, <2>1, TreeFields
<1>7. /\ b = Root <=> p = rt
      /\ b # Root => b.node # p /\ b.node # r
      /\ \A x \in Full(tr) : /\ tr[x].left = p <=> b # Root /\ b.node = x /\ b.side = "left"
                             /\ tr[x].right = p <=> b # Root /\ b.node = x /\ b.side = "right"
  <2>1. tr[r].left # p /\ tr[r].right # p /\ tr[p].left # p /\ tr[p].right # p
    BY <1>1, NoLoops
  <2>2. b # Root => b.node \in Node /\ b.side \in {"left", "right"}
    BY BoxIs DEF BoxOk
  <2>3. b # Root => tr[b.node].left = p \/ tr[b.node].right = p
    BY <2>2 DEF AtBox
  <2> QED BY <2>1, <2>3, BoxOnly
<1>8. BoxOk(u, b)
  <2>1. b # Root => b.node \in Node
    BY BoxIs DEF BoxOk
  <2> QED BY <1>3, <1>7, <2>1 DEF BoxOk
<1>9. /\ IsTree(w)
      /\ \A x \in Node :
           /\ w[x] = NULL <=> u[x] = NULL
           /\ w[x].key = u[x].key
           /\ u[x] # NULL =>
                /\ w[x].value = u[x].value
                /\ w[x].left = IF b # Root /\ b.node = x /\ b.side = "left" THEN r ELSE u[x].left
                /\ w[x].right = IF b # Root /\ b.node = x /\ b.side = "right" THEN r ELSE u[x].right
  BY <1>1, <1>5, <1>8, <1>w, AssignedIs
<1>10. vr = To(p, r, rt)
  BY <1>7 DEF To
<1>11. /\ w[r].left = p /\ w[r].right = tr[r].right
       /\ w[p].left = tr[p].left /\ w[p].right = tr[r].left
  BY <1>1, <1>4, <1>6, <1>7, <1>9
<1>12. ASSUME NEW x \in Node
       PROVE  /\ w[x] = NULL <=> tr[x] = NULL
              /\ w[x].key = tr[x].key
              /\ tr[x] # NULL => w[x].value = tr[x].value
              /\ tr[x] # NULL /\ x # p /\ x # r => /\ w[x].left = To(p, r, tr[x].left)
                                                   /\ w[x].right = To(p, r, tr[x].right)
  <2>1. CASE x = p \/ x = r
    BY <1>1, <1>4, <1>6, <1>9, <2>1
  <2>2. CASE x # p /\ x # r
    <3>1. u[x] = tr[x]
      BY <1>3, <2>2
    <3> QED BY <1>7, <1>9, <2>2, <3>1 DEF To, Full
  <2> QED BY <2>1, <2>2
<1> QED BY <1>9, <1>10, <1>11, <1>12 DEF Rotated

-----------------------------------------------------------------------------
(* The invariant.                                                          *)
Deleting == {"pushdown", "acquireTop", "acquireRight", "turn"}
Point == {"out", "read", "acquire", "body", "store", "compare", "acquireNext"} \cup Deleting

ThreadTypes ==
  /\ pc \in [Thread -> Point]
  /\ op \in [Thread -> Operation \cup {NoOp}]
  /\ box \in [Thread -> Boxes]
  /\ tgt \in [Thread -> Node]

(* Where a thread is that executes o: on the way to its key.  Once a node  *)
(* is found it stays where the box points to.                              *)
CursorAt(tr, rt, l, o, b, g) ==
  /\ l = "out" <=> o = NoOp
  /\ l = "out" => b = Root
  /\ BoxOk(tr, b)
  /\ l \in {"compare", "acquireNext"} => o.kind = "lookup" /\ g \in OnPath(tr, rt, o.key)
  /\ l = "body" => o.kind # "lookup"
  /\ l = "store" => o.kind = "insert"
  /\ l \in {"read", "acquire", "body"} => AtBox(tr, rt, b) \in OnPath(tr, rt, o.key)
  /\ l \in {"acquire", "body", "store"} => g = AtBox(tr, rt, b)
  /\ l \in Deleting => o.kind = "delete" /\ tr[AtBox(tr, rt, b)].key = o.key
  /\ l \in Deleting \ {"pushdown"} => g = AtBox(tr, rt, b)
CursorInv == \A t \in Thread : CursorAt(tree, root, pc[t], op[t], box[t], tgt[t])

AloneInv == \A s, t \in Thread : op[s].kind = "delete" /\ s # t => op[t] = NoOp

(* There are nodes for those that have yet to take theirs.                 *)
Taking == {t \in Thread : op[t].kind = "insert" /\ pc[t] # "store"}
SupplyInv == Cardinality(Node \ made) >= 2 * Cardinality(Taking)

TreeInv == Good(tree, root, made) /\ ThreadTypes /\ CursorInv /\ AloneInv /\ SupplyInv

(* The fields of a call.                                                   *)
LEMMA OperationIs ==
  /\ \A o \in Operation : /\ o.kind \in {"insert", "lookup", "delete"} /\ o.key \in Key /\ o # NoOp
                          /\ o.kind = "insert" => o.item \in Item
  /\ NoOp.kind = "none"
BY DEF Operation, NoOp

(* treebox_new finds a node.                                               *)
LEMMA NodeExists == ConstantsFit => AnyNode \in Node
BY DEF ConstantsFit, AnyNode

(* An empty tree.                                                          *)
LEMMA EmptyGood ==
  ASSUME ConstantsFit, NEW tr, tr = [n \in Node |-> NULL], NEW rt \in Node
  PROVE  Good(tr, rt, {rt}) /\ Full(tr) = {}
BY DEF Good, IsTree, Inside, Apart, Found, Full

(* The invariant holds at first.                                           *)
LEMMA TreeInit == ConstantsFit /\ BstInit => TreeInv
<1> SUFFICES ASSUME ConstantsFit, BstInit PROVE TreeInv
  OBVIOUS
<1>1. Good(tree, root, made) /\ AnyNode \in Node
  BY EmptyGood, NodeExists DEF BstInit
<1>2. ThreadTypes
  BY <1>1 DEF BstInit, ThreadTypes, Point, Boxes
<1>3. CursorInv
  BY DEF BstInit, CursorInv, CursorAt, BoxOk, Boxes, Deleting
<1>4. AloneInv
  BY DEF BstInit, AloneInv, NoOp
<1>5. SupplyInv
  <2>1. Taking = {}
    BY OperationIs DEF BstInit, Taking
  <2>2. Cardinality(Taking) = 0
    BY <2>1, FS_EmptySet
  <2>3. IsFiniteSet(Node \ made) /\ Cardinality(Node \ made) \in Nat
    BY FS_Subset, FS_CardinalityType DEF ConstantsFit
  <2> QED BY <2>2, <2>3 DEF SupplyInv
<1> QED BY <1>1, <1>2, <1>3, <1>4, <1>5 DEF TreeInv

(* What a thread knows where it is.                                        *)
LEMMA AtCursor ==
  ASSUME ConstantsFit, TreeInv, NEW t \in Thread
  PROVE  /\ IsTree(tree) /\ root \in Node /\ made \subseteq Node
         /\ CursorAt(tree, root, pc[t], op[t], box[t], tgt[t])
         /\ pc[t] \in Point /\ tgt[t] \in Node
         /\ box[t] \in Boxes /\ BoxOk(tree, box[t])
         /\ Pointee(box[t]) = AtBox(tree, root, box[t]) /\ Pointee(box[t]) \in Node
         /\ pc[t] # "out" => /\ op[t] \in Operation /\ op[t].key \in Key /\ op[t].key # 0
                             /\ op[t].kind \in {"insert", "lookup", "delete"}
                             /\ op[t].kind = "insert" => op[t].item \in Item
<1>1. IsTree(tree) /\ root \in Node /\ made \subseteq Node /\ Good(tree, root, made)
  BY DEF TreeInv, Good, Inside
<1>2. CursorAt(tree, root, pc[t], op[t], box[t], tgt[t]) /\ BoxOk(tree, box[t])
  BY DEF TreeInv, CursorInv, CursorAt
<1>3. pc[t] \in Point /\ tgt[t] \in Node /\ box[t] \in Boxes /\ op[t] \in Operation \cup {NoOp}
  BY DEF TreeInv, ThreadTypes
<1>4. Pointee(box[t]) = AtBox(tree, root, box[t])
  BY DEF Pointee, Child, AtBox
<1>5. AtBox(tree, root, box[t]) \in Node
  BY <1>1, <1>2, BoxOnly
<1>6. pc[t] # "out" => op[t] \in Operation
  BY <1>2, <1>3 DEF CursorAt
<1>7. op[t] \in Operation => op[t].key # 0
  BY OperationIs DEF ConstantsFit
<1> QED BY <1>1, <1>2, <1>3, <1>4, <1>5, <1>6, <1>7, OperationIs

Local(t) == \A s \in Thread : s # t => /\ pc'[s] = pc[s] /\ op'[s] = op[s]
                                       /\ box'[s] = box[s] /\ tgt'[s] = tgt[s]
OpKept(t) == op'[t] = op[t] \/ op'[t] = NoOp

(* A step changes the locals of its thread.                                *)
LEMMA StepLocal ==
  ASSUME ConstantsFit, TreeInv, NEW t \in Thread, Step(t)
  PROVE  ThreadTypes' /\ Local(t) /\ OpKept(t)
<1> USE DEF ThreadTypes, Local, OpKept, Goto
<1>t. ThreadTypes /\ AnyNode \in Node /\ Root \in Boxes /\ NoOp \in Operation \cup {NoOp}
  BY NodeExists DEF TreeInv, Boxes
<1>p. {"out", "read", "acquire", "body", "store", "compare", "acquireNext",
       "pushdown", "acquireTop", "acquireRight", "turn"} = Point
  BY DEF Point, Deleting
<1>r. Return(t) /\ UNCHANGED <<made, ret>> => ThreadTypes' /\ Local(t) /\ OpKept(t)
  BY <1>t, <1>p DEF Return
<1>r2. Return(t) => ThreadTypes' /\ Local(t) /\ OpKept(t)
  BY <1>t, <1>p DEF Return
<1>n. tgt[t] \in Node /\ Pointee(box[t]) \in Node
  BY AtCursor
<1>1. CASE Read(t)
  BY <1>1, <1>t, <1>p, <1>n DEF Read
<1>2. CASE Acquire(t)
  BY <1>2, <1>t, <1>p DEF Acquire, Taken
<1>3. CASE Descend(t)
  <2>1. [node |-> tgt[t], side |-> Side(t)] \in Boxes
    BY <1>n, NewBox DEF Side
  <2> QED BY <1>3, <1>t, <1>p, <2>1 DEF Descend, Released
<1>4. CASE NewLeaf(t)
  BY <1>4, <1>t, <1>p DEF NewLeaf, locals
<1>5. CASE StoreBox(t) \/ Replace(t) \/ LookupReturn(t) \/ DeleteNothing(t) \/ Unlink(t)
  BY <1>5, <1>r2 DEF StoreBox, Replace, LookupReturn, DeleteNothing, Unlink
<1>6. CASE LookupDescend(t)
  <2>1. tree[tgt[t]] # NULL
    BY <1>6 DEF LookupDescend, Here
  <2>2. Child(tgt[t], Side(t)) \in Node
    BY <1>n, <2>1, AtCursor, TreeFields DEF Child
  <2> QED BY <1>6, <1>t, <1>p, <2>2 DEF LookupDescend
<1>7. CASE LookupAcquire(t) \/ DeleteFound(t) \/ AcquireTop(t) \/ AcquireRight(t)
  BY <1>7, <1>t, <1>p DEF LookupAcquire, DeleteFound, AcquireTop, AcquireRight, locals
<1>8. CASE TurnLeft(t)
  <2>1. pc[t] = "turn"
    BY <1>8 DEF TurnLeft
  <2>2. tree[tgt[t]].key # 0
    BY <2>1, AtCursor DEF CursorAt, Deleting
  <2>3. Here(t).right \in Node
    BY <1>n, <2>2, AtCursor, TreeFields DEF Here
  <2>4. [node |-> Here(t).right, side |-> "left"] \in Boxes
    BY <2>3, NewBox
  <2> QED BY <1>8, <1>t, <1>p, <2>4 DEF TurnLeft
<1> QED BY <1>1, <1>2, <1>3, <1>4, <1>5, <1>6, <1>7, <1>8 DEF Step

(* No step but a call begins a delete.                                     *)
LEMMA AloneStep ==
  ASSUME AloneInv, NEW t \in Thread, Local(t), OpKept(t)
  PROVE  AloneInv'
BY OperationIs DEF AloneInv, Local, OpKept

(* Nor does one need more nodes.                                           *)
LEMMA SupplyStep ==
  ASSUME ConstantsFit, SupplyInv, NEW t \in Thread, Local(t), made' = made,
         (op'[t] = op[t] /\ pc[t] # "store") \/ op'[t] = NoOp
  PROVE  SupplyInv'
<1>1. Taking' \subseteq Taking
  BY OperationIs DEF Taking, Local
<1>2. IsFiniteSet(Taking) /\ IsFiniteSet(Node \ made)
  BY FS_Subset DEF ConstantsFit, Taking
<1>3. /\ Cardinality(Taking') <= Cardinality(Taking)
      /\ Cardinality(Taking') \in Nat /\ Cardinality(Taking) \in Nat /\ Cardinality(Node \ made) \in Nat
  BY <1>1, <1>2, FS_Subset, FS_CardinalityType
<1>4. Cardinality(Node \ made) >= 2 * Cardinality(Taking')
  BY <1>3 DEF SupplyInv
<1> QED BY <1>4 DEF SupplyInv

(* The cursors of the others: nothing has changed that they know of, or    *)
(* they are in no call.                                                    *)
Extends(tr, w, rt) ==
  /\ \A j : OnPath(tr, rt, j) \subseteq OnPath(w, rt, j)
  /\ \A x \in Node : tr[x] # NULL => /\ w[x] # NULL /\ w[x].key = tr[x].key
                                     /\ w[x].left = tr[x].left /\ w[x].right = tr[x].right

(* Longer paths keep every thread where it is.                             *)
LEMMA CursorKept ==
  ASSUME ConstantsFit, NEW tr, IsTree(tr), NEW w, NEW rt \in Node, Extends(tr, w, rt),
         NEW l, NEW o \in Operation \cup {NoOp}, NEW b, NEW g, CursorAt(tr, rt, l, o, b, g)
  PROVE  CursorAt(w, rt, l, o, b, g)
<1>1. b \in Boxes /\ BoxOk(tr, b)
  BY DEF CursorAt, BoxOk
<1>2. b # Root => b.node \in Node /\ b.side \in {"left", "right"} /\ tr[b.node] # NULL
  BY <1>1, BoxIs DEF BoxOk
<1>3. BoxOk(w, b) /\ AtBox(w, rt, b) = AtBox(tr, rt, b)
  BY <1>1, <1>2 DEF BoxOk, AtBox, Extends
<1>4. l \in Deleting => w[AtBox(tr, rt, b)].key = tr[AtBox(tr, rt, b)].key
  <2> SUFFICES ASSUME l \in Deleting PROVE w[AtBox(tr, rt, b)].key = tr[AtBox(tr, rt, b)].key
    OBVIOUS
  <2>1. AtBox(tr, rt, b) \in Node
    BY <1>2, TreeFields DEF AtBox
  <2>2. o \in Operation
    BY DEF CursorAt, Deleting
  <2>3. tr[AtBox(tr, rt, b)].key # 0
    BY <2>2, OperationIs DEF CursorAt, ConstantsFit
  <2> QED BY <2>1, <2>3, TreeFields DEF Extends
<1>5. \A j : OnPath(tr, rt, j) \subseteq OnPath(w, rt, j)
  BY DEF Extends
<1> QED BY <1>3, <1>4, <1>5 DEF CursorAt

(* It is enough to say where the thread is that made the step.             *)
LEMMA CursorSteps ==
  ASSUME ConstantsFit, TreeInv, NEW t \in Thread, Local(t),
         \/ root' = root /\ Extends(tree, tree', root)
         \/ op[t].kind = "delete",
         CursorAt(tree', root', pc'[t], op'[t], box'[t], tgt'[t])
  PROVE  CursorInv'
<1> SUFFICES ASSUME NEW s \in Thread, s # t
             PROVE  CursorAt(tree', root', pc[s], op[s], box[s], tgt[s])
  BY DEF CursorInv, Local
<1>1. CursorAt(tree, root, pc[s], op[s], box[s], tgt[s]) /\ op[s] \in Operation \cup {NoOp} /\ IsTree(tree) /\ root \in Node
  BY AtCursor DEF TreeInv, CursorInv, ThreadTypes
<1>2. CASE root' = root /\ Extends(tree, tree', root)
  BY <1>1, <1>2, CursorKept
<1>3. CASE op[t].kind = "delete"
  <2>1. op[s] = NoOp /\ pc[s] = "out" /\ box[s] = Root
    BY <1>1, <1>3 DEF TreeInv, AloneInv, CursorAt
  <2> QED BY <2>1 DEF CursorAt, BoxOk, Boxes, Deleting
<1> QED BY <1>2, <1>3

(* Nothing changed.                                                        *)
LEMMA ExtendsSelf ==
  ASSUME NEW tr, NEW rt
  PROVE  Extends(tr, tr, rt)
BY DEF Extends

(* A thread that has returned.                                             *)
LEMMA Returned ==
  ASSUME ConstantsFit, TreeInv, NEW t \in Thread, Return(t)
  PROVE  /\ pc'[t] = "out" /\ op'[t] = NoOp
         /\ CursorAt(tree', root', pc'[t], op'[t], box'[t], tgt'[t])
<1>1. pc'[t] = "out" /\ op'[t] = NoOp /\ box'[t] = Root
  BY DEF Return, Goto, TreeInv, ThreadTypes
<1> QED BY <1>1 DEF CursorAt, BoxOk, Boxes, Deleting

(* The steps that do not change the tree.                                  *)
LEMMA QuietSteps ==
  ASSUME ConstantsFit, TreeInv, NEW t \in Thread,
         Read(t) \/ Acquire(t) \/ Descend(t) \/ LookupDescend(t) \/ LookupAcquire(t) \/ LookupReturn(t)
         \/ DeleteNothing(t) \/ DeleteFound(t) \/ AcquireTop(t) \/ AcquireRight(t)
  PROVE  TreeInv' /\ UNCHANGED <<root, tree, made>>
<1> USE DEF Goto
<1>1. UNCHANGED <<root, tree, made>>
  BY DEF Read, Acquire, Descend, LookupDescend, LookupAcquire, LookupReturn, DeleteNothing, DeleteFound,
         AcquireTop, AcquireRight, shared
<1>2. ThreadTypes' /\ Local(t) /\ OpKept(t)
  BY StepLocal DEF Step
<1>3. (op'[t] = op[t] /\ pc[t] # "store") \/ op'[t] = NoOp
  BY <1>2 DEF OpKept, Read, Acquire, Descend, LookupDescend, LookupAcquire, LookupReturn, DeleteNothing, DeleteFound,
         AcquireTop, AcquireRight
<1>s. AloneInv' /\ SupplyInv'
  BY <1>1, <1>2, <1>3, AloneStep, SupplyStep DEF TreeInv
<1> DEFINE C == CursorAt(tree, root, pc'[t], op'[t], box'[t], tgt'[t])
<1>a. /\ IsTree(tree) /\ root \in Node
      /\ CursorAt(tree, root, pc[t], op[t], box[t], tgt[t])
      /\ tgt[t] \in Node /\ box[t] \in Boxes /\ BoxOk(tree, box[t])
      /\ Pointee(box[t]) = AtBox(tree, root, box[t]) /\ Pointee(box[t]) \in Node
      /\ pc[t] # "out" => /\ op[t] \in Operation /\ op[t].key \in Key /\ op[t].key # 0
                          /\ op[t].kind \in {"insert", "lookup", "delete"} /\ op[t] # NoOp
  BY AtCursor, OperationIs
<1>ty. ThreadTypes
  BY DEF TreeInv
<1>p. PathClosed(tree, op[t].key, OnPath(tree, root, op[t].key)) /\ root \in OnPath(tree, root, op[t].key)
  BY <1>a, PathSteps
<1>4. ASSUME Read(t) PROVE C
  <2>1. /\ pc[t] \in {"read", "pushdown"} /\ tgt'[t] = AtBox(tree, root, box[t]) /\ op' = op /\ box' = box
        /\ pc'[t] = IF pc[t] = "read" THEN "acquire" ELSE "acquireTop"
    BY <1>4, <1>a, <1>ty DEF Read, ThreadTypes
  <2> QED BY <1>a, <2>1 DEF CursorAt, Deleting
<1>5. ASSUME Acquire(t) PROVE C
  <2>1. /\ pc[t] = "acquire" /\ op' = op /\ box' = box /\ tgt' = tgt
        /\ pc'[t] = IF op[t].kind = "lookup" THEN "compare" ELSE "body"
    BY <1>5, <1>ty DEF Acquire, ThreadTypes
  <2> QED BY <1>a, <2>1 DEF CursorAt, Deleting
<1>6. ASSUME Descend(t) PROVE C
  <2>1. /\ pc[t] = "body" /\ op' = op /\ tgt' = tgt /\ pc'[t] = "read" /\ box'[t] = [node |-> tgt[t], side |-> Side(t)]
        /\ tree[tgt[t]] # NULL /\ tree[tgt[t]].key # op[t].key
    BY <1>6, <1>ty DEF Descend, ThreadTypes, Here
  <2>2. tgt[t] \in OnPath(tree, root, op[t].key)
    BY <1>a, <2>1 DEF CursorAt
  <2>3. /\ box'[t] \in Boxes /\ box'[t] # Root /\ box'[t].node = tgt[t]
        /\ box'[t].side = IF op[t].key < tree[tgt[t]].key THEN "left" ELSE "right"
    <3>1. Side(t) \in {"left", "right"} /\ Side(t) = IF op[t].key < tree[tgt[t]].key THEN "left" ELSE "right"
      BY DEF Side, Here
    <3>2. box'[t] = [node |-> tgt[t], side |-> Side(t)]
      BY <2>1
    <3>3. [node |-> tgt[t], side |-> Side(t)] \in Boxes /\ [node |-> tgt[t], side |-> Side(t)] # Root
      BY <1>a, <3>1, NewBox
    <3> QED BY <3>1, <3>2, <3>3
  <2>4. AtBox(tree, root, box'[t]) = NextOn(tree, op[t].key, tgt[t])
    BY <2>3 DEF AtBox, NextOn
  <2>5. NextOn(tree, op[t].key, tgt[t]) \in OnPath(tree, root, op[t].key)
    BY <1>p, <2>1, <2>2 DEF PathClosed, Ends
  <2>6. BoxOk(tree, box'[t])
    BY <2>1, <2>3 DEF BoxOk
  <2> QED BY <1>a, <2>1, <2>4, <2>5, <2>6 DEF CursorAt, Deleting
<1>7. ASSUME LookupDescend(t) PROVE C
  <2>1. /\ pc[t] = "compare" /\ op' = op /\ box' = box /\ pc'[t] = "acquireNext"
        /\ tgt'[t] = Child(tgt[t], Side(t)) /\ tree[tgt[t]] # NULL /\ tree[tgt[t]].key # op[t].key
    BY <1>7, <1>ty DEF LookupDescend, ThreadTypes, Here
  <2>2. tgt[t] \in OnPath(tree, root, op[t].key) /\ op[t].kind = "lookup"
    BY <1>a, <2>1 DEF CursorAt
  <2>3. tgt'[t] = NextOn(tree, op[t].key, tgt[t])
    BY <2>1 DEF Child, Side, NextOn, Here
  <2>4. tgt'[t] \in OnPath(tree, root, op[t].key)
    BY <1>p, <2>1, <2>2, <2>3 DEF PathClosed, Ends
  <2> QED BY <1>a, <2>1, <2>2, <2>4 DEF CursorAt, Deleting
<1>8. ASSUME LookupAcquire(t) PROVE C
  <2>1. pc[t] = "acquireNext" /\ op' = op /\ box' = box /\ tgt' = tgt /\ pc'[t] = "compare"
    BY <1>8, <1>ty DEF LookupAcquire, ThreadTypes, locals
  <2> QED BY <1>a, <2>1 DEF CursorAt, Deleting
<1>9. ASSUME LookupReturn(t) \/ DeleteNothing(t) PROVE C
  BY <1>1, <1>9, Returned DEF LookupReturn, DeleteNothing
<1>10. ASSUME DeleteFound(t) PROVE C
  <2>1. pc[t] = "body" /\ op' = op /\ box' = box /\ tgt' = tgt /\ pc'[t] = "pushdown"
        /\ op[t].kind = "delete" /\ tree[tgt[t]].key = op[t].key
    BY <1>10, <1>ty DEF DeleteFound, ThreadTypes, locals, Here
  <2> QED BY <1>a, <2>1 DEF CursorAt, Deleting
<1>11. ASSUME AcquireTop(t) \/ AcquireRight(t) PROVE C
  <2>1. /\ op' = op /\ box' = box /\ tgt' = tgt
        /\ \/ pc[t] = "acquireTop" /\ pc'[t] = "acquireRight"
           \/ pc[t] = "acquireRight" /\ pc'[t] = "turn"
    BY <1>11, <1>ty DEF AcquireTop, AcquireRight, ThreadTypes, locals
  <2> QED BY <1>a, <2>1 DEF CursorAt, Deleting
<1>12. C
  BY <1>4, <1>5, <1>6, <1>7, <1>8, <1>9, <1>10, <1>11
<1>13. CursorInv'
  <2>1. root' = root /\ Extends(tree, tree', root) /\ CursorAt(tree', root', pc'[t], op'[t], box'[t], tgt'[t])
    BY <1>1, <1>12, ExtendsSelf
  <2> QED BY <1>2, <2>1, CursorSteps
<1> QED BY <1>1, <1>2, <1>s, <1>13 DEF TreeInv

-----------------------------------------------------------------------------
(* The steps that change the tree.                                         *)

(* If two nodes are not made, p1 and p2 of insert are.                     *)
LEMMA TwoLeft ==
  ASSUME ConstantsFit, NEW md \in SUBSET Node, Cardinality(Node \ md) >= 2
  PROVE  /\ \E n \in Node : n \notin md
         /\ \A p \in Node \ md : /\ \E n \in Node : n \notin md \cup {p}
                                 /\ \A q \in Node \ (md \cup {p}) :
                                      Cardinality(Node \ (md \cup {p, q})) = Cardinality(Node \ md) - 2
<1>1. IsFiniteSet(Node \ md) /\ Cardinality(Node \ md) \in Nat
  BY FS_Subset, FS_CardinalityType DEF ConstantsFit
<1>2. Node \ md # {}
  BY <1>1, FS_EmptySet
<1>3. ASSUME NEW p \in Node \ md
      PROVE  /\ IsFiniteSet(Node \ (md \cup {p}))
             /\ Cardinality(Node \ (md \cup {p})) = Cardinality(Node \ md) - 1
  <2>1. Node \ (md \cup {p}) = (Node \ md) \ {p}
    OBVIOUS
  <2>2. \A A : IsFiniteSet(A) /\ p \in A => IsFiniteSet(A \ {p}) /\ Cardinality(A \ {p}) = Cardinality(A) - 1
    BY FS_RemoveElement
  <2> QED BY <1>1, <2>1, <2>2
<1>4. ASSUME NEW p \in Node \ md
      PROVE  /\ \E n \in Node : n \notin md \cup {p}
             /\ \A q \in Node \ (md \cup {p}) : Cardinality(Node \ (md \cup {p, q})) = Cardinality(Node \ md) - 2
  <2>1. Cardinality(Node \ (md \cup {p})) # 0
    BY <1>1, <1>3
  <2>2. Node \ (md \cup {p}) # {}
    BY <2>1, FS_EmptySet
  <2>3. ASSUME NEW q \in Node \ (md \cup {p}) PROVE Cardinality(Node \ (md \cup {p, q})) = Cardinality(Node \ md) - 2
    <3>1. Node \ (md \cup {p, q}) = (Node \ (md \cup {p})) \ {q}
      OBVIOUS
    <3>2. Cardinality(Node \ (md \cup {p, q})) = Cardinality(Node \ (md \cup {p})) - 1
      BY <1>3, <3>1, FS_RemoveElement
    <3> QED BY <1>1, <1>3, <3>2
  <2> QED BY <2>2, <2>3
<1> QED BY <1>2, <1>4

(* What NewLeaf does.                                                      *)
LEMMA NewLeafIs ==
  ASSUME ConstantsFit, TreeInv, NEW t \in Thread, NewLeaf(t)
  PROVE  \E p1 \in Node \ made, p2 \in Node \ made :
           /\ p1 # p2
           /\ made' = made \cup {p1, p2}
           /\ Leaf(tree, tree', tgt[t], op[t].key, op[t].item, p1, p2)
           /\ Cardinality(Node \ made') = Cardinality(Node \ made) - 2
           /\ Cardinality(Taking) \in Nat \ {0} /\ IsFiniteSet(Taking) /\ t \in Taking
<1>1. t \in Taking
  BY DEF NewLeaf, Taking
<1>2. IsFiniteSet(Taking) /\ IsFiniteSet(Node \ made) /\ made \subseteq Node
  BY AtCursor, FS_Subset DEF ConstantsFit, Taking
<1>3. Cardinality(Taking) \in Nat \ {0} /\ Cardinality(Node \ made) \in Nat
  BY <1>1, <1>2, FS_EmptySet, FS_CardinalityType
<1>4. Cardinality(Node \ made) >= 2
  BY <1>3 DEF TreeInv, SupplyInv
<1> DEFINE p1 == CHOOSE n \in Node : n \notin made
           p2 == CHOOSE n \in Node : n \notin made \cup {p1}
<1>5. /\ made' = made \cup {p1, p2}
      /\ tree' = [tree EXCEPT ![tgt[t]] = [key |-> op[t].key, value |-> op[t].item, left |-> p1, right |-> p2]]
  BY DEF NewLeaf
<1>6. p1 \in Node \ made
  <2>1. \E n \in Node : n \notin made
    BY <1>2, <1>4, TwoLeft
  <2> QED BY <2>1
<1>7. p2 \in Node \ (made \cup {p1})
  <2> HIDE DEF p1
  <2>1. \E n \in Node : n \notin made \cup {p1}
    BY <1>2, <1>4, <1>6, TwoLeft
  <2> QED BY <2>1
<1> HIDE DEF p1, p2
<1>8. Cardinality(Node \ (made \cup {p1, p2})) = Cardinality(Node \ made) - 2
  BY <1>2, <1>4, <1>6, <1>7, TwoLeft
<1> QED BY <1>1, <1>2, <1>3, <1>5, <1>6, <1>7, <1>8 DEF Leaf

(* NewLeaf keeps the invariant: the others stay on their paths.            *)
LEMMA NewLeafStep ==
  ASSUME ConstantsFit, TreeInv, NEW t \in Thread, NewLeaf(t)
  PROVE  TreeInv'
<1>0. ThreadTypes' /\ Local(t) /\ OpKept(t) /\ AloneInv /\ AloneInv'
  BY StepLocal, AloneStep DEF Step, TreeInv
<1>1. PICK p1 \in Node \ made, p2 \in Node \ made :
           /\ p1 # p2
           /\ made' = made \cup {p1, p2}
           /\ Leaf(tree, tree', tgt[t], op[t].key, op[t].item, p1, p2)
           /\ Cardinality(Node \ made') = Cardinality(Node \ made) - 2
           /\ Cardinality(Taking) \in Nat \ {0} /\ IsFiniteSet(Taking) /\ t \in Taking
  BY NewLeafIs
<1>2. /\ pc[t] = "body" /\ op[t].kind = "insert" /\ tree[tgt[t]] = NULL /\ pc'[t] = "store"
      /\ root' = root /\ op' = op /\ box' = box /\ tgt' = tgt
  BY DEF NewLeaf, Here, Goto, locals, TreeInv, ThreadTypes
<1>3. /\ IsTree(tree) /\ Good(tree, root, made) /\ root \in Node /\ tgt[t] \in Node
      /\ CursorAt(tree, root, "body", op[t], box[t], tgt[t])
      /\ op[t] \in Operation /\ op[t].key \in Key /\ op[t].item \in Item
      /\ tgt[t] \in OnPath(tree, root, op[t].key)
  <2>1. /\ CursorAt(tree, root, pc[t], op[t], box[t], tgt[t]) /\ IsTree(tree) /\ root \in Node /\ tgt[t] \in Node
        /\ op[t] \in Operation /\ op[t].key \in Key /\ op[t].item \in Item
    BY <1>2, AtCursor
  <2>2. tgt[t] \in OnPath(tree, root, op[t].key)
    BY <1>2, <2>1 DEF CursorAt
  <2> QED BY <1>2, <2>1, <2>2 DEF TreeInv
<1>4. /\ Good(tree', root, made')
      /\ \A j : OnPath(tree, root, j) \subseteq OnPath(tree', root, j)
  <2>1. \A w : Leaf(tree, w, tgt[t], op[t].key, op[t].item, p1, p2) =>
              /\ Good(w, root, made \cup {p1, p2})
              /\ \A j : OnPath(tree, root, j) \subseteq OnPath(w, root, j)
    BY <1>1, <1>2, <1>3, LeafGood
  <2> QED BY <1>1, <2>1
<1>5. Extends(tree, tree', root)
  <2>1. \A m \in Node : m # tgt[t] => tree'[m] = tree[m]
    BY <1>1, <1>3, LeafIsTree
  <2> QED BY <1>2, <1>4, <2>1 DEF Extends
<1>6. CursorAt(tree', root, "store", op[t], box[t], tgt[t])
  <2>1. CursorAt(tree', root, "body", op[t], box[t], tgt[t])
    BY <1>3, <1>5, CursorKept
  <2> QED BY <1>2, <2>1 DEF CursorAt, Deleting
<1>7. CursorInv'
  <2>1. CursorAt(tree', root', pc'[t], op'[t], box'[t], tgt'[t])
    BY <1>2, <1>6
  <2> QED BY <1>0, <1>2, <1>5, <2>1, CursorSteps
<1>8. SupplyInv'
  <2>1. Taking' = Taking \ {t}
    BY <1>0, <1>2 DEF Taking, Local
  <2>2. Cardinality(Taking') = Cardinality(Taking) - 1
    BY <1>1, <2>1, FS_RemoveElement
  <2>3. Cardinality(Node \ made) >= 2 * Cardinality(Taking) /\ Cardinality(Node \ made) \in Nat
    <3>1. IsFiniteSet(Node \ made)
      BY FS_Subset DEF ConstantsFit
    <3> QED BY <3>1, FS_CardinalityType DEF TreeInv, SupplyInv
  <2>4. Cardinality(Node \ made') >= 2 * Cardinality(Taking')
    BY <1>1, <2>2, <2>3
  <2> QED BY <2>4 DEF SupplyInv
<1> QED BY <1>0, <1>2, <1>4, <1>7, <1>8 DEF TreeInv

(* StoreBox stores what is there already.                                  *)
LEMMA StoreBoxIs ==
  ASSUME ConstantsFit, TreeInv, NEW t \in Thread, StoreBox(t)
  PROVE  UNCHANGED <<root, tree, made>>
<1>1. pc[t] = "store" /\ tree' = Assigned(tree, box[t], tgt[t]) /\ root' = RootAssigned(box[t], tgt[t]) /\ made' = made
  BY DEF StoreBox
<1>2. IsTree(tree) /\ root \in Node /\ BoxOk(tree, box[t]) /\ tgt[t] = AtBox(tree, root, box[t])
  BY <1>1, AtCursor DEF CursorAt
<1>3. Assigned(tree, box[t], AtBox(tree, root, box[t])) = tree
  BY <1>2, AssignSame
<1>4. root' = root
  BY <1>1, <1>2 DEF RootAssigned, AtBox
<1> QED BY <1>1, <1>2, <1>3, <1>4

(* So it keeps the invariant.                                              *)
LEMMA StoreBoxStep ==
  ASSUME ConstantsFit, TreeInv, NEW t \in Thread, StoreBox(t)
  PROVE  TreeInv'
<1>0. ThreadTypes' /\ Local(t) /\ OpKept(t)
  BY StepLocal DEF Step
<1>1. UNCHANGED <<root, tree, made>>
  BY StoreBoxIs
<1>2. op'[t] = NoOp /\ CursorAt(tree', root', pc'[t], op'[t], box'[t], tgt'[t])
  BY Returned DEF StoreBox
<1>3. AloneInv' /\ SupplyInv'
  BY <1>0, <1>1, <1>2, AloneStep, SupplyStep DEF TreeInv
<1>4. CursorInv'
  <2>1. root' = root /\ Extends(tree, tree', root)
    BY <1>1, ExtendsSelf
  <2> QED BY <1>0, <1>2, <2>1, CursorSteps
<1> QED BY <1>0, <1>1, <1>3, <1>4 DEF TreeInv

(* A value is replaced.                                                    *)
LEMMA ReplaceIs ==
  ASSUME ConstantsFit, TreeInv, NEW t \in Thread, Replace(t)
  PROVE  /\ root' = root /\ made' = made
         /\ tgt[t] \in OnPath(tree, root, op[t].key) /\ tgt[t] \in Full(tree) /\ tree[tgt[t]].key = op[t].key
         /\ IsTree(tree') /\ SameLinks(tree, tree')
         /\ tree'[tgt[t]].value = op[t].item /\ op[t].item \in Item
         /\ \A x \in Node : x # tgt[t] => tree'[x] = tree[x]
<1> DEFINE g == tgt[t]
           Records == [key : Key, value : Item, left : Node, right : Node]
<1>1. /\ pc[t] = "body" /\ op[t].kind = "insert" /\ tree[g].key = op[t].key /\ root' = root /\ made' = made
      /\ tree' = [tree EXCEPT ![g] = [tree[g] EXCEPT !.value = op[t].item]]
  BY DEF Replace, Here
<1>2. IsTree(tree) /\ g \in Node /\ op[t].key # 0 /\ op[t].item \in Item /\ g \in OnPath(tree, root, op[t].key)
  <2>1. CursorAt(tree, root, pc[t], op[t], box[t], tgt[t])
    BY AtCursor
  <2>2. g \in OnPath(tree, root, op[t].key)
    BY <1>1, <2>1 DEF CursorAt
  <2> QED BY <1>1, <2>2, AtCursor
<1>3. tree[g] # NULL /\ tree[g] \in Records
  BY <1>1, <1>2, TreeFields DEF IsTree
<1>4. tree'[g] = [tree[g] EXCEPT !.value = op[t].item] /\ \A x \in Node : x # g => tree'[x] = tree[x]
  BY <1>1, <1>2 DEF IsTree
<1>5. /\ tree'[g] \in Records /\ tree'[g].value = op[t].item
      /\ tree'[g].key = tree[g].key /\ tree'[g].left = tree[g].left /\ tree'[g].right = tree[g].right
  BY <1>2, <1>3, <1>4
<1>6. IsTree(tree')
  BY <1>1, <1>2, <1>4, <1>5 DEF IsTree
<1>7. tree'[g] # NULL
  BY <1>1, <1>2, <1>5 DEF NULL
<1>8. SameLinks(tree, tree')
  BY <1>3, <1>4, <1>5, <1>7 DEF SameLinks
<1> QED BY <1>1, <1>2, <1>3, <1>4, <1>5, <1>6, <1>8 DEF Full

(* Replace keeps the invariant.                                            *)
LEMMA ReplaceStep ==
  ASSUME ConstantsFit, TreeInv, NEW t \in Thread, Replace(t)
  PROVE  TreeInv'
<1>0. ThreadTypes' /\ Local(t) /\ OpKept(t)
  BY StepLocal DEF Step
<1>1. root' = root /\ made' = made /\ IsTree(tree') /\ SameLinks(tree, tree')
  BY ReplaceIs
<1>2. op'[t] = NoOp /\ CursorAt(tree', root', pc'[t], op'[t], box'[t], tgt'[t])
  BY Returned DEF Replace
<1>3. AloneInv' /\ SupplyInv'
  BY <1>0, <1>1, <1>2, AloneStep, SupplyStep DEF TreeInv
<1>4. Good(tree', root, made) /\ \A j : OnPath(tree', root, j) = OnPath(tree, root, j)
  BY <1>1, SameLinksGood DEF TreeInv
<1>5. CursorInv'
  <2>1. Extends(tree, tree', root)
    BY <1>1, <1>4 DEF Extends, SameLinks
  <2> QED BY <1>0, <1>1, <1>2, <2>1, CursorSteps
<1> QED BY <1>0, <1>1, <1>3, <1>4, <1>5 DEF TreeInv

(* A delete takes its node out, or turns it down.                          *)
LEMMA DeleteAt ==
  ASSUME ConstantsFit, TreeInv, NEW t \in Thread, pc[t] = "turn"
  PROVE  /\ op[t].kind = "delete" /\ op[t].key \in Key /\ op[t].key # 0
         /\ BoxOk(tree, box[t]) /\ tgt[t] = AtBox(tree, root, box[t])
         /\ tgt[t] \in Full(tree) /\ tgt[t] \in Node /\ tree[tgt[t]] # NULL /\ tree[tgt[t]].key = op[t].key
         /\ tree[tgt[t]].left \in Node /\ tree[tgt[t]].right \in Node
         /\ Good(tree, root, made) /\ IsTree(tree)
<1>1. CursorAt(tree, root, pc[t], op[t], box[t], tgt[t]) /\ tgt[t] \in Node /\ IsTree(tree) /\ op[t].key \in Key /\ op[t].key # 0
  BY AtCursor
<1>2. op[t].kind = "delete" /\ BoxOk(tree, box[t]) /\ tgt[t] = AtBox(tree, root, box[t]) /\ tree[tgt[t]].key = op[t].key
  BY <1>1 DEF CursorAt, Deleting
<1>3. tree[tgt[t]] # NULL
  BY <1>1, <1>2 DEF NULL
<1> QED BY <1>1, <1>2, <1>3, TreeFields DEF Full, TreeInv

(* The assignments of Unlink.                                              *)
LEMMA UnlinkIs ==
  ASSUME ConstantsFit, TreeInv, NEW t \in Thread, Unlink(t)
  PROVE  /\ IsTree(tree') /\ Unlinked(tree, root, tree', root', tgt[t])
         /\ Good(tree', root', made) /\ Full(tree') = Full(tree) \ {tgt[t]}
         /\ made' = made /\ op[t].kind = "delete"
         /\ tgt[t] \in Full(tree) /\ tree[tgt[t]].key = op[t].key
<1> DEFINE p == tgt[t]
<1>1. /\ pc[t] = "turn" /\ made' = made /\ tree[tree[p].right] = NULL
      /\ tree' = [Assigned(tree, box[t], tree[p].left) EXCEPT ![p] = NULL]
      /\ root' = IF box[t] = Root THEN tree[p].left ELSE root
  BY DEF Unlink, Here, RootAssigned
<1>2. /\ op[t].kind = "delete" /\ BoxOk(tree, box[t]) /\ p = AtBox(tree, root, box[t])
      /\ p \in Full(tree) /\ tree[p] # NULL /\ tree[p].key = op[t].key /\ Good(tree, root, made)
  BY <1>1, DeleteAt
<1>3. IsTree(tree') /\ Unlinked(tree, root, tree', root', p)
  <2>1. \A w, vr : /\ w = [Assigned(tree, box[t], tree[p].left) EXCEPT ![p] = NULL]
                   /\ vr = (IF box[t] = Root THEN tree[p].left ELSE root)
                   => IsTree(w) /\ Unlinked(tree, root, w, vr, p)
    BY <1>2, UnlinkedTree
  <2> QED BY <1>1, <2>1
<1>4. Good(tree', root', made) /\ Full(tree') = Full(tree) \ {p}
  <2>1. \A w, vr : IsTree(w) /\ Unlinked(tree, root, w, vr, p) => Good(w, vr, made) /\ Full(w) = Full(tree) \ {p}
    BY <1>1, <1>2, UnlinkGood
  <2> QED BY <1>3, <2>1
<1> QED BY <1>1, <1>2, <1>3, <1>4

(* Unlink keeps the invariant.                                             *)
LEMMA UnlinkStep ==
  ASSUME ConstantsFit, TreeInv, NEW t \in Thread, Unlink(t)
  PROVE  TreeInv'
<1>0. ThreadTypes' /\ Local(t) /\ OpKept(t)
  BY StepLocal DEF Step
<1>1. Good(tree', root', made) /\ made' = made /\ op[t].kind = "delete"
  BY UnlinkIs
<1>2. op'[t] = NoOp /\ CursorAt(tree', root', pc'[t], op'[t], box'[t], tgt'[t])
  BY Returned DEF Unlink
<1>3. AloneInv' /\ SupplyInv'
  BY <1>0, <1>1, <1>2, AloneStep, SupplyStep DEF TreeInv
<1>4. CursorInv'
  BY <1>0, <1>1, <1>2, CursorSteps
<1> QED BY <1>0, <1>1, <1>3, <1>4 DEF TreeInv

(* The assignments of turn_left; the node is now to the left of r.         *)
LEMMA TurnLeftIs ==
  ASSUME ConstantsFit, TreeInv, NEW t \in Thread, TurnLeft(t)
  PROVE  /\ IsTree(tree') /\ Rotated(tree, root, tree', root', tgt[t], tree[tgt[t]].right)
         /\ Good(tree', root', made) /\ Full(tree') = Full(tree)
         /\ made' = made /\ op' = op /\ op[t].kind = "delete" /\ pc[t] = "turn" /\ pc'[t] = "pushdown"
         /\ CursorAt(tree', root', pc'[t], op'[t], box'[t], tgt'[t])
<1> DEFINE p == tgt[t]
           r == tree[p].right
<1>1. /\ pc[t] = "turn" /\ made' = made /\ op' = op /\ tree[r] # NULL
      /\ tree' = Turning(tree, box[t], p, r)
      /\ root' = IF box[t] = Root THEN r ELSE root
      /\ pc'[t] = "pushdown" /\ box'[t] = [node |-> r, side |-> "left"]
  BY DEF TurnLeft, Here, RootAssigned, Turned, Turning, Goto, TreeInv, ThreadTypes
<1>2. /\ op[t].kind = "delete" /\ op[t].key # 0 /\ BoxOk(tree, box[t]) /\ p = AtBox(tree, root, box[t]) /\ p \in Node /\ r \in Node
      /\ p \in Full(tree) /\ tree[p] # NULL /\ tree[p].key = op[t].key /\ Good(tree, root, made)
  BY <1>1, DeleteAt
<1>3. IsTree(tree') /\ Rotated(tree, root, tree', root', p, r)
  <2>1. \A w, vr : /\ w = Turning(tree, box[t], p, r)
                   /\ vr = (IF box[t] = Root THEN r ELSE root)
                   => IsTree(w) /\ Rotated(tree, root, w, vr, p, r)
    BY <1>1, <1>2, RotatedTree
  <2> QED BY <1>1, <2>1
<1>4. Good(tree', root', made) /\ Full(tree') = Full(tree)
  <2>1. \A w, vr : IsTree(w) /\ Rotated(tree, root, w, vr, p, r) => Good(w, vr, made) /\ Full(w) = Full(tree)
    BY <1>1, <1>2, RotateGood
  <2> QED BY <1>3, <2>1
<1>5. tree'[r] # NULL /\ tree'[r].left = p /\ tree'[p].key = op[t].key
  <2> HIDE DEF r
  <2> QED BY <1>1, <1>2, <1>3 DEF Rotated
<1>6. CursorAt(tree', root', pc'[t], op'[t], box'[t], tgt'[t])
  <2>1. [node |-> r, side |-> "left"] \in Boxes /\ [node |-> r, side |-> "left"] # Root
    BY <1>2, NewBox
  <2>2. box'[t] \in Boxes /\ box'[t] # Root /\ box'[t].node = r /\ box'[t].side = "left"
    BY <1>1, <2>1
  <2>3. BoxOk(tree', box'[t]) /\ AtBox(tree', root', box'[t]) = p
    BY <1>5, <2>2 DEF BoxOk, AtBox
  <2>4. op[t] # NoOp
    BY <1>2, OperationIs
  <2> QED BY <1>1, <1>2, <1>5, <2>3, <2>4 DEF CursorAt, Deleting
<1> QED BY <1>1, <1>2, <1>3, <1>4, <1>6

(* TurnLeft keeps the invariant.                                           *)
LEMMA TurnLeftStep ==
  ASSUME ConstantsFit, TreeInv, NEW t \in Thread, TurnLeft(t)
  PROVE  TreeInv'
<1>0. ThreadTypes' /\ Local(t) /\ OpKept(t)
  BY StepLocal DEF Step
<1>1. /\ Good(tree', root', made) /\ made' = made /\ op' = op /\ op[t].kind = "delete" /\ pc[t] = "turn"
      /\ CursorAt(tree', root', pc'[t], op'[t], box'[t], tgt'[t])
  BY TurnLeftIs
<1>2. AloneInv' /\ SupplyInv'
  BY <1>0, <1>1, AloneStep, SupplyStep DEF TreeInv
<1>3. CursorInv'
  BY <1>0, <1>1, CursorSteps
<1> QED BY <1>0, <1>1, <1>2, <1>3 DEF TreeInv

(* A call begins.                                                          *)
LEMMA CallStep ==
  ASSUME ConstantsFit, TreeInv, NEW t \in Thread, NEW o \in Operation, Call(t, o)
  PROVE  TreeInv'
<1>1. /\ pc[t] = "out" /\ op[t] = NoOp /\ box[t] = Root
      /\ UNCHANGED <<root, tree, made, box, tgt>>
      /\ op'[t] = o /\ pc'[t] = "read"
      /\ \A s \in Thread : s # t => op'[s] = op[s] /\ pc'[s] = pc[s]
      /\ CursorAt(tree, root, pc[t], op[t], box[t], tgt[t])
  <2>1. CursorAt(tree, root, pc[t], op[t], box[t], tgt[t]) /\ pc[t] = "out"
    BY AtCursor DEF Call
  <2> QED BY <2>1 DEF Call, Goto, shared, TreeInv, ThreadTypes, CursorAt
<1>2. ThreadTypes'
  <2>1. "read" \in Point
    BY DEF Point
  <2> QED BY <1>1, <2>1 DEF Call, Goto, TreeInv, ThreadTypes
<1>3. CursorInv'
  <2>1. CursorAt(tree, root, "read", o, Root, tgt[t])
    <3>1. AtBox(tree, root, Root) = root /\ BoxOk(tree, Root) /\ o # NoOp
      BY OperationIs DEF AtBox, BoxOk, Boxes
    <3>2. root \in OnPath(tree, root, o.key)
      BY AtCursor, PathSteps
    <3> QED BY <3>1, <3>2 DEF CursorAt, Deleting
  <2> SUFFICES ASSUME NEW s \in Thread PROVE CursorAt(tree', root', pc'[s], op'[s], box'[s], tgt'[s])
    BY DEF CursorInv
  <2>2. CASE s = t
    BY <1>1, <2>1, <2>2
  <2>3. CASE s # t
    BY <1>1, <2>3, AtCursor
  <2> QED BY <2>2, <2>3
<1>4. AloneInv'
  <2>1. CASE o.kind = "delete"
    <3>1. \A s \in Thread : pc[s] = "out"
      BY <2>1 DEF Call, Quiet
    <3>2. \A s \in Thread : op[s] = NoOp
      BY <3>1 DEF TreeInv, CursorInv, CursorAt
    <3> QED BY <1>1, <3>2, OperationIs DEF AloneInv
  <2>2. CASE o.kind # "delete"
    <3>1. \A s \in Thread : op[s].kind # "delete"
      BY <2>2 DEF Call
    <3> QED BY <1>1, <2>2, <3>1 DEF AloneInv
  <2> QED BY <2>1, <2>2
<1>5. SupplyInv'
  <2>1. IsFiniteSet(Inserting) /\ IsFiniteSet(Taking) /\ Cardinality(Inserting) \in Nat
    BY FS_Subset, FS_CardinalityType DEF ConstantsFit, Inserting, Taking
  <2>2. CASE o.kind = "insert"
    <3>1. Taking' \subseteq Inserting \cup {t}
      BY <1>1 DEF Taking, Inserting
    <3>2. t \notin Inserting
      BY <1>1, OperationIs DEF Inserting
    <3>3. IsFiniteSet(Inserting \cup {t}) /\ Cardinality(Inserting \cup {t}) = Cardinality(Inserting) + 1
      <4>1. \A A : IsFiniteSet(A) /\ t \notin A => IsFiniteSet(A \cup {t}) /\ Cardinality(A \cup {t}) = Cardinality(A) + 1
        BY FS_AddElement
      <4> QED BY <2>1, <3>2, <4>1
    <3>4. Cardinality(Taking') <= Cardinality(Inserting) + 1 /\ Cardinality(Taking') \in Nat
      BY <3>1, <3>3, FS_Subset, FS_CardinalityType
    <3>5. Cardinality(Node \ made) >= 2 * (Cardinality(Inserting) + 1) /\ Cardinality(Node \ made) \in Nat
      <4>1. IsFiniteSet(Node \ made)
        BY FS_Subset DEF ConstantsFit
      <4> QED BY <2>2, <4>1, FS_CardinalityType DEF Call
    <3>6. Cardinality(Node \ made) >= 2 * Cardinality(Taking')
      BY <2>1, <3>4, <3>5
    <3> QED BY <1>1, <3>6 DEF SupplyInv
  <2>3. CASE o.kind # "insert"
    <3>1. Taking' = Taking
      BY <1>1, <2>3, OperationIs DEF Taking
    <3> QED BY <1>1, <3>1 DEF TreeInv, SupplyInv
  <2> QED BY <2>2, <2>3
<1> QED BY <1>1, <1>2, <1>3, <1>4, <1>5 DEF TreeInv

(* The tree is freed and made anew.                                        *)
LEMMA FreeStep ==
  ASSUME ConstantsFit, TreeInv, TreeboxFree
  PROVE  TreeInv'
<1>1. /\ root' = AnyNode /\ tree' = [n \in Node |-> NULL] /\ made' = {AnyNode}
      /\ pc' = pc /\ op' = op /\ box' = box /\ tgt' = tgt
      /\ \A t \in Thread : pc[t] = "out"
  BY DEF TreeboxFree, Quiet, locals
<1>2. Good(tree', root', made')
  BY <1>1, NodeExists, EmptyGood
<1>3. \A t \in Thread : op[t] = NoOp /\ box[t] = Root
  BY <1>1 DEF TreeInv, CursorInv, CursorAt
<1>4. CursorInv'
  BY <1>1, <1>3 DEF CursorInv, CursorAt, BoxOk, Boxes, Deleting
<1>5. SupplyInv'
  <2>1. Taking' = {}
    BY <1>1, <1>3, OperationIs DEF Taking
  <2>2. Cardinality(Taking') = 0
    BY <2>1, FS_EmptySet
  <2>3. Cardinality(Node \ made') \in Nat
    <3>1. IsFiniteSet(Node \ made')
      BY FS_Subset DEF ConstantsFit
    <3> QED BY <3>1, FS_CardinalityType
  <2> QED BY <2>2, <2>3 DEF SupplyInv
<1> QED BY <1>1, <1>2, <1>4, <1>5 DEF TreeInv, ThreadTypes, AloneInv

(* Every step keeps the invariant.                                         *)
LEMMA TreeNext ==
  ASSUME ConstantsFit, TreeInv, [BstNext]_bstVars
  PROVE  TreeInv'
<1>1. CASE TreeboxFree
  BY <1>1, FreeStep
<1>2. ASSUME NEW t \in Thread, (\E o \in Operation : Call(t, o)) \/ Step(t) PROVE TreeInv'
  <2>1. CASE \E o \in Operation : Call(t, o)
    BY <2>1, CallStep
  <2>2. CASE NewLeaf(t) \/ StoreBox(t) \/ Replace(t) \/ Unlink(t) \/ TurnLeft(t)
    BY <2>2, NewLeafStep, StoreBoxStep, ReplaceStep, UnlinkStep, TurnLeftStep
  <2>3. CASE \/ Read(t) \/ Acquire(t) \/ Descend(t) \/ LookupDescend(t) \/ LookupAcquire(t) \/ LookupReturn(t)
             \/ DeleteNothing(t) \/ DeleteFound(t) \/ AcquireTop(t) \/ AcquireRight(t)
    BY <2>3, QuietSteps
  <2> QED BY <1>2, <2>1, <2>2, <2>3 DEF Step
<1>3. CASE UNCHANGED bstVars
  <2>1. UNCHANGED <<root, tree, made, pc, op, box, tgt>>
    BY <1>3 DEF bstVars, shared, locals
  <2>2. Taking' = Taking
    BY <2>1 DEF Taking
  <2> QED BY <2>1, <2>2 DEF TreeInv, ThreadTypes, CursorInv, AloneInv, SupplyInv
<1> QED BY <1>1, <1>2, <1>3 DEF BstNext

(* The invariant holds in every behaviour: the tree is sound, each thread  *)
(* is where its search leads, a delete is alone, and every insert under way*)
(* finds the two nodes for its leaf.                                       *)
THEOREM TreeInvariant == ConstantsFit => (BstSpec => []TreeInv)
<1> SUFFICES ASSUME ConstantsFit PROVE BstSpec => []TreeInv
  OBVIOUS
<1>1. BstInit => TreeInv
  BY TreeInit
<1>2. TreeInv /\ [BstNext]_bstVars => TreeInv'
  BY TreeNext
<1> QED BY <1>1, <1>2, PTL DEF BstSpec

(* A search tree.                                                          *)
LEMMA SearchTreeHolds == ConstantsFit /\ TreeInv => SearchTree
<1> SUFFICES ASSUME ConstantsFit, TreeInv PROVE SearchTree
  OBVIOUS
<1> DEFINE B(n) == Reach(tree, n, Cardinality(Key))[Cardinality(Key)]
<1>1. Good(tree, root, made) /\ IsTree(tree) /\ root \in Node
  BY AtCursor DEF TreeInv, Good, Inside
<1>2. \A n : Below(n) = B(n)
  BY BelowReach
<1>3. \A n \in Node : IsBelow(tree, n, B(n))
  BY <1>1, BelowIs
<1> HIDE DEF B
<1>4. Cardinality(B(root)) = 2 * Cardinality({n \in B(root) : tree[n] # NULL}) + 1
  BY <1>1, <1>3, CountNodes
<1>5. ASSUME NEW n \in B(root), tree[n] # NULL
      PROVE  /\ \A m \in B(tree[n].left) : tree[m] # NULL => tree[m].key < tree[n].key
             /\ \A m \in B(tree[n].right) : tree[m] # NULL => tree[m].key > tree[n].key
  <2>1. n \in Full(tree)
    BY <1>1, <1>3, <1>5 DEF IsBelow, Full
  <2>2. tree[n].left \in Node /\ tree[n].right \in Node
    BY <1>1, <2>1, TreeFields DEF Full
  <2>3. IsBelow(tree, tree[n].left, B(tree[n].left)) /\ IsBelow(tree, tree[n].right, B(tree[n].right))
    BY <1>3, <2>2
  <2> QED BY <1>1, <2>1, <2>3, KeysInOrder
<1> QED BY <1>2, <1>4, <1>5 DEF SearchTree

(* At every moment, in the middle of calls too, the keys to the left of a  *)
(* node are less and those to the right greater than its own, and no node  *)
(* hangs from two boxes, whoever inserts, looks up and deletes.            *)
THEOREM SearchTreeAlways == ConstantsFit => (BstSpec => []SearchTree)
<1> SUFFICES ASSUME ConstantsFit PROVE BstSpec => []SearchTree
  OBVIOUS
<1>1. TreeInv => SearchTree
  BY SearchTreeHolds
<1>2. BstSpec => []TreeInv
  BY TreeInvariant
<1> QED BY <1>1, <1>2, PTL

-----------------------------------------------------------------------------
(* The refinement of the dictionary.                                       *)
At(tr, k) == {n \in Full(tr) : tr[n].key = k}
ValueOf(tr, at) == IF at = {} THEN 0 ELSE tr[CHOOSE n \in at : TRUE].value
Dict(tr) == [k \in Key |-> ValueOf(tr, At(tr, k))]
MapIsDict == Map = Dict(tree)

(* The map of the refinement is that of the full nodes.                    *)
LEMMA MapHolds == ConstantsFit /\ TreeInv => MapIsDict
<1> SUFFICES ASSUME ConstantsFit, TreeInv PROVE Map = Dict(tree)
  BY DEF MapIsDict
<1>1. Good(tree, root, made) /\ IsTree(tree) /\ root \in Node
  BY DEF TreeInv, Good, Inside
<1>2. IsBelow(tree, root, Below(root))
  BY <1>1, BelowReach, BelowIs
<1>3. ASSUME NEW k \in Key PROVE {n \in Below(root) : tree[n].key = k} = At(tree, k)
  <2>1. k # 0
    BY DEF ConstantsFit
  <2>2. \A n \in Node : tree[n].key = k => n \in Full(tree)
    BY <2>1 DEF NULL, Full
  <2>3. Below(root) \subseteq Node
    BY <1>2 DEF IsBelow
  <2>4. Full(tree) \subseteq Below(root)
    BY <1>1, <1>2, FullBelow
  <2> QED BY <2>2, <2>3, <2>4 DEF At
<1>4. Map = [k \in Key |-> ValueOf(tree, {n \in Below(root) : tree[n].key = k})]
  BY DEF Map, ValueOf
<1> QED BY <1>3, <1>4 DEF Dict

(* Its values.                                                             *)
LEMMA DictAt ==
  ASSUME ConstantsFit, NEW tr, NEW rt, NEW md, Good(tr, rt, md)
  PROVE  /\ \A n \in Full(tr) : tr[n].key \in Key /\ Dict(tr)[tr[n].key] = tr[n].value
         /\ \A k \in Key : (\A n \in Full(tr) : tr[n].key # k) => Dict(tr)[k] = 0
<1>1. ASSUME NEW n \in Full(tr) PROVE tr[n].key \in Key /\ Dict(tr)[tr[n].key] = tr[n].value
  <2>1. tr[n].key \in Key
    BY TreeFields DEF Good, Full
  <2>2. At(tr, tr[n].key) = {n}
    BY KeysDiffer DEF At
  <2> QED BY <2>1, <2>2 DEF Dict, ValueOf
<1>2. ASSUME NEW k \in Key, \A n \in Full(tr) : tr[n].key # k PROVE Dict(tr)[k] = 0
  BY <1>2 DEF Dict, ValueOf, At
<1> QED BY <1>1, <1>2

(* Where a search ends without the key there is none.                      *)
LEMMA DictEnd ==
  ASSUME ConstantsFit, NEW tr, NEW rt, NEW md, Good(tr, rt, md), NEW k \in Key, NEW n \in OnPath(tr, rt, k), Ends(tr, k, n)
  PROVE  Dict(tr)[k] = IF tr[n] = NULL THEN 0 ELSE tr[n].value
<1>1. n \in Node /\ IsTree(tr) /\ rt \in Node
  BY DEF OnPath, Good, Inside
<1>2. CASE tr[n] = NULL
  <2>1. ASSUME NEW m \in Full(tr), tr[m].key = k PROVE FALSE
    <3>1. m \in OnPath(tr, rt, k) /\ Ends(tr, k, m)
      BY <2>1 DEF Good, Found, Ends
    <3>2. m = n
      BY <1>1, <3>1, PathEndsOnce
    <3> QED BY <1>2, <3>2 DEF Full
  <2> QED BY <1>2, <2>1, DictAt
<1>3. CASE tr[n] # NULL
  <2>1. n \in Full(tr) /\ tr[n].key = k
    BY <1>1, <1>3 DEF Full, Ends
  <2> QED BY <1>3, <2>1, DictAt
<1> QED BY <1>2, <1>3

(* Two trees with the same entries.                                        *)
LEMMA DictSame ==
  ASSUME NEW tr, NEW w, Full(w) = Full(tr), \A n \in Full(tr) : w[n].key = tr[n].key /\ w[n].value = tr[n].value
  PROVE  Dict(w) = Dict(tr)
<1>1. ASSUME NEW k \in Key PROVE Dict(w)[k] = Dict(tr)[k]
  <2>1. At(w, k) = At(tr, k)
    BY DEF At
  <2>2. \A n \in At(tr, k) : w[n].value = tr[n].value
    BY DEF At
  <2>3. CASE At(tr, k) # {}
    <3>1. (CHOOSE n \in At(tr, k) : TRUE) \in At(tr, k)
      BY <2>3
    <3> QED BY <2>1, <2>2, <2>3, <3>1 DEF Dict, ValueOf
  <2> QED BY <2>1, <2>3 DEF Dict, ValueOf
<1> QED BY <1>1 DEF Dict

(* One key's value changes, or the key is gone.                            *)
LEMMA DictChanged ==
  ASSUME ConstantsFit, NEW tr, NEW w, NEW k \in Key, NEW i, Dict(w)[k] = i,
         \A n \in Full(w) : w[n].key # k => n \in Full(tr) /\ tr[n].key = w[n].key /\ tr[n].value = w[n].value,
         \A n \in Full(tr) : tr[n].key # k => n \in Full(w) /\ tr[n].key = w[n].key
  PROVE  Dict(w) = [Dict(tr) EXCEPT ![k] = i]
<1>1. ASSUME NEW j \in Key, j # k PROVE Dict(w)[j] = Dict(tr)[j]
  <2>1. At(w, j) = At(tr, j)
    BY <1>1 DEF At
  <2>2. \A n \in At(w, j) : w[n].value = tr[n].value
    BY <1>1 DEF At
  <2>3. CASE At(w, j) # {}
    <3>1. (CHOOSE n \in At(w, j) : TRUE) \in At(w, j)
      BY <2>3
    <3> QED BY <2>1, <2>2, <2>3, <3>1 DEF Dict, ValueOf
  <2> QED BY <2>1, <2>3 DEF Dict, ValueOf
<1>2. Dict(w) = [j \in Key |-> Dict(w)[j]] /\ Dict(tr) = [j \in Key |-> Dict(tr)[j]]
  BY DEF Dict
<1> QED BY <1>1, <1>2

(* What a call that takes effect has to do.                                *)
LEMMA TookEffect ==
  ASSUME NEW t \in Thread, Pending[t] = op[t], op[t] \in Operation,
         Pending' = [Pending EXCEPT ![t] = NoOp],
         \/ op[t].kind = "insert" /\ Map' = [Map EXCEPT ![op[t].key] = op[t].item] /\ ret' = ret
         \/ op[t].kind = "delete" /\ Map' = [Map EXCEPT ![op[t].key] = 0] /\ ret' = ret
         \/ op[t].kind = "lookup" /\ Map' = Map /\ ret' = [ret EXCEPT ![t] = Map[op[t].key]]
  PROVE  Abstract!Next
<1>1. Abstract!NoOp = NoOp /\ op[t] # NoOp
  BY OperationIs DEF Abstract!NoOp, NoOp
<1>2. Abstract!Effect(t, Pending[t])
  BY DEF Abstract!Effect, Abstract!Maps, Abstract!Returns
<1>3. Abstract!TakeEffect(t)
  BY <1>1, <1>2 DEF Abstract!TakeEffect
<1> QED BY <1>3 DEF Abstract!Next

(* treebox_new makes an empty dictionary.                                  *)
LEMMA RefinesInit == ConstantsFit /\ BstInit => Abstract!Init
<1> SUFFICES ASSUME ConstantsFit, BstInit PROVE Abstract!Init
  OBVIOUS
<1>1. TreeInv
  BY TreeInit
<1>2. Map = Dict(tree) /\ Full(tree) = {}
  BY <1>1, MapHolds, NodeExists, EmptyGood DEF BstInit, MapIsDict
<1>3. Map = [k \in Key |-> 0]
  BY <1>2 DEF Dict, ValueOf, At
<1>4. Pending = [t \in Thread |-> Abstract!NoOp]
  BY DEF BstInit, Pending, Abstract!NoOp, NoOp
<1> QED BY <1>3, <1>4 DEF BstInit, Abstract!Init

(* The steps after which a call is still, or is not yet, pending.          *)
LEMMA PendingKept ==
  ASSUME ThreadTypes, ThreadTypes', NEW t \in Thread, Local(t), op'[t] = op[t], (pc[t] = "store") = (pc'[t] = "store")
  PROVE  Pending' = Pending
BY DEF Pending, Local

(* The steps with which it takes effect.                                   *)
LEMMA PendingGone ==
  ASSUME ThreadTypes, ThreadTypes', NEW t \in Thread, Local(t), op'[t] = NoOp \/ pc'[t] = "store"
  PROVE  Pending' = [Pending EXCEPT ![t] = NoOp]
BY DEF Pending, Local

(* What is known before and after a step.                                  *)
DictInv == TreeInv /\ MapIsDict

(* NewLeaf and Replace are inserts of the dictionary.                      *)
LEMMA InsertRefines ==
  ASSUME ConstantsFit, DictInv, DictInv', NEW t \in Thread, NewLeaf(t) \/ Replace(t)
  PROVE  Abstract!Next
<1>0. ThreadTypes /\ ThreadTypes' /\ TreeInv /\ TreeInv' /\ Good(tree, root, made) /\ Good(tree', root', made') /\ Local(t)
  BY StepLocal DEF DictInv, TreeInv, Step
<1>m. Map = Dict(tree) /\ Map' = Dict(tree')
  BY DEF DictInv, MapIsDict
<1> DEFINE k == op[t].key
           n == tgt[t]
<1>1. /\ op[t] \in Operation /\ op[t].kind = "insert" /\ k \in Key /\ pc[t] = "body"
      /\ ret' = ret /\ (op'[t] = NoOp \/ pc'[t] = "store")
  <2>1. pc[t] = "body" /\ op[t].kind = "insert" /\ ret' = ret
    BY DEF NewLeaf, Replace
  <2>2. op'[t] = NoOp \/ pc'[t] = "store"
    BY <1>0 DEF NewLeaf, Replace, Return, Goto, ThreadTypes
  <2> QED BY <1>0, <2>1, <2>2, AtCursor
<1>2. n \in Full(tree') /\ tree'[n].key = k /\ tree'[n].value = op[t].item
      /\ (n \in Full(tree) => tree[n].key = k)
      /\ \A x \in Node : x # n => tree'[x] = tree[x]
  <2>1. CASE NewLeaf(t)
    <3>1. PICK p1 \in Node \ made, p2 \in Node \ made : Leaf(tree, tree', n, k, op[t].item, p1, p2)
      BY <1>0, <2>1, NewLeafIs
    <3>2. IsTree(tree) /\ n \in Node /\ op[t].item \in Item /\ n \notin Full(tree)
      BY <1>0, <1>1, <2>1, AtCursor DEF NewLeaf, Here, Full
    <3>3. tree'[n] # NULL /\ tree'[n].key = k /\ tree'[n].value = op[t].item /\ \A x \in Node : x # n => tree'[x] = tree[x]
      BY <1>1, <3>1, <3>2, LeafIsTree
    <3> QED BY <3>2, <3>3 DEF Full
  <2>2. CASE Replace(t)
    <3>1. /\ n \in Full(tree) /\ tree[n].key = k /\ SameLinks(tree, tree')
          /\ tree'[n].value = op[t].item /\ \A x \in Node : x # n => tree'[x] = tree[x]
      BY <1>0, <2>2, ReplaceIs
    <3> QED BY <3>1 DEF SameLinks, Full
  <2> QED BY <2>1, <2>2
<1>3. Dict(tree')[k] = op[t].item
  BY <1>0, <1>2, DictAt
<1>4. Dict(tree') = [Dict(tree) EXCEPT ![k] = op[t].item]
  <2>1. \A x \in Full(tree') : tree'[x].key # k => x \in Full(tree) /\ tree[x].key = tree'[x].key /\ tree[x].value = tree'[x].value
    BY <1>2 DEF Full
  <2>2. \A x \in Full(tree) : tree[x].key # k => x \in Full(tree') /\ tree[x].key = tree'[x].key
    BY <1>2 DEF Full
  <2>3. \A w, i : /\ Dict(w)[k] = i
                  /\ \A x \in Full(w) : w[x].key # k => x \in Full(tree) /\ tree[x].key = w[x].key /\ tree[x].value = w[x].value
                  /\ \A x \in Full(tree) : tree[x].key # k => x \in Full(w) /\ tree[x].key = w[x].key
                  => Dict(w) = [Dict(tree) EXCEPT ![k] = i]
    <3>1. k \in Key
      BY <1>1
    <3> HIDE DEF k
    <3> QED BY <3>1, DictChanged
  <2> QED BY <1>3, <2>1, <2>2, <2>3
<1>5. Pending' = [Pending EXCEPT ![t] = NoOp]
  BY <1>0, <1>1, PendingGone
<1>6. Pending[t] = op[t]
  BY <1>1 DEF Pending
<1> QED BY <1>1, <1>4, <1>5, <1>6, <1>m, TookEffect

(* A search that ends returns, or deletes nothing.                         *)
LEMMA SearchRefines ==
  ASSUME ConstantsFit, DictInv, DictInv', NEW t \in Thread, LookupReturn(t) \/ DeleteNothing(t)
  PROVE  Abstract!Next
<1>0. ThreadTypes /\ ThreadTypes' /\ TreeInv /\ Good(tree, root, made) /\ Local(t) /\ tree' = tree
  BY StepLocal DEF DictInv, TreeInv, Step, LookupReturn, DeleteNothing
<1>m. Map = Dict(tree) /\ Map' = Dict(tree)
  BY <1>0 DEF DictInv, MapIsDict
<1> DEFINE k == op[t].key
           n == tgt[t]
<1>1. /\ op[t] \in Operation /\ k \in Key /\ op'[t] = NoOp /\ pc[t] # "store"
      /\ n \in OnPath(tree, root, k) /\ Ends(tree, k, n)
  <2>1. pc[t] \in {"compare", "body"} /\ Ends(tree, k, n) /\ Return(t)
    BY DEF LookupReturn, DeleteNothing, Ends, Here
  <2>2. CursorAt(tree, root, pc[t], op[t], box[t], tgt[t]) /\ op[t] \in Operation /\ k \in Key
    BY <1>0, <2>1, AtCursor
  <2> QED BY <1>0, <2>1, <2>2, Returned DEF CursorAt
<1>2. Dict(tree)[k] = IF tree[n] = NULL THEN 0 ELSE tree[n].value
  BY <1>0, <1>1, DictEnd
<1>3. Pending' = [Pending EXCEPT ![t] = NoOp] /\ Pending[t] = op[t]
  BY <1>0, <1>1, PendingGone DEF Pending
<1>4. CASE LookupReturn(t)
  <2>1. op[t].kind = "lookup"
    <3>1. CursorAt(tree, root, pc[t], op[t], box[t], tgt[t]) /\ pc[t] = "compare"
      BY <1>0, <1>4, AtCursor DEF LookupReturn
    <3> QED BY <3>1 DEF CursorAt
  <2>2. ret' = [ret EXCEPT ![t] = Map[k]]
    BY <1>2, <1>4, <1>m DEF LookupReturn, Here
  <2> QED BY <1>1, <1>3, <1>m, <2>1, <2>2, TookEffect
<1>5. CASE DeleteNothing(t)
  <2>1. op[t].kind = "delete" /\ ret' = ret /\ tree[n] = NULL
    BY <1>5 DEF DeleteNothing, Here
  <2>2. Map' = [Map EXCEPT ![k] = 0]
    <3>1. Dict(tree)[k] = 0
      BY <1>2, <2>1
    <3>2. Dict(tree) = [j \in Key |-> Dict(tree)[j]]
      BY DEF Dict
    <3>3. [Dict(tree) EXCEPT ![k] = 0] = Dict(tree)
      BY <3>1, <3>2
    <3> QED BY <1>m, <3>3
  <2> QED BY <1>1, <1>3, <2>1, <2>2, TookEffect
<1> QED BY <1>4, <1>5

(* Unlink is its delete.                                                   *)
LEMMA DeleteRefines ==
  ASSUME ConstantsFit, DictInv, DictInv', NEW t \in Thread, Unlink(t)
  PROVE  Abstract!Next
<1>0. ThreadTypes /\ ThreadTypes' /\ TreeInv /\ Good(tree, root, made) /\ Good(tree', root', made') /\ Local(t)
  BY StepLocal DEF DictInv, TreeInv, Step
<1>m. Map = Dict(tree) /\ Map' = Dict(tree')
  BY DEF DictInv, MapIsDict
<1> DEFINE k == op[t].key
           p == tgt[t]
<1>1. /\ op[t] \in Operation /\ k \in Key /\ op'[t] = NoOp /\ pc[t] # "store" /\ ret' = ret
      /\ op[t].kind = "delete" /\ p \in Full(tree) /\ tree[p].key = k
      /\ Full(tree') = Full(tree) \ {p} /\ Unlinked(tree, root, tree', root', p)
  <2>1. pc[t] = "turn" /\ ret' = ret /\ Return(t)
    BY DEF Unlink
  <2> QED BY <1>0, <2>1, AtCursor, Returned, UnlinkIs
<1>2. \A x \in Full(tree') : x \in Full(tree) /\ x # p /\ tree'[x].key = tree[x].key /\ tree'[x].value = tree[x].value
  BY <1>1 DEF Unlinked, Full
<1>3. Dict(tree')[k] = 0
  <2>1. \A x \in Full(tree') : tree'[x].key # k
    BY <1>0, <1>1, <1>2, KeysDiffer
  <2> QED BY <1>0, <1>1, <2>1, DictAt
<1>4. Dict(tree') = [Dict(tree) EXCEPT ![k] = 0]
  <2>1. \A x \in Full(tree) : tree[x].key # k => x \in Full(tree') /\ tree[x].key = tree'[x].key
    BY <1>1, <1>2
  <2>2. \A w : /\ Dict(w)[k] = 0
               /\ \A x \in Full(w) : w[x].key # k => x \in Full(tree) /\ tree[x].key = w[x].key /\ tree[x].value = w[x].value
               /\ \A x \in Full(tree) : tree[x].key # k => x \in Full(w) /\ tree[x].key = w[x].key
               => Dict(w) = [Dict(tree) EXCEPT ![k] = 0]
    BY <1>1, DictChanged
  <2> QED BY <1>2, <1>3, <2>1, <2>2
<1>5. Pending' = [Pending EXCEPT ![t] = NoOp] /\ Pending[t] = op[t]
  BY <1>0, <1>1, PendingGone DEF Pending
<1> QED BY <1>1, <1>4, <1>5, <1>m, TookEffect

(* The other steps of a call change neither the map nor what is pending.   *)
LEMMA StutterRefines ==
  ASSUME ConstantsFit, DictInv, DictInv', NEW t \in Thread,
         \/ Read(t) \/ Acquire(t) \/ Descend(t) \/ LookupDescend(t) \/ LookupAcquire(t)
         \/ DeleteFound(t) \/ AcquireTop(t) \/ AcquireRight(t) \/ StoreBox(t) \/ TurnLeft(t)
  PROVE  UNCHANGED Abstract!vars
<1>0. ThreadTypes /\ ThreadTypes' /\ TreeInv /\ Local(t)
  BY StepLocal DEF DictInv, TreeInv, Step
<1>m. Map = Dict(tree) /\ Map' = Dict(tree')
  BY DEF DictInv, MapIsDict
<1>1. ret' = ret
  BY DEF Read, Acquire, Descend, LookupDescend, LookupAcquire, DeleteFound, AcquireTop, AcquireRight, StoreBox, TurnLeft
<1>2. Dict(tree') = Dict(tree)
  <2>1. CASE TurnLeft(t)
    <3>1. Rotated(tree, root, tree', root', tgt[t], tree[tgt[t]].right) /\ Full(tree') = Full(tree)
      BY <1>0, <2>1, TurnLeftIs
    <3>2. \A x \in Full(tree) : tree'[x].key = tree[x].key /\ tree'[x].value = tree[x].value
      BY <3>1 DEF Rotated, Full
    <3> QED BY <3>1, <3>2, DictSame
  <2>2. CASE ~TurnLeft(t)
    <3>1. tree' = tree
      BY <1>0, <2>2, StoreBoxIs DEF Read, Acquire, Descend, LookupDescend, LookupAcquire, DeleteFound, AcquireTop, AcquireRight, shared
    <3> QED BY <3>1
  <2> QED BY <2>1, <2>2
<1>3. Pending' = Pending
  <2>1. CASE StoreBox(t)
    <3>1. op'[t] = NoOp /\ pc[t] = "store"
      BY <1>0, <2>1, Returned DEF StoreBox
    <3>2. Pending' = [Pending EXCEPT ![t] = NoOp]
      BY <1>0, <3>1, PendingGone
    <3>3. Pending[t] = NoOp /\ Pending = [s \in Thread |-> Pending[s]]
      BY <3>1 DEF Pending
    <3> HIDE DEF NoOp
    <3> QED BY <3>2, <3>3
  <2>2. CASE ~StoreBox(t)
    <3>1. op'[t] = op[t] /\ pc[t] # "store" /\ pc'[t] # "store"
      BY <1>0, <2>2 DEF Read, Acquire, Descend, LookupDescend, LookupAcquire, DeleteFound, AcquireTop, AcquireRight, TurnLeft,
                        Goto, locals, ThreadTypes
    <3> QED BY <1>0, <3>1, PendingKept
  <2> QED BY <2>1, <2>2
<1> QED BY <1>1, <1>2, <1>3, <1>m DEF Abstract!vars

(* Call is its call.                                                       *)
LEMMA CallRefines ==
  ASSUME ConstantsFit, DictInv, DictInv', NEW t \in Thread, NEW o \in Operation, Call(t, o)
  PROVE  Abstract!Next
<1>0. ThreadTypes /\ ThreadTypes' /\ TreeInv
  BY DEF DictInv, TreeInv
<1>1. /\ pc[t] = "out" /\ op[t] = NoOp /\ tree' = tree
      /\ op' = [op EXCEPT ![t] = o] /\ ret' = [ret EXCEPT ![t] = 0] /\ pc' = [pc EXCEPT ![t] = "read"]
  <2>1. CursorAt(tree, root, pc[t], op[t], box[t], tgt[t]) /\ pc[t] = "out"
    BY <1>0, AtCursor DEF Call
  <2> QED BY <2>1 DEF Call, Goto, shared, CursorAt
<1>2. Map' = Map
  BY <1>1 DEF DictInv, MapIsDict
<1>3. Pending[t] = NoOp /\ Pending' = [Pending EXCEPT ![t] = o]
  BY <1>0, <1>1 DEF Pending, ThreadTypes
<1>4. Abstract!NoOp = NoOp /\ o \in Abstract!Op
  BY DEF Abstract!NoOp, NoOp, Abstract!Op, Operation
<1>5. Abstract!Call(t, o)
  BY <1>1, <1>2, <1>3, <1>4 DEF Abstract!Call
<1> QED BY <1>4, <1>5 DEF Abstract!Next

(* TreeboxFree clears it.                                                  *)
LEMMA FreeRefines ==
  ASSUME ConstantsFit, DictInv, DictInv', TreeboxFree
  PROVE  Abstract!Next
<1>1. tree' = [n \in Node |-> NULL] /\ pc' = pc /\ op' = op /\ ret' = ret /\ \A t \in Thread : pc[t] = "out"
  BY DEF TreeboxFree, Quiet, locals
<1>2. \A t \in Thread : op[t] = NoOp
  BY <1>1 DEF DictInv, TreeInv, CursorInv, CursorAt
<1>3. Map' = [k \in Key |-> 0]
  <2>1. Full(tree') = {}
    BY <1>1 DEF Full
  <2>2. Map' = Dict(tree')
    BY DEF DictInv, MapIsDict
  <2> QED BY <2>1, <2>2 DEF Dict, ValueOf, At
<1>4. Pending' = Pending
  BY <1>1 DEF Pending
<1>5. \A t \in Thread : Pending[t] = Abstract!NoOp
  BY <1>2 DEF Pending, NoOp, Abstract!NoOp
<1> QED BY <1>1, <1>3, <1>4, <1>5 DEF Abstract!Next, Abstract!Clear

(* Every step is one of the dictionary or changes nothing there.           *)
LEMMA RefinesNext ==
  ASSUME ConstantsFit, DictInv, DictInv', [BstNext]_bstVars
  PROVE  [Abstract!Next]_(Abstract!vars)
<1>1. CASE TreeboxFree
  BY <1>1, FreeRefines
<1>2. ASSUME NEW t \in Thread, (\E o \in Operation : Call(t, o)) \/ Step(t) PROVE [Abstract!Next]_(Abstract!vars)
  <2>1. CASE \E o \in Operation : Call(t, o)
    BY <2>1, CallRefines
  <2>2. CASE NewLeaf(t) \/ Replace(t) \/ LookupReturn(t) \/ DeleteNothing(t) \/ Unlink(t)
    BY <2>2, InsertRefines, SearchRefines, DeleteRefines
  <2>3. CASE \/ Read(t) \/ Acquire(t) \/ Descend(t) \/ LookupDescend(t) \/ LookupAcquire(t)
             \/ DeleteFound(t) \/ AcquireTop(t) \/ AcquireRight(t) \/ StoreBox(t) \/ TurnLeft(t)
    BY <2>3, StutterRefines
  <2> QED BY <1>2, <2>1, <2>2, <2>3 DEF Step
<1>3. CASE UNCHANGED bstVars
  <2>1. tree' = tree /\ pc' = pc /\ op' = op /\ ret' = ret
    BY <1>3 DEF bstVars, shared, locals
  <2>2. Map' = Map
    BY <2>1 DEF DictInv, MapIsDict
  <2>3. Pending' = Pending
    BY <2>1 DEF Pending
  <2> QED BY <2>1, <2>2, <2>3 DEF Abstract!vars
<1> QED BY <1>1, <1>2, <1>3 DEF BstNext

(* insert, lookup and delete of bst_conc.c take effect at once, as calls of*)
(* a dictionary: an insert when it makes the leaf or replaces the value, a *)
(* lookup when it finds the key or the end of the path, a delete when the  *)
(* node, turned down to where it has nothing to its right, is unlinked.    *)
THEOREM TreeIsDict == ConstantsFit => (BstSpec => ImplementsDict)
<1> SUFFICES ASSUME ConstantsFit PROVE BstSpec => ImplementsDict
  OBVIOUS
<1>1. BstSpec => []TreeInv
  BY TreeInvariant
<1>2. TreeInv => DictInv
  BY MapHolds DEF DictInv
<1>3. BstInit => Abstract!Init
  BY RefinesInit
<1>4. DictInv /\ DictInv' /\ [BstNext]_bstVars => [Abstract!Next]_(Abstract!vars)
  BY RefinesNext
<1> QED BY <1>1, <1>2, <1>3, <1>4, PTL DEF BstSpec, ImplementsDict, Abstract!Spec
=============================================================================
