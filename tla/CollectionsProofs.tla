------------------------- MODULE CollectionsProofs -------------------------
(***************************************************************************)
(* Proofs about the collections.                                           *)
(***************************************************************************)
EXTENDS Collections, HashTableProofs, WellFoundedInduction

-----------------------------------------------------------------------------
(* The sentinels' values are below and above the elements.                 *)

(* A finite set of numbers has a least one, and a greatest.  The argument  *)
(* is by the well-foundedness of its subsets.                              *)
LEMMA FiniteHasLeast ==
  ASSUME NEW S, IsFiniteSet(S), S \subseteq Int, S # {}
  PROVE  \E e \in S : \A f \in S : e <= f
<1> DEFINE HasLeast(T) == \E e \in T : \A f \in T : e <= f
           Bad == {T \in SUBSET S : T # {} /\ ~HasLeast(T)}
<1> SUFFICES ASSUME Bad # {} PROVE FALSE
  OBVIOUS
<1>1. IsWellFoundedOn(StrictSubsetOrdering(S), SUBSET S)
  BY FS_StrictSubsetOrderingWellFounded, FS_FiniteSubsetsOfFinite
<1>2. PICK T \in Bad : \A U \in Bad : ~(<<U, T>> \in StrictSubsetOrdering(S))
  <2> HIDE DEF Bad
  <2>1. Bad \subseteq SUBSET S
    BY DEF Bad
  <2> QED BY <1>1, <2>1, WFMin
<1>3. PICK x \in T : TRUE
  OBVIOUS
<1>4. T \ {x} \notin Bad
  BY <1>2, <1>3 DEF StrictSubsetOrdering
<1>5. CASE T \ {x} = {}
  BY <1>3, <1>5
<1>6. CASE HasLeast(T \ {x})
  <2>1. PICK e \in T \ {x} : \A f \in T \ {x} : e <= f
    BY <1>6
  <2>2. HasLeast(T)
    BY <1>3, <2>1
  <2> QED BY <2>2
<1> QED BY <1>4, <1>5, <1>6

LEMMA FiniteHasGreatest ==
  ASSUME NEW S, IsFiniteSet(S), S \subseteq Int, S # {}
  PROVE  \E e \in S : \A f \in S : f <= e
<1> DEFINE negated == {-e : e \in S}
           neg == [e \in S |-> -e]
<1>1. neg \in Surjection(S, negated)
  BY DEF Surjection
<1>2. IsFiniteSet(negated)
  BY <1>1, FS_Surjection
<1>3. negated \subseteq Int /\ negated # {}
  <2>1. \A e \in S : -e \in Int /\ -e \in negated
    OBVIOUS
  <2>2. \A d \in negated : \E e \in S : d = -e
    OBVIOUS
  <2> HIDE DEF negated
  <2> QED BY <2>1, <2>2
<1>4. \E d \in negated : \A f \in negated : d <= f
  <2> HIDE DEF negated
  <2> QED BY <1>2, <1>3, FiniteHasLeast
<1>5. PICK e \in S : \A f \in negated : -e <= f
  BY <1>4
<1>6. \A f \in S : -f \in negated /\ f \in Int
  OBVIOUS
<1> HIDE DEF negated
<1>7. \A f \in S : -e <= -f
  BY <1>5, <1>6
<1>8. \A f \in S : f <= e
  BY <1>6, <1>7
<1> QED BY <1>8

LEMMA Extremes ==
  ASSUME NEW S, IsFiniteSet(S), S \subseteq Int, S # {},
         NEW least, least = (CHOOSE e \in S : \A f \in S : e <= f) - 1,
         NEW greatest, greatest = (CHOOSE e \in S : \A f \in S : f <= e) + 1
  PROVE  /\ least \in Int /\ greatest \in Int /\ least < greatest
         /\ \A e \in S : least < e /\ e < greatest
<1>1. /\ \E e \in S : \A f \in S : e <= f
      /\ \E e \in S : \A f \in S : f <= e
  BY FiniteHasLeast, FiniteHasGreatest
<1> DEFINE lo == CHOOSE e \in S : \A f \in S : e <= f
           hi == CHOOSE e \in S : \A f \in S : f <= e
<1>2. lo \in S /\ \A f \in S : lo <= f
  BY <1>1
<1>3. hi \in S /\ \A f \in S : f <= hi
  BY <1>1
<1>4. least = lo - 1 /\ greatest = hi + 1
  OBVIOUS
<1>5. lo \in Int /\ hi \in Int /\ lo <= hi /\ \A e \in S : e \in Int /\ lo <= e /\ e <= hi
  BY <1>2, <1>3
<1> HIDE DEF lo, hi
<1>6. least \in Int /\ greatest \in Int /\ least < greatest
  BY <1>4, <1>5
<1>7. ASSUME NEW e \in S PROVE least < e /\ e < greatest
  BY <1>4, <1>5
<1> QED BY <1>6, <1>7

LEMMA CoupledValues ==
  /\ Coupled!Elem \subseteq Int
  /\ Coupled!Least \in Int /\ Coupled!Greatest \in Int
  /\ Coupled!Least < Coupled!Greatest
  /\ \A e \in Coupled!Elem : Coupled!Least < e /\ e < Coupled!Greatest
<1>1. Coupled!Elem # {} /\ Coupled!Elem \subseteq Int /\ IsFiniteSet(Coupled!Elem)
  BY ElemAssumption DEF Coupled!Elem
<1> QED BY <1>1, Extremes DEF Coupled!Least, Coupled!Greatest

LEMMA OptimisticValues ==
  /\ Optimistic!Elem \subseteq Int
  /\ Optimistic!Least \in Int /\ Optimistic!Greatest \in Int
  /\ Optimistic!Least < Optimistic!Greatest
  /\ \A e \in Optimistic!Elem : Optimistic!Least < e /\ e < Optimistic!Greatest
<1>1. Optimistic!Elem # {} /\ Optimistic!Elem \subseteq Int /\ IsFiniteSet(Optimistic!Elem)
  BY ElemAssumption DEF Optimistic!Elem
<1> QED BY <1>1, Extremes DEF Optimistic!Least, Optimistic!Greatest

-----------------------------------------------------------------------------
(* A sorted list of the nodes in S, with values v and links x: each node's *)
(* successor has the next greater value.                                   *)
Ordered(S, v, x) ==
  /\ \A n \in S \ {Last} : x[n] \in S /\ v[n] < v[x[n]]
  /\ \A m \in S \ {Last}, n \in S : v[n] <= v[m] \/ v[x[m]] <= v[n]
  /\ \A m, n \in S : v[m] = v[n] => m = n

(* To link a node in, behind p, where its value belongs.                   *)
LEMMA OrderedInsert ==
  ASSUME NEW S, NEW v, NEW x, Ordered(S, v, x), \A m \in S : v[m] \in Int,
         NEW p \in S \ {Last}, NEW n, n \notin S, n # Last, NEW e \in Int, v[p] < e, e < v[x[p]],
         NEW w, NEW y, \A m \in S : w[m] = v[m], w[n] = e,
         \A m \in S : m # p => y[m] = x[m], y[p] = n, y[n] = x[p]
  PROVE  Ordered(S \cup {n}, w, y)
<1>1. x[p] \in S /\ v[x[p]] \in Int /\ v[p] \in Int
  BY DEF Ordered
<1>2. \A m \in S : v[m] <= v[p] \/ v[x[p]] <= v[m]
  BY DEF Ordered
<1>3. ASSUME NEW m \in (S \cup {n}) \ {Last} PROVE y[m] \in S \cup {n} /\ w[m] < w[y[m]]
  BY <1>1 DEF Ordered
<1>4. ASSUME NEW m \in S \cup {n}, NEW k \in S \cup {n}, w[m] = w[k] PROVE m = k
  BY <1>1, <1>2, <1>4 DEF Ordered
<1>5. ASSUME NEW m \in (S \cup {n}) \ {Last}, NEW k \in S \cup {n}
      PROVE  w[k] <= w[m] \/ w[y[m]] <= w[k]
  <2>1. CASE m \in {n, p}
    BY <1>1, <1>2, <2>1
  <2>2. CASE m \notin {n, p} /\ k # n
    BY <2>2 DEF Ordered
  <2>3. CASE m \notin {n, p} /\ k = n
    <3>1. m \in S \ {Last} /\ x[m] \in S /\ v[m] \in Int /\ v[x[m]] \in Int
      BY <2>3 DEF Ordered
    <3>2. v[p] <= v[m] \/ v[x[m]] <= v[p]
      BY <3>1 DEF Ordered
    <3>3. v[m] # v[p]
      BY <2>3, <3>1 DEF Ordered
    <3>4. v[m] <= v[p] \/ v[x[p]] <= v[m]
      BY <1>2, <3>1
    <3>5. w[k] = e /\ w[m] = v[m] /\ w[y[m]] = v[x[m]]
      BY <2>3, <3>1
    <3> QED BY <1>1, <3>1, <3>2, <3>3, <3>4, <3>5
  <2> QED BY <2>1, <2>2, <2>3
<1> QED BY <1>3, <1>4, <1>5 DEF Ordered

(* To link the node behind p out.                                          *)
LEMMA OrderedRemove ==
  ASSUME NEW S, NEW v, NEW x, Ordered(S, v, x), \A m \in S : v[m] \in Int,
         NEW p \in S \ {Last}, x[p] # Last,
         NEW y, \A m \in S : m # p => y[m] = x[m], y[p] = x[x[p]]
  PROVE  /\ Ordered(S \ {x[p]}, v, y)
         /\ \A m \in S \ {Last, p} : x[m] # x[p]
<1> DEFINE c == x[p]
<1>1. /\ c \in S \ {Last} /\ c # p /\ v[p] < v[c] /\ x[c] \in S /\ v[c] < v[x[c]]
      /\ v[p] \in Int /\ v[c] \in Int /\ v[x[c]] \in Int
  BY DEF Ordered
<1> HIDE DEF c
<1>2. ASSUME NEW m \in S \ {Last}, m # p PROVE x[m] # c
  <2>1. /\ v[m] \in Int /\ v[m] < v[x[m]] /\ v[m] # v[p]
        /\ v[m] <= v[p] \/ v[c] <= v[m]
        /\ v[p] <= v[m] \/ v[x[m]] <= v[p]
    BY <1>2 DEF Ordered, c
  <2> QED BY <1>1, <2>1
<1>3. ASSUME NEW m \in S \ {c, Last} PROVE y[m] \in S \ {c} /\ v[m] < v[y[m]]
  BY <1>1, <1>2 DEF Ordered, c
<1>4. ASSUME NEW m \in S \ {c, Last}, NEW k \in S \ {c}
      PROVE  v[k] <= v[m] \/ v[y[m]] <= v[k]
  <2>1. CASE m = p
    <3>1. /\ v[k] <= v[p] \/ v[c] <= v[k]
          /\ v[k] <= v[c] \/ v[x[c]] <= v[k]
          /\ v[k] # v[c] /\ v[k] \in Int
      BY <1>1 DEF Ordered, c
    <3> QED BY <1>1, <2>1, <3>1 DEF c
  <2>2. CASE m # p
    BY <2>2 DEF Ordered
  <2> QED BY <2>1, <2>2
<1>5. \A m, k \in S \ {c} : v[m] = v[k] => m = k
  BY DEF Ordered
<1> QED BY <1>2, <1>3, <1>4, <1>5 DEF Ordered, c

-----------------------------------------------------------------------------
(* The lock-coupling list.                                                 *)

(* The locks a thread holds, by its control point.                         *)
Holds(t, n) ==
  \/ lpc[t] \in {"second", "compare", "delete", "release"} /\ n = pred[t]
  \/ lpc[t] \in {"compare", "delete", "release", "releaseCurr"} /\ n = curr[t]

LocksInv ==
  /\ \A n \in Node : lock[n] = {t \in Thread : Holds(t, n)}
  /\ \A n \in Node, s, t \in Thread : Holds(s, n) /\ Holds(t, n) => s = t
  /\ \A t \in Thread : lpc[t] \in {"compare", "delete", "release"} => pred[t] # curr[t]

(* The sentinels stay, with their values; no other node has these.         *)
SentinelsInv ==
  /\ {Head, Last} \subseteq alive
  /\ val[Head] = Coupled!Least /\ val[Last] = Coupled!Greatest
  /\ \A n \in alive \ {Head, Last} : val[n] \in Coupled!Elem

OrderInv == Ordered(Coupled!Listed, val, next)

(* Where the two pointers of a search are: what is behind pred cannot      *)
(* change while its lock is held.                                          *)
CursorInv ==
  \A t \in Thread :
    /\ lpc[t] # "out" => lop[t] \in Coupled!Operation
    /\ lpc[t] = "first" => pred[t] = Head
    /\ lpc[t] \in {"second", "compare"} =>
         /\ pred[t] \in Coupled!Listed \ {Last}
         /\ curr[t] = next[pred[t]]
         /\ val[pred[t]] < lop[t].key
    /\ lpc[t] = "delete" => curr[t] \in alive \ {Head, Last}

CoupledInv == Coupled!TypeOK /\ LocksInv /\ SentinelsInv /\ OrderInv /\ CursorInv

LEMMA CoupledInit == Coupled!Init => CoupledInv
<1> SUFFICES ASSUME Coupled!Init PROVE CoupledInv
  OBVIOUS
<1>1. Coupled!Listed = {Head, Last}
  BY DEF Coupled!Init, Coupled!Listed, Coupled!Removed
<1>2. Coupled!TypeOK
  BY SentinelAssumption DEF Coupled!Init, Coupled!TypeOK
<1>3. LocksInv
  BY DEF Coupled!Init, LocksInv, Holds
<1>4. SentinelsInv
  BY SentinelAssumption DEF Coupled!Init, SentinelsInv
<1>5. OrderInv
  BY <1>1, SentinelAssumption, CoupledValues DEF Coupled!Init, OrderInv, Ordered
<1>6. CursorInv
  BY DEF Coupled!Init, CursorInv
<1> QED BY <1>2, <1>3, <1>4, <1>5, <1>6 DEF CoupledInv

(* A node that a step allocates was neither listed nor removed.            *)
LEMMA CoupledNext == CoupledInv /\ [Coupled!Next]_(Coupled!vars) => CoupledInv'
<1> SUFFICES ASSUME CoupledInv, [Coupled!Next]_(Coupled!vars) PROVE CoupledInv'
  OBVIOUS
<1> USE SentinelAssumption DEF Coupled!Goto, Coupled!heap
<1>a. Coupled!TypeOK /\ LocksInv /\ SentinelsInv /\ OrderInv /\ CursorInv
  BY DEF CoupledInv
<1>b. /\ Coupled!Elem \subseteq Int
      /\ \A o \in Coupled!Operation : o.key \in Coupled!Elem /\ o.kind \in {"add", "remove"}
  BY CoupledValues DEF Coupled!Operation, Coupled!Elem
<1>c. /\ Coupled!Listed \subseteq alive /\ alive \subseteq Node
      /\ \A n \in Node : val[n] \in Int
      /\ {Head, Last} \subseteq Coupled!Listed
  BY <1>a, CoupledValues DEF Coupled!Listed, Coupled!Removed, Coupled!TypeOK, SentinelsInv, CursorInv
<1>e. ASSUME NEW t \in Thread, lpc[t] \in {"second", "compare"}
      PROVE  /\ lop[t] \in Coupled!Operation /\ lop[t].key \in Coupled!Elem /\ lop[t].key \in Int
             /\ pred[t] \in Coupled!Listed \ {Last} /\ curr[t] = next[pred[t]] /\ curr[t] \in Coupled!Listed
             /\ val[pred[t]] < lop[t].key /\ val[pred[t]] \in Int /\ val[curr[t]] \in Int
  <2>1. lop[t] \in Coupled!Operation /\ pred[t] \in Coupled!Listed \ {Last} /\ curr[t] = next[pred[t]]
        /\ val[pred[t]] < lop[t].key
    BY <1>a, <1>e DEF CursorInv
  <2>2. curr[t] \in Coupled!Listed
    BY <1>a, <2>1 DEF OrderInv, Ordered
  <2> QED BY <1>b, <1>c, <2>1, <2>2
<1>d. ASSUME val' = val, next' = next, Coupled!Listed' = Coupled!Listed PROVE OrderInv'
  BY <1>a, <1>d DEF OrderInv
<1>1. ASSUME NEW t \in Thread, NEW o \in Coupled!Operation, Coupled!Call(t, o) PROVE CoupledInv'
  <2> USE <1>1 DEF Coupled!Call
  <2>1. Coupled!TypeOK'
    BY <1>a DEF Coupled!TypeOK
  <2>2. Coupled!Listed' = Coupled!Listed
    BY <1>a DEF Coupled!Listed, Coupled!Removed, Coupled!TypeOK
  <2>3. LocksInv'
    BY <1>a DEF LocksInv, Holds, Coupled!TypeOK
  <2>4. CursorInv'
    BY <1>a, <2>2 DEF CursorInv, Coupled!TypeOK
  <2> QED BY <1>a, <1>d, <2>1, <2>2, <2>3, <2>4 DEF CoupledInv, SentinelsInv
<1>2. ASSUME NEW t \in Thread, Coupled!AcquireFirst(t) PROVE CoupledInv'
  <2> USE <1>2 DEF Coupled!AcquireFirst
  <2>1. Coupled!TypeOK'
    BY <1>a DEF Coupled!TypeOK
  <2>2. Coupled!Listed' = Coupled!Listed
    BY <1>a DEF Coupled!Listed, Coupled!Removed, Coupled!TypeOK
  <2>3. LocksInv'
    BY <1>a DEF LocksInv, Holds, Coupled!TypeOK, CursorInv
  <2>4. CursorInv'
    BY <1>a, <1>b, <1>c, <2>2, CoupledValues DEF CursorInv, Coupled!TypeOK, SentinelsInv
  <2> QED BY <1>a, <1>d, <2>1, <2>2, <2>3, <2>4 DEF CoupledInv, SentinelsInv
<1>3. ASSUME NEW t \in Thread, Coupled!AcquireCurr(t) PROVE CoupledInv'
  <2> USE <1>3 DEF Coupled!AcquireCurr
  <2>0. lpc[t] = "second" /\ alive' = alive
    BY <1>a DEF LocksInv, Holds, Coupled!TypeOK
  <2>1. Coupled!TypeOK'
    BY <1>a, <2>0 DEF Coupled!TypeOK
  <2>2. Coupled!Listed' = Coupled!Listed
    BY <1>a, <2>0 DEF Coupled!Listed, Coupled!Removed, Coupled!TypeOK
  <2>3. LocksInv'
    BY <1>a, <2>0 DEF LocksInv, Holds, Coupled!TypeOK
  <2>4. CursorInv'
    BY <1>a, <2>0, <2>2 DEF CursorInv, Coupled!TypeOK
  <2> QED BY <1>a, <1>d, <2>0, <2>1, <2>2, <2>3, <2>4 DEF CoupledInv, SentinelsInv
<1>4. ASSUME NEW t \in Thread, Coupled!Advance(t) PROVE CoupledInv'
  <2> USE <1>4 DEF Coupled!Advance, Coupled!Further, Coupled!Behind
  <2>1. Coupled!TypeOK'
    BY <1>a DEF Coupled!TypeOK
  <2>2. Coupled!Listed' = Coupled!Listed
    BY <1>a DEF Coupled!Listed, Coupled!Removed, Coupled!TypeOK
  <2>3. LocksInv'
    BY <1>a DEF LocksInv, Holds, Coupled!TypeOK
  <2>4. curr[t] \in Coupled!Listed \ {Last}
    <3>1. lop[t].key < val[Last]
      BY <1>a, <1>e, CoupledValues DEF SentinelsInv
    <3> QED BY <1>a, <1>e, <3>1, CoupledValues DEF SentinelsInv
  <2>5. CursorInv'
    BY <1>a, <1>b, <2>2, <2>4 DEF CursorInv, Coupled!TypeOK
  <2> QED BY <1>a, <1>d, <2>1, <2>2, <2>3, <2>5 DEF CoupledInv, SentinelsInv
<1>5. ASSUME NEW t \in Thread, Coupled!Insert(t) PROVE CoupledInv'
  <2> USE <1>5 DEF Coupled!Insert, Coupled!Located, Coupled!Further, Coupled!Present, Coupled!Linked
  <2>1. PICK n \in Node \ alive :
          /\ alive' = alive \cup {n}
          /\ val' = [val EXCEPT ![n] = lop[t].key]
          /\ next' = [next EXCEPT ![n] = curr[t], ![pred[t]] = n]
    OBVIOUS
  <2>2. /\ pred[t] \in Coupled!Listed \ {Last} /\ curr[t] = next[pred[t]] /\ curr[t] \in Coupled!Listed
        /\ lop[t] \in Coupled!Operation /\ lop[t].key \in Coupled!Elem
        /\ val[pred[t]] < lop[t].key /\ lop[t].key < val[curr[t]]
        /\ n \notin Coupled!Listed /\ n \in Node /\ n \notin {Head, Last}
        /\ lop[t].key \in Int /\ val[pred[t]] \in Int /\ val[curr[t]] \in Int
    BY <1>c, <1>e, <2>1
  <2>3. Coupled!TypeOK'
    BY <1>a, <2>1, <2>2 DEF Coupled!TypeOK
  <2>4. Coupled!Removed' = Coupled!Removed /\ n \notin Coupled!Removed
    BY <1>a, <2>1 DEF Coupled!Removed, Coupled!TypeOK, CursorInv
  <2>5. Coupled!Listed' = Coupled!Listed \cup {n}
    BY <2>1, <2>4 DEF Coupled!Listed
  <2>6. LocksInv'
    BY <1>a DEF LocksInv, Holds, Coupled!TypeOK
  <2>7. SentinelsInv'
    BY <1>a, <1>c, <2>1, <2>2 DEF SentinelsInv, Coupled!TypeOK
  <2>8. /\ \A m \in Coupled!Listed : val'[m] = val[m]
        /\ \A m \in Coupled!Listed : m # pred[t] => next'[m] = next[m]
        /\ val'[n] = lop[t].key /\ next'[n] = curr[t] /\ next'[pred[t]] = n
    BY <1>a, <1>c, <2>1, <2>2 DEF Coupled!TypeOK
  <2>10. OrderInv'
    <3>1. Ordered(Coupled!Listed \cup {n}, val', next')
      <4> HIDE <1>5 DEF Coupled!Insert
      <4>1. Ordered(Coupled!Listed, val, next) /\ \A m \in Coupled!Listed : val[m] \in Int
        BY <1>a, <1>c DEF OrderInv
      <4>2. n # Last
        BY <2>2
      <4>3. lop[t].key < val[next[pred[t]]] /\ next'[n] = next[pred[t]]
        BY <2>2, <2>8
      <4> QED BY <2>2, <2>8, <4>1, <4>2, <4>3, OrderedInsert
    <3> QED BY <2>5, <3>1 DEF OrderInv
  <2>11. CursorInv'
    <3> SUFFICES ASSUME NEW s \in Thread, lpc'[s] # "out"
                 PROVE  /\ lop[s] \in Coupled!Operation
                        /\ lpc'[s] = "first" => pred[s] = Head
                        /\ lpc'[s] \in {"second", "compare"} =>
                             /\ pred[s] \in Coupled!Listed' \ {Last}
                             /\ curr[s] = next'[pred[s]]
                             /\ val'[pred[s]] < lop[s].key
                        /\ lpc'[s] = "delete" => curr[s] \in alive' \ {Head, Last}
      BY DEF CursorInv
    <3>1. CASE s = t
      BY <1>a, <2>2, <3>1 DEF Coupled!TypeOK
    <3>2. CASE s # t
      <4>1. lpc'[s] = lpc[s]
        BY <1>a, <3>2 DEF Coupled!TypeOK
      <4>2. lpc[s] \in {"second", "compare"} => pred[s] # pred[t]
        BY <1>a, <1>c, <2>2, <3>2 DEF LocksInv, Holds
      <4> QED BY <1>a, <2>1, <2>5, <2>8, <4>1, <4>2 DEF CursorInv
    <3> QED BY <3>1, <3>2
  <2> QED BY <2>3, <2>6, <2>7, <2>10, <2>11 DEF CoupledInv
<1>6. ASSUME NEW t \in Thread, Coupled!Unlink(t) PROVE CoupledInv'
  <2> USE <1>6 DEF Coupled!Unlink, Coupled!Located, Coupled!Further, Coupled!Present
  <2>2. /\ pred[t] \in Coupled!Listed \ {Last} /\ curr[t] = next[pred[t]]
        /\ lop[t] \in Coupled!Operation /\ lop[t].key \in Coupled!Elem
        /\ val[pred[t]] < val[curr[t]] /\ val[curr[t]] = lop[t].key
        /\ curr[t] \in Coupled!Listed \ {Head, Last}
    <3>1. curr[t] \in Coupled!Listed /\ lop[t].key \in Coupled!Elem /\ val[curr[t]] = lop[t].key
      BY <1>e
    <3>2. curr[t] \notin {Head, Last}
      BY <1>a, <3>1, CoupledValues DEF SentinelsInv
    <3> QED BY <1>a, <3>1, <3>2 DEF CursorInv
  <2>3. Coupled!TypeOK'
    BY <1>a, <1>c, <2>2 DEF Coupled!TypeOK
  <2>4. Coupled!Removed' = Coupled!Removed \cup {curr[t]}
    BY <1>a DEF Coupled!Removed, Coupled!TypeOK
  <2>5. Coupled!Listed' = Coupled!Listed \ {curr[t]}
    BY <2>4 DEF Coupled!Listed
  <2>6. LocksInv'
    BY <1>a DEF LocksInv, Holds, Coupled!TypeOK
  <2>8. /\ \A m \in Coupled!Listed : m # pred[t] => next'[m] = next[m]
        /\ next'[pred[t]] = next[curr[t]]
    BY <1>a, <1>c, <2>2 DEF Coupled!TypeOK
  <2>10. OrderInv'
    <3>1. Ordered(Coupled!Listed \ {curr[t]}, val, next')
      <4> HIDE <1>6 DEF Coupled!Unlink
      <4>1. Ordered(Coupled!Listed, val, next) /\ \A m \in Coupled!Listed : val[m] \in Int
        BY <1>a, <1>c DEF OrderInv
      <4>2. next[pred[t]] # Last /\ next'[pred[t]] = next[next[pred[t]]]
        BY <2>2, <2>8
      <4>3. Ordered(Coupled!Listed \ {next[pred[t]]}, val, next')
        BY <2>2, <2>8, <4>1, <4>2, OrderedRemove
      <4> QED BY <2>2, <4>3
    <3> QED BY <2>5, <3>1 DEF OrderInv
  <2>11. CursorInv'
    <3> SUFFICES ASSUME NEW s \in Thread, lpc'[s] # "out"
                 PROVE  /\ lop[s] \in Coupled!Operation
                        /\ lpc'[s] = "first" => pred[s] = Head
                        /\ lpc'[s] \in {"second", "compare"} =>
                             /\ pred[s] \in Coupled!Listed' \ {Last}
                             /\ curr[s] = next'[pred[s]]
                             /\ val[pred[s]] < lop[s].key
                        /\ lpc'[s] = "delete" => curr[s] \in alive \ {Head, Last}
      BY DEF CursorInv
    <3>1. CASE s = t
      BY <1>a, <1>c, <2>2, <3>1 DEF Coupled!TypeOK
    <3>2. CASE s # t
      <4>1. lpc'[s] = lpc[s]
        BY <1>a, <3>2 DEF Coupled!TypeOK
      <4>2. lpc[s] \in {"second", "compare"} => pred[s] \notin {pred[t], curr[t]}
        BY <1>a, <1>c, <2>2, <3>2 DEF LocksInv, Holds
      <4> QED BY <1>a, <2>5, <2>8, <4>1, <4>2 DEF CursorInv
    <3> QED BY <3>1, <3>2
  <2> QED BY <1>a, <2>3, <2>6, <2>10, <2>11 DEF CoupledInv, SentinelsInv
<1>7. ASSUME NEW t \in Thread, Coupled!Nothing(t) PROVE CoupledInv'
  <2> USE <1>7 DEF Coupled!Nothing, Coupled!Located
  <2>1. Coupled!TypeOK'
    BY <1>a DEF Coupled!TypeOK
  <2>2. Coupled!Listed' = Coupled!Listed
    BY <1>a DEF Coupled!Listed, Coupled!Removed, Coupled!TypeOK
  <2>3. LocksInv'
    BY <1>a DEF LocksInv, Holds, Coupled!TypeOK
  <2>4. CursorInv'
    BY <1>a, <2>2 DEF CursorInv, Coupled!TypeOK
  <2> QED BY <1>a, <1>d, <2>1, <2>2, <2>3, <2>4 DEF CoupledInv, SentinelsInv
<1>8. ASSUME NEW t \in Thread, Coupled!ReleasePred(t) PROVE CoupledInv'
  <2> USE <1>8 DEF Coupled!ReleasePred
  <2>1. Coupled!TypeOK'
    BY <1>a DEF Coupled!TypeOK
  <2>2. Coupled!Listed' = Coupled!Listed
    BY <1>a DEF Coupled!Listed, Coupled!Removed, Coupled!TypeOK
  <2>3. LocksInv'
    BY <1>a DEF LocksInv, Holds, Coupled!TypeOK
  <2>4. CursorInv'
    BY <1>a, <2>2 DEF CursorInv, Coupled!TypeOK
  <2> QED BY <1>a, <1>d, <2>1, <2>2, <2>3, <2>4 DEF CoupledInv, SentinelsInv
<1>9. ASSUME NEW t \in Thread, Coupled!ReleaseCurr(t) PROVE CoupledInv'
  <2> USE <1>9 DEF Coupled!ReleaseCurr
  <2>1. Coupled!TypeOK'
    BY <1>a DEF Coupled!TypeOK
  <2>2. Coupled!Listed' = Coupled!Listed
    BY <1>a DEF Coupled!Listed, Coupled!Removed, Coupled!TypeOK
  <2>3. LocksInv'
    BY <1>a DEF LocksInv, Holds, Coupled!TypeOK
  <2>4. CursorInv'
    BY <1>a, <2>2 DEF CursorInv, Coupled!TypeOK
  <2> QED BY <1>a, <1>d, <2>1, <2>2, <2>3, <2>4 DEF CoupledInv, SentinelsInv
<1>10. CASE UNCHANGED Coupled!vars
  <2> USE <1>10 DEF Coupled!vars, Coupled!locals
  <2>1. Coupled!TypeOK' /\ LocksInv'
    BY <1>a DEF Coupled!TypeOK, LocksInv, Holds
  <2>2. Coupled!Listed' = Coupled!Listed
    BY DEF Coupled!Listed, Coupled!Removed
  <2>3. CursorInv'
    BY <1>a, <2>2 DEF CursorInv
  <2> QED BY <1>a, <1>d, <2>1, <2>2, <2>3 DEF CoupledInv, SentinelsInv
<1> QED
  BY <1>1, <1>2, <1>3, <1>4, <1>5, <1>6, <1>7, <1>8, <1>9, <1>10 DEF Coupled!Next, Coupled!Step

(* Where a search ends: between neighbours, both locked.                   *)
LEMMA CoupledLocated ==
  ASSUME CoupledInv, NEW t \in Thread, lpc[t] = "compare"
  PROVE  /\ lop[t] \in Coupled!Operation /\ lop[t].key \in Coupled!Elem /\ lop[t].key \in Int
         /\ lop[t].kind \in {"add", "remove"}
         /\ pred[t] \in Coupled!Listed \ {Last} /\ curr[t] = next[pred[t]] /\ curr[t] \in Coupled!Listed
         /\ val[pred[t]] < lop[t].key /\ val[pred[t]] \in Int /\ val[curr[t]] \in Int
         /\ lock[pred[t]] = {t} /\ lock[curr[t]] = {t}
         /\ \A n \in Coupled!Listed : val[n] \in Int /\ (val[n] <= val[pred[t]] \/ val[curr[t]] <= val[n])
<1>1. /\ lop[t] \in Coupled!Operation /\ pred[t] \in Coupled!Listed \ {Last} /\ curr[t] = next[pred[t]]
      /\ val[pred[t]] < lop[t].key
  BY DEF CoupledInv, CursorInv
<1>2. curr[t] \in Coupled!Listed
  BY <1>1 DEF CoupledInv, OrderInv, Ordered
<1>3. \A n \in Coupled!Listed : n \in Node /\ val[n] \in Int
  BY CoupledValues DEF CoupledInv, Coupled!TypeOK, Coupled!Listed
<1>4. \A n \in Coupled!Listed : val[n] <= val[pred[t]] \/ val[curr[t]] <= val[n]
  BY <1>1 DEF CoupledInv, OrderInv, Ordered
<1>5. lock[pred[t]] = {t} /\ lock[curr[t]] = {t}
  BY <1>1, <1>2, <1>3 DEF CoupledInv, LocksInv, Holds
<1>6. lop[t].key \in Coupled!Elem /\ lop[t].kind \in {"add", "remove"}
  BY <1>1 DEF Coupled!Operation, Coupled!Elem
<1> QED BY <1>1, <1>2, <1>3, <1>4, <1>5, <1>6, CoupledValues

LEMMA CoupledSafe == CoupledInv => Coupled!ListSorted /\ Coupled!LocateCorrect
<1> SUFFICES ASSUME CoupledInv PROVE Coupled!ListSorted /\ Coupled!LocateCorrect
  OBVIOUS
<1>1. \A n \in Coupled!Listed : val[n] \in Int
  BY CoupledValues DEF CoupledInv, Coupled!TypeOK, Coupled!Listed
<1>2. \A n \in Coupled!Listed \ {Last} : next[n] \in Coupled!Listed /\ val[n] < val[next[n]]
  BY DEF CoupledInv, OrderInv, Ordered
<1>3. ASSUME NEW m \in Coupled!Listed \ {Last}, NEW n \in Coupled!Listed \ {Last}, next[m] = next[n]
      PROVE  m = n
  <2>1. /\ val[n] <= val[m] \/ val[next[m]] <= val[n]
        /\ val[m] <= val[n] \/ val[next[n]] <= val[m]
        /\ val[m] = val[n] => m = n
    BY DEF CoupledInv, OrderInv, Ordered
  <2> QED BY <1>1, <1>2, <1>3, <2>1
<1>4. Coupled!LocateCorrect
  BY CoupledLocated DEF Coupled!LocateCorrect, Coupled!Located, Coupled!Further
<1> QED BY <1>2, <1>3, <1>4 DEF Coupled!ListSorted

-----------------------------------------------------------------------------
(* The lock-coupling list implements the atomic set.                       *)

Members == [e \in Coupled!Elem |-> IF \E n \in Coupled!Listed \ {Head, Last} : val[n] = e THEN 1 ELSE 0]
Waiting == [t \in Thread |-> IF lpc[t] \in {"first", "second", "compare"} THEN lop[t] ELSE Coupled!NoOp]

(* When a search has ended it knows whether the element is there.          *)
LEMMA CoupledPresent ==
  ASSUME CoupledInv, NEW t \in Thread, Coupled!Located(t)
  PROVE  /\ Members[lop[t].key] = IF Coupled!Present(t) THEN 1 ELSE 0
         /\ Coupled!Present(t) => curr[t] \notin {Head, Last}
<1> USE DEF Coupled!Located, Coupled!Further, Coupled!Present
<1>1. \A n \in Coupled!Listed : val[n] = lop[t].key => val[curr[t]] <= val[n]
  BY CoupledLocated
<1>2. ASSUME val[curr[t]] = lop[t].key PROVE curr[t] \in Coupled!Listed \ {Head, Last}
  BY <1>2, CoupledLocated, CoupledValues DEF CoupledInv, SentinelsInv
<1>3. ASSUME val[curr[t]] # lop[t].key, NEW n \in Coupled!Listed PROVE val[n] # lop[t].key
  BY <1>1, <1>3, CoupledLocated
<1> QED BY <1>2, <1>3, CoupledLocated DEF Members

LEMMA CoupledInitRefines == Coupled!Init => Coupled!Abstract!Init
BY DEF Coupled!Init, Coupled!Abstract!Init, Coupled!Listed, Coupled!Removed, Coupled!NoOp, Coupled!Abstract!NoOp

LEMMA CoupledNextRefines ==
  CoupledInv /\ CoupledInv' /\ [Coupled!Next]_(Coupled!vars)
    => [Coupled!Abstract!Next]_(Coupled!Abstract!vars)
<1> SUFFICES ASSUME CoupledInv, CoupledInv', [Coupled!Next]_(Coupled!vars)
             PROVE  [Coupled!Abstract!Next]_(Coupled!Abstract!vars)
  OBVIOUS
<1> USE DEF Coupled!Goto, Coupled!heap
<1>a. Coupled!TypeOK /\ LocksInv /\ SentinelsInv /\ OrderInv /\ CursorInv
  BY DEF CoupledInv
<1>b. /\ Coupled!Abstract!NoOp = Coupled!NoOp /\ Coupled!NoOp \notin Coupled!Operation
      /\ Coupled!Operation \subseteq Coupled!Abstract!Op
  BY DEF Coupled!Abstract!NoOp, Coupled!NoOp, Coupled!Operation, Coupled!Abstract!Op, Coupled!Elem
<1>c. ASSUME NEW t \in Thread, lpc[t] \in {"first", "second", "compare"}, lpc' = [lpc EXCEPT ![t] = "release"]
             \/ lpc' = [lpc EXCEPT ![t] = "delete"], lop' = lop
      PROVE  Waiting[t] = lop[t] /\ lop[t] # Coupled!NoOp /\ Waiting' = [Waiting EXCEPT ![t] = Coupled!NoOp]
  BY <1>a, <1>b, <1>c DEF Waiting, CursorInv, Coupled!TypeOK
<1>d. ASSUME NEW t \in Thread, NEW r, NEW m, Waiting[t] = lop[t], lop[t] # Coupled!NoOp,
             Waiting' = [Waiting EXCEPT ![t] = Coupled!NoOp],
             Members' = [Members EXCEPT ![lop[t].key] = m], lret' = [lret EXCEPT ![t] = r],
             \/ lop[t].kind = "add" /\ m = 1 /\ r = 1 - Members[lop[t].key]
             \/ lop[t].kind = "remove" /\ m = 0 /\ r = Members[lop[t].key]
      PROVE  Coupled!Abstract!Next
  <2>1. Coupled!Abstract!Effect(t, Waiting[t])
    BY <1>d DEF Coupled!Abstract!Effect, Coupled!Abstract!Maps, Coupled!Abstract!Returns, Members
  <2>2. Waiting[t] # Coupled!Abstract!NoOp /\ Waiting' = [Waiting EXCEPT ![t] = Coupled!Abstract!NoOp]
    BY <1>b, <1>d
  <2>3. Coupled!Abstract!TakeEffect(t)
    BY <2>1, <2>2 DEF Coupled!Abstract!TakeEffect, Waiting
  <2> QED BY <2>3 DEF Coupled!Abstract!Next
<1>e. ASSUME val' = val, Coupled!Listed' = Coupled!Listed PROVE Members' = Members
  BY <1>e DEF Members
<1>1. ASSUME NEW t \in Thread, NEW o \in Coupled!Operation, Coupled!Call(t, o) PROVE Coupled!Abstract!Next
  <2> USE <1>1 DEF Coupled!Call
  <2>1. Waiting[t] = Coupled!NoOp /\ Waiting' = [Waiting EXCEPT ![t] = o]
    BY <1>a DEF Waiting, Coupled!TypeOK
  <2>2. Members' = Members
    BY <1>a, <1>e DEF Coupled!Listed, Coupled!Removed, Coupled!TypeOK
  <2>3. Coupled!Abstract!Call(t, o)
    BY <1>b, <2>1, <2>2 DEF Coupled!Abstract!Call, Waiting, Members
  <2> QED BY <1>b, <2>3 DEF Coupled!Abstract!Next
<1>2. ASSUME NEW t \in Thread, Coupled!Insert(t) PROVE Coupled!Abstract!Next
  <2> USE <1>2 DEF Coupled!Insert, Coupled!Located, Coupled!Further
  <2>1. PICK n \in Node \ alive : alive' = alive \cup {n} /\ val' = [val EXCEPT ![n] = lop[t].key]
    OBVIOUS
  <2>2. Coupled!Listed' = Coupled!Listed \cup {n} /\ n \notin Coupled!Listed /\ n \notin {Head, Last}
    BY <1>a, <2>1 DEF Coupled!Listed, Coupled!Removed, Coupled!TypeOK, CursorInv, SentinelsInv
  <2>3. val'[n] = lop[t].key /\ \A m \in Coupled!Listed : val'[m] = val[m]
    BY <1>a, <2>1, <2>2 DEF Coupled!Listed, Coupled!TypeOK
  <2>4. Members' = [Members EXCEPT ![lop[t].key] = 1]
    BY <2>2, <2>3 DEF Members
  <2>5. Members[lop[t].key] = 0
    BY CoupledPresent
  <2>6. Waiting[t] = lop[t] /\ lop[t] # Coupled!NoOp /\ Waiting' = [Waiting EXCEPT ![t] = Coupled!NoOp]
    BY <1>c
  <2>7. lop[t].kind = "add" /\ lret' = [lret EXCEPT ![t] = 1] /\ 1 = 1 - Members[lop[t].key]
    BY <2>5
  <2> HIDE <1>2
  <2> QED BY <1>d, <2>4, <2>6, <2>7
<1>3. ASSUME NEW t \in Thread, Coupled!Unlink(t) PROVE Coupled!Abstract!Next
  <2> USE <1>3 DEF Coupled!Unlink, Coupled!Located, Coupled!Further, Coupled!Present
  <2>1. Coupled!Listed' = Coupled!Listed \ {curr[t]}
    BY <1>a DEF Coupled!Listed, Coupled!Removed, Coupled!TypeOK
  <2>2. curr[t] \in Coupled!Listed \ {Head, Last} /\ val[curr[t]] = lop[t].key
    BY CoupledPresent, CoupledLocated
  <2>3. \A n \in Coupled!Listed : val[n] = lop[t].key => n = curr[t]
    BY <1>a, <2>2 DEF OrderInv, Ordered
  <2>4. Members' = [Members EXCEPT ![lop[t].key] = 0]
    BY <2>1, <2>2, <2>3 DEF Members
  <2>5. Members[lop[t].key] = 1
    BY CoupledPresent
  <2> QED BY <1>c, <1>d, <2>4, <2>5
<1>4. ASSUME NEW t \in Thread, Coupled!Nothing(t) PROVE Coupled!Abstract!Next
  <2> USE <1>4 DEF Coupled!Nothing
  <2>1. Members' = Members
    BY <1>a, <1>e DEF Coupled!Listed, Coupled!Removed, Coupled!TypeOK, Coupled!Located
  <2>2. Members[lop[t].key] = IF lop[t].kind = "add" THEN 1 ELSE 0
    BY CoupledPresent
  <2>3. lop[t].key \in Coupled!Elem /\ lop[t].kind \in {"add", "remove"} /\ lpc[t] = "compare"
    BY CoupledLocated DEF Coupled!Located
  <2>4. Members' = [Members EXCEPT ![lop[t].key] = Members[lop[t].key]]
    BY <2>1, <2>3 DEF Members
  <2>5. Waiting[t] = lop[t] /\ lop[t] # Coupled!NoOp /\ Waiting' = [Waiting EXCEPT ![t] = Coupled!NoOp]
    BY <1>c, <2>3
  <2>6. lret' = [lret EXCEPT ![t] = 0]
    OBVIOUS
  <2> HIDE <1>4
  <2>7. CASE lop[t].kind = "add"
    <3>1. Members' = [Members EXCEPT ![lop[t].key] = 1] /\ 0 = 1 - Members[lop[t].key]
      BY <2>2, <2>4, <2>7
    <3> QED BY <1>d, <2>5, <2>6, <2>7, <3>1
  <2>8. CASE lop[t].kind = "remove"
    <3>1. Members' = [Members EXCEPT ![lop[t].key] = 0] /\ 0 = Members[lop[t].key]
      BY <2>2, <2>4, <2>8
    <3> QED BY <1>d, <2>5, <2>6, <2>8, <3>1
  <2> QED BY <2>3, <2>7, <2>8
<1>5. ASSUME NEW t \in Thread, NEW l, lpc' = [lpc EXCEPT ![t] = l], lret' = lret, val' = val, alive' = alive,
             \/ lpc[t] \in {"first", "second", "compare"} /\ l \in {"second", "compare"} /\ lop' = lop
             \/ /\ lpc[t] \in {"release", "releaseCurr"} /\ l \in {"releaseCurr", "out"}
                /\ lop' = lop \/ lop' = [lop EXCEPT ![t] = Coupled!NoOp],
             \A s \in Thread : lpc[s] = "delete" => curr'[s] = curr[s]
      PROVE  UNCHANGED Coupled!Abstract!vars
  <2>1. Coupled!Removed' = Coupled!Removed
    BY <1>a, <1>5 DEF Coupled!Removed, Coupled!TypeOK
  <2>2. Members' = Members
    BY <1>5, <1>e, <2>1 DEF Coupled!Listed
  <2>3. Waiting' = Waiting
    BY <1>a, <1>5 DEF Waiting, Coupled!TypeOK
  <2> QED BY <1>5, <2>2, <2>3 DEF Coupled!Abstract!vars, Members, Waiting
<1>7. ASSUME NEW t \in Thread, Coupled!AcquireCurr(t) PROVE UNCHANGED Coupled!Abstract!vars
  <2>1. lpc[t] = "second"
    BY <1>a, <1>7 DEF Coupled!AcquireCurr, LocksInv, Holds, Coupled!TypeOK
  <2> QED BY <1>5, <1>7, <2>1 DEF Coupled!AcquireCurr
<1>8. ASSUME NEW t \in Thread, Coupled!AcquireFirst(t) \/ Coupled!Advance(t) PROVE UNCHANGED Coupled!Abstract!vars
  <2>1. \A s \in Thread : lpc[s] = "delete" => curr'[s] = curr[s]
    BY <1>a, <1>8 DEF Coupled!AcquireFirst, Coupled!Advance, Coupled!TypeOK
  <2> QED BY <1>5, <1>8, <2>1 DEF Coupled!AcquireFirst, Coupled!Advance
<1>9. ASSUME NEW t \in Thread, Coupled!ReleasePred(t) \/ Coupled!ReleaseCurr(t) PROVE UNCHANGED Coupled!Abstract!vars
  BY <1>5, <1>9 DEF Coupled!ReleasePred, Coupled!ReleaseCurr
<1>6. CASE UNCHANGED Coupled!vars
  BY <1>6 DEF Coupled!vars, Coupled!locals, Coupled!Abstract!vars, Coupled!Listed, Coupled!Removed
<1> QED BY <1>1, <1>2, <1>3, <1>4, <1>6, <1>7, <1>8, <1>9 DEF Coupled!Next, Coupled!Step

-----------------------------------------------------------------------------
(* The linear search, on the hash table's variables.                       *)

(* What a thread knows of the entries it has passed, which are the first   *)
(* ones, and of the one it is at.                                          *)
LinearCursor ==
  \A t \in Thread :
    /\ pc[t] = "out" => idx[t] = 0
    /\ pc[t] # "out" => op[t] \in Search!Operation
    /\ pc[t] \in {"claim", "recheck"} => op[t].kind = "set"
    /\ pc[t] \in {"probe", "claim", "recheck"} => \A d \in Entry : d < idx[t] => keys[d] \notin {0, op[t].key}
    /\ pc[t] = "recheck" => keys[idx[t]] # 0
    /\ pc[t] = "value" => keys[idx[t]] = op[t].key

LinearInv == Search!TypeOK /\ Search!EntriesWellFormed /\ LinearCursor /\ FreshInv

LEMMA EntryOrder ==
  ASSUME NEW i \in Entry
  PROVE  /\ \A d \in Entry : (d <= i <=> d < i \/ d = i) /\ (d < i+1 <=> d <= i)
         /\ \A d \in Entry : ~(d < 0)
BY SizeAssumption DEF Entry

LEMMA LinearOperation ==
  ASSUME NEW o \in Search!Operation
  PROVE  /\ o.key \in Key /\ o.key # 0 /\ o.kind \in {"set", "get"} /\ o # Search!NoOp
         /\ o.kind = "set" => o.item \in Item
BY KeyAssumption DEF Search!Operation, Search!SetItem, Search!GetItem, Search!NoOp

LEMMA LinearUnique == LinearInv => NoDuplicateKeys
BY SizeAssumption DEF LinearInv, Search!EntriesWellFormed, Search!Entry, Entry, NoDuplicateKeys

(* A key that no entry before a free one holds has no entry.               *)
LEMMA LinearAbsent ==
  ASSUME LinearInv, NEW f \in Entry, keys[f] = 0, NEW k \in Key,
         \A d \in Entry : d < f => keys[d] \notin {0, k}, NEW e \in Entry
  PROVE  keys[e] # k
BY KeyAssumption, SizeAssumption DEF LinearInv, Search!EntriesWellFormed, Search!Entry, Entry

LEMMA LinearInit == Init => LinearInv
BY SizeAssumption, KeyAssumption
   DEF Init, LinearInv, Search!TypeOK, Search!EntriesWellFormed, LinearCursor, FreshInv, Search!Entry, Entry,
       NoOp, Search!NoOp

(* There is an entry after one that holds another key.                     *)
LEMMA LinearOnward ==
  ASSUME LinearInv, NEW t \in Thread, pc[t] # "out",
         \A d \in Entry : d <= idx[t] => keys[d] \notin {0, op[t].key}
  PROVE  idx[t] \in Entry /\ idx[t] + 1 \in Entry
<1>1. op[t].key \in Key /\ keys \in [Entry -> Key \cup {0}] /\ idx[t] \in Entry
  BY LinearOperation DEF LinearInv, LinearCursor, Search!TypeOK, Search!Entry, Entry
<1>2. PICK e \in Entry : keys[e] \in {0, op[t].key}
  BY <1>1, LinearUnique, SomeEntry
<1>3. ~(e <= idx[t])
  BY <1>2
<1> QED BY <1>1, <1>3, SizeAssumption DEF Entry

LEMMA LinearNext == LinearInv /\ [Search!Next]_vars => LinearInv'
<1> SUFFICES ASSUME LinearInv, [Search!Next]_vars PROVE LinearInv'
  OBVIOUS
<1> USE DEF Search!Goto, Search!Start, Search!table
<1>a. Search!TypeOK /\ Search!EntriesWellFormed /\ LinearCursor /\ FreshInv
  BY DEF LinearInv
<1>b. Search!Entry = Entry
  BY DEF Search!Entry, Entry
<1>c. 0 \in Entry /\ Entry \subseteq Int
  BY SizeAssumption DEF Entry
<1>d. ASSUME NEW t \in Thread, pc[t] # "out"
      PROVE  /\ op[t] \in Search!Operation /\ op[t].key \in Key /\ op[t].key # 0 /\ op[t].kind \in {"set", "get"}
             /\ op[t].kind = "set" => op[t].item \in Item
             /\ idx[t] \in Entry
  BY <1>a, <1>b, <1>d, LinearOperation DEF LinearCursor, Search!TypeOK
<1>1. ASSUME NEW t \in Thread, NEW o \in Search!Operation, Search!Call(t, o) PROVE LinearInv'
  <2> USE <1>1 DEF Search!Call
  <2>1. Search!TypeOK'
    BY <1>a, LinearOperation DEF Search!TypeOK
  <2>2. pc' = [pc EXCEPT ![t] = "probe"] /\ idx[t] = 0 /\ ~\E d \in Entry : d < 0
    BY <1>a, <1>c, EntryOrder DEF LinearCursor
  <2>3. LinearCursor'
    BY <1>a, <1>b, <2>2 DEF Search!TypeOK, LinearCursor
  <2> QED BY <1>a, <2>1, <2>3 DEF LinearInv, Search!EntriesWellFormed, FreshInv
<1>2. ASSUME NEW t \in Thread, pc[t] # "out", UNCHANGED Search!table, Search!TryNextEntry(t),
             \A d \in Entry : d <= idx[t] => keys[d] \notin {0, op[t].key}
      PROVE  LinearInv'
  <2> USE <1>2 DEF Search!TryNextEntry
  <2>1. idx[t] \in Entry /\ idx[t] + 1 \in Entry
    BY LinearOnward
  <2>2. /\ pc' = [pc EXCEPT ![t] = IF op[t].kind = "set" /\ ~TRUE THEN "claim" ELSE "probe"]
        /\ idx' = [idx EXCEPT ![t] = idx[t] + 1]
    BY <1>b, <2>1
  <2>3. Search!TypeOK'
    BY <1>a, <1>b, <2>1, <2>2 DEF Search!TypeOK
  <2>4. \A d \in Entry : d < idx[t] + 1 => keys[d] \notin {0, op[t].key}
    BY <2>1, EntryOrder
  <2>5. LinearCursor'
    BY <1>a, <1>b, <1>d, <2>2, <2>4 DEF Search!TypeOK, LinearCursor
  <2> QED BY <1>a, <2>3, <2>5 DEF LinearInv, Search!EntriesWellFormed, FreshInv
<1>3. ASSUME NEW t \in Thread, pc[t] # "out", UNCHANGED Search!table, Search!Found(t), keys[idx[t]] = op[t].key
      PROVE  LinearInv'
  <2> USE <1>3 DEF Search!Found
  <2>1. Search!TypeOK'
    BY <1>a DEF Search!TypeOK
  <2>2. LinearCursor'
    BY <1>a DEF Search!TypeOK, LinearCursor
  <2> QED BY <1>a, <2>1, <2>2 DEF LinearInv, Search!EntriesWellFormed, FreshInv
<1>4. ASSUME NEW t \in Thread, NEW r \in Item \cup {0}, UNCHANGED keys, Search!Return(t, r),
             values' \in [Entry -> Item \cup {0}], FreshInv'
      PROVE  LinearInv'
  <2> USE <1>4 DEF Search!Return
  <2>1. Search!TypeOK'
    BY <1>a, <1>b, <1>c DEF Search!TypeOK
  <2>2. LinearCursor'
    BY <1>a DEF Search!TypeOK, LinearCursor
  <2> QED BY <1>a, <2>1, <2>2 DEF LinearInv, Search!EntriesWellFormed
<1>5. ASSUME NEW t \in Thread, Search!Probe(t) PROVE LinearInv'
  <2> USE <1>5 DEF Search!Probe
  <2>1. CASE keys[idx[t]] = op[t].key /\ Search!Found(t)
    BY <1>3, <2>1
  <2>2. CASE Search!Return(t, 0)
    BY <1>4, <1>a, <1>b, <2>2 DEF Search!TypeOK, FreshInv
  <2>3. CASE op[t].kind = "set" /\ Search!Goto(t, "claim") /\ UNCHANGED <<op, idx, ret>>
    <3>1. Search!TypeOK'
      BY <1>a, <2>3 DEF Search!TypeOK
    <3>2. LinearCursor'
      BY <1>a, <2>3 DEF Search!TypeOK, LinearCursor
    <3> QED BY <1>a, <3>1, <3>2 DEF LinearInv, Search!EntriesWellFormed, FreshInv
  <2>4. CASE keys[idx[t]] \notin {op[t].key, 0} /\ Search!TryNextEntry(t)
    <3>1. \A d \in Entry : d < idx[t] => keys[d] \notin {0, op[t].key}
      BY <1>a DEF LinearCursor
    <3>2. \A d \in Entry : d <= idx[t] => keys[d] \notin {0, op[t].key}
      <4>1. \A d \in Entry : d <= idx[t] => d < idx[t] \/ d = idx[t]
        BY <1>d, EntryOrder
      <4> QED BY <2>4, <3>1, <4>1
    <3> QED BY <1>2, <2>4, <3>2
  <2> QED BY <2>1, <2>2, <2>3, <2>4 DEF Search!Absent
<1>6. ASSUME NEW t \in Thread, Search!Claim(t) PROVE LinearInv'
  <2> USE <1>6 DEF Search!Claim, Search!CanClaim
  <2>1. CASE keys[idx[t]] # 0
    <3>1. Search!TypeOK'
      BY <1>a, <2>1 DEF Search!TypeOK
    <3>2. LinearCursor'
      BY <1>a, <2>1 DEF Search!TypeOK, LinearCursor
    <3> QED BY <1>a, <2>1, <3>1, <3>2 DEF LinearInv, Search!EntriesWellFormed, FreshInv
  <2>2. CASE keys[idx[t]] = 0
    <3> USE DEF Search!Found
    <3>1. /\ \A d \in Entry : d < idx[t] => keys[d] \notin {0, op[t].key}
          /\ \A e \in Entry : keys[e] # op[t].key
      <4>1. \A d \in Entry : d < idx[t] => keys[d] \notin {0, op[t].key}
        BY <1>a DEF LinearCursor
      <4> QED BY <1>d, <2>2, <4>1, LinearAbsent
    <3>2. \A e \in Entry : keys'[e] = IF e = idx[t] THEN op[t].key ELSE keys[e]
      BY <1>a, <1>b, <2>2 DEF Search!TypeOK
    <3>3. Search!TypeOK'
      BY <1>a, <1>b, <1>d, <2>2 DEF Search!TypeOK
    <3>4. \A e \in Entry : keys[e] # 0 => e < idx[t]
      BY <1>a, <1>b, <1>c, <1>d, <2>2 DEF Search!EntriesWellFormed
    <3>5. Search!EntriesWellFormed'
      BY <1>a, <1>b, <1>c, <1>d, <3>1, <3>2, <3>4 DEF Search!EntriesWellFormed
    <3>6. ASSUME NEW s \in Thread, s # t, pc[s] \in {"probe", "claim", "recheck"}
          PROVE  /\ ~(idx[t] < idx[s])
                 /\ \A d \in Entry : d < idx[s] => keys'[d] \notin {0, op[s].key}
      <4>1. ~(idx[t] < idx[s])
        BY <1>a, <1>d, <2>2, <3>6 DEF LinearCursor
      <4> QED BY <1>a, <3>2, <3>6, <4>1 DEF LinearCursor
    <3>7. pc' = [pc EXCEPT ![t] = "value"] /\ op' = op /\ idx' = idx
      BY <2>2
    <3>8. LinearCursor'
      <4> SUFFICES ASSUME NEW s \in Thread PROVE LinearCursor!(s)'
        BY DEF LinearCursor
      <4>1. CASE s = t
        BY <1>a, <1>d, <3>2, <3>7, <4>1 DEF Search!TypeOK
      <4>2. CASE s # t /\ pc[s] = "out"
        BY <1>a, <3>7, <4>2 DEF Search!TypeOK, LinearCursor
      <4>3. CASE s # t /\ pc[s] # "out"
        <5>1. idx[s] \in Entry /\ op[s].key # 0 /\ pc'[s] = pc[s]
          BY <1>a, <1>d, <3>7, <4>3 DEF Search!TypeOK
        <5>2. pc[s] = "value" => keys'[idx[s]] = op[s].key
          BY <1>a, <2>2, <3>2, <5>1 DEF LinearCursor
        <5>3. pc[s] = "recheck" => keys'[idx[s]] # 0
          BY <1>a, <1>d, <3>2, <5>1 DEF LinearCursor
        <5> QED BY <1>a, <3>6, <3>7, <4>3, <5>1, <5>2, <5>3 DEF LinearCursor
      <4> QED BY <4>1, <4>2, <4>3
    <3>9. FreshInv'
      BY <1>a, <1>d, <3>2 DEF FreshInv
    <3> QED BY <3>3, <3>5, <3>8, <3>9 DEF LinearInv
  <2> QED BY <2>1, <2>2
<1>7. ASSUME NEW t \in Thread, Search!Recheck(t) PROVE LinearInv'
  <2> USE <1>7 DEF Search!Recheck, Search!StolenByOther
  <2>1. CASE keys[idx[t]] = op[t].key
    BY <1>3, <2>1
  <2>2. CASE keys[idx[t]] # op[t].key
    <3>1. keys[idx[t]] # 0 /\ \A d \in Entry : d < idx[t] => keys[d] \notin {0, op[t].key}
      BY <1>a DEF LinearCursor
    <3>2. \A d \in Entry : d <= idx[t] => keys[d] \notin {0, op[t].key}
      BY <1>c, <1>d, <2>2, <3>1
    <3> QED BY <1>2, <2>2, <3>2
  <2> QED BY <2>1, <2>2
<1>8. ASSUME NEW t \in Thread, Search!UseValue(t) PROVE LinearInv'
  <2> USE <1>8 DEF Search!UseValue
  <2>1. CASE Search!Store(t)
    <3>1. keys[idx[t]] # 0 /\ ret[t] \in Item \cup {0}
      BY <1>a, <1>d DEF LinearCursor, Search!TypeOK
    <3>2. values' \in [Entry -> Item \cup {0}] /\ FreshInv'
      BY <1>a, <1>b, <1>d, <2>1, <3>1 DEF Search!Store, FreshInv, Search!TypeOK
    <3> QED BY <1>4, <2>1, <3>1, <3>2 DEF Search!Store
  <2>2. CASE Search!Load(t)
    <3>1. values[idx[t]] \in Item \cup {0} /\ values' \in [Entry -> Item \cup {0}] /\ FreshInv'
      BY <1>a, <1>b, <1>d, <2>2 DEF Search!Load, FreshInv, Search!TypeOK
    <3> QED BY <1>4, <2>2, <3>1 DEF Search!Load
  <2> QED BY <2>1, <2>2
<1>9. CASE UNCHANGED vars
  BY <1>9, <1>a DEF vars, table, LinearInv, Search!TypeOK, Search!EntriesWellFormed, LinearCursor, FreshInv
<1> QED BY <1>1, <1>5, <1>6, <1>7, <1>8, <1>9 DEF Search!Next, Search!Step

-----------------------------------------------------------------------------
(* The linear search implements the atomic map, which is the hash table's. *)

LEMMA SameMap ==
  /\ Search!Map = Map
  /\ Search!Atomic!vars = Atomic!vars
  /\ Search!Atomic!Init <=> Atomic!Init
  /\ Search!Atomic!Next <=> Atomic!Next
<1>1. Search!Map = Map
  BY DEF Search!Map, Map, Search!Entry, Entry
<1>2. Search!Atomic!vars = Atomic!vars
  BY <1>1 DEF Search!Atomic!vars, Atomic!vars
<1>3. Search!Atomic!Init <=> Atomic!Init
  BY <1>1 DEF Search!Atomic!Init, Atomic!Init, Search!Atomic!NoOp, Atomic!NoOp
<1>4. Search!Atomic!Next <=> Atomic!Next
  <2>1. Search!Map' = Map'
    BY DEF Search!Map, Map, Search!Entry, Entry
  <2>2. Search!Atomic!Op = Atomic!Op /\ Search!Atomic!NoOp = Atomic!NoOp
    BY DEF Search!Atomic!Op, Atomic!Op, Search!Atomic!NoOp, Atomic!NoOp
  <2>3. ASSUME NEW t \in Thread, NEW o \in Atomic!Op PROVE Search!Atomic!Call(t, o) <=> Atomic!Call(t, o)
    BY <1>1, <2>1 DEF Search!Atomic!Call, Atomic!Call
  <2>4. ASSUME NEW t \in Thread PROVE Search!Atomic!TakeEffect(t) <=> Atomic!TakeEffect(t)
    <3>1. /\ Search!Atomic!Set(t) <=> Atomic!Set(t)
          /\ Search!Atomic!Get(t) <=> Atomic!Get(t)
          /\ Search!Atomic!Add(t) <=> Atomic!Add(t)
      BY <1>1, <2>1 DEF Search!Atomic!Set, Search!Atomic!Get, Search!Atomic!Add, Atomic!Set, Atomic!Get, Atomic!Add
    <3> QED BY <2>2, <3>1 DEF Search!Atomic!TakeEffect, Atomic!TakeEffect
  <2> QED BY <2>2, <2>3, <2>4 DEF Search!Atomic!Next, Atomic!Next
<1> QED BY <1>1, <1>2, <1>3, <1>4

(* The steps of a search change nothing a client can see.                  *)
LEMMA LinearInternal ==
  ASSUME LinearInv, NEW t \in Thread, pc[t] # "out", NEW l, l # "out", pc' = [pc EXCEPT ![t] = l],
         op' = op, ret' = ret, Map' = Map
  PROVE  UNCHANGED Atomic!vars
<1>1. Pending' = Pending
  BY DEF Pending, LinearInv, Search!TypeOK
<1> QED BY <1>1 DEF Atomic!vars, Pending

LEMMA LinearRefines == LinearInv /\ LinearInv' /\ [Search!Next]_vars => [Atomic!Next]_(Atomic!vars)
<1> SUFFICES ASSUME LinearInv, LinearInv', [Search!Next]_vars PROVE [Atomic!Next]_(Atomic!vars)
  OBVIOUS
<1> USE DEF Search!Goto, Search!Start, Search!table
<1>a. Search!TypeOK /\ LinearCursor /\ FreshInv
  BY DEF LinearInv
<1>b. Search!Entry = Entry
  BY DEF Search!Entry, Entry
<1>n. NoDuplicateKeys /\ NoDuplicateKeys'
  BY LinearUnique, PTL
<1>m. MapSpec
  BY <1>n, MapIs
<1>c. ASSUME keys' = keys, values' = values PROVE Map' = Map
  BY <1>c DEF Map
<1>d. pc = [s \in Thread |-> pc[s]] /\ ret = [s \in Thread |-> ret[s]]
  BY <1>a DEF Search!TypeOK
<1>e. ASSUME NEW t \in Thread, pc[t] # "out"
      PROVE  op[t].key \in Key /\ op[t].kind \in {"set", "get"} /\ idx[t] \in Entry
  BY <1>a, <1>b, <1>e, LinearOperation DEF LinearCursor, Search!TypeOK
<1>f. \A t \in Thread : \A r : Search!Return(t, r) => Return(t, r)
  BY DEF Search!Return, Return, Goto, Search!NoOp, NoOp
<1>1. ASSUME NEW t \in Thread, NEW o \in Search!Operation, Search!Call(t, o) PROVE Atomic!Next
  <2> USE <1>1 DEF Search!Call
  <2>1. Pending' = Pending \cup {t} /\ t \notin Pending
    BY <1>a DEF Pending, Search!TypeOK
  <2>2. Atomic!Call(t, o)
    BY <1>c, <2>1 DEF Atomic!Call, Pending
  <2>3. o \in Atomic!Op
    BY DEF Search!Operation, Search!SetItem, Search!GetItem, Atomic!Op
  <2> QED BY <2>2, <2>3 DEF Atomic!Next
<1>2. ASSUME NEW t \in Thread, Search!Probe(t) PROVE [Atomic!Next]_(Atomic!vars)
  <2> USE <1>2 DEF Search!Probe
  <2>1. Map' = Map
    BY <1>c
  <2>2. CASE Search!Found(t) \/ Search!TryNextEntry(t) \/ (Search!Goto(t, "claim") /\ UNCHANGED <<op, idx, ret>>)
    BY <2>1, <2>2, LinearInternal DEF Search!Found, Search!TryNextEntry
  <2>3. CASE keys[idx[t]] = 0 /\ op[t].kind = "get" /\ Search!Return(t, 0)
    <3>1. \A d \in Entry : d < idx[t] => keys[d] \notin {0, op[t].key}
      BY <1>a DEF LinearCursor
    <3>2. \A e \in Entry : keys[e] # op[t].key
      BY <1>e, <2>3, <3>1, LinearAbsent
    <3>3. Map[op[t].key] = 0
      BY <1>e, <1>m, <3>2 DEF MapSpec
    <3> HIDE <1>2
    <3> QED BY <1>2, <1>d, <1>f, <2>1, <2>3, <3>3, ReturnRefines
  <2> QED BY <2>2, <2>3 DEF Search!Absent
<1>3. ASSUME NEW t \in Thread, Search!Claim(t) PROVE UNCHANGED Atomic!vars
  <2> USE <1>3 DEF Search!Claim, Search!CanClaim, Search!Found
  <2>1. CASE keys[idx[t]] # 0
    <3>1. Map' = Map
      BY <1>c, <2>1
    <3> QED BY <2>1, <3>1, LinearInternal
  <2>2. CASE keys[idx[t]] = 0
    <3>1. \A d \in Entry : d < idx[t] => keys[d] \notin {0, op[t].key}
      BY <1>a DEF LinearCursor
    <3>2. \A e \in Entry : keys[e] # op[t].key
      BY <1>e, <2>2, <3>1, LinearAbsent
    <3>3. /\ values[idx[t]] = 0 /\ values' = values /\ keys' = [keys EXCEPT ![idx[t]] = op[t].key]
          /\ keys \in [Entry -> Key \cup {0}]
      BY <1>a, <1>b, <1>e, <2>2 DEF FreshInv, Search!TypeOK
    <3>4. Map' = Map
      BY <1>e, <1>n, <2>2, <3>2, <3>3, MapClaim
    <3> QED BY <2>2, <3>4, LinearInternal
  <2> QED BY <2>1, <2>2
<1>4. ASSUME NEW t \in Thread, Search!Recheck(t) PROVE UNCHANGED Atomic!vars
  <2> USE <1>4 DEF Search!Recheck, Search!Found, Search!TryNextEntry
  <2>1. Map' = Map
    BY <1>c
  <2> QED BY <2>1, LinearInternal
<1>5. ASSUME NEW t \in Thread, Search!UseValue(t) PROVE Atomic!Next
  <2> USE <1>5 DEF Search!UseValue
  <2>1. idx[t] \in Entry /\ keys[idx[t]] = op[t].key /\ op[t].key \in Key
    BY <1>a, <1>e DEF LinearCursor
  <2>2. Map[op[t].key] = values[idx[t]]
    BY <1>m, <2>1 DEF MapSpec
  <2>3. CASE Search!Load(t)
    BY <1>c, <1>d, <1>f, <2>2, <2>3, ReturnRefines DEF Search!Load
  <2>4. CASE Search!Store(t)
    <3>1. /\ op[t].kind = "set" /\ Return(t, ret[t])
          /\ values' = [values EXCEPT ![idx[t]] = op[t].item]
      BY <1>f, <2>4 DEF Search!Store
    <3>2. keys' = keys /\ values \in [Entry -> Item \cup {0}]
      BY <1>a, <1>b DEF Search!TypeOK
    <3>3. Map' = [Map EXCEPT ![keys[idx[t]]] = op[t].item]
      BY <1>n, <2>1, <3>1, <3>2, MapUpdate
    <3> QED BY <1>d, <2>1, <3>1, <3>3, ReturnRefines
  <2> QED BY <2>3, <2>4
<1>6. CASE UNCHANGED vars
  BY <1>6 DEF vars, table, Atomic!vars, Map
<1> QED BY <1>1, <1>2, <1>3, <1>4, <1>5, <1>6 DEF Search!Next, Search!Step

-----------------------------------------------------------------------------
(* The optimistic list.                                                    *)

(* The nodes whose locks a thread holds at a control point.                *)
HoldsNode(t, n) ==
  \/ opc[t] \in {"second", "validate", "located", "unlink", "release", "retry"} /\ n = opred[t]
  \/ opc[t] \in {"validate", "located", "unlink", "release", "retry", "releaseCurr", "retryCurr"} /\ n = ocurr[t]

(* What a thread knows of the nodes it has come to.                        *)
Knows(t) ==
  /\ opred[t] \in oalive /\ ocurr[t] \in oalive /\ succ[t] \in oalive
  /\ opc[t] = "out" => oop[t] = Optimistic!NoOp /\ opred[t] = Head /\ ocurr[t] = Head
  /\ opc[t] # "out" => oop[t] \in Optimistic!Operation /\ oval[opred[t]] < oop[t].key
  /\ opc[t] \notin {"out", "search"} => oop[t].key <= oval[ocurr[t]]
  /\ opc[t] \in {"located", "unlink"} => onext[opred[t]] = ocurr[t]
  /\ opc[t] = "unlink" => oop[t].kind = "remove" /\ oval[ocurr[t]] = oop[t].key /\ succ[t] = onext[ocurr[t]]

(* The calls that have yet to take their node from malloc.                 *)
Inserting == {t \in Thread : oop[t].kind = "add" /\ opc[t] \notin {"release", "releaseCurr"}}

OptimisticTypes ==
  /\ oval \in [Node -> Int]
  /\ onext \in [Node -> Node]
  /\ olock \in [Node -> SUBSET Thread]
  /\ oalive \in SUBSET Node
  /\ opc \in [Thread -> {"out", "search", "second", "validate", "located", "unlink", "release", "retry",
                         "releaseCurr", "retryCurr"}]
  /\ oop \in [Thread -> Optimistic!Operation \cup {Optimistic!NoOp}]
  /\ opred \in [Thread -> Node]
  /\ ocurr \in [Thread -> Node]
  /\ succ \in [Thread -> Node]
  /\ oret \in [Thread -> {0, 1}]

HeldInv == \A t \in Thread, n \in Node : HoldsNode(t, n) => olock[n] = {t}

LinksInv ==
  /\ Head \in oalive /\ Last \in oalive
  /\ oval[Head] = Optimistic!Least /\ oval[Last] = Optimistic!Greatest
  /\ \A n \in oalive \ {Last} : onext[n] \in oalive /\ oval[n] < oval[onext[n]]

KnowsInv == \A t \in Thread : Knows(t)

SupplyInv == Cardinality(Node \ oalive) >= Cardinality(Inserting)

OptimisticInv == OptimisticTypes /\ HeldInv /\ LinksInv /\ KnowsInv /\ SupplyInv

LEMMA OptimisticOperation ==
  ASSUME NEW o \in Optimistic!Operation
  PROVE  /\ o.key \in Optimistic!Elem /\ o.key \in Int
         /\ Optimistic!Least < o.key /\ o.key < Optimistic!Greatest
         /\ o.kind \in {"add", "remove"} /\ o # Optimistic!NoOp
<1>1. o.key \in Optimistic!Elem /\ o.kind \in {"add", "remove"} /\ o # Optimistic!NoOp
  BY DEF Optimistic!Operation, Optimistic!Elem, Optimistic!NoOp
<1> QED BY <1>1, OptimisticValues

LEMMA SameCardinality == \A S : Optimistic!Cardinality(S) = Cardinality(S)
BY DEF Optimistic!Cardinality, Cardinality

LEMMA OptimisticInit == Optimistic!Init => OptimisticInv
<1> SUFFICES ASSUME Optimistic!Init PROVE OptimisticInv
  OBVIOUS
<1> USE OptimisticValues, SentinelAssumption DEF Optimistic!Init
<1>1. OptimisticTypes /\ HeldInv
  BY DEF OptimisticTypes, HeldInv, HoldsNode
<1>2. LinksInv
  BY DEF LinksInv
<1>3. KnowsInv
  BY DEF KnowsInv, Knows
<1>4. SupplyInv
  <2>1. Inserting = {}
    BY DEF Inserting, Optimistic!NoOp
  <2>2. IsFiniteSet(Node \ oalive)
    BY FiniteAssumption, FS_Difference
  <2> QED BY <2>1, <2>2, FS_EmptySet, FS_CardinalityType DEF SupplyInv
<1> QED BY <1>1, <1>2, <1>3, <1>4 DEF OptimisticInv

(* A step of t that changes no link, and begins no call to add.            *)
LEMMA OptimisticFrame ==
  ASSUME OptimisticInv, UNCHANGED <<oval, onext, oalive>>, OptimisticTypes', HeldInv',
         NEW t \in Thread, Knows(t)', Inserting' \subseteq Inserting,
         \A s \in Thread \ {t} :
           UNCHANGED <<opc[s], oop[s], opred[s], ocurr[s], succ[s]>>
  PROVE  OptimisticInv'
<1>1. LinksInv'
  BY DEF OptimisticInv, LinksInv
<1>2. KnowsInv'
  BY DEF OptimisticInv, KnowsInv, Knows
<1>3. SupplyInv'
  <2>1. IsFiniteSet(Inserting) /\ IsFiniteSet(Node \ oalive)
    BY FiniteAssumption, FS_Subset, FS_Difference DEF Inserting
  <2>2. Cardinality(Inserting') <= Cardinality(Inserting) /\ IsFiniteSet(Inserting')
    BY <2>1, FS_Subset
  <2>3. Cardinality(Inserting') \in Nat /\ Cardinality(Inserting) \in Nat /\ Cardinality(Node \ oalive) \in Nat
    BY <2>1, <2>2, FS_CardinalityType
  <2>4. (Node \ oalive)' = Node \ oalive
    OBVIOUS
  <2> QED BY <2>2, <2>3, <2>4 DEF OptimisticInv, SupplyInv
<1> QED BY <1>1, <1>2, <1>3 DEF OptimisticInv

(* The nodes that a thread holds differ, and no other thread holds them.   *)
LEMMA HeldApart ==
  ASSUME OptimisticInv, NEW t \in Thread, opc[t] \notin {"out", "search"}
  PROVE  /\ opred[t] # ocurr[t] /\ ocurr[t] # Head /\ opred[t] # Last
         /\ \A s \in Thread, n \in Node : s # t /\ HoldsNode(t, n) => ~HoldsNode(s, n)
<1>1. /\ oop[t] \in Optimistic!Operation /\ oval[opred[t]] < oop[t].key /\ oop[t].key <= oval[ocurr[t]]
      /\ opred[t] \in Node /\ ocurr[t] \in Node
  BY DEF OptimisticInv, KnowsInv, Knows, OptimisticTypes
<1>2. oval[opred[t]] \in Int /\ oval[ocurr[t]] \in Int
  BY <1>1 DEF OptimisticInv, OptimisticTypes
<1>3. oval[Head] = Optimistic!Least /\ oval[Last] = Optimistic!Greatest
  BY DEF OptimisticInv, LinksInv
<1>4. opred[t] # ocurr[t] /\ ocurr[t] # Head /\ opred[t] # Last
  BY <1>1, <1>2, <1>3, OptimisticOperation, OptimisticValues
<1>5. ASSUME NEW s \in Thread, NEW n \in Node, s # t, HoldsNode(t, n), HoldsNode(s, n) PROVE FALSE
  BY <1>5 DEF OptimisticInv, HeldInv
<1> QED BY <1>4, <1>5

LEMMA OptimisticNext == OptimisticInv /\ [Optimistic!Next]_(Optimistic!vars) => OptimisticInv'
<1> SUFFICES ASSUME OptimisticInv, [Optimistic!Next]_(Optimistic!vars) PROVE OptimisticInv'
  OBVIOUS
<1> USE DEF Optimistic!Goto, Optimistic!heap
<1>a. OptimisticTypes /\ HeldInv /\ LinksInv /\ KnowsInv /\ SupplyInv
  BY DEF OptimisticInv
<1>b. ASSUME NEW t \in Thread, opc[t] # "out"
      PROVE  /\ oop[t] \in Optimistic!Operation /\ oop[t].key \in Int
             /\ Optimistic!Least < oop[t].key /\ oop[t].key < Optimistic!Greatest
  BY <1>a, <1>b, OptimisticOperation DEF KnowsInv, Knows
<1>c. \A n \in oalive : n \in Node /\ oval[n] \in Int
  BY <1>a DEF OptimisticTypes
<1>1. ASSUME NEW t \in Thread, NEW o \in Optimistic!Operation, Optimistic!Call(t, o) PROVE OptimisticInv'
  <2> USE <1>1 DEF Optimistic!Call
  <2>1. OptimisticTypes'
    BY <1>a DEF OptimisticTypes
  <2>2. HeldInv'
    BY <1>a DEF HeldInv, HoldsNode, OptimisticTypes
  <2>3. LinksInv'
    BY <1>a DEF LinksInv
  <2>4. KnowsInv'
    <3>1. opc' = [opc EXCEPT ![t] = "search"] /\ oop' = [oop EXCEPT ![t] = o] /\ opc[t] = "out"
      OBVIOUS
    <3>2. Optimistic!Least < o.key
      BY OptimisticOperation
    <3> QED BY <1>a, <3>1, <3>2 DEF KnowsInv, Knows, OptimisticTypes, LinksInv
  <2>5. SupplyInv'
    <3>1. Inserting \subseteq Optimistic!Adding /\ t \notin Inserting
      BY <1>a DEF Inserting, Optimistic!Adding, KnowsInv, Knows, Optimistic!NoOp
    <3>2. /\ IsFiniteSet(Optimistic!Adding) /\ IsFiniteSet(Inserting) /\ IsFiniteSet(Node \ oalive)
      BY FiniteAssumption, FS_Subset, FS_Difference DEF Inserting, Optimistic!Adding
    <3>3. Cardinality(Inserting) <= Cardinality(Optimistic!Adding)
      BY <3>1, <3>2, FS_Subset
    <3>4. /\ Cardinality(Inserting) \in Nat /\ Cardinality(Optimistic!Adding) \in Nat
          /\ Cardinality(Node \ oalive) \in Nat
      BY <3>2, FS_CardinalityType
    <3>5. (Node \ oalive)' = Node \ oalive
      OBVIOUS
    <3>6. CASE o.kind = "add"
      <4>1. Inserting' = Inserting \cup {t}
        BY <1>a, <3>6 DEF Inserting, OptimisticTypes
      <4>2. Cardinality(Inserting') = Cardinality(Inserting) + 1
        BY <3>1, <3>2, <4>1, FS_AddElement
      <4>3. Cardinality(Node \ oalive) > Cardinality(Optimistic!Adding)
        BY <3>6, SameCardinality
      <4> QED BY <3>3, <3>4, <3>5, <4>2, <4>3 DEF SupplyInv
    <3>7. CASE o.kind # "add"
      <4>1. Inserting' = Inserting
        BY <1>a, <3>1, <3>7 DEF Inserting, OptimisticTypes
      <4> QED BY <1>a, <3>5, <4>1 DEF SupplyInv
    <3> QED BY <3>6, <3>7
  <2> QED BY <2>1, <2>2, <2>3, <2>4, <2>5 DEF OptimisticInv
<1>2. ASSUME NEW t \in Thread, Optimistic!Search(t) PROVE OptimisticInv'
  <2> USE <1>2 DEF Optimistic!Search
  <2>1. /\ opred[t] \in oalive /\ ocurr[t] \in oalive \ {Last} /\ succ[t] \in oalive
        /\ oval[ocurr[t]] < oop[t].key
    BY <1>a, <1>b, <1>c, SentinelAssumption DEF KnowsInv, Knows, LinksInv
  <2>2. onext[ocurr[t]] \in oalive
    BY <1>a, <2>1 DEF LinksInv
  <2>3. OptimisticTypes' /\ HeldInv'
    BY <1>a, <1>c, <2>1, <2>2 DEF OptimisticTypes, HeldInv, HoldsNode
  <2>4. Knows(t)'
    BY <1>a, <1>b, <2>1, <2>2 DEF Knows, OptimisticTypes
  <2>5. \A s \in Thread \ {t} : UNCHANGED <<opc[s], oop[s], opred[s], ocurr[s], succ[s]>>
    BY <1>a DEF OptimisticTypes
  <2> QED BY <2>3, <2>4, <2>5, OptimisticFrame DEF Inserting
<1>3. ASSUME NEW t \in Thread, Optimistic!AcquireFirst(t) PROVE OptimisticInv'
  <2> USE <1>3 DEF Optimistic!AcquireFirst
  <2>1. OptimisticTypes'
    BY <1>a DEF OptimisticTypes
  <2>2. HeldInv'
    <3>1. ASSUME NEW s \in Thread, NEW n \in Node, HoldsNode(s, n)'
          PROVE  (s = t /\ n = opred[t]) \/ (HoldsNode(s, n) /\ n # opred[t])
      <4>1. CASE s = t
        BY <1>a, <3>1, <4>1 DEF HoldsNode, OptimisticTypes
      <4>2. CASE s # t
        <5>1. HoldsNode(s, n)
          BY <1>a, <3>1, <4>2 DEF HoldsNode, OptimisticTypes
        <5> QED BY <1>a, <5>1 DEF HeldInv
      <4> QED BY <4>1, <4>2
    <3> QED BY <1>a, <3>1 DEF HeldInv, OptimisticTypes
  <2>3. Knows(t)'
    BY <1>a, <1>b, <1>c DEF KnowsInv, Knows, OptimisticTypes
  <2>4. \A s \in Thread \ {t} : UNCHANGED <<opc[s], oop[s], opred[s], ocurr[s], succ[s]>>
    BY <1>a DEF OptimisticTypes
  <2>5. Inserting' \subseteq Inserting
    BY <1>a DEF OptimisticTypes, Inserting
  <2> QED BY <2>1, <2>2, <2>3, <2>4, <2>5, OptimisticFrame
<1>4. ASSUME NEW t \in Thread, Optimistic!AcquireSecond(t) PROVE OptimisticInv'
  <2> USE <1>4 DEF Optimistic!AcquireSecond
  <2>1. OptimisticTypes'
    BY <1>a, SentinelAssumption DEF OptimisticTypes
  <2>2. HeldInv'
    <3>1. ASSUME NEW s \in Thread, NEW n \in Node, HoldsNode(s, n)'
          PROVE  (s = t /\ n = ocurr[t]) \/ (HoldsNode(s, n) /\ n # ocurr[t])
      <4>1. CASE s = t
        BY <1>a, <3>1, <4>1 DEF HoldsNode, OptimisticTypes
      <4>2. CASE s # t
        <5>1. HoldsNode(s, n)
          BY <1>a, <3>1, <4>2 DEF HoldsNode, OptimisticTypes
        <5> QED BY <1>a, <5>1 DEF HeldInv
      <4> QED BY <4>1, <4>2
    <3> QED BY <1>a, <3>1 DEF HeldInv, OptimisticTypes
  <2>3. Knows(t)'
    BY <1>a, <1>b DEF KnowsInv, Knows, OptimisticTypes, LinksInv
  <2>4. \A s \in Thread \ {t} : UNCHANGED <<opc[s], oop[s], opred[s], ocurr[s], succ[s]>>
    BY <1>a DEF OptimisticTypes
  <2>5. Inserting' \subseteq Inserting
    BY <1>a DEF OptimisticTypes, Inserting
  <2> QED BY <2>1, <2>2, <2>3, <2>4, <2>5, OptimisticFrame
<1>5. ASSUME NEW t \in Thread, Optimistic!Follow(t) PROVE OptimisticInv'
  <2> USE <1>5 DEF Optimistic!Follow
  <2>1. succ[t] \in oalive \ {Last}
    BY <1>a, <1>b, OptimisticValues DEF KnowsInv, Knows, LinksInv
  <2>2. onext[succ[t]] \in oalive /\ succ' = [succ EXCEPT ![t] = onext[succ[t]]]
    BY <1>a, <2>1 DEF LinksInv
  <2>3. OptimisticTypes' /\ HeldInv'
    BY <1>a, <1>c, <2>2 DEF OptimisticTypes, HeldInv, HoldsNode
  <2>4. Knows(t)'
    BY <1>a, <1>b, <2>2 DEF KnowsInv, Knows, OptimisticTypes
  <2>5. \A s \in Thread \ {t} : UNCHANGED <<opc[s], oop[s], opred[s], ocurr[s], succ[s]>>
    BY <1>a DEF OptimisticTypes
  <2> QED BY <2>3, <2>4, <2>5, OptimisticFrame DEF Inserting
<1>6. ASSUME NEW t \in Thread, Optimistic!Validated(t) \/ Optimistic!LoadNext(t) \/ Optimistic!Nothing(t)
      PROVE  OptimisticInv'
  <2> USE <1>6 DEF Optimistic!Validated, Optimistic!LoadNext, Optimistic!Nothing, Optimistic!Valid, Optimistic!Present
  <2>1. OptimisticTypes'
    BY <1>a DEF OptimisticTypes
  <2>2. HeldInv'
    BY <1>a DEF OptimisticTypes, HeldInv, HoldsNode
  <2>3. Knows(t)'
    <3>1. CASE Optimistic!Validated(t)
      BY <1>a, <3>1 DEF KnowsInv, Knows, OptimisticTypes
    <3>2. CASE Optimistic!LoadNext(t)
      <4>1. ocurr[t] \in oalive \ {Last} /\ onext[ocurr[t]] \in oalive
        BY <1>a, <1>b, <3>2 DEF KnowsInv, Knows, LinksInv
      <4> QED BY <1>a, <3>2, <4>1 DEF KnowsInv, Knows, OptimisticTypes
    <3>3. CASE Optimistic!Nothing(t)
      BY <1>a, <3>3 DEF KnowsInv, Knows, OptimisticTypes
    <3> QED BY <3>1, <3>2, <3>3
  <2>4. \A s \in Thread \ {t} : UNCHANGED <<opc[s], oop[s], opred[s], ocurr[s], succ[s]>>
    BY <1>a DEF OptimisticTypes
  <2>5. Inserting' \subseteq Inserting
    BY <1>a DEF OptimisticTypes, Inserting
  <2> QED BY <2>1, <2>2, <2>3, <2>4, <2>5, OptimisticFrame
<1>7. ASSUME NEW t \in Thread, Optimistic!ReleasePred(t) PROVE OptimisticInv'
  <2> USE <1>7 DEF Optimistic!ReleasePred
  <2>1. OptimisticTypes'
    BY <1>a DEF OptimisticTypes
  <2>2. HeldInv'
    <3>1. opred[t] # ocurr[t] /\ \A s \in Thread, n \in Node : s # t /\ HoldsNode(t, n) => ~HoldsNode(s, n)
      BY HeldApart
    <3>2. HoldsNode(t, opred[t])
      BY DEF HoldsNode
    <3>3. ASSUME NEW s \in Thread, NEW n \in Node, HoldsNode(s, n)' PROVE HoldsNode(s, n) /\ n # opred[t]
      <4>1. CASE s = t
        BY <1>a, <3>1, <3>3, <4>1 DEF HoldsNode, OptimisticTypes
      <4>2. CASE s # t
        BY <1>a, <3>1, <3>2, <3>3, <4>2 DEF HoldsNode, OptimisticTypes
      <4> QED BY <4>1, <4>2
    <3> QED BY <1>a, <3>3 DEF HeldInv, OptimisticTypes
  <2>3. Knows(t)'
    BY <1>a DEF KnowsInv, Knows, OptimisticTypes
  <2>4. \A s \in Thread \ {t} : UNCHANGED <<opc[s], oop[s], opred[s], ocurr[s], succ[s]>>
    BY <1>a DEF OptimisticTypes
  <2>5. Inserting' \subseteq Inserting
    BY <1>a DEF OptimisticTypes, Inserting
  <2> QED BY <2>1, <2>2, <2>3, <2>4, <2>5, OptimisticFrame
<1>8. ASSUME NEW t \in Thread, Optimistic!ReleaseCurr(t) PROVE OptimisticInv'
  <2> USE <1>8 DEF Optimistic!ReleaseCurr, Optimistic!Unlocked
  <2>1. OptimisticTypes'
    BY <1>a, SentinelAssumption DEF OptimisticTypes
  <2>2. HeldInv'
    <3>1. HoldsNode(t, ocurr[t]) /\ \A s \in Thread, n \in Node : s # t /\ HoldsNode(t, n) => ~HoldsNode(s, n)
      BY HeldApart DEF HoldsNode
    <3>2. ASSUME NEW s \in Thread, NEW n \in Node, HoldsNode(s, n)' PROVE HoldsNode(s, n) /\ n # ocurr[t]
      <4>1. s # t
        BY <1>a, <3>2 DEF HoldsNode, OptimisticTypes
      <4> QED BY <1>a, <3>1, <3>2, <4>1 DEF HoldsNode, OptimisticTypes
    <3> QED BY <1>a, <3>2 DEF HeldInv, OptimisticTypes
  <2>3. Knows(t)'
    BY <1>a, <1>b, SentinelAssumption DEF KnowsInv, Knows, OptimisticTypes, LinksInv
  <2>4. \A s \in Thread \ {t} : UNCHANGED <<opc[s], oop[s], opred[s], ocurr[s], succ[s]>>
    BY <1>a DEF OptimisticTypes
  <2>5. Inserting' \subseteq Inserting
    BY <1>a DEF OptimisticTypes, Inserting, Optimistic!NoOp
  <2> QED BY <2>1, <2>2, <2>3, <2>4, <2>5, OptimisticFrame
<1>9. ASSUME NEW t \in Thread, Optimistic!Insert(t) PROVE OptimisticInv'
  <2> USE <1>9 DEF Optimistic!Insert, Optimistic!Present
  <2> DEFINE n == CHOOSE m \in Node : m \notin oalive
  <2>a. t \in Inserting
    BY <1>a DEF Inserting
  <2>b. /\ IsFiniteSet(Inserting) /\ IsFiniteSet(Node \ oalive)
        /\ Cardinality(Inserting) \in Nat /\ Cardinality(Node \ oalive) \in Nat
    <3>1. IsFiniteSet(Inserting) /\ IsFiniteSet(Node \ oalive)
      BY FiniteAssumption, FS_Subset, FS_Difference DEF Inserting
    <3> QED BY <3>1, FS_CardinalityType
  <2>c. Inserting' = Inserting \ {t} /\ Cardinality(Inserting') = Cardinality(Inserting) - 1
    <3>1. Inserting' = Inserting \ {t}
      BY <1>a DEF Inserting, OptimisticTypes
    <3> QED BY <2>a, <2>b, <3>1, FS_RemoveElement
  <2>d. n \in Node /\ n \notin oalive
    <3>1. Node \ oalive # {}
      <4> SUFFICES ASSUME Node \ oalive = {} PROVE FALSE
        OBVIOUS
      <4>1. Cardinality(Node \ oalive) = 0
        BY FS_EmptySet
      <4>2. Cardinality(Inserting) = 0
        BY <1>a, <2>b, <4>1 DEF SupplyInv
      <4> QED BY <2>a, <2>b, <4>2, FS_EmptySet
    <3> QED BY <3>1
  <2>1. /\ oalive' = oalive \cup {n} /\ oval' = [oval EXCEPT ![n] = oop[t].key]
        /\ onext' = [onext EXCEPT ![n] = ocurr[t], ![opred[t]] = n]
        /\ opc' = [opc EXCEPT ![t] = "release"] /\ oret' = [oret EXCEPT ![t] = 1]
        /\ opc[t] = "located" /\ oval[ocurr[t]] # oop[t].key
        /\ UNCHANGED <<olock, oop, opred, ocurr, succ>>
    OBVIOUS
  <2> HIDE <1>9 DEF n
  <2>2. /\ opred[t] \in oalive \ {Last} /\ ocurr[t] \in oalive /\ onext[opred[t]] = ocurr[t]
        /\ oval[opred[t]] < oop[t].key /\ oop[t].key < oval[ocurr[t]] /\ opred[t] # n
    <3>1. oop[t].key <= oval[ocurr[t]] /\ oval[ocurr[t]] # oop[t].key
      BY <1>a, <2>1 DEF KnowsInv, Knows
    <3>2. opred[t] \in oalive /\ ocurr[t] \in oalive /\ onext[opred[t]] = ocurr[t] /\ oval[opred[t]] < oop[t].key
      BY <1>a, <2>1 DEF KnowsInv, Knows
    <3> QED BY <1>b, <1>c, <2>1, <2>d, <3>1, <3>2, HeldApart
  <2>3. OptimisticTypes'
    BY <1>a, <1>b, <1>c, <2>d, <2>1, <2>2 DEF OptimisticTypes
  <2>4. HeldInv'
    BY <1>a, <2>1 DEF HeldInv, HoldsNode, OptimisticTypes
  <2>5. /\ \A m \in oalive : oval'[m] = oval[m] /\ (m # opred[t] => onext'[m] = onext[m])
        /\ oval'[n] = oop[t].key /\ onext'[n] = ocurr[t] /\ onext'[opred[t]] = n
    BY <1>a, <1>c, <2>d, <2>1, <2>2 DEF OptimisticTypes
  <2>6. LinksInv'
    <3>1. ASSUME NEW m \in oalive' \ {Last} PROVE onext'[m] \in oalive' /\ oval'[m] < oval'[onext'[m]]
      <4>1. CASE m = n
        BY <2>1, <2>2, <2>5, <4>1
      <4>2. CASE m = opred[t]
        BY <2>1, <2>2, <2>5, <4>2
      <4>3. CASE m \notin {n, opred[t]}
        <5>1. m \in oalive /\ onext[m] \in oalive /\ oval[m] < oval[onext[m]]
          BY <1>a, <2>1, <3>1, <4>3 DEF LinksInv
        <5>2. oval'[m] = oval[m] /\ onext'[m] = onext[m] /\ oval'[onext[m]] = oval[onext[m]]
          BY <2>5, <4>3, <5>1
        <5> QED BY <2>1, <5>1, <5>2
      <4> QED BY <4>1, <4>2, <4>3
    <3> QED BY <1>a, <2>1, <2>5, <3>1 DEF LinksInv
  <2>7. KnowsInv'
    <3> SUFFICES ASSUME NEW s \in Thread PROVE Knows(s)'
      BY DEF KnowsInv
    <3>1. CASE s = t
      BY <1>a, <1>b, <2>1, <2>2, <2>5, <3>1 DEF KnowsInv, Knows, OptimisticTypes
    <3>2. CASE s # t
      <4>1. /\ opc'[s] = opc[s] /\ oop' = oop /\ opred' = opred /\ ocurr' = ocurr /\ succ' = succ
        BY <1>a, <2>1, <3>2 DEF OptimisticTypes
      <4>2. opc[s] \in {"located", "unlink"} => opred[s] # opred[t] /\ ocurr[s] # opred[t]
        BY <1>a, <2>1, <3>2, HeldApart DEF HoldsNode, OptimisticTypes
      <4>3. Knows(s)
        BY <1>a DEF KnowsInv
      <4>4. /\ oval'[opred[s]] = oval[opred[s]] /\ oval'[ocurr[s]] = oval[ocurr[s]]
            /\ opc[s] \in {"located", "unlink"} =>
                 onext'[opred[s]] = onext[opred[s]] /\ onext'[ocurr[s]] = onext[ocurr[s]]
        BY <2>5, <4>2, <4>3 DEF Knows
      <4> QED BY <2>1, <4>1, <4>3, <4>4 DEF Knows
    <3> QED BY <3>1, <3>2
  <2>8. SupplyInv'
    <3>1. (Node \ oalive)' = (Node \ oalive) \ {n} /\ n \in Node \ oalive
      BY <2>d, <2>1
    <3>2. Cardinality((Node \ oalive)') = Cardinality(Node \ oalive) - 1
      BY <2>b, <3>1, FS_RemoveElement
    <3>3. Cardinality(Node \ oalive) >= Cardinality(Inserting)
      BY <1>a DEF SupplyInv
    <3> QED BY <2>b, <2>c, <3>2, <3>3 DEF SupplyInv
  <2> QED BY <2>3, <2>4, <2>6, <2>7, <2>8 DEF OptimisticInv
<1>10. ASSUME NEW t \in Thread, Optimistic!Unlink(t) PROVE OptimisticInv'
  <2> USE <1>10 DEF Optimistic!Unlink
  <2>1. /\ opred[t] \in oalive \ {Last} /\ ocurr[t] \in oalive \ {Last} /\ succ[t] \in oalive
        /\ onext[opred[t]] = ocurr[t] /\ succ[t] = onext[ocurr[t]]
    <3>1. /\ opred[t] \in oalive /\ ocurr[t] \in oalive /\ succ[t] \in oalive
          /\ onext[opred[t]] = ocurr[t] /\ succ[t] = onext[ocurr[t]] /\ oval[ocurr[t]] = oop[t].key
      BY <1>a DEF KnowsInv, Knows
    <3>2. oval[Last] = Optimistic!Greatest
      BY <1>a DEF LinksInv
    <3> QED BY <1>b, <3>1, <3>2, HeldApart, OptimisticValues
  <2>2. oval[opred[t]] < oval[ocurr[t]] /\ oval[ocurr[t]] < oval[succ[t]]
    BY <1>a, <2>1 DEF LinksInv
  <2>3. oval[opred[t]] < oval[succ[t]]
    BY <1>c, <2>1, <2>2
  <2>4. OptimisticTypes'
    BY <1>a, <1>c, <2>1 DEF OptimisticTypes
  <2>5. HeldInv'
    BY <1>a DEF HeldInv, HoldsNode, OptimisticTypes
  <2>6. onext'[opred[t]] = succ[t] /\ \A m \in oalive : m # opred[t] => onext'[m] = onext[m]
    BY <1>a, <1>c, <2>1 DEF OptimisticTypes
  <2>7. LinksInv'
    BY <1>a, <2>1, <2>3, <2>6 DEF LinksInv
  <2>8. KnowsInv'
    <3> SUFFICES ASSUME NEW s \in Thread PROVE Knows(s)'
      BY DEF KnowsInv
    <3>1. CASE s = t
      BY <1>a, <1>b, <2>1, <3>1 DEF KnowsInv, Knows, OptimisticTypes
    <3>2. CASE s # t
      <4>1. /\ opc'[s] = opc[s] /\ oop' = oop /\ opred' = opred /\ ocurr' = ocurr /\ succ' = succ
        BY <1>a, <3>2 DEF OptimisticTypes
      <4>2. opc[s] \in {"located", "unlink"} => opred[s] # opred[t] /\ ocurr[s] # opred[t]
        BY <1>a, <3>2, HeldApart DEF HoldsNode, OptimisticTypes
      <4>3. Knows(s)
        BY <1>a DEF KnowsInv
      <4> QED BY <2>6, <4>1, <4>2, <4>3 DEF Knows
    <3> QED BY <3>1, <3>2
  <2>9. SupplyInv'
    <3>1. Inserting' = Inserting
      BY <1>a DEF Inserting, OptimisticTypes, KnowsInv, Knows
    <3> QED BY <1>a, <3>1 DEF SupplyInv
  <2> QED BY <2>4, <2>5, <2>7, <2>8, <2>9 DEF OptimisticInv
<1>11. CASE UNCHANGED Optimistic!vars
  BY <1>11, <1>a DEF Optimistic!vars, OptimisticInv, OptimisticTypes, HeldInv, HoldsNode, LinksInv, KnowsInv, Knows,
                     SupplyInv, Inserting
<1> QED
  BY <1>1, <1>2, <1>3, <1>4, <1>5, <1>6, <1>7, <1>8, <1>9, <1>10, <1>11 DEF Optimistic!Next, Optimistic!Step

LEMMA OptimisticSafe == OptimisticInv => Optimistic!LocateCorrect
<1> SUFFICES ASSUME OptimisticInv PROVE Optimistic!LocateCorrect
  OBVIOUS
<1>1. \A t \in Thread : opred[t] \in Node /\ ocurr[t] \in Node
  BY DEF OptimisticInv, OptimisticTypes
<1> QED BY <1>1 DEF OptimisticInv, Optimistic!LocateCorrect, LinksInv, KnowsInv, Knows, HeldInv, HoldsNode

-----------------------------------------------------------------------------
(* The list that the head reaches.                                         *)

LEMMA LeastOf ==
  ASSUME NEW S, IsFiniteSet(S), S # {}, NEW v, \A m \in S : v[m] \in Int
  PROVE  \E n \in S : \A m \in S : v[n] <= v[m]
<1> DEFINE values2 == {v[m] : m \in S}
           graph == [m \in S |-> v[m]]
<1>1. graph \in Surjection(S, values2)
  BY DEF Surjection
<1>2. IsFiniteSet(values2) /\ values2 # {} /\ values2 \subseteq Int
  BY <1>1, FS_Surjection
<1>3. PICK d \in values2 : \A e \in values2 : d <= e
  BY <1>2, FiniteHasLeast
<1> QED BY <1>3

LEMMA GreatestOf ==
  ASSUME NEW S, IsFiniteSet(S), S # {}, NEW v, \A m \in S : v[m] \in Int
  PROVE  \E n \in S : \A m \in S : v[m] <= v[n]
<1> DEFINE values2 == {v[m] : m \in S}
           graph == [m \in S |-> v[m]]
<1>1. graph \in Surjection(S, values2)
  BY DEF Surjection
<1>2. IsFiniteSet(values2) /\ values2 # {} /\ values2 \subseteq Int
  BY <1>1, FS_Surjection
<1>3. PICK d \in values2 : \A e \in values2 : e <= d
  BY <1>2, FiniteHasGreatest
<1> QED BY <1>3

ClosedUnder(x) == {S \in SUBSET Node : Head \in S /\ \A n \in S \ {Last} : x[n] \in S}
Reached(x) == {n \in Node : \A S \in ClosedUnder(x) : n \in S}

(* A sorted list with both sentinels is what the head reaches: of the nodes*)
(* that a closed set misses the first has a predecessor, which it misses.  *)
LEMMA ReachedOrdered ==
  ASSUME NEW S \in SUBSET Node, NEW v, NEW x, Ordered(S, v, x), Head \in S, Last \in S,
         \A m \in S : v[m] \in Int /\ v[Head] <= v[m] /\ v[m] <= v[Last]
  PROVE  Reached(x) = S
<1>1. S \in ClosedUnder(x)
  BY DEF ClosedUnder, Ordered
<1>2. ASSUME NEW T \in ClosedUnder(x) PROVE S \subseteq T
  <2> SUFFICES ASSUME S \ T # {} PROVE FALSE
    OBVIOUS
  <2>1. IsFiniteSet(S) /\ IsFiniteSet(S \ T)
    BY FiniteAssumption, FS_Subset
  <2>2. PICK n \in S \ T : \A m \in S \ T : v[n] <= v[m]
    BY <2>1, LeastOf
  <2> DEFINE before == {m \in S : v[m] < v[n]}
  <2>3. Head \in before
    BY <2>2, <1>2 DEF Ordered, ClosedUnder
  <2>4. IsFiniteSet(before) /\ \A m \in before : v[m] \in Int
    BY <2>1, FS_Subset
  <2>5. PICK p \in before : \A m \in before : v[m] <= v[p]
    <3> HIDE DEF before
    <3> QED BY <2>3, <2>4, GreatestOf
  <2>6. p \in S \ {Last} /\ v[p] \in Int /\ v[n] \in Int /\ v[p] < v[n]
    BY <2>2
  <2>7. x[p] \in S /\ v[p] < v[x[p]] /\ v[x[p]] \in Int /\ (v[n] <= v[p] \/ v[x[p]] <= v[n])
    BY <2>2, <2>6 DEF Ordered
  <2>8. x[p] \notin before
    BY <2>5, <2>6, <2>7
  <2>9. v[x[p]] = v[n]
    BY <2>6, <2>7, <2>8
  <2>10. x[p] = n
    BY <2>2, <2>7, <2>9 DEF Ordered
  <2>11. p \in T
    BY <2>2, <2>6
  <2> QED BY <1>2, <2>2, <2>6, <2>10, <2>11 DEF ClosedUnder
<1> QED BY <1>1, <1>2 DEF Reached

LEMMA OptimisticListed == Optimistic!Listed = Reached(onext)
BY DEF Optimistic!Listed, Optimistic!Closed, Reached, ClosedUnder

(* What the clients of oplistset.c have to keep to.                        *)
OnlyGreatestRemoved == \A r \in RemoveElem2, e \in Optimistic!Elem : e <= r

(* The nodes that were removed are those of the greatest element.          *)
ListedInv ==
  /\ Ordered(Optimistic!Listed, oval, onext)
  /\ {Head, Last} \subseteq Optimistic!Listed
  /\ Optimistic!Listed \subseteq oalive
  /\ \A n \in oalive \ {Head, Last} : oval[n] \in Optimistic!Elem
  /\ \A n \in oalive \ Optimistic!Listed : oval[n] \in RemoveElem2

LEMMA BetweenSentinels ==
  ASSUME NEW e \in Optimistic!Elem \cup {Optimistic!Least, Optimistic!Greatest}
  PROVE  e \in Int /\ Optimistic!Least <= e /\ e <= Optimistic!Greatest
<1>1. Optimistic!Least \in Int /\ Optimistic!Greatest \in Int /\ Optimistic!Least < Optimistic!Greatest
  BY OptimisticValues
<1>2. CASE e \in Optimistic!Elem
  <2>1. e \in Int /\ Optimistic!Least < e /\ e < Optimistic!Greatest
    BY <1>2, OptimisticValues
  <2> QED BY <1>1, <2>1
<1> QED BY <1>1, <1>2

LEMMA ListedBounds ==
  ASSUME OptimisticInv, ListedInv, NEW n \in oalive
  PROVE  oval[n] \in Int /\ oval[Head] <= oval[n] /\ oval[n] <= oval[Last]
<1>1. oval[Head] = Optimistic!Least /\ oval[Last] = Optimistic!Greatest
  BY DEF OptimisticInv, LinksInv
<1>2. CASE n \in {Head, Last}
  BY <1>1, <1>2, OptimisticValues
<1>3. CASE n \notin {Head, Last}
  <2>1. oval[n] \in Optimistic!Elem
    BY <1>3 DEF ListedInv
  <2> QED BY <1>1, <2>1, BetweenSentinels
<1> QED BY <1>2, <1>3

(* A node before an element is in the list: it is not the greatest.        *)
LEMMA PredListed ==
  ASSUME OptimisticInv, ListedInv, OnlyGreatestRemoved, NEW t \in Thread, opc[t] # "out"
  PROVE  /\ opred[t] \in Optimistic!Listed \ {Last} /\ oop[t].key \in Optimistic!Elem /\ oop[t].key \in Int
         /\ oop[t].kind = "remove" => oop[t].key \in RemoveElem2
         /\ oop[t].kind \in {"add", "remove"}
<1>1. opred[t] \in oalive /\ oop[t] \in Optimistic!Operation /\ oval[opred[t]] < oop[t].key
  BY DEF OptimisticInv, KnowsInv, Knows
<1>2. /\ oop[t].key \in Optimistic!Elem /\ oop[t].key \in Int /\ oop[t].kind \in {"add", "remove"}
      /\ oop[t].kind = "remove" => oop[t].key \in RemoveElem2
  BY <1>1, OptimisticOperation DEF Optimistic!Operation
<1>3. oval[opred[t]] \in Int
  BY <1>1, ListedBounds
<1>4. opred[t] \in Optimistic!Listed
  <2> SUFFICES ASSUME opred[t] \notin Optimistic!Listed PROVE FALSE
    OBVIOUS
  <2>1. oval[opred[t]] \in RemoveElem2
    BY <1>1 DEF ListedInv
  <2>2. oop[t].key <= oval[opred[t]]
    BY <1>2, <2>1 DEF OnlyGreatestRemoved
  <2> QED BY <1>1, <1>2, <1>3, <2>2
<1>5. opred[t] # Last
  <2>1. oop[t].key < oval[Last]
    BY <1>1, OptimisticOperation DEF OptimisticInv, LinksInv
  <2> QED BY <1>1, <1>2, <1>3, <2>1
<1> QED BY <1>2, <1>4, <1>5

LEMMA ListedInit == Optimistic!Init => ListedInv
<1> SUFFICES ASSUME Optimistic!Init PROVE ListedInv
  OBVIOUS
<1> USE DEF Optimistic!Init
<1>1. Ordered({Head, Last}, oval, onext)
  BY OptimisticValues, SentinelAssumption DEF Ordered
<1>2. Reached(onext) = {Head, Last}
  <2>1. \A m \in {Head, Last} : oval[m] \in Int /\ oval[Head] <= oval[m] /\ oval[m] <= oval[Last]
    BY OptimisticValues, SentinelAssumption
  <2> QED BY <1>1, <2>1, SentinelAssumption, ReachedOrdered
<1> QED BY <1>1, <1>2, OptimisticListed DEF ListedInv

(* How the two steps that change the list do.                              *)
LEMMA ListedInsert ==
  ASSUME OptimisticInv, OptimisticInv', ListedInv, OnlyGreatestRemoved, NEW t \in Thread, Optimistic!Insert(t)
  PROVE  /\ ListedInv'
         /\ \E n : /\ n \notin Optimistic!Listed \cup {Head, Last} /\ oval'[n] = oop[t].key
                   /\ Optimistic!Listed' = Optimistic!Listed \cup {n}
                   /\ \A m \in Optimistic!Listed : oval'[m] = oval[m]
<1> DEFINE n == CHOOSE m \in Node : m \notin oalive
<1>a. OptimisticTypes /\ LinksInv /\ KnowsInv
  BY DEF OptimisticInv
<1>1. /\ oalive' = oalive \cup {n} /\ oval' = [oval EXCEPT ![n] = oop[t].key]
      /\ onext' = [onext EXCEPT ![n] = ocurr[t], ![opred[t]] = n]
      /\ opc[t] = "located" /\ oop[t].kind = "add" /\ oval[ocurr[t]] # oop[t].key
  BY DEF Optimistic!Insert, Optimistic!Present
<1>2. n \in Node /\ n \notin oalive
  <2>1. Cardinality(Inserting') \in Nat /\ Inserting' = Inserting \ {t} /\ t \in Inserting
    <3>1. Inserting' = Inserting \ {t} /\ t \in Inserting
      BY <1>a, <1>1 DEF Inserting, OptimisticTypes, Optimistic!Insert, Optimistic!Goto
    <3>2. IsFiniteSet(Inserting')
      BY FiniteAssumption, FS_Subset DEF Inserting
    <3> QED BY <3>1, <3>2, FS_CardinalityType
  <2>2. IsFiniteSet(Inserting) /\ Cardinality(Inserting) # 0
    BY <2>1, FiniteAssumption, FS_Subset, FS_EmptySet DEF Inserting
  <2>3. Node \ oalive # {}
    <3> SUFFICES ASSUME Node \ oalive = {} PROVE FALSE
      OBVIOUS
    <3>1. Cardinality(Node \ oalive) = 0
      BY FS_EmptySet
    <3> QED BY <2>2, <3>1, FS_CardinalityType DEF OptimisticInv, SupplyInv
  <2> QED BY <2>3
<1> HIDE DEF n
<1> DEFINE S == Optimistic!Listed
<1>3. /\ opred[t] \in S \ {Last} /\ ocurr[t] = onext[opred[t]] /\ ocurr[t] \in S
      /\ oval[opred[t]] < oop[t].key /\ oop[t].key < oval[ocurr[t]] /\ oop[t].key \in Int
  <2>1. opred[t] \in S \ {Last} /\ oop[t].key \in Int
    BY <1>1, PredListed
  <2>2. ocurr[t] = onext[opred[t]] /\ oval[opred[t]] < oop[t].key /\ oop[t].key <= oval[ocurr[t]]
    BY <1>a, <1>1 DEF KnowsInv, Knows
  <2>3. ocurr[t] \in S
    BY <2>1, <2>2 DEF ListedInv, Ordered
  <2>4. oval[ocurr[t]] \in Int
    BY <2>3, ListedBounds DEF ListedInv
  <2> QED BY <1>1, <2>1, <2>2, <2>3, <2>4
<1>4. n \notin S /\ n \notin {Head, Last} /\ S \subseteq Node /\ \A m \in S : m \in oalive /\ oval[m] \in Int
  BY <1>a, <1>2, ListedBounds DEF ListedInv, LinksInv, OptimisticTypes
<1>5. /\ \A m \in oalive : oval'[m] = oval[m] /\ (m # opred[t] => onext'[m] = onext[m])
      /\ oval'[n] = oop[t].key /\ onext'[n] = ocurr[t] /\ onext'[opred[t]] = n
  BY <1>a, <1>1, <1>2, <1>3, <1>4 DEF OptimisticTypes
<1>6. Ordered(S \cup {n}, oval', onext')
  <2>1. Ordered(S, oval, onext)
    BY DEF ListedInv
  <2>2. oval[opred[t]] < oop[t].key /\ oop[t].key < oval[onext[opred[t]]]
    BY <1>3
  <2>3. /\ \A m \in S : oval'[m] = oval[m]
        /\ \A m \in S : m # opred[t] => onext'[m] = onext[m]
        /\ onext'[n] = onext[opred[t]]
    BY <1>3, <1>4, <1>5
  <2> HIDE DEF S
  <2> QED BY <1>3, <1>4, <1>5, <2>1, <2>2, <2>3, OrderedInsert
<1>7. \A m \in oalive' \ {Head, Last} : oval'[m] \in Optimistic!Elem
  <2>1. oop[t].key \in Optimistic!Elem
    BY <1>1, PredListed
  <2> QED BY <1>1, <1>5, <2>1 DEF ListedInv
<1>8. Reached(onext') = S \cup {n}
  <2>1. \A m \in S \cup {n} : oval'[m] \in Int /\ oval'[Head] <= oval'[m] /\ oval'[m] <= oval'[Last]
    <3>1. oval'[Head] = Optimistic!Least /\ oval'[Last] = Optimistic!Greatest
      BY DEF OptimisticInv, LinksInv
    <3>2. ASSUME NEW m \in S \cup {n}
          PROVE  oval'[m] \in Optimistic!Elem \cup {Optimistic!Least, Optimistic!Greatest}
      BY <1>1, <1>4, <1>7, <3>1, <3>2
    <3> QED BY <3>1, <3>2, BetweenSentinels
  <2>2. Head \in S \cup {n} /\ Last \in S \cup {n} /\ S \cup {n} \in SUBSET Node
    BY <1>2, <1>4 DEF ListedInv
  <2> HIDE DEF S
  <2> QED BY <1>6, <2>1, <2>2, ReachedOrdered
<1>9. Optimistic!Listed' = S \cup {n}
  BY <1>8 DEF Optimistic!Listed, Optimistic!Closed, Reached, ClosedUnder
<1>10. \A m \in oalive' \ (S \cup {n}) : oval'[m] \in RemoveElem2
  BY <1>1, <1>5 DEF ListedInv
<1>11. ListedInv'
  <2>1. {Head, Last} \subseteq S \cup {n} /\ S \cup {n} \subseteq oalive'
    BY <1>1 DEF ListedInv
  <2> HIDE DEF S
  <2> QED BY <1>6, <1>7, <1>9, <1>10, <2>1 DEF ListedInv
<1> QED BY <1>4, <1>5, <1>9, <1>11

LEMMA ListedUnlink ==
  ASSUME OptimisticInv, OptimisticInv', ListedInv, OnlyGreatestRemoved, NEW t \in Thread, Optimistic!Unlink(t)
  PROVE  /\ ListedInv'
         /\ Optimistic!Listed' = Optimistic!Listed \ {ocurr[t]}
<1> USE DEF Optimistic!Unlink
<1>a. OptimisticTypes /\ LinksInv /\ KnowsInv
  BY DEF OptimisticInv
<1> DEFINE S == Optimistic!Listed
<1>1. /\ opred[t] \in S \ {Last} /\ oop[t].key \in RemoveElem2 /\ oop[t].key \in Optimistic!Elem
      /\ ocurr[t] = onext[opred[t]] /\ succ[t] = onext[ocurr[t]] /\ oval[ocurr[t]] = oop[t].key
  BY <1>a, PredListed DEF KnowsInv, Knows
<1>2. ocurr[t] \in S \ {Head, Last}
  <2>1. ocurr[t] \in S
    BY <1>1 DEF ListedInv, Ordered
  <2> QED BY <1>a, <1>1, <2>1, OptimisticValues DEF LinksInv
<1>3. S \subseteq Node /\ S \subseteq oalive /\ \A m \in S : oval[m] \in Int
  BY <1>a, ListedBounds DEF ListedInv, OptimisticTypes
<1>4. \A m \in S : onext'[m] = IF m = opred[t] THEN onext[onext[opred[t]]] ELSE onext[m]
  BY <1>a, <1>1, <1>3 DEF OptimisticTypes
<1>5. Ordered(S \ {ocurr[t]}, oval', onext')
  <2>1. Ordered(S, oval, onext)
    BY DEF ListedInv
  <2>2. onext[opred[t]] # Last /\ \A m \in S : oval[m] \in Int
    BY <1>1, <1>2, <1>3
  <2>3. /\ \A m \in S : m # opred[t] => onext'[m] = onext[m]
        /\ onext'[opred[t]] = onext[onext[opred[t]]]
    BY <1>1, <1>4
  <2> HIDE DEF S
  <2>4. Ordered(S \ {onext[opred[t]]}, oval, onext')
    BY <1>1, <2>1, <2>2, <2>3, OrderedRemove
  <2> QED BY <1>1, <2>4
<1>6. Reached(onext') = S \ {ocurr[t]}
  <2>1. \A m \in S : oval'[m] \in Int /\ oval'[Head] <= oval'[m] /\ oval'[m] <= oval'[Last]
    BY <1>3, ListedBounds
  <2>2. Head \in S \ {ocurr[t]} /\ Last \in S \ {ocurr[t]} /\ S \ {ocurr[t]} \in SUBSET Node
    BY <1>2, <1>3 DEF ListedInv
  <2> HIDE DEF S
  <2> QED BY <1>5, <2>1, <2>2, ReachedOrdered
<1>7. Optimistic!Listed' = S \ {ocurr[t]}
  BY <1>6 DEF Optimistic!Listed, Optimistic!Closed, Reached, ClosedUnder
<1>8. ListedInv'
  <2>1. {Head, Last} \subseteq S \ {ocurr[t]} /\ S \ {ocurr[t]} \subseteq oalive'
    BY <1>2 DEF ListedInv
  <2>2. \A m \in oalive' \ (S \ {ocurr[t]}) : oval'[m] \in RemoveElem2
    BY <1>1 DEF ListedInv
  <2>3. \A m \in oalive' \ {Head, Last} : oval'[m] \in Optimistic!Elem
    BY DEF ListedInv
  <2> HIDE DEF S
  <2> QED BY <1>5, <1>7, <2>1, <2>2, <2>3 DEF ListedInv
<1> QED BY <1>7, <1>8

LEMMA ListedNext ==
  ASSUME OptimisticInv, OptimisticInv', ListedInv, OnlyGreatestRemoved, [Optimistic!Next]_(Optimistic!vars)
  PROVE  ListedInv'
<1>1. ASSUME UNCHANGED <<oval, onext, oalive>> PROVE ListedInv'
  <2>1. Optimistic!Listed' = Optimistic!Listed
    BY <1>1 DEF Optimistic!Listed, Optimistic!Closed
  <2> QED BY <1>1, <2>1 DEF ListedInv
<1>2. ASSUME NEW t \in Thread, Optimistic!Insert(t) \/ Optimistic!Unlink(t) PROVE ListedInv'
  BY <1>2, ListedInsert, ListedUnlink
<1>3. ASSUME NEW t \in Thread, \/ \E o \in Optimistic!Operation : Optimistic!Call(t, o)
                               \/ Optimistic!Step(t) /\ ~Optimistic!Insert(t) /\ ~Optimistic!Unlink(t)
      PROVE  UNCHANGED <<oval, onext, oalive>>
  BY <1>3 DEF Optimistic!Call, Optimistic!Step, Optimistic!Search, Optimistic!AcquireFirst, Optimistic!AcquireSecond,
       Optimistic!Follow, Optimistic!Validated, Optimistic!LoadNext, Optimistic!Nothing, Optimistic!ReleasePred,
       Optimistic!ReleaseCurr, Optimistic!heap
<1>4. CASE UNCHANGED Optimistic!vars
  BY <1>1, <1>4 DEF Optimistic!vars, Optimistic!heap
<1> QED BY <1>1, <1>2, <1>3, <1>4 DEF Optimistic!Next

-----------------------------------------------------------------------------
(* The optimistic list implements the atomic set.                          *)

Elements == [e \in Optimistic!Elem |-> IF \E n \in Optimistic!Listed \ {Head, Last} : oval[n] = e THEN 1 ELSE 0]
Undecided == [t \in Thread |-> IF opc[t] \in {"out", "release", "releaseCurr"} THEN Optimistic!NoOp ELSE oop[t]]

(* What locate has found.                                                  *)
LEMMA OptimisticPresent ==
  ASSUME OptimisticInv, ListedInv, OnlyGreatestRemoved, NEW t \in Thread, opc[t] \in {"located", "unlink"}
  PROVE  /\ Elements[oop[t].key] = IF Optimistic!Present(t) THEN 1 ELSE 0
         /\ Optimistic!Present(t) => ocurr[t] \in Optimistic!Listed \ {Head, Last}
<1>1. /\ opred[t] \in Optimistic!Listed \ {Last} /\ oop[t].key \in Optimistic!Elem /\ oop[t].key \in Int
      /\ ocurr[t] = onext[opred[t]] /\ oval[opred[t]] < oop[t].key /\ oop[t].key <= oval[ocurr[t]]
  BY PredListed DEF OptimisticInv, KnowsInv, Knows
<1>2. ocurr[t] \in Optimistic!Listed
  BY <1>1 DEF ListedInv, Ordered
<1>3. \A n \in Optimistic!Listed : oval[n] \in Int
  BY ListedBounds DEF ListedInv
<1>4. \A n \in Optimistic!Listed : oval[n] <= oval[opred[t]] \/ oval[ocurr[t]] <= oval[n]
  BY <1>1 DEF ListedInv, Ordered
<1>5. CASE oval[ocurr[t]] = oop[t].key
  <2>1. ocurr[t] \notin {Head, Last}
    BY <1>1, <1>5, OptimisticValues DEF OptimisticInv, LinksInv
  <2> QED BY <1>1, <1>2, <1>5, <2>1 DEF Elements, Optimistic!Present
<1>6. CASE oval[ocurr[t]] # oop[t].key
  <2>1. ASSUME NEW n \in Optimistic!Listed PROVE oval[n] # oop[t].key
    BY <1>1, <1>2, <1>3, <1>4, <1>6
  <2> QED BY <1>1, <1>6, <2>1 DEF Elements, Optimistic!Present
<1> QED BY <1>5, <1>6

LEMMA OptimisticInitRefines == Optimistic!Init => Optimistic!Abstract!Init
<1> SUFFICES ASSUME Optimistic!Init PROVE Optimistic!Abstract!Init
  OBVIOUS
<1>1. {Head, Last} \in Optimistic!Closed
  BY SentinelAssumption DEF Optimistic!Init, Optimistic!Closed
<1>2. Optimistic!Listed \subseteq {Head, Last}
  BY <1>1 DEF Optimistic!Listed
<1> QED BY <1>2 DEF Optimistic!Init, Optimistic!Abstract!Init, Optimistic!NoOp, Optimistic!Abstract!NoOp

LEMMA OptimisticNextRefines ==
  ASSUME OnlyGreatestRemoved, OptimisticInv, OptimisticInv', ListedInv, [Optimistic!Next]_(Optimistic!vars)
  PROVE  [Optimistic!Abstract!Next]_(Optimistic!Abstract!vars)
<1> USE DEF Optimistic!Goto, Optimistic!heap
<1>a. OptimisticTypes /\ LinksInv /\ KnowsInv
  BY DEF OptimisticInv
<1>b. /\ Optimistic!Abstract!NoOp = Optimistic!NoOp /\ Optimistic!NoOp \notin Optimistic!Operation
      /\ Optimistic!Operation \subseteq Optimistic!Abstract!Op
  BY DEF Optimistic!Abstract!NoOp, Optimistic!NoOp, Optimistic!Operation, Optimistic!Abstract!Op, Optimistic!Elem
<1>c. ASSUME NEW t \in Thread, opc[t] \in {"located", "unlink"}, opc' = [opc EXCEPT ![t] = "release"], oop' = oop
      PROVE  /\ Undecided[t] = oop[t] /\ oop[t] # Optimistic!NoOp
             /\ Undecided' = [Undecided EXCEPT ![t] = Optimistic!NoOp]
             /\ oop[t].key \in Optimistic!Elem /\ oop[t].kind \in {"add", "remove"}
  <2>1. oop[t] \in Optimistic!Operation
    BY <1>a, <1>c DEF KnowsInv, Knows
  <2> QED BY <1>a, <1>b, <1>c, <2>1, OptimisticOperation DEF Undecided, OptimisticTypes
<1>d. ASSUME NEW t \in Thread, NEW r, NEW m, Undecided[t] = oop[t], oop[t] # Optimistic!NoOp,
             Undecided' = [Undecided EXCEPT ![t] = Optimistic!NoOp],
             Elements' = [Elements EXCEPT ![oop[t].key] = m], oret' = [oret EXCEPT ![t] = r],
             \/ oop[t].kind = "add" /\ m = 1 /\ r = 1 - Elements[oop[t].key]
             \/ oop[t].kind = "remove" /\ m = 0 /\ r = Elements[oop[t].key]
      PROVE  Optimistic!Abstract!Next
  <2>1. Optimistic!Abstract!Effect(t, Undecided[t])
    BY <1>d DEF Optimistic!Abstract!Effect, Optimistic!Abstract!Maps, Optimistic!Abstract!Returns, Elements
  <2>2. Undecided[t] # Optimistic!Abstract!NoOp /\ Undecided' = [Undecided EXCEPT ![t] = Optimistic!Abstract!NoOp]
    BY <1>b, <1>d
  <2>3. Optimistic!Abstract!TakeEffect(t)
    BY <2>1, <2>2 DEF Optimistic!Abstract!TakeEffect, Undecided
  <2> QED BY <2>3 DEF Optimistic!Abstract!Next
<1>e. ASSUME UNCHANGED <<oval, onext>> PROVE Elements' = Elements
  <2>1. Optimistic!Listed' = Optimistic!Listed
    BY <1>e DEF Optimistic!Listed, Optimistic!Closed
  <2> QED BY <1>e, <2>1 DEF Elements
<1>1. ASSUME NEW t \in Thread, NEW o \in Optimistic!Operation, Optimistic!Call(t, o) PROVE Optimistic!Abstract!Next
  <2> USE <1>1 DEF Optimistic!Call
  <2>1. Undecided[t] = Optimistic!NoOp /\ Undecided' = [Undecided EXCEPT ![t] = o]
    BY <1>a DEF Undecided, OptimisticTypes
  <2>2. Elements' = Elements
    BY <1>e
  <2>3. Optimistic!Abstract!Call(t, o)
    BY <1>b, <2>1, <2>2 DEF Optimistic!Abstract!Call, Undecided, Elements
  <2> QED BY <1>b, <2>3 DEF Optimistic!Abstract!Next
<1>2. ASSUME NEW t \in Thread, Optimistic!Insert(t) PROVE Optimistic!Abstract!Next
  <2>1. PICK n : /\ n \notin Optimistic!Listed \cup {Head, Last} /\ oval'[n] = oop[t].key
                 /\ Optimistic!Listed' = Optimistic!Listed \cup {n}
                 /\ \A m \in Optimistic!Listed : oval'[m] = oval[m]
    BY <1>2, ListedInsert
  <2>2. Elements' = [Elements EXCEPT ![oop[t].key] = 1]
    BY <2>1 DEF Elements
  <2>3. /\ opc[t] = "located" /\ oop[t].kind = "add" /\ ~Optimistic!Present(t)
        /\ opc' = [opc EXCEPT ![t] = "release"] /\ oop' = oop /\ oret' = [oret EXCEPT ![t] = 1]
    BY <1>2 DEF Optimistic!Insert
  <2>4. Elements[oop[t].key] = 0
    BY <2>3, OptimisticPresent
  <2>5. 1 = 1 - Elements[oop[t].key]
    BY <2>4
  <2> QED BY <1>c, <1>d, <2>2, <2>3, <2>5
<1>3. ASSUME NEW t \in Thread, Optimistic!Unlink(t) PROVE Optimistic!Abstract!Next
  <2>1. /\ opc[t] = "unlink" /\ oop[t].kind = "remove" /\ oval[ocurr[t]] = oop[t].key /\ oval' = oval
        /\ opc' = [opc EXCEPT ![t] = "release"] /\ oop' = oop /\ oret' = [oret EXCEPT ![t] = 1]
    BY <1>a, <1>3 DEF Optimistic!Unlink, KnowsInv, Knows
  <2>2. Optimistic!Present(t) /\ ocurr[t] \in Optimistic!Listed \ {Head, Last} /\ Elements[oop[t].key] = 1
    BY <2>1, OptimisticPresent DEF Optimistic!Present
  <2>3. Optimistic!Listed' = Optimistic!Listed \ {ocurr[t]}
    BY <1>3, ListedUnlink
  <2>4. \A n \in Optimistic!Listed : oval[n] = oop[t].key => n = ocurr[t]
    BY <2>1, <2>2 DEF ListedInv, Ordered
  <2>5. Elements' = [Elements EXCEPT ![oop[t].key] = 0]
    BY <2>1, <2>3, <2>4 DEF Elements
  <2> QED BY <1>c, <1>d, <2>1, <2>2, <2>5
<1>4. ASSUME NEW t \in Thread, Optimistic!Nothing(t) PROVE Optimistic!Abstract!Next
  <2>1. /\ opc[t] = "located" /\ (Optimistic!Present(t) <=> oop[t].kind = "add")
        /\ opc' = [opc EXCEPT ![t] = "release"] /\ oop' = oop /\ oret' = [oret EXCEPT ![t] = 0]
        /\ Elements' = Elements
    BY <1>4, <1>e DEF Optimistic!Nothing
  <2>2. Elements[oop[t].key] = IF oop[t].kind = "add" THEN 1 ELSE 0
    BY <2>1, OptimisticPresent
  <2>3. /\ Undecided[t] = oop[t] /\ oop[t] # Optimistic!NoOp
        /\ Undecided' = [Undecided EXCEPT ![t] = Optimistic!NoOp]
        /\ oop[t].key \in Optimistic!Elem /\ oop[t].kind \in {"add", "remove"}
    BY <1>c, <2>1
  <2>4. Elements' = [Elements EXCEPT ![oop[t].key] = Elements[oop[t].key]]
    BY <2>1, <2>3 DEF Elements
  <2>5. CASE oop[t].kind = "add"
    <3>1. Elements' = [Elements EXCEPT ![oop[t].key] = 1] /\ 0 = 1 - Elements[oop[t].key]
      BY <2>2, <2>4, <2>5
    <3> QED BY <1>d, <2>1, <2>3, <2>5, <3>1
  <2>6. CASE oop[t].kind = "remove"
    <3>1. Elements' = [Elements EXCEPT ![oop[t].key] = 0] /\ 0 = Elements[oop[t].key]
      BY <2>2, <2>4, <2>6
    <3> QED BY <1>d, <2>1, <2>3, <2>6, <3>1
  <2> QED BY <2>3, <2>5, <2>6
<1>5. ASSUME NEW t \in Thread, UNCHANGED <<oval, onext, oret>>, NEW l, opc' = opc \/ opc' = [opc EXCEPT ![t] = l],
             \/ opc[t] \notin {"out", "release", "releaseCurr"} /\ l \notin {"out", "release", "releaseCurr"}
                /\ oop' = oop
             \/ opc[t] \in {"release", "releaseCurr"} /\ l \in {"releaseCurr", "out"}
                /\ (oop' = oop \/ oop' = [oop EXCEPT ![t] = Optimistic!NoOp])
      PROVE  UNCHANGED Optimistic!Abstract!vars
  <2>1. Elements' = Elements
    BY <1>5, <1>e
  <2>2. Undecided' = Undecided
    BY <1>a, <1>5 DEF Undecided, OptimisticTypes
  <2> QED BY <1>5, <2>1, <2>2 DEF Optimistic!Abstract!vars, Elements, Undecided
<1>6. ASSUME NEW t \in Thread, \/ Optimistic!Search(t) \/ Optimistic!AcquireFirst(t) \/ Optimistic!AcquireSecond(t)
                               \/ Optimistic!Follow(t) \/ Optimistic!LoadNext(t)
      PROVE  UNCHANGED Optimistic!Abstract!vars
  BY <1>5, <1>6 DEF Optimistic!Search, Optimistic!AcquireFirst, Optimistic!AcquireSecond, Optimistic!Follow,
       Optimistic!LoadNext
<1>7. ASSUME NEW t \in Thread, Optimistic!Validated(t) PROVE UNCHANGED Optimistic!Abstract!vars
  BY <1>5, <1>7 DEF Optimistic!Validated
<1>8. ASSUME NEW t \in Thread, Optimistic!ReleasePred(t) PROVE UNCHANGED Optimistic!Abstract!vars
  BY <1>5, <1>8 DEF Optimistic!ReleasePred
<1>9. ASSUME NEW t \in Thread, Optimistic!ReleaseCurr(t) PROVE UNCHANGED Optimistic!Abstract!vars
  BY <1>5, <1>9 DEF Optimistic!ReleaseCurr
<1>10. CASE UNCHANGED Optimistic!vars
  BY <1>10 DEF Optimistic!vars, Optimistic!Abstract!vars, Optimistic!Listed, Optimistic!Closed
<1> QED
  BY <1>1, <1>2, <1>3, <1>4, <1>6, <1>7, <1>8, <1>9, <1>10 DEF Optimistic!Next, Optimistic!Step

-----------------------------------------------------------------------------
(* Together: what is true of the collection in use, and of the others as   *)
(* they were initialized.                                                  *)
CollectionsInv ==
  /\ program # "linsearch" => IInv
  /\ program # "hashtable" => LinearInv
  /\ CoupledInv
  /\ OptimisticInv
  /\ OnlyGreatestRemoved => ListedInv

LEMMA CollectionsInitInv == CollectionsInit => CollectionsInv
BY InitInv, LinearInit, CoupledInit, OptimisticInit, ListedInit DEF CollectionsInit, CollectionsInv

LEMMA CollectionsSteps ==
  ASSUME [CollectionsNext]_allVars
  PROVE  /\ program' = program
         /\ program = "hashtable" => [Next]_vars
         /\ program = "linsearch" => [Search!Next]_vars
         /\ program \notin {"hashtable", "linsearch"} => UNCHANGED vars
         /\ [Coupled!Next]_(Coupled!vars)
         /\ [Optimistic!Next]_(Optimistic!vars)
BY DEF CollectionsNext, allVars, InTable, InCoupled, InOptimistic, coupledVars, optimisticVars, Coupled!vars,
       Coupled!heap, Coupled!locals, Optimistic!vars, Optimistic!heap

LEMMA CollectionsNextInv == CollectionsInv /\ [CollectionsNext]_allVars => CollectionsInv'
<1> SUFFICES ASSUME CollectionsInv, [CollectionsNext]_allVars PROVE CollectionsInv'
  OBVIOUS
<1>1. CoupledInv' /\ OptimisticInv'
  BY CollectionsSteps, CoupledNext, OptimisticNext DEF CollectionsInv
<1>2. OnlyGreatestRemoved => ListedInv'
  BY <1>1, CollectionsSteps, ListedNext DEF CollectionsInv
<1>3. program # "linsearch" => IInv'
  BY CollectionsSteps, NextInv DEF CollectionsInv
<1>4. program # "hashtable" => LinearInv'
  BY CollectionsSteps, LinearNext DEF CollectionsInv
<1>5. program' = program
  BY CollectionsSteps
<1> QED BY <1>1, <1>2, <1>3, <1>4, <1>5 DEF CollectionsInv

LEMMA CollectionsSafety == CollectionsSpec => CollectionsInit /\ [][CollectionsNext]_allVars
BY PTL DEF CollectionsSpec

THEOREM CollectionsInvariance == CollectionsSpec => []CollectionsInv
BY CollectionsSafety, CollectionsInitInv, CollectionsNextInv, PTL

(* Searches end where they should, whatever other threads insert, remove   *)
(* and claim meanwhile: the lists stay sorted and locate returns two locked*)
(* neighbours (lock_coupling.c, oplistset.c), and the linear table has no  *)
(* free entry before one in use (faster_lockfree_linsearch.c).             *)
THEOREM SearchesStayRight == CollectionsSpec => []SearchesAreRight
<1>1. CollectionsInv => SearchesAreRight
  BY CoupledSafe, OptimisticSafe DEF CollectionsInv, SearchesAreRight, LinearInv
<1> QED BY <1>1, CollectionsInvariance, PTL

(* A key has one entry, in the hash table and in the linear one.           *)
THEOREM CollectionsUnique == CollectionsSpec => []NoDuplicateKeys
<1>1. CollectionsInv => NoDuplicateKeys
  BY InvUnique, LinearUnique DEF CollectionsInv
<1> QED BY <1>1, CollectionsInvariance, PTL

(* The maps of hashtable_atomic.c and faster_lockfree_linsearch.c are      *)
(* linearizable.                                                           *)
THEOREM MapsLinearizable == CollectionsSpec => ImplementsMap
<1>1. CollectionsInit => Atomic!Init
  BY InitRefines DEF CollectionsInit
<1>2. CollectionsInv /\ CollectionsInv' /\ [CollectionsNext]_allVars => [Atomic!Next]_(Atomic!vars)
  <2> SUFFICES ASSUME CollectionsInv, CollectionsInv', [CollectionsNext]_allVars
               PROVE  [Atomic!Next]_(Atomic!vars)
    OBVIOUS
  <2>1. CASE program = "hashtable"
    BY <2>1, CollectionsSteps, NextRefines DEF CollectionsInv
  <2>2. CASE program = "linsearch"
    BY <2>2, CollectionsSteps, LinearRefines DEF CollectionsInv
  <2>3. CASE program \notin {"hashtable", "linsearch"}
    <3>1. UNCHANGED vars
      BY <2>3, CollectionsSteps
    <3> QED BY <3>1 DEF vars, Atomic!vars, Map
  <2> QED BY <2>1, <2>2, <2>3
<1> QED BY <1>1, <1>2, CollectionsSafety, CollectionsInvariance, PTL DEF ImplementsMap, Atomic!Spec

(* The sets of lock_coupling.c and oplistset.c are linearizable, the latter*)
(* while its clients remove none but the greatest element.                 *)
THEOREM SetsLinearizable == OnlyGreatestRemoved => (CollectionsSpec => ImplementsSet)
<1> SUFFICES ASSUME OnlyGreatestRemoved PROVE CollectionsSpec => ImplementsSet
  OBVIOUS
<1>1. CollectionsInit => Coupled!Abstract!Init /\ Optimistic!Abstract!Init
  BY CoupledInitRefines, OptimisticInitRefines DEF CollectionsInit
<1>2. CollectionsInv /\ CollectionsInv' /\ [CollectionsNext]_allVars
        => [Coupled!Abstract!Next]_(Coupled!Abstract!vars)
  BY CollectionsSteps, CoupledNextRefines DEF CollectionsInv
<1>3. CollectionsInv /\ CollectionsInv' /\ [CollectionsNext]_allVars
        => [Optimistic!Abstract!Next]_(Optimistic!Abstract!vars)
  BY CollectionsSteps, OptimisticNextRefines DEF CollectionsInv
<1> QED BY <1>1, <1>2, <1>3, CollectionsSafety, CollectionsInvariance, PTL
        DEF ImplementsSet, Coupled!ImplementsSet, Optimistic!ImplementsSet, Coupled!Abstract!Spec, Optimistic!Abstract!Spec
=============================================================================
