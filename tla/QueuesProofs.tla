---------------------------- MODULE QueuesProofs ----------------------------
(***************************************************************************)
(* Proofs about the queues.  conc_queue.c, for any threads, items and      *)
(* size: no wakeup is lost, and the queue is a bounded FIFO queue; its     *)
(* client queue_ex.c, for any number of threads and calls, and the linked  *)
(* queues, for any elements: QueuesHold.  And about malloc.c, for any word *)
(* size, bins, pages and requests: it implements Allocator.                *)
(***************************************************************************)
EXTENDS MCQueues, FiniteSetTheorems, SequenceTheorems, WellFoundedInduction, TLAPS

InCS(t) == pc[t] \in {"test", "transfer", "signal", "release"}

(* Whoever is between acquire and release holds the lock.                  *)
LockInv == \A t \in Thread : InCS(t) => lock = {t}

(* The waiters of each condition variable are those that sleep in a call   *)
(* of its kind.                                                            *)
WaitInv ==
  \A t \in Thread :
    /\ t \in addc <=> pc[t] = "wait" /\ op[t].kind = "add"
    /\ t \in remc <=> pc[t] = "wait" /\ op[t].kind = "remove"
    /\ pc[t] = "out" <=> op[t] = NoOp

(* Past its test a thread knows the length, and that it can go on.         *)
LenInv ==
  \A t \in Thread : pc[t] = "transfer" =>
    /\ len[t] = length
    /\ op[t].kind = "add" => length < SIZE
    /\ op[t].kind # "add" => length > 0

(* The items are in the slots from head to tail.                           *)
RingInv == tail = IF head + length < SIZE THEN head + length ELSE head + length - SIZE

IInv == TypeOK /\ LockInv /\ WaitInv /\ LenInv /\ RingInv

LEMMA OperationIs ==
  \A o \in Operation \cup {NoOp} :
    /\ o.kind \in {"add", "remove", "tryremove", "none"}
    /\ o.kind = "add" => o.item \in Item
    /\ o.kind = "none" <=> o = NoOp
    /\ o \in Operation <=> o # NoOp
  BY DEF Operation, AddOp, RemoveOp, TryOp, NoOp

(* q_new gives the invariant.                                              *)
LEMMA InitInv == Init => IInv
  BY SizeAssumption, SpuriousAssumption
  DEF Init, IInv, TypeOK, LockInv, WaitInv, LenInv, RingInv, InCS, Slot, NoOp

(* Every step keeps it.                                                    *)
LEMMA NextInv == IInv /\ [Next]_vars => IInv'
<1> SUFFICES ASSUME IInv, [Next]_vars PROVE IInv'
  OBVIOUS
<1> USE SizeAssumption, SpuriousAssumption, OperationIs
    DEF IInv, TypeOK, queue, conds
<1>1. ASSUME NEW t \in Thread, NEW o \in Operation, Call(t, o) PROVE IInv'
  <2> USE <1>1 DEF Call, Goto
  <2>1. TypeOK' /\ RingInv'
    BY DEF RingInv
  <2>2. LockInv' /\ LenInv'
    BY DEF LockInv, LenInv, InCS
  <2>3. WaitInv'
    BY DEF WaitInv
  <2> QED BY <2>1, <2>2, <2>3
<1>2. ASSUME NEW t \in Thread, Acquire(t) PROVE IInv'
  <2> USE <1>2 DEF Acquire, Goto
  <2>1. TypeOK' /\ RingInv'
    BY DEF RingInv
  <2>2. LockInv' /\ LenInv'
    BY DEF LockInv, LenInv, InCS
  <2>3. WaitInv'
    BY DEF WaitInv
  <2> QED BY <2>1, <2>2, <2>3
<1>3. ASSUME NEW t \in Thread, Wait(t) PROVE IInv'
  <2> USE <1>3 DEF Wait, Goto, MustWait
  <2>1. TypeOK' /\ RingInv'
    BY DEF RingInv
  <2>2. LockInv' /\ LenInv'
    BY DEF LockInv, LenInv, InCS
  <2>3. WaitInv'
    BY DEF WaitInv
  <2> QED BY <2>1, <2>2, <2>3
<1>4. ASSUME NEW t \in Thread, Proceed(t) PROVE IInv'
  <2> USE <1>4 DEF Proceed, Goto, MustWait
  <2>1. TypeOK' /\ RingInv'
    BY DEF RingInv
  <2>2. LockInv' /\ LenInv'
    BY DEF LockInv, LenInv, InCS, WaitInv
  <2>3. WaitInv'
    BY DEF WaitInv
  <2> QED BY <2>1, <2>2, <2>3
<1>5. ASSUME NEW t \in Thread, Put(t, op[t].item) PROVE IInv'
  <2> USE <1>5 DEF Put, Goto
  <2>1. length < SIZE /\ len[t] = length
    BY DEF LenInv
  <2>2. NextSlot(tail) \in Slot
    BY DEF NextSlot, Slot
  <2>3. TypeOK'
    BY <2>1, <2>2
  <2>4. RingInv'
    BY <2>1 DEF RingInv, NextSlot, Slot
  <2>5. LockInv' /\ LenInv'
    BY DEF LockInv, LenInv, InCS
  <2>6. WaitInv'
    BY DEF WaitInv
  <2> QED BY <2>3, <2>4, <2>5, <2>6
<1>6. ASSUME NEW t \in Thread, Take(t) PROVE IInv'
  <2> USE <1>6 DEF Take, Goto
  <2>1. length > 0 /\ len[t] = length
    BY DEF LenInv
  <2>2. NextSlot(head) \in Slot
    BY DEF NextSlot, Slot
  <2>3. TypeOK'
    BY <2>1, <2>2 DEF Taken
  <2>4. RingInv'
    BY <2>1 DEF RingInv, NextSlot, Slot
  <2>5. LockInv' /\ LenInv'
    BY DEF LockInv, LenInv, InCS
  <2>6. WaitInv'
    BY DEF WaitInv
  <2> QED BY <2>3, <2>4, <2>5, <2>6
<1>7. ASSUME NEW t \in Thread, Signal(t) PROVE IInv'
  <2> USE <1>7 DEF Signal, Goto
  <2>1. CASE Signalled(t) = {}
    <3>1. TypeOK' /\ RingInv'
      BY <2>1 DEF RingInv
    <3>2. LockInv' /\ LenInv'
      BY <2>1 DEF LockInv, LenInv, InCS
    <3>3. WaitInv'
      BY <2>1 DEF WaitInv
    <3> QED BY <3>1, <3>2, <3>3
  <2>2. CASE Signalled(t) # {}
    <3> PICK w \in Signalled(t) :
          /\ addc' = addc \ {w}
          /\ remc' = remc \ {w}
          /\ pc' = [pc EXCEPT ![t] = "release", ![w] = "acquire"]
      BY <2>2
    <3>1. w \in Thread /\ pc[w] = "wait"
      BY DEF Signalled, WaitInv
    <3>2. TypeOK' /\ RingInv'
      BY <2>2, <3>1 DEF RingInv
    <3>3. LockInv' /\ LenInv'
      BY <2>2, <3>1 DEF LockInv, LenInv, InCS
    <3>4. WaitInv'
      BY <2>2, <3>1 DEF WaitInv
    <3> QED BY <3>2, <3>3, <3>4
  <2> QED BY <2>1, <2>2
<1>8. ASSUME NEW t \in Thread, Release(t) PROVE IInv'
  <2> USE <1>8 DEF Release, Goto
  <2>1. TypeOK' /\ RingInv'
    BY DEF RingInv
  <2>2. LockInv' /\ LenInv'
    BY DEF LockInv, LenInv, InCS
  <2>3. WaitInv'
    BY DEF WaitInv, NoOp
  <2> QED BY <2>1, <2>2, <2>3
<1>9. ASSUME NEW w \in Thread, WakeSpuriously(w) PROVE IInv'
  <2> USE <1>9 DEF WakeSpuriously, Goto
  <2>1. TypeOK' /\ RingInv'
    BY DEF RingInv
  <2>2. LockInv' /\ LenInv'
    BY DEF LockInv, LenInv, InCS
  <2>3. WaitInv'
    BY DEF WaitInv
  <2> QED BY <2>1, <2>2, <2>3
<1>10. CASE UNCHANGED vars
  BY <1>10 DEF vars, LockInv, WaitInv, LenInv, RingInv, InCS
<1> QED
  BY <1>1, <1>2, <1>3, <1>4, <1>5, <1>6, <1>7, <1>8, <1>9, <1>10 DEF Next, InLock

(* The invariant holds in every behaviour.                                 *)
THEOREM Invariance == Spec => []IInv
  BY InitInv, NextInv, PTL DEF Spec

(* The variables have their types; in particular the length stays in the   *)
(* bounds of the buffer.                                                   *)
THEOREM TypeCorrect == Spec => []TypeOK
  BY Invariance, PTL DEF IInv

-----------------------------------------------------------------------------
(* No wakeup is lost: every step that adds an item, or takes a thread away *)
(* from those who will come for one, makes up for it.                      *)

LEMMA FiniteSets == IsFiniteSet(ForItem) /\ IsFiniteSet(ForRoom)
  BY ThreadAssumption, FS_Subset DEF ForItem, ForRoom

(* How the size of a set changes with its elements.                        *)
LEMMA Sizes ==
  ASSUME NEW S, IsFiniteSet(S), NEW T, IsFiniteSet(T)
  PROVE  /\ Cardinality(S) \in Nat /\ Cardinality(T) \in Nat
         /\ S \subseteq T => Cardinality(S) <= Cardinality(T)
         /\ \A x : x \notin S /\ S \cup {x} \subseteq T =>
              Cardinality(S) + 1 <= Cardinality(T)
         /\ \A x : S \subseteq T \cup {x} => Cardinality(S) <= Cardinality(T) + 1
         /\ \A x, y : y \in T \ S /\ S \subseteq T \cup {x} => Cardinality(S) <= Cardinality(T)
<1>1. Cardinality(S) \in Nat /\ Cardinality(T) \in Nat
  BY FS_CardinalityType
<1>2. S \subseteq T => Cardinality(S) <= Cardinality(T)
  BY FS_Subset
<1>3. ASSUME NEW x, x \notin S, S \cup {x} \subseteq T
      PROVE  Cardinality(S) + 1 <= Cardinality(T)
  <2>1. Cardinality(S \cup {x}) = Cardinality(S) + 1 /\ IsFiniteSet(S \cup {x})
    BY <1>3, FS_AddElement
  <2>2. Cardinality(S \cup {x}) <= Cardinality(T)
    BY <1>3, FS_Subset
  <2> QED BY <2>1, <2>2
<1>4. ASSUME NEW x, S \subseteq T \cup {x} PROVE Cardinality(S) <= Cardinality(T) + 1
  <2>1. /\ IsFiniteSet(T \cup {x})
        /\ Cardinality(T \cup {x}) = IF x \in T THEN Cardinality(T) ELSE Cardinality(T) + 1
    BY FS_AddElement
  <2>2. Cardinality(S) <= Cardinality(T \cup {x})
    BY <1>4, <2>1, FS_Subset
  <2>3. Cardinality(T \cup {x}) \in Nat
    BY <2>1, FS_CardinalityType
  <2> QED BY <1>1, <2>1, <2>2, <2>3
<1>5. ASSUME NEW x, NEW y, y \in T \ S, S \subseteq T \cup {x}
      PROVE  Cardinality(S) <= Cardinality(T)
  <2>1. S \subseteq (T \ {y}) \cup {x}
    BY <1>5
  <2>2. IsFiniteSet(T \ {y}) /\ Cardinality(T \ {y}) = Cardinality(T) - 1
    BY <1>5, FS_RemoveElement
  <2>3. /\ IsFiniteSet((T \ {y}) \cup {x})
        /\ Cardinality((T \ {y}) \cup {x}) =
             IF x \in T \ {y} THEN Cardinality(T \ {y}) ELSE Cardinality(T \ {y}) + 1
    BY <2>2, FS_AddElement
  <2>4. Cardinality(S) <= Cardinality((T \ {y}) \cup {x})
    BY <2>1, <2>3, FS_Subset
  <2> QED BY <1>1, <2>2, <2>3, <2>4
<1> QED BY <1>1, <1>2, <1>3, <1>4, <1>5

(* q_new: nobody sleeps.                                                   *)
LEMMA InitWakeup == Init => NoLostWakeup
  BY DEF Init, NoLostWakeup

LEMMA NextWakeup == IInv /\ IInv' /\ NoLostWakeup /\ [Next]_vars => NoLostWakeup'
<1> SUFFICES ASSUME IInv, IInv', NoLostWakeup, [Next]_vars PROVE NoLostWakeup'
  OBVIOUS
<1> DEFINE I == ForItem
           R == ForRoom
           I1 == ForItem'
           R1 == ForRoom'
<1>f. IsFiniteSet(I) /\ IsFiniteSet(R) /\ IsFiniteSet(I1) /\ IsFiniteSet(R1)
  <2>1. (IsFiniteSet(ForItem) /\ IsFiniteSet(ForRoom))'
    BY FiniteSets, PTL
  <2> QED BY <2>1, FiniteSets
<1>t. length \in 0 .. SIZE /\ length' \in 0 .. SIZE /\ SIZE \in Nat
  BY SizeAssumption DEF IInv, TypeOK
<1> USE DEF queue, conds, Awake
(* A step that leaves length alone, wakes or puts to sleep nobody and      *)
(* takes nobody away.                                                      *)
<1>q. ASSUME length' = length, remc' \subseteq remc, addc' \subseteq addc,
             I \subseteq I1, R \subseteq R1
      PROVE  NoLostWakeup'
  <2> HIDE DEF I, R, I1, R1
  <2>1. Cardinality(I) <= Cardinality(I1) /\ Cardinality(R) <= Cardinality(R1)
    BY <1>q, <1>f, Sizes
  <2>2. /\ Cardinality(I) \in Nat /\ Cardinality(I1) \in Nat
        /\ Cardinality(R) \in Nat /\ Cardinality(R1) \in Nat
    BY <1>f, FS_CardinalityType
  <2>3. remc # {} => length <= Cardinality(I)
    BY DEF I, NoLostWakeup
  <2>4. addc # {} => SIZE - length <= Cardinality(R)
    BY DEF R, NoLostWakeup
  <2>5. remc' # {} => length' <= Cardinality(I1)
    BY <1>q, <1>t, <2>1, <2>2, <2>3
  <2>6. addc' # {} => SIZE - length' <= Cardinality(R1)
    BY <1>q, <1>t, <2>1, <2>2, <2>4
  <2> QED BY <2>5, <2>6 DEF I1, R1, NoLostWakeup
<1>1. ASSUME NEW t \in Thread, NEW o \in Operation, Call(t, o) PROVE NoLostWakeup'
  <2>1. I \subseteq I1 /\ R \subseteq R1
    BY <1>1 DEF Call, Goto, ForItem, ForRoom, IInv, TypeOK
  <2> QED BY <1>1, <1>q, <2>1 DEF Call
<1>2. ASSUME NEW t \in Thread, Acquire(t) PROVE NoLostWakeup'
  <2>1. I \subseteq I1 /\ R \subseteq R1
    BY <1>2 DEF Acquire, Goto, ForItem, ForRoom, IInv, TypeOK
  <2> QED BY <1>2, <1>q, <2>1 DEF Acquire
<1>4. ASSUME NEW t \in Thread, Proceed(t) PROVE NoLostWakeup'
  <2>1. I \subseteq I1 /\ R \subseteq R1
    BY <1>4 DEF Proceed, Goto, ForItem, ForRoom, IInv, TypeOK
  <2> QED BY <1>4, <1>q, <2>1 DEF Proceed
<1>8. ASSUME NEW t \in Thread, Release(t) PROVE NoLostWakeup'
  <2>1. I \subseteq I1 /\ R \subseteq R1
    BY <1>8 DEF Release, Goto, ForItem, ForRoom, IInv, TypeOK
  <2> QED BY <1>8, <1>q, <2>1 DEF Release
<1>9. ASSUME NEW t \in Thread, WakeSpuriously(t) PROVE NoLostWakeup'
  <2>1. I \subseteq I1 /\ R \subseteq R1
    BY <1>9 DEF WakeSpuriously, Goto, ForItem, ForRoom, IInv, TypeOK, WaitInv
  <2> QED BY <1>9, <1>q, <2>1 DEF WakeSpuriously
<1>10. CASE UNCHANGED vars
  BY <1>10, <1>q DEF vars, ForItem, ForRoom
(* Whoever goes to sleep in q_remove has found no item, in q_add no room.  *)
<1>3. ASSUME NEW t \in Thread, Wait(t) PROVE NoLostWakeup'
  <2>0. Cardinality(I1) \in Nat /\ Cardinality(R1) \in Nat
    BY <1>f, FS_CardinalityType
  <2>1. CASE op[t].kind = "remove"
    <3>1. length' = 0 /\ addc' = addc /\ length = 0
      BY <1>3, <2>1 DEF Wait, MustWait
    <3>2. R \subseteq R1
      BY <1>3, <2>1 DEF Wait, Goto, ForRoom, IInv, TypeOK
    <3>3. Cardinality(R) <= Cardinality(R1) /\ Cardinality(R) \in Nat
      BY <1>f, <3>2, Sizes
    <3>4. addc # {} => SIZE - length <= Cardinality(R)
      BY DEF NoLostWakeup
    <3>5. addc' # {} => SIZE - length' <= Cardinality(R1)
      BY <1>t, <2>0, <3>1, <3>3, <3>4
    <3> QED BY <2>0, <3>1, <3>5 DEF NoLostWakeup
  <2>2. CASE op[t].kind = "add"
    <3>1. length' = SIZE /\ remc' = remc /\ length = SIZE
      BY <1>3, <1>t, <2>2 DEF Wait, MustWait
    <3>2. I \subseteq I1
      BY <1>3, <2>2 DEF Wait, Goto, ForItem, IInv, TypeOK
    <3>3. Cardinality(I) <= Cardinality(I1) /\ Cardinality(I) \in Nat
      BY <1>f, <3>2, Sizes
    <3>4. remc # {} => length <= Cardinality(I)
      BY DEF NoLostWakeup
    <3>5. remc' # {} => length' <= Cardinality(I1)
      BY <1>t, <2>0, <3>1, <3>3, <3>4
    <3> QED BY <1>t, <2>0, <3>1, <3>5 DEF NoLostWakeup
  <2> QED BY <1>3, <2>1, <2>2 DEF Wait, MustWait
(* An add brings an item, and will signal it; it needs its room no more.   *)
<1>5. ASSUME NEW t \in Thread, Put(t, op[t].item) PROVE NoLostWakeup'
  <2>0. length' = length + 1 /\ remc' = remc /\ addc' = addc
    BY <1>5 DEF Put, IInv, LenInv
  <2>1. t \notin I /\ I \cup {t} \subseteq I1
    BY <1>5 DEF Put, Goto, ForItem, IInv, TypeOK
  <2>2. R \subseteq R1 \cup {t}
    BY <1>5 DEF Put, Goto, ForRoom, IInv, TypeOK
  <2> HIDE DEF I, R, I1, R1
  <2>3. Cardinality(I) + 1 <= Cardinality(I1) /\ Cardinality(R) <= Cardinality(R1) + 1
    BY <1>f, <2>1, <2>2, Sizes
  <2>4. /\ Cardinality(I) \in Nat /\ Cardinality(I1) \in Nat
        /\ Cardinality(R) \in Nat /\ Cardinality(R1) \in Nat
    BY <1>f, FS_CardinalityType
  <2>5. /\ remc # {} => length <= Cardinality(I)
        /\ addc # {} => SIZE - length <= Cardinality(R)
    BY DEF I, R, NoLostWakeup
  <2>6. /\ remc' # {} => length' <= Cardinality(I1)
        /\ addc' # {} => SIZE - length' <= Cardinality(R1)
    BY <1>t, <2>0, <2>3, <2>4, <2>5
  <2> QED BY <2>6 DEF I1, R1, NoLostWakeup
(* A removal is its mirror image; a tryremove was not counted on.          *)
<1>6. ASSUME NEW t \in Thread, Take(t) PROVE NoLostWakeup'
  <2>0. length' = length - 1 /\ remc' = remc /\ addc' = addc
    BY <1>6 DEF Take, IInv, LenInv
  <2>1. I \subseteq I1 \cup {t}
    BY <1>6 DEF Take, Goto, ForItem, IInv, TypeOK
  <2>2. t \notin R /\ R \cup {t} \subseteq R1
    <3>1. op[t].kind \in {"remove", "tryremove"}
      BY <1>6, OperationIs DEF Take, IInv, TypeOK, WaitInv
    <3> QED BY <1>6, <3>1 DEF Take, Goto, ForRoom, IInv, TypeOK
  <2> HIDE DEF I, R, I1, R1
  <2>3. Cardinality(R) + 1 <= Cardinality(R1) /\ Cardinality(I) <= Cardinality(I1) + 1
    BY <1>f, <2>1, <2>2, Sizes
  <2>4. /\ Cardinality(I) \in Nat /\ Cardinality(I1) \in Nat
        /\ Cardinality(R) \in Nat /\ Cardinality(R1) \in Nat
    BY <1>f, FS_CardinalityType
  <2>5. /\ remc # {} => length <= Cardinality(I)
        /\ addc # {} => SIZE - length <= Cardinality(R)
    BY DEF I, R, NoLostWakeup
  <2>6. /\ remc' # {} => length' <= Cardinality(I1)
        /\ addc' # {} => SIZE - length' <= Cardinality(R1)
    BY <1>t, <2>0, <2>3, <2>4, <2>5
  <2> QED BY <2>6 DEF I1, R1, NoLostWakeup
(* A signal passes the task on to the thread it wakes; if it wakes nobody, *)
(* nobody sleeps there.                                                    *)
<1>7. ASSUME NEW t \in Thread, Signal(t) PROVE NoLostWakeup'
  <2>0. length' = length
    BY <1>7 DEF Signal
  <2>k. op[t].kind \in {"add", "remove", "tryremove"}
    BY <1>7, OperationIs DEF Signal, IInv, TypeOK, WaitInv
  <2>1. CASE Signalled(t) = {}
    <3>1. remc' = remc /\ addc' = addc
      BY <1>7, <2>1 DEF Signal
    <3>2. CASE op[t].kind = "add"
      <4>1. remc' = {}
        BY <2>1, <3>1, <3>2 DEF Signalled
      <4>2. R \subseteq R1
        BY <1>7, <2>1, <3>2 DEF Signal, Goto, ForRoom, IInv, TypeOK
      <4>3. Cardinality(R) <= Cardinality(R1) /\ Cardinality(R) \in Nat /\ Cardinality(R1) \in Nat
        BY <1>f, <4>2, Sizes
      <4>4. addc # {} => SIZE - length <= Cardinality(R)
        BY DEF NoLostWakeup
      <4>5. addc' # {} => SIZE - length' <= Cardinality(R1)
        BY <1>t, <2>0, <3>1, <4>3, <4>4
      <4> QED BY <4>1, <4>5 DEF NoLostWakeup
    <3>3. CASE op[t].kind # "add"
      <4>1. addc' = {}
        BY <2>1, <3>1, <3>3 DEF Signalled
      <4>2. I \subseteq I1
        BY <1>7, <2>1, <3>3 DEF Signal, Goto, ForItem, IInv, TypeOK
      <4>3. Cardinality(I) <= Cardinality(I1) /\ Cardinality(I) \in Nat /\ Cardinality(I1) \in Nat
        BY <1>f, <4>2, Sizes
      <4>4. remc # {} => length <= Cardinality(I)
        BY DEF NoLostWakeup
      <4>5. remc' # {} => length' <= Cardinality(I1)
        BY <1>t, <2>0, <3>1, <4>3, <4>4
      <4> QED BY <4>1, <4>5 DEF NoLostWakeup
    <3> QED BY <3>2, <3>3
  <2>2. CASE Signalled(t) # {}
    <3> PICK w \in Signalled(t) :
          /\ addc' = addc \ {w}
          /\ remc' = remc \ {w}
          /\ pc' = [pc EXCEPT ![t] = "release", ![w] = "acquire"]
      BY <1>7, <2>2 DEF Signal
    <3>1. /\ w \in Thread /\ pc[w] = "wait" /\ pc[t] = "signal" /\ w # t
          /\ op' = op
      BY <1>7 DEF Signal, Signalled, IInv, WaitInv, TypeOK
    <3>2. CASE op[t].kind = "add"
      <4>1. op[w].kind = "remove"
        BY <3>1, <3>2 DEF Signalled, IInv, WaitInv
      <4>2. w \in I1 \ I /\ I \subseteq I1 \cup {t} /\ R \subseteq R1
        BY <3>1, <3>2, <4>1 DEF ForItem, ForRoom, IInv, TypeOK
      <4> HIDE DEF I, R, I1, R1
      <4>3. Cardinality(I) <= Cardinality(I1) /\ Cardinality(R) <= Cardinality(R1)
        BY <1>f, <4>2, Sizes
      <4>4. /\ Cardinality(I) \in Nat /\ Cardinality(I1) \in Nat
            /\ Cardinality(R) \in Nat /\ Cardinality(R1) \in Nat
        BY <1>f, FS_CardinalityType
      <4>5. /\ remc # {} => length <= Cardinality(I)
            /\ addc # {} => SIZE - length <= Cardinality(R)
        BY DEF I, R, NoLostWakeup
      <4>6. /\ remc' # {} => length' <= Cardinality(I1)
            /\ addc' # {} => SIZE - length' <= Cardinality(R1)
        BY <1>t, <2>0, <4>3, <4>4, <4>5
      <4> QED BY <4>6 DEF I1, R1, NoLostWakeup
    <3>3. CASE op[t].kind # "add"
      <4>1. op[w].kind = "add"
        BY <3>1, <3>3 DEF Signalled, IInv, WaitInv
      <4>2. w \in R1 \ R /\ R \subseteq R1 \cup {t} /\ I \subseteq I1
        BY <3>1, <3>3, <4>1 DEF ForItem, ForRoom, IInv, TypeOK
      <4> HIDE DEF I, R, I1, R1
      <4>3. Cardinality(I) <= Cardinality(I1) /\ Cardinality(R) <= Cardinality(R1)
        BY <1>f, <4>2, Sizes
      <4>4. /\ Cardinality(I) \in Nat /\ Cardinality(I1) \in Nat
            /\ Cardinality(R) \in Nat /\ Cardinality(R1) \in Nat
        BY <1>f, FS_CardinalityType
      <4>5. /\ remc # {} => length <= Cardinality(I)
            /\ addc # {} => SIZE - length <= Cardinality(R)
        BY DEF I, R, NoLostWakeup
      <4>6. /\ remc' # {} => length' <= Cardinality(I1)
            /\ addc' # {} => SIZE - length' <= Cardinality(R1)
        BY <1>t, <2>0, <4>3, <4>4, <4>5
      <4> QED BY <4>6 DEF I1, R1, NoLostWakeup
    <3> QED BY <3>2, <3>3
  <2> QED BY <2>1, <2>2
<1> QED
  BY <1>1, <1>2, <1>3, <1>4, <1>5, <1>6, <1>7, <1>8, <1>9, <1>10 DEF Next, InLock

(* No wakeup is lost, for any number of threads and any size.              *)
THEOREM WakeupsArrive == Spec => []NoLostWakeup
  BY InitWakeup, NextWakeup, Invariance, PTL DEF Spec

-----------------------------------------------------------------------------
(* The queue is a bounded FIFO queue: Put and Take are its Add and Remove. *)

Element == Item \cup {NULL}

(* The j-th item is in a slot of its own, the first at head; the slot      *)
(* after the last is tail.                                                 *)
LEMMA SlotsInOrder ==
  ASSUME IInv
  PROVE  /\ \A j \in 1 .. length : SlotAt(j) \in Slot
         /\ length < SIZE =>
              SlotAt(length + 1) = tail /\ \A j \in 1 .. length : SlotAt(j) # tail
         /\ length > 0 =>
              SlotAt(1) = head /\ \A j \in 2 .. length : SlotAt(j) # head
  BY SizeAssumption DEF IInv, TypeOK, RingInv, SlotAt, Slot

ContentSpec ==
  /\ Content \in Seq(Element)
  /\ Len(Content) = length
  /\ \A j \in 1 .. length : Content[j] = buf[SlotAt(j)]

LEMMA ContentIs == IInv => ContentSpec
<1> SUFFICES ASSUME IInv PROVE ContentSpec
  OBVIOUS
<1>1. length \in Nat /\ \A j \in 1 .. length : buf[SlotAt(j)] \in Element
  BY SlotsInOrder DEF IInv, TypeOK, Element
<1>2. Content \in [1 .. length -> Element]
  BY <1>1 DEF Content
<1> QED BY <1>1, <1>2 DEF ContentSpec, Content

LEMMA InitRefines == Init => Fifo!Init
<1> SUFFICES ASSUME Init PROVE Fifo!Init
  OBVIOUS
<1>1. Content = <<>>
  <2>1. ContentSpec
    BY InitInv, ContentIs
  <2> QED BY <2>1, EmptySeq DEF ContentSpec, Init
<1> QED BY <1>1 DEF Fifo!Init, Init, Unserved, NoOp, Fifo!NoOp

Pending == [t \in Thread |-> IF pc[t] \in Unserved THEN op[t] ELSE NoOp]

(* When the buffer stands still, so does the content.                      *)
LEMMA ContentKept == UNCHANGED queue => Content' = Content
  BY DEF queue, Content, SlotAt

(* Put appends an item.                                                    *)
LEMMA PutAppends ==
  ASSUME IInv, IInv', NEW t \in Thread, Put(t, op[t].item)
  PROVE  length < SIZE /\ Content' = Append(Content, op[t].item)
<1>1. /\ len[t] = length /\ length < SIZE /\ length \in Nat /\ op[t].item \in Element
      /\ SIZE \in Nat
  BY OperationIs, SizeAssumption DEF Put, IInv, TypeOK, LenInv, Element
<1>2. /\ length' = length + 1 /\ head' = head
      /\ buf' = [buf EXCEPT ![tail] = op[t].item]
  BY <1>1 DEF Put
<1>3. \A j \in 1 .. length + 1 : SlotAt(j)' = SlotAt(j)
  BY <1>2 DEF SlotAt
<1>4. ContentSpec /\ ContentSpec'
  <2>1. (IInv => ContentSpec)'
    BY ContentIs, PTL
  <2> QED BY <2>1, ContentIs
<1> DEFINE s == Content'
           a == Append(Content, op[t].item)
<1>5. /\ a \in Seq(Element) /\ Len(a) = length + 1
      /\ \A j \in 1 .. length + 1 : a[j] = IF j = length + 1 THEN op[t].item ELSE Content[j]
  <2> DEFINE c == Content
  <2>1. c \in Seq(Element) /\ Len(c) = length
    BY <1>4 DEF ContentSpec
  <2> HIDE DEF c
  <2>2. /\ Append(c, op[t].item) \in Seq(Element)
        /\ Len(Append(c, op[t].item)) = length + 1
        /\ \A j \in 1 .. length + 1 :
             Append(c, op[t].item)[j] = IF j = length + 1 THEN op[t].item ELSE c[j]
    BY <1>1, <2>1
  <2> QED BY <2>2 DEF c
<1>6. /\ s \in Seq(Element) /\ Len(s) = length + 1
      /\ \A j \in 1 .. length + 1 : s[j] = buf'[SlotAt(j)]
  BY <1>2, <1>3, <1>4 DEF ContentSpec
<1>7. \A j \in 1 .. length + 1 : s[j] = a[j]
  <2> TAKE j \in 1 .. length + 1
  <2>1. CASE j = length + 1
    BY <1>1, <1>2, <1>5, <1>6, <2>1, SlotsInOrder DEF IInv, TypeOK
  <2>2. CASE j # length + 1
    <3>1. j \in 1 .. length /\ SlotAt(j) # tail /\ SlotAt(j) \in Slot
      BY <1>1, <2>2, SlotsInOrder
    <3>2. buf'[SlotAt(j)] = buf[SlotAt(j)] /\ buf[SlotAt(j)] = Content[j]
      BY <1>2, <1>4, <3>1 DEF ContentSpec, IInv, TypeOK
    <3> QED BY <1>5, <1>6, <2>2, <3>2
  <2> QED BY <2>1, <2>2
<1> HIDE DEF s, a
<1>8. s = a
  BY <1>5, <1>6, <1>7, SeqEqual
<1> QED BY <1>1, <1>8 DEF s, a

(* Take removes the first one.                                             *)
LEMMA TakeRemoves ==
  ASSUME IInv, IInv', NEW t \in Thread, Take(t)
  PROVE  Content # <<>> /\ Taken = Head(Content) /\ Content' = Tail(Content)
<1>1. /\ len[t] = length /\ length > 0 /\ length <= SIZE /\ length \in Nat /\ SIZE \in Nat
      /\ head \in Slot
  BY SizeAssumption DEF Take, IInv, TypeOK, LenInv
<1>2. length' = length - 1 /\ head' = NextSlot(head) /\ buf' = [buf EXCEPT ![head] = NULL]
  BY <1>1 DEF Take
<1>3. \A j \in 1 .. length - 1 : SlotAt(j)' = SlotAt(j + 1)
  BY <1>1, <1>2 DEF SlotAt, NextSlot, Slot
<1>4. ContentSpec /\ ContentSpec'
  <2>1. (IInv => ContentSpec)'
    BY ContentIs, PTL
  <2> QED BY <2>1, ContentIs
<1> DEFINE c == Content
           s == Content'
<1>5. /\ c \in Seq(Element) /\ Len(c) = length
      /\ \A j \in 1 .. length : c[j] = buf[SlotAt(j)]
  BY <1>4 DEF ContentSpec
<1>6. /\ s \in Seq(Element) /\ Len(s) = length - 1
      /\ \A j \in 1 .. length - 1 : s[j] = buf'[SlotAt(j + 1)]
  BY <1>2, <1>3, <1>4 DEF ContentSpec
<1> HIDE DEF c, s
<1>7. c # <<>>
  BY <1>1, <1>5
<1>8. Taken = Head(c)
  BY <1>1, <1>5, SlotsInOrder DEF Taken
<1>9. /\ Tail(c) \in Seq(Element) /\ Len(Tail(c)) = length - 1
      /\ \A j \in 1 .. length - 1 : Tail(c)[j] = c[j + 1]
  BY <1>1, <1>5, <1>7, HeadTailProperties
<1>10. \A j \in 1 .. length - 1 : s[j] = Tail(c)[j]
  <2> TAKE j \in 1 .. length - 1
  <2>1. j + 1 \in 2 .. length /\ j + 1 \in 1 .. length
    BY <1>1
  <2>2. SlotAt(j + 1) # head /\ SlotAt(j + 1) \in Slot
    BY <1>1, <2>1, SlotsInOrder
  <2>3. buf'[SlotAt(j + 1)] = buf[SlotAt(j + 1)]
    BY <1>2, <2>2 DEF IInv, TypeOK
  <2> QED BY <1>5, <1>6, <1>9, <2>1, <2>3
<1>11. s = Tail(c)
  BY <1>6, <1>9, <1>10, SeqEqual
<1> QED BY <1>7, <1>8, <1>11 DEF c, s

LEMMA NextRefines == IInv /\ IInv' /\ [Next]_vars => [Fifo!Next]_Fifo!vars
<1> SUFFICES ASSUME IInv, IInv', [Next]_vars PROVE [Fifo!Next]_Fifo!vars
  OBVIOUS
<1>k. /\ op \in [Thread -> Operation \cup {NoOp}]
      /\ pc \in [Thread -> {"out", "acquire", "test", "wait", "transfer", "signal", "release"}]
  BY DEF IInv, TypeOK
(* A step that changes neither the buffer, nor ret, nor what is pending.   *)
<1>q. ASSUME UNCHANGED queue, ret' = ret,
             \A s \in Thread : (IF pc[s] \in Unserved THEN op[s] ELSE NoOp)'
                               = IF pc[s] \in Unserved THEN op[s] ELSE NoOp
      PROVE  UNCHANGED Fifo!vars
  BY <1>q, ContentKept DEF Fifo!vars
<1>1. ASSUME NEW t \in Thread, NEW o \in Operation, Call(t, o) PROVE Fifo!Next
  <2>1. Content' = Content /\ ret' = ret
    BY <1>1, ContentKept DEF Call
  <2>2. Pending[t] = NoOp /\ Pending' = [Pending EXCEPT ![t] = o]
    BY <1>1, <1>k DEF Call, Goto, Pending, Unserved, IInv, TypeOK
  <2>3. o \in Fifo!Op
    BY DEF Fifo!Op, Operation, AddOp, RemoveOp, TryOp
  <2>4. Fifo!Call(t, o)
    BY <2>1, <2>2 DEF Fifo!Call, Pending, NoOp, Fifo!NoOp
  <2> QED BY <2>3, <2>4 DEF Fifo!Next
<1>2. ASSUME NEW t \in Thread, Acquire(t) PROVE UNCHANGED Fifo!vars
  BY <1>2, <1>k, <1>q DEF Acquire, Goto, Unserved
<1>3. ASSUME NEW t \in Thread, Wait(t) PROVE UNCHANGED Fifo!vars
  BY <1>3, <1>k, <1>q DEF Wait, Goto, Unserved
<1>4. ASSUME NEW t \in Thread, Proceed(t) PROVE [Fifo!Next]_Fifo!vars
  <2>1. CASE op[t].kind = "tryremove" /\ length = 0
    <3>1. Content' = Content /\ ret' = [ret EXCEPT ![t] = NULL]
      BY <1>4, <2>1, ContentKept DEF Proceed
    <3>2. Pending[t] = op[t] /\ Pending' = [Pending EXCEPT ![t] = NoOp]
      BY <1>4, <1>k, <2>1 DEF Proceed, Goto, Pending, Unserved
    <3>3. Content = <<>>
      BY <2>1, ContentIs, EmptySeq DEF ContentSpec
    <3>4. Fifo!FindEmpty(t)
      BY <2>1, <3>1, <3>2, <3>3 DEF Fifo!FindEmpty, Pending
    <3>5. Fifo!TakeEffect(t)
      BY <3>2, <3>4 DEF Fifo!TakeEffect, Pending, NoOp, Fifo!NoOp
    <3> QED BY <3>5 DEF Fifo!Next
  <2>2. CASE ~(op[t].kind = "tryremove" /\ length = 0)
    BY <1>4, <1>k, <1>q, <2>2 DEF Proceed, Goto, Unserved
  <2> QED BY <2>1, <2>2
<1>5. ASSUME NEW t \in Thread, Put(t, op[t].item) PROVE Fifo!Next
  <2>1. length < SIZE /\ Content' = Append(Content, op[t].item) /\ Len(Content) = length
    BY <1>5, PutAppends, ContentIs DEF ContentSpec
  <2>2. Pending[t] = op[t] /\ Pending' = [Pending EXCEPT ![t] = NoOp]
    BY <1>5, <1>k DEF Put, Goto, Pending, Unserved
  <2>3. Fifo!Add(t)
    BY <1>5, <2>1, <2>2 DEF Put, Fifo!Add, Pending
  <2>4. Fifo!TakeEffect(t)
    BY <2>2, <2>3 DEF Fifo!TakeEffect, Pending, NoOp, Fifo!NoOp
  <2> QED BY <2>4 DEF Fifo!Next
<1>6. ASSUME NEW t \in Thread, Take(t) PROVE Fifo!Next
  <2>1. Content # <<>> /\ Taken = Head(Content) /\ Content' = Tail(Content)
    BY <1>6, TakeRemoves
  <2>2. Pending[t] = op[t] /\ Pending' = [Pending EXCEPT ![t] = NoOp]
    BY <1>6, <1>k DEF Take, Goto, Pending, Unserved
  <2>3. op[t].kind \in {"remove", "tryremove"}
    BY <1>6, <1>k, OperationIs DEF Take, IInv, WaitInv
  <2>4. Fifo!Remove(t)
    BY <1>6, <2>1, <2>2, <2>3 DEF Take, Fifo!Remove, Pending
  <2>5. Fifo!TakeEffect(t)
    BY <2>2, <2>4 DEF Fifo!TakeEffect, Pending, NoOp, Fifo!NoOp
  <2> QED BY <2>5 DEF Fifo!Next
<1>7. ASSUME NEW t \in Thread, Signal(t) PROVE UNCHANGED Fifo!vars
  <2>1. CASE Signalled(t) = {}
    BY <1>7, <1>k, <1>q, <2>1 DEF Signal, Goto, Unserved
  <2>2. CASE Signalled(t) # {}
    <3> PICK w \in Signalled(t) : pc' = [pc EXCEPT ![t] = "release", ![w] = "acquire"]
      BY <1>7, <2>2 DEF Signal
    <3>1. w \in Thread /\ pc[w] = "wait"
      BY DEF Signalled, IInv, WaitInv, TypeOK
    <3> QED BY <1>7, <1>k, <1>q, <3>1 DEF Signal, Unserved
  <2> QED BY <2>1, <2>2
<1>8. ASSUME NEW t \in Thread, Release(t) PROVE UNCHANGED Fifo!vars
  BY <1>8, <1>k, <1>q DEF Release, Goto, Unserved
<1>9. ASSUME NEW w \in Thread, WakeSpuriously(w) PROVE UNCHANGED Fifo!vars
  <2>1. pc[w] = "wait"
    BY <1>9 DEF WakeSpuriously, IInv, WaitInv
  <2> QED BY <1>9, <1>k, <1>q, <2>1 DEF WakeSpuriously, Goto, Unserved
<1>10. CASE UNCHANGED vars
  BY <1>10, <1>q DEF vars
<1> QED
  BY <1>1, <1>2, <1>3, <1>4, <1>5, <1>6, <1>7, <1>8, <1>9, <1>10 DEF Next, InLock

(* The concurrent queue is a bounded FIFO queue, for any number of threads *)
(* and any size.                                                           *)
THEOREM Refinement == Spec => ImplementsFifo
  BY InitRefines, NextRefines, Invariance, PTL DEF Spec, ImplementsFifo, Fifo!Spec
-----------------------------------------------------------------------------
(* The linked queues.                                                      *)

(* What make_elem and fifo_put have written: the fields of each version.   *)
Link == Elem \cup {0, -1}
Record(v) == IF v = "queue" THEN [a : Int, b : Int, next : Link] ELSE [data : Int, next : Link]

LinkedType ==
  /\ version \in {"queue", "queue2"} /\ inMain \in BOOLEAN /\ steps \in Nat
  /\ DOMAIN elem \subseteq Elem /\ elem \in [DOMAIN elem -> Record(version)]
  /\ held \subseteq DOMAIN elem
  /\ contents \in Seq(DOMAIN elem)

(* An element is in the queue once, and not in the client's hands then; the*)
(* links lead through the queue.                                           *)
ChainInv ==
  /\ \A j, k \in 1..Len(contents) : contents[j] = contents[k] => j = k
  /\ \A j \in 1..Len(contents) : contents[j] \notin held
  /\ (contents = <<>>) <=> (fhead = 0)
  /\ contents # <<>> => fhead = contents[1] /\ ftail = contents[Len(contents)]
  /\ \A j \in 1..Len(contents) : elem[contents[j]].next = IF j < Len(contents) THEN contents[j + 1] ELSE 0

(* What main has done after each of its steps: the element that it made    *)
(* first is the one that it reads.                                         *)
FirstMade(p) == IF version = "queue" THEN elem[p].a = 1 /\ elem[p].b = 10 ELSE elem[p].data = 1
MainInv ==
  inMain /\ outcome # -1 =>
    /\ steps \in 0..7
    /\ steps \in {0, 1} => contents = <<>>
    /\ steps \in {0, 2, 4} => held = {}
    /\ steps \in {1, 3, 5} => \E p : held = {p}
    /\ steps \in {1, 5} => \A p \in held : FirstMade(p)
    /\ steps \in {2, 3} => Len(contents) = 1
    /\ steps \in {2, 3, 4} => contents # <<>> /\ FirstMade(contents[1])
    /\ steps \in {6, 7} => outcome = IF version = "queue" THEN 11 ELSE 1

LinkedInv == LinkedType /\ ChainInv /\ MainInv

LEMMA MainCalls ==
  /\ Len(Clients!fifo_main) = 7
  /\ \A k \in 0..6 :
       /\ Clients!fifo_main[k + 1] = "make_elem" <=> k \in {0, 2}
       /\ Clients!fifo_main[k + 1] = "fifo_put" <=> k \in {1, 3}
       /\ Clients!fifo_main[k + 1] = "fifo_get" <=> k = 4
       /\ Clients!fifo_main[k + 1] = "read" <=> k = 5
       /\ Clients!fifo_main[k + 1] = "free" <=> k = 6
       /\ Clients!fifo_main[k + 1] # "fifo_empty"
<1>1. Clients!fifo_main = <<"make_elem", "fifo_put", "make_elem", "fifo_put", "fifo_get", "read", "free">>
  BY DEF Clients!fifo_main, Clients!queue_main, Clients!queue2_main
<1> QED BY <1>1

LEMMA LinkedInit == Clients!FifoInit => LinkedInv
BY DEF Clients!FifoInit, Clients!NoElem, LinkedInv, LinkedType, ChainInv, MainInv

(* When a call may be made, in main only in its place.                     *)
LEMMA MayWhen ==
  ASSUME LinkedType, NEW call \in {"make_elem", "fifo_put", "fifo_get", "fifo_empty", "read", "free"}, Clients!May(call)
  PROVE  /\ outcome # -1 /\ steps' = steps + 1 /\ version' = version /\ inMain' = inMain
         /\ inMain => /\ steps \in 0..6
                      /\ call = "make_elem" <=> steps \in {0, 2}
                      /\ call = "fifo_put" <=> steps \in {1, 3}
                      /\ call = "fifo_get" <=> steps = 4
                      /\ call = "read" <=> steps = 5
                      /\ call = "free" <=> steps = 6
                      /\ call # "fifo_empty"
<1>1. outcome # -1 /\ steps' = steps + 1 /\ version' = version /\ inMain' = inMain
  BY DEF Clients!May
<1>2. ASSUME inMain PROVE steps \in 0..6 /\ Clients!fifo_main[steps + 1] = call
  BY <1>2, MainCalls DEF Clients!May, LinkedType
<1> QED BY <1>1, <1>2, MainCalls

LEMMA LinkedNext == LinkedInv /\ [Clients!FifoNext]_fifoVars => LinkedInv'
<1> SUFFICES ASSUME LinkedInv, [Clients!FifoNext]_fifoVars PROVE LinkedInv'
  OBVIOUS
<1> USE ElemAssumption DEF LinkedInv
<1>1. ASSUME Clients!MakeElem PROVE LinkedInv'
  <2>m. Clients!May("make_elem")
    BY <1>1 DEF Clients!MakeElem
  <2>h. outcome # -1 /\ steps' = steps + 1 /\ version' = version /\ inMain' = inMain
        /\ (inMain => steps \in {0, 2})
    BY <2>m, MayWhen
  <2>1. CASE outcome' = -1 /\ UNCHANGED <<elem, held>>
    BY <1>1, <2>1, <2>h DEF Clients!MakeElem, LinkedType, ChainInv, MainInv
  <2>2. ASSUME NEW p \in Elem \ DOMAIN elem, NEW new,
               new = IF version = "queue" THEN Clients!elem_of((steps \div 2) + 1) ELSE Clients!elem2_of((steps \div 2) + 1),
               elem' = [q \in DOMAIN elem \cup {p} |-> IF q = p THEN new ELSE elem[q]],
               held' = held \cup {p}, outcome' = outcome
        PROVE  LinkedInv'
    <3>u. fhead' = fhead /\ ftail' = ftail /\ contents' = contents
      BY <1>1 DEF Clients!MakeElem
    <3>1. new \in Record(version)
      <4>1. steps \div 2 + 1 \in Int /\ 10 * (steps \div 2 + 1) \in Int /\ -1 \in Link
        BY DEF LinkedType, Link
      <4>2. Clients!elem_of(steps \div 2 + 1) \in [a : Int, b : Int, next : Link]
        BY <4>1 DEF Clients!elem_of, Clients!Uninit
      <4>3. Clients!elem2_of(steps \div 2 + 1) \in [data : Int, next : Link]
        BY <4>1 DEF Clients!elem2_of, Clients!Uninit
      <4> QED BY <2>2, <4>2, <4>3 DEF Record
    <3>2. DOMAIN elem' = DOMAIN elem \cup {p} /\ elem'[p] = new /\ \A q \in DOMAIN elem : elem'[q] = elem[q]
      BY <2>2
    <3>3. LinkedType'
      <4>1. elem' \in [DOMAIN elem' -> Record(version)]
        BY <2>2, <3>1, <3>2 DEF LinkedType
      <4>2. contents \in Seq(DOMAIN elem')
        BY <3>2 DEF LinkedType
      <4> QED BY <2>h, <2>2, <3>u, <3>2, <4>1, <4>2 DEF LinkedType
    <3>c. \A j \in 1..Len(contents) : contents[j] \in DOMAIN elem
      BY DEF LinkedType
    <3>4. ChainInv'
      BY <2>2, <3>u, <3>2, <3>c DEF ChainInv
    <3>5. MainInv'
      <4> SUFFICES ASSUME inMain, outcome # -1 PROVE MainInv'
        BY <2>h, <2>2 DEF MainInv
      <4>1. CASE steps = 0
        <5>1. held' = {p} /\ contents' = <<>>
          BY <2>2, <3>u, <4>1 DEF MainInv
        <5>2. FirstMade(p)'
          BY <2>2, <2>h, <3>2, <4>1 DEF FirstMade, Clients!elem_of, Clients!elem2_of
        <5> QED BY <2>h, <4>1, <5>1, <5>2 DEF MainInv
      <4>2. CASE steps = 2
        <5>1. held' = {p} /\ contents' # <<>> /\ Len(contents') = 1 /\ contents[1] \in DOMAIN elem
          BY <2>2, <3>u, <3>c, <4>2 DEF MainInv
        <5>2. FirstMade(contents[1]) /\ contents'[1] = contents[1]
          BY <3>u, <4>2 DEF MainInv
        <5>3. FirstMade(contents[1])'
          BY <5>1, <5>2, <3>2, <3>u, <2>h DEF FirstMade
        <5>4. steps' = 3
          BY <2>h, <4>2
        <5>5. contents' # <<>> /\ FirstMade(contents[1])'
          BY <5>1, <5>3
        <5>6. \E q : held' = {q}
          BY <5>1
        <5>7. /\ steps' \in 0..7 /\ steps' \notin {0, 1} /\ steps' \notin {0, 2, 4} /\ steps' \notin {1, 5}
              /\ steps' \notin {6, 7}
          BY <5>4
        <5> QED BY <5>1, <5>5, <5>6, <5>7 DEF MainInv
      <4> QED BY <2>h, <4>1, <4>2
    <3> QED BY <3>3, <3>4, <3>5
  <2>3. (outcome' = -1 /\ UNCHANGED <<elem, held>>) \/ \E p \in Elem \ DOMAIN elem : \E new :
            /\ new = IF version = "queue" THEN Clients!elem_of((steps \div 2) + 1) ELSE Clients!elem2_of((steps \div 2) + 1)
            /\ elem' = [q \in DOMAIN elem \cup {p} |-> IF q = p THEN new ELSE elem[q]]
            /\ held' = held \cup {p} /\ outcome' = outcome
    BY <1>1 DEF Clients!MakeElem
  <2> QED BY <2>1, <2>2, <2>3
<1>2. ASSUME Clients!FifoPut PROVE LinkedInv'
  <2>m. Clients!May("fifo_put")
    BY <1>2 DEF Clients!FifoPut
  <2>h. outcome # -1 /\ steps' = steps + 1 /\ version' = version /\ inMain' = inMain
        /\ (inMain => steps \in {1, 3})
    BY <2>m, MayWhen
  <2> PICK p \in held : /\ elem' = Clients!Linked(p)
                        /\ fhead' = (IF fhead = 0 THEN p ELSE fhead) /\ ftail' = p
                        /\ held' = held \ {p} /\ contents' = Append(contents, p)
    BY <1>2 DEF Clients!FifoPut, Clients!NoElem
  <2> DEFINE n == Len(contents)
  <2>u. outcome' = outcome
    BY <1>2 DEF Clients!FifoPut
  <2>p. p \in DOMAIN elem /\ p \in Elem /\ p # 0 /\ contents \in Seq(DOMAIN elem) /\ n \in Nat
    BY DEF LinkedType
  <2>c. \A j \in 1..n : contents[j] \in DOMAIN elem /\ contents[j] # p
    BY <2>p DEF LinkedType, ChainInv
  <2>a. /\ Len(contents') = n + 1 /\ contents' \in Seq(DOMAIN elem) /\ contents' # <<>>
        /\ contents'[n + 1] = p /\ \A j \in 1..n : contents'[j] = contents[j]
    BY <2>p, AppendProperties
  <2>f. fhead = 0 <=> n = 0
    BY <2>p DEF ChainInv
  <2>t. n # 0 => ftail = contents[n] /\ ftail \in DOMAIN elem /\ ftail # p
    BY <2>p, <2>c DEF ChainInv
  <2>e. /\ DOMAIN elem' = DOMAIN elem /\ elem' \in [DOMAIN elem -> Record(version)]
        /\ elem'[p].next = 0
        /\ n # 0 => elem'[ftail].next = p
        /\ \A q \in DOMAIN elem : q # p /\ (n # 0 => q # ftail) => elem'[q] = elem[q]
        /\ \A q \in DOMAIN elem : FirstMade(q) => FirstMade(q)'
    <3>1. CASE version = "queue"
      <4>1. elem \in [DOMAIN elem -> [a : Int, b : Int, next : Link]]
        BY <3>1 DEF LinkedType, Record
      <4>2. CASE n = 0
        <5>1. elem' = [elem EXCEPT ![p].next = 0]
          BY <4>2, <2>f DEF Clients!Linked, Clients!NoElem
        <5> QED BY <2>p, <2>h, <3>1, <4>1, <4>2, <5>1 DEF Link, Record, FirstMade
      <4>3. CASE n # 0
        <5>1. elem' = [[elem EXCEPT ![p].next = 0] EXCEPT ![ftail].next = p]
          BY <4>3, <2>f DEF Clients!Linked, Clients!NoElem
        <5>2. /\ DOMAIN elem' = DOMAIN elem
              /\ elem'[p] = [elem[p] EXCEPT !.next = 0]
              /\ elem'[ftail] = [elem[ftail] EXCEPT !.next = p]
              /\ \A q \in DOMAIN elem : q # p /\ q # ftail => elem'[q] = elem[q]
          BY <2>p, <2>t, <4>3, <5>1
        <5>3. \A q \in DOMAIN elem : elem'[q] \in [a : Int, b : Int, next : Link]
          <6>1. 0 \in Link /\ p \in Link
            BY <2>p DEF Link
          <6>2. \A q \in DOMAIN elem, l \in Link : [elem[q] EXCEPT !.next = l] \in [a : Int, b : Int, next : Link]
            BY <4>1
          <6> TAKE q \in DOMAIN elem
          <6>3. CASE q = p
            BY <6>1, <6>2, <6>3, <5>2
          <6>4. CASE q = ftail
            BY <6>1, <6>2, <6>4, <5>2
          <6>5. CASE q # p /\ q # ftail
            BY <6>5, <5>2, <4>1
          <6> QED BY <6>3, <6>4, <6>5
        <5>4. elem' \in [DOMAIN elem -> Record(version)]
          <6>1. elem' = [q \in DOMAIN elem |-> elem'[q]]
            BY <5>1, <5>2
          <6> QED BY <5>3, <6>1, <3>1 DEF Record
        <5>5. \A q \in DOMAIN elem : FirstMade(q) => FirstMade(q)'
          BY <5>2, <2>h, <3>1, <4>1, <2>t, <4>3 DEF FirstMade
        <5> QED BY <2>t, <4>1, <4>3, <5>2, <5>4, <5>5
      <4> QED BY <4>2, <4>3
    <3>2. CASE version # "queue"
      <4>1. elem \in [DOMAIN elem -> [data : Int, next : Link]]
        BY <3>2 DEF LinkedType, Record
      <4>2. CASE n = 0
        <5>1. elem' = [elem EXCEPT ![p].next = 0]
          BY <4>2, <2>f DEF Clients!Linked, Clients!NoElem
        <5> QED BY <2>p, <2>h, <3>2, <4>1, <4>2, <5>1 DEF Link, Record, FirstMade
      <4>3. CASE n # 0
        <5>1. elem' = [[elem EXCEPT ![p].next = 0] EXCEPT ![ftail].next = p]
          BY <4>3, <2>f DEF Clients!Linked, Clients!NoElem
        <5>2. /\ DOMAIN elem' = DOMAIN elem
              /\ elem'[p] = [elem[p] EXCEPT !.next = 0]
              /\ elem'[ftail] = [elem[ftail] EXCEPT !.next = p]
              /\ \A q \in DOMAIN elem : q # p /\ q # ftail => elem'[q] = elem[q]
          BY <2>p, <2>t, <4>3, <5>1
        <5>3. \A q \in DOMAIN elem : elem'[q] \in [data : Int, next : Link]
          BY <2>p, <2>t, <4>1, <4>3, <5>2 DEF Link
        <5>4. elem' \in [DOMAIN elem -> Record(version)]
          <6>1. elem' = [q \in DOMAIN elem |-> elem'[q]]
            BY <5>1, <5>2
          <6> QED BY <5>3, <6>1, <3>2 DEF Record
        <5>5. \A q \in DOMAIN elem : FirstMade(q) => FirstMade(q)'
          BY <5>2, <2>h, <3>2, <4>1, <2>t, <4>3 DEF FirstMade
        <5> QED BY <2>t, <4>1, <4>3, <5>2, <5>4, <5>5
      <4> QED BY <4>2, <4>3
    <3> QED BY <3>1, <3>2
  <2>1. LinkedType'
    BY <2>h, <2>a, <2>e DEF LinkedType
  <2>2. ChainInv'
    <3>1. \A j, k \in 1..n+1 : contents'[j] = contents'[k] => j = k
      BY <2>a, <2>c, <2>p DEF ChainInv
    <3>2. \A j \in 1..n+1 : contents'[j] \notin held'
      BY <2>a, <2>p DEF ChainInv
    <3>3. contents' # <<>> /\ fhead' # 0 /\ fhead' = contents'[1] /\ ftail' = contents'[n + 1]
      BY <2>a, <2>f, <2>p DEF ChainInv
    <3>4. \A j \in 1..n+1 : elem'[contents'[j]].next = IF j < n + 1 THEN contents'[j + 1] ELSE 0
      <4> SUFFICES ASSUME NEW j \in 1..n+1 PROVE elem'[contents'[j]].next = IF j < n + 1 THEN contents'[j + 1] ELSE 0
        OBVIOUS
      <4>1. CASE j = n + 1
        BY <4>1, <2>a, <2>e, <2>p
      <4>2. CASE j = n
        BY <4>2, <2>a, <2>e, <2>p, <2>t
      <4>3. CASE j < n
        <5>1. contents[j] # contents[n] /\ contents'[j] = contents[j] /\ contents'[j + 1] = contents[j + 1]
          BY <4>3, <2>a, <2>p DEF ChainInv
        <5>2. elem'[contents[j]] = elem[contents[j]]
          BY <4>3, <5>1, <2>e, <2>t, <2>c, <2>p
        <5> QED BY <4>3, <5>1, <5>2, <2>p DEF ChainInv
      <4> QED BY <4>1, <4>2, <4>3, <2>p
    <3> QED BY <3>1, <3>2, <3>3, <3>4, <2>a DEF ChainInv
  <2>3. MainInv'
    <3> SUFFICES ASSUME inMain PROVE MainInv'
      BY <2>h DEF MainInv
    <3>1. \E q : held = {q}
      BY <2>h DEF MainInv
    <3>2. held' = {}
      BY <3>1
    <3>3. CASE steps = 1
      <4>1. n = 0 /\ FirstMade(p)
        BY <3>3, <2>h DEF MainInv
      <4> QED BY <3>2, <3>3, <4>1, <2>a, <2>e, <2>h, <2>u, <2>p DEF MainInv
    <3>4. CASE steps = 3
      <4> DEFINE f == contents[1]
      <4>1. n = 1 /\ FirstMade(f) /\ f \in DOMAIN elem
        BY <3>4, <2>h, <2>c DEF MainInv
      <4>2. PICK q \in DOMAIN elem : q = f
        BY <4>1
      <4>3. FirstMade(q)' /\ contents'[1] = q
        BY <4>1, <4>2, <2>a, <2>e
      <4> QED BY <3>2, <3>4, <4>3, <2>a, <2>h, <2>u DEF MainInv, FirstMade
    <3> QED BY <3>3, <3>4, <2>h
  <2> QED BY <2>1, <2>2, <2>3
<1>3. ASSUME Clients!FifoEmpty PROVE LinkedInv'
  <2>m. Clients!May("fifo_empty")
    BY <1>3 DEF Clients!FifoEmpty
  <2>h. outcome # -1 /\ steps' = steps + 1 /\ version' = version /\ inMain' = inMain /\ ~inMain
    BY <2>m, MayWhen
  <2>u. UNCHANGED <<fhead, ftail, elem, held, contents>>
    BY <1>3 DEF Clients!FifoEmpty
  <2>1. LinkedType'
    BY <2>h, <2>u DEF LinkedType
  <2>2. ChainInv'
    BY <2>u DEF ChainInv
  <2> QED BY <2>h, <2>1, <2>2 DEF MainInv
<1>4. ASSUME Clients!FifoGet PROVE LinkedInv'
  <2>m. Clients!May("fifo_get")
    BY <1>4 DEF Clients!FifoGet
  <2>h. outcome # -1 /\ steps' = steps + 1 /\ version' = version /\ inMain' = inMain
        /\ (inMain => steps = 4)
    BY <2>m, MayWhen
  <2>u. /\ contents # <<>> /\ fhead' = elem[fhead].next
        /\ held' = held \cup {fhead} /\ contents' = Tail(contents)
        /\ ftail' = ftail /\ elem' = elem /\ outcome' = outcome
    BY <1>4 DEF Clients!FifoGet
  <2> DEFINE n == Len(contents)
  <2>p. contents \in Seq(DOMAIN elem) /\ n \in Nat \ {0} /\ \A j \in 1..n : contents[j] \in DOMAIN elem /\ contents[j] # 0
    BY <2>u DEF LinkedType
  <2>t. Len(contents') = n - 1 /\ contents' \in Seq(DOMAIN elem) /\ \A j \in 1..n-1 : contents'[j] = contents[j + 1]
    BY <2>p, <2>u, HeadTailProperties
  <2>f. fhead = contents[1] /\ ftail = contents[n] /\ fhead' = IF 1 < n THEN contents[2] ELSE 0
    BY <2>p, <2>u DEF ChainInv
  <2>1. LinkedType'
    BY <2>h, <2>u, <2>t, <2>p, <2>f DEF LinkedType
  <2>2. ChainInv'
    <3>1. \A j, k \in 1..n-1 : contents'[j] = contents'[k] => j = k
      BY <2>t, <2>p DEF ChainInv
    <3>2. \A j \in 1..n-1 : contents'[j] \notin held'
      BY <2>t, <2>p, <2>u, <2>f DEF ChainInv
    <3>3. (contents' = <<>>) <=> (n = 1)
      BY <2>t, <2>p, EmptySeq
    <3>4. contents' # <<>> => fhead' = contents'[1] /\ fhead' # 0 /\ ftail' = contents'[n - 1]
      BY <3>3, <2>t, <2>p, <2>f, <2>u
    <3>5. \A j \in 1..n-1 : elem'[contents'[j]].next = IF j < n - 1 THEN contents'[j + 1] ELSE 0
      BY <2>t, <2>p, <2>u DEF ChainInv
    <3> QED BY <3>1, <3>2, <3>3, <3>4, <3>5, <2>t, <2>f, <2>p DEF ChainInv
  <2>3. MainInv'
    <3> SUFFICES ASSUME inMain PROVE MainInv'
      BY <2>h DEF MainInv
    <3>1. held = {} /\ FirstMade(fhead)
      BY <2>h, <2>f DEF MainInv
    <3>2. held' = {fhead} /\ \A q \in held' : FirstMade(q)'
      BY <3>1, <2>u, <2>h DEF FirstMade
    <3> QED BY <3>2, <2>h, <2>u DEF MainInv
  <2> QED BY <2>1, <2>2, <2>3
<1>5. ASSUME Clients!ReadElem PROVE LinkedInv'
  <2>m. Clients!May("read") /\ inMain
    BY <1>5 DEF Clients!ReadElem
  <2>h. outcome # -1 /\ steps' = steps + 1 /\ version' = version /\ inMain' = inMain /\ steps = 5
    BY <2>m, MayWhen
  <2>u. UNCHANGED <<fhead, ftail, elem, held, contents>>
    BY <1>5 DEF Clients!ReadElem
  <2>1. LinkedType'
    BY <2>h, <2>u DEF LinkedType
  <2>2. ChainInv'
    BY <2>u DEF ChainInv
  <2>3. PICK p : held = {p} /\ FirstMade(p)
    BY <2>m, <2>h DEF MainInv
  <2>4. outcome' = LET e == elem[CHOOSE q \in {p} : TRUE] IN IF version = "queue" THEN e.a + e.b ELSE e.data
    BY <1>5, <2>3 DEF Clients!ReadElem
  <2>5. (CHOOSE q \in {p} : TRUE) = p
    OBVIOUS
  <2>6. outcome' = IF version = "queue" THEN 11 ELSE 1
    BY <2>3, <2>4, <2>5 DEF FirstMade
  <2>7. MainInv'
    BY <2>6, <2>h DEF MainInv
  <2> QED BY <2>1, <2>2, <2>7
<1>6. ASSUME Clients!FreeElem PROVE LinkedInv'
  <2>m. Clients!May("free")
    BY <1>6 DEF Clients!FreeElem
  <2>h. outcome # -1 /\ steps' = steps + 1 /\ version' = version /\ inMain' = inMain
        /\ (inMain => steps = 6)
    BY <2>m, MayWhen
  <2> PICK p \in held : elem' = [q \in DOMAIN elem \ {p} |-> elem[q]] /\ held' = held \ {p}
    BY <1>6 DEF Clients!FreeElem
  <2>u. UNCHANGED <<fhead, ftail, contents, outcome>>
    BY <1>6 DEF Clients!FreeElem
  <2>e. DOMAIN elem' = DOMAIN elem \ {p} /\ \A q \in DOMAIN elem' : elem'[q] = elem[q]
    OBVIOUS
  <2>c. \A j \in 1..Len(contents) : contents[j] \in DOMAIN elem'
    BY <2>e DEF LinkedType, ChainInv
  <2>1. LinkedType'
    <3>1. contents \in Seq(DOMAIN elem')
      BY <2>c DEF LinkedType
    <3>2. elem' \in [DOMAIN elem' -> Record(version)]
      BY <2>e DEF LinkedType
    <3> QED BY <3>1, <3>2, <2>h, <2>u, <2>e DEF LinkedType
  <2>2. ChainInv'
    BY <2>u, <2>c, <2>e DEF ChainInv
  <2>3. MainInv'
    BY <2>h, <2>u DEF MainInv
  <2> QED BY <2>1, <2>2, <2>3
<1>7. CASE UNCHANGED fifoVars
  <2>1. LinkedType'
    BY <1>7 DEF fifoVars, LinkedType
  <2>2. ChainInv'
    BY <1>7 DEF fifoVars, ChainInv
  <2>3. MainInv'
    BY <1>7 DEF fifoVars, MainInv, FirstMade
  <2> QED BY <2>1, <2>2, <2>3
<1> QED BY <1>1, <1>2, <1>3, <1>4, <1>5, <1>6, <1>7 DEF Clients!FifoNext

LEMMA LinkedHolds == LinkedInv => Clients!FifoHolds
<1> SUFFICES ASSUME LinkedInv PROVE Clients!FifoHolds
  OBVIOUS
<1>1. DOMAIN contents = 1..Len(contents)
  BY DEF LinkedInv, LinkedType
<1>2. (inMain /\ steps = Len(Clients!fifo_main) /\ outcome # -1) => outcome = IF version = "queue" THEN 11 ELSE 1
  BY MainCalls DEF LinkedInv, MainInv
<1> QED BY <1>1, <1>2 DEF LinkedInv, ChainInv, Clients!FifoHolds, Clients!NoElem

-----------------------------------------------------------------------------
(* queue_ex.c.                                                             *)
main == NThreads
Threads == 0 .. NThreads-1
NumItems == NThreads * Calls
RemoveCall == [kind |-> "remove"]
AddCall == [kind |-> "add", item |-> count[main]]

ExType ==
  /\ numbers \in Seq(Int)
  /\ DOMAIN pending = 0..NThreads
  /\ xret \in [0..NThreads -> Int]
  /\ DOMAIN stage = 0..NThreads
  /\ count \in [0..NThreads -> Nat]
  /\ results \in [Threads -> Seq(Int)]
  /\ DOMAIN joinLock = Threads

(* Where main is, and what it may be waiting for.                          *)
MainAt ==
  /\ stage[main] \in {"spawn", "add", "adding", "join", "done"}
  /\ stage[main] \in {"spawn", "join"} => count[main] < NThreads
  /\ stage[main] \in {"add", "adding"} => count[main] < NumItems
  /\ pending[main] # NoOp => stage[main] = "adding" /\ pending[main] = AddCall
  /\ stage[main] = "join" => \A t \in Threads : t < count[main] => stage[t] = "done"
  /\ stage[main] = "done" => \A t \in Threads : stage[t] = "done"

(* Where a thread is; it gives up its lock last.                           *)
ThreadAt ==
  \A t \in Threads :
    /\ stage[t] \in {"new", "remove", "removing", "release", "done"}
    /\ stage[t] = "new" => stage[main] = "spawn" /\ count[main] <= t /\ joinLock[t] = "none"
    /\ stage[main] = "spawn" /\ count[main] <= t => stage[t] = "new"
    /\ count[t] = Len(results[t])
    /\ stage[t] \in {"new", "remove", "removing"} => count[t] < Calls
    /\ stage[t] \in {"release", "done"} => count[t] = Calls
    /\ pending[t] # NoOp => stage[t] = "removing" /\ pending[t] = RemoveCall
    /\ joinLock[t] \in {"free", "freed"} => stage[t] = "done"

(* How many numbers have gone into the queue, and come out.                *)
Added == CASE stage[main] = "spawn" -> 0
           [] stage[main] = "add" -> count[main]
           [] stage[main] = "adding" -> IF pending[main] = NoOp THEN count[main] + 1 ELSE count[main]
           [] OTHER -> NumItems
Removed == Added - Len(numbers)

(* The numbers a thread has got, one of them perhaps not yet stored.       *)
Got(t) == IF stage[t] = "removing" /\ pending[t] = NoOp THEN Len(results[t]) + 1 ELSE Len(results[t])
Value(t, j) == IF j <= Len(results[t]) THEN results[t][j] ELSE xret[t]

(* The queue holds the numbers from Removed to Added, in order; each lower *)
(* one has been got once, by a thread that gets them in order.             *)
QueueInv == Removed >= 0 /\ \A j \in 1..Len(numbers) : numbers[j] = Removed + j - 1
GotInv ==
  /\ \A t \in Threads : \A j \in 1..Got(t) : Value(t, j) \in 0..Removed-1
  /\ \A t \in Threads : \A j, k \in 1..Got(t) : j < k => Value(t, j) < Value(t, k)
  /\ \A s, t \in Threads : s # t => \A j \in 1..Got(s), k \in 1..Got(t) : Value(s, j) # Value(t, k)
  /\ \A n \in 0..Removed-1 : \E t \in Threads : \E j \in 1..Got(t) : Value(t, j) = n

ExInv == ExType /\ MainAt /\ ThreadAt /\ QueueInv /\ GotInv

LEMMA ExNames ==
  /\ Clients!adder = main /\ Clients!Threads = Threads /\ Clients!NumItems = NumItems
  /\ Clients!Queue!NoOp = NoOp
  /\ main \in 0..NThreads /\ main \in Nat /\ Threads \subseteq 0..NThreads /\ main \notin Threads
  /\ \A t \in 0..NThreads : t # main => t \in Threads
  /\ \A t \in Threads : t \in Nat /\ t < NThreads
  /\ NumItems \in Nat /\ NThreads \in Nat \ {0} /\ Calls \in Nat \ {0} /\ NumItems >= NThreads
  /\ AddCall.kind = "add" /\ AddCall.item = count[main] /\ RemoveCall.kind = "remove" /\ NoOp.kind = "none"
  /\ AddCall # NoOp /\ RemoveCall # NoOp
<1>1. NThreads * Calls \in Nat /\ NThreads * Calls >= NThreads
  BY ExampleAssumption, SMT
<1>2. AddCall # NoOp /\ RemoveCall # NoOp
  <2>1. AddCall.kind = "add" /\ RemoveCall.kind = "remove" /\ NoOp.kind = "none"
    BY DEF AddCall, RemoveCall, NoOp
  <2> QED BY <2>1
<1> QED
  BY <1>1, <1>2, ExampleAssumption
  DEF Clients!adder, Clients!Threads, Clients!NumItems, Clients!Queue!NoOp, NoOp, main, Threads, NumItems, AddCall, RemoveCall

LEMMA RoundRobin ==
  ASSUME NEW c \in Threads
  PROVE  (c + 1) % NThreads = IF c + 1 < NThreads THEN c + 1 ELSE 0
BY ExampleAssumption DEF Threads

(* Steps move one thread, and set its counter or leave it.                 *)
LEMMA Moved ==
  ASSUME ExType, NEW t \in 0..NThreads, NEW l, stage' = [stage EXCEPT ![t] = l]
  PROVE  /\ DOMAIN stage' = 0..NThreads /\ stage'[t] = l
         /\ \A s \in 0..NThreads : s # t => stage'[s] = stage[s]
BY DEF ExType

LEMMA Counted ==
  ASSUME ExType, NEW t \in 0..NThreads, NEW n \in Nat, count' = [count EXCEPT ![t] = n]
  PROVE  /\ count' \in [0..NThreads -> Nat] /\ count'[t] = n
         /\ \A s \in 0..NThreads : s # t => count'[s] = count[s]
BY DEF ExType

LEMMA ExInit == Clients!ExInit => ExInv
<1> SUFFICES ASSUME Clients!ExInit PROVE ExInv
  OBVIOUS
<1>1. /\ numbers = <<>> /\ pending = [t \in 0..NThreads |-> NoOp] /\ xret = [t \in 0..NThreads |-> -1]
      /\ stage = [t \in 0..NThreads |-> IF t = main THEN "spawn" ELSE "new"]
      /\ count = [t \in 0..NThreads |-> 0] /\ results = [t \in Threads |-> <<>>]
      /\ joinLock = [t \in Threads |-> "none"]
  BY ExNames DEF Clients!ExInit, Clients!Queue!Init
<1>2. ExType
  BY <1>1 DEF ExType
<1>3. MainAt /\ ThreadAt
  BY <1>1, ExNames DEF MainAt, ThreadAt
<1>4. Removed = 0 /\ Len(numbers) = 0 /\ \A t \in Threads : Got(t) = 0
  BY <1>1, ExNames DEF Removed, Added, Got
<1>5. QueueInv /\ GotInv
  BY <1>4 DEF QueueInv, GotInv
<1> QED BY <1>2, <1>3, <1>5 DEF ExInv

LEMMA AddedNat == ASSUME ExType, MainAt PROVE Added \in Nat /\ Len(numbers) \in Nat /\ Removed \in Int
BY ExNames DEF ExType, MainAt, Added, Removed

(* Most steps only move threads.                                           *)
LEMMA NothingGot ==
  ASSUME QueueInv, GotInv, numbers' = numbers, Added' = Added,
         \A t \in Threads : Got(t)' = Got(t) /\ \A j \in 1..Got(t) : Value(t, j)' = Value(t, j)
  PROVE  QueueInv' /\ GotInv'
<1>1. Removed' = Removed
  BY DEF Removed
<1>2. QueueInv'
  BY <1>1 DEF QueueInv
<1>3. GotInv'
  BY <1>1 DEF GotInv
<1> QED BY <1>2, <1>3

LEMMA ExNext == ExInv /\ [Clients!ExNext]_exVars => ExInv'
<1> SUFFICES ASSUME ExInv, [Clients!ExNext]_exVars PROVE ExInv'
  OBVIOUS
<1> USE DEF ExInv
<1>a. Added \in Nat /\ Len(numbers) \in Nat /\ Removed \in Int
  BY AddedNat
<1>1. ASSUME Clients!SpawnThread PROVE ExInv'
  <2> DEFINE c == count[main]
  <2>1. /\ stage[main] = "spawn" /\ c \in Threads /\ stage[c] = "new" /\ c < NThreads
        /\ joinLock' = [joinLock EXCEPT ![c] = "held"]
        /\ count' = [count EXCEPT ![main] = (c + 1) % NThreads]
        /\ stage' = [stage EXCEPT ![c] = "remove", ![main] = IF c + 1 < NThreads THEN "spawn" ELSE "add"]
        /\ UNCHANGED <<numbers, pending, xret, results>>
    <3>1. /\ stage[main] = "spawn"
          /\ joinLock' = [joinLock EXCEPT ![c] = "held"]
          /\ count' = [count EXCEPT ![main] = (c + 1) % NThreads]
          /\ stage' = [stage EXCEPT ![c] = "remove", ![main] = IF c + 1 < NThreads THEN "spawn" ELSE "add"]
          /\ UNCHANGED <<numbers, pending, xret, results>>
      BY <1>1 DEF Clients!SpawnThread, Clients!adder, main
    <3>2. c \in Nat /\ c < NThreads
      BY <3>1, ExNames DEF ExType, MainAt
    <3>3. c \in Threads
      BY <3>2, ExNames DEF Threads
    <3>4. stage[c] = "new"
      BY <3>1, <3>2, <3>3 DEF ThreadAt
    <3> QED BY <3>1, <3>2, <3>3, <3>4
  <2>2. (c + 1) % NThreads = (IF c + 1 < NThreads THEN c + 1 ELSE 0) /\ c \in Nat
    BY <2>1, RoundRobin DEF Threads
  <2>3. /\ stage'[c] = "remove" /\ stage'[main] = IF c + 1 < NThreads THEN "spawn" ELSE "add"
        /\ \A t \in Threads : t # c => stage'[t] = stage[t]
        /\ \A t \in Threads : count'[t] = count[t]
        /\ count'[main] = IF c + 1 < NThreads THEN c + 1 ELSE 0
        /\ DOMAIN stage' = 0..NThreads /\ count' \in [0..NThreads -> Nat]
        /\ joinLock'[c] = "held" /\ \A t \in Threads : t # c => joinLock'[t] = joinLock[t]
        /\ DOMAIN joinLock' = Threads
    <3>1. main \in DOMAIN stage /\ c \in DOMAIN stage /\ c # main /\ Threads \subseteq DOMAIN stage /\ DOMAIN stage = 0..NThreads
      BY <2>1, ExNames DEF ExType
    <3>2. /\ stage'[c] = "remove" /\ stage'[main] = IF c + 1 < NThreads THEN "spawn" ELSE "add"
          /\ \A t \in Threads : t # c => stage'[t] = stage[t]
          /\ DOMAIN stage' = 0..NThreads
      BY <2>1, <3>1, ExNames
    <3>3. /\ \A t \in Threads : count'[t] = count[t]
          /\ count'[main] = IF c + 1 < NThreads THEN c + 1 ELSE 0
          /\ count' \in [0..NThreads -> Nat]
      <4> DEFINE n == IF c + 1 < NThreads THEN c + 1 ELSE 0
      <4>1. n \in Nat /\ main \in 0..NThreads
        BY <2>2, ExNames
      <4>2. count' = [count EXCEPT ![main] = n]
        BY <2>1, <2>2
      <4> HIDE DEF n
      <4>3. count' \in [0..NThreads -> Nat] /\ count'[main] = n /\ \A s \in 0..NThreads : s # main => count'[s] = count[s]
        BY <4>1, <4>2, Counted
      <4> QED BY <4>3, ExNames DEF n
    <3>4. /\ joinLock'[c] = "held" /\ \A t \in Threads : t # c => joinLock'[t] = joinLock[t]
          /\ DOMAIN joinLock' = Threads
      BY <2>1 DEF ExType
    <3> QED BY <3>2, <3>3, <3>4
  <2>4. ExType'
    BY <2>1, <2>3 DEF ExType
  <2>5. MainAt'
    BY <2>1, <2>3, ExNames DEF MainAt
  <2>6. ThreadAt'
    <3> SUFFICES ASSUME NEW t \in Threads PROVE ThreadAt!(t)'
      BY DEF ThreadAt
    <3>1. t \in Nat /\ NThreads \in Nat /\ t < NThreads /\ c \in Nat /\ results'[t] = results[t] /\ pending'[t] = pending[t] /\ count'[t] = count[t]
      BY <2>1, <2>2, <2>3, ExNames
    <3>2. CASE t = c
      BY <2>1, <2>3, <3>1, <3>2 DEF ThreadAt
    <3>3. CASE t # c
      <4>1. stage'[t] = stage[t] /\ joinLock'[t] = joinLock[t]
        BY <2>3, <3>3
      <4>2. stage[t] = "new" <=> stage'[main] = "spawn" /\ count'[main] <= t
        <5>1. stage[t] = "new" <=> c <= t
          BY <2>1 DEF ThreadAt
        <5>2. c <= t <=> c + 1 <= t
          BY <3>1, <3>3
        <5>3. stage'[main] = "spawn" /\ count'[main] <= t <=> c + 1 <= t
          BY <2>3, <3>1
        <5> QED BY <5>1, <5>2, <5>3
      <4> QED BY <2>1, <3>1, <4>1, <4>2 DEF ThreadAt
    <3> QED BY <3>2, <3>3
  <2>7. Added' = Added
    BY <2>1, <2>3 DEF Added
  <2>8. \A t \in Threads : Got(t)' = Got(t) /\ \A j \in 1..Got(t) : Value(t, j)' = Value(t, j)
    BY <2>1, <2>3 DEF Got, Value
  <2> QED BY <2>1, <2>4, <2>5, <2>6, <2>7, <2>8, NothingGot
<1>2. ASSUME Clients!CallAdd PROVE ExInv'
  <2>1. /\ stage[main] = "add" /\ pending[main] = NoOp
        /\ pending' = [pending EXCEPT ![main] = AddCall]
        /\ stage' = [stage EXCEPT ![main] = "adding"]
        /\ UNCHANGED <<numbers, xret, count, results, joinLock>>
    BY <1>2, ExNames DEF Clients!CallAdd, Clients!Queue!Call, Clients!Goto, Clients!Numbered, AddCall
  <2>2. /\ stage'[main] = "adding" /\ pending'[main] = AddCall /\ AddCall' = AddCall
        /\ \A t \in Threads : stage'[t] = stage[t] /\ pending'[t] = pending[t]
        /\ DOMAIN stage' = 0..NThreads /\ DOMAIN pending' = 0..NThreads
    BY <2>1, ExNames DEF ExType, AddCall
  <2>4. ExType'
    BY <2>1, <2>2 DEF ExType
  <2>5. MainAt'
    BY <2>1, <2>2, ExNames DEF MainAt
  <2>6. ThreadAt'
    BY <2>1, <2>2, ExNames DEF ThreadAt
  <2>7. Added' = Added
    BY <2>1, <2>2, ExNames DEF Added
  <2>8. \A t \in Threads : Got(t)' = Got(t) /\ \A j \in 1..Got(t) : Value(t, j)' = Value(t, j)
    BY <2>1, <2>2 DEF Got, Value
  <2> QED BY <2>1, <2>4, <2>5, <2>6, <2>7, <2>8, NothingGot
<1>3. ASSUME Clients!AddReturned PROVE ExInv'
  <2> DEFINE c == count[main]
  <2>1. /\ stage[main] = "adding" /\ pending[main] = NoOp /\ c \in Nat
        /\ UNCHANGED <<numbers, pending, xret, results, joinLock>>
    BY <1>3, ExNames DEF Clients!AddReturned, ExType
  <2>2. /\ stage'[main] = IF c + 1 < NumItems THEN "add" ELSE "join"
        /\ count'[main] = IF c + 1 < NumItems THEN c + 1 ELSE 0
        /\ \A t \in Threads : stage'[t] = stage[t] /\ count'[t] = count[t]
        /\ DOMAIN stage' = 0..NThreads /\ count' \in [0..NThreads -> Nat]
    <3>1. CASE c + 1 < NumItems
      <4>1. count' = [count EXCEPT ![main] = c + 1] /\ stage' = [stage EXCEPT ![main] = "add"]
        BY <1>3, <3>1, ExNames DEF Clients!AddReturned, Clients!Goto, Clients!Round
      <4>2. main \in 0..NThreads /\ c + 1 \in Nat
        BY <2>1, ExNames
      <4>3. count' \in [0..NThreads -> Nat] /\ count'[main] = c + 1 /\ \A s \in 0..NThreads : s # main => count'[s] = count[s]
        BY <4>1, <4>2, Counted
      <4>4. DOMAIN stage' = 0..NThreads /\ stage'[main] = "add" /\ \A s \in 0..NThreads : s # main => stage'[s] = stage[s]
        BY <4>1, <4>2, Moved
      <4> QED BY <3>1, <4>3, <4>4, ExNames
    <3>2. CASE ~(c + 1 < NumItems)
      <4>1. count' = [count EXCEPT ![main] = 0] /\ stage' = [stage EXCEPT ![main] = "join"]
        BY <1>3, <3>2, ExNames DEF Clients!AddReturned, Clients!Goto
      <4>2. main \in 0..NThreads /\ 0 \in Nat
        BY <2>1, ExNames
      <4>3. count' \in [0..NThreads -> Nat] /\ count'[main] = 0 /\ \A s \in 0..NThreads : s # main => count'[s] = count[s]
        BY <4>1, <4>2, Counted
      <4>4. DOMAIN stage' = 0..NThreads /\ stage'[main] = "join" /\ \A s \in 0..NThreads : s # main => stage'[s] = stage[s]
        BY <4>1, <4>2, Moved
      <4> QED BY <3>2, <4>3, <4>4, ExNames
    <3> QED BY <3>1, <3>2
  <2>3. c < NumItems
    BY <2>1 DEF MainAt
  <2>4. ExType'
    BY <2>1, <2>2 DEF ExType
  <2>5. MainAt'
    BY <2>1, <2>2, ExNames DEF MainAt, Threads
  <2>6. ThreadAt'
    BY <2>1, <2>2, ExNames DEF ThreadAt
  <2>7. Added' = Added
    <3>1. Added = c + 1
      BY <2>1 DEF Added
    <3>2. CASE c + 1 < NumItems
      BY <2>1, <2>2, <3>1, <3>2 DEF Added
    <3>3. CASE ~(c + 1 < NumItems)
      <4>1. c + 1 = NumItems /\ NumItems' = NumItems
        BY <2>1, <2>3, <3>3, ExNames DEF NumItems
      <4> QED BY <2>1, <2>2, <3>1, <3>3, <4>1 DEF Added
    <3> QED BY <3>2, <3>3
  <2>8. \A t \in Threads : Got(t)' = Got(t) /\ \A j \in 1..Got(t) : Value(t, j)' = Value(t, j)
    BY <2>1, <2>2 DEF Got, Value
  <2> QED BY <2>1, <2>4, <2>5, <2>6, <2>7, <2>8, NothingGot
<1>4. ASSUME Clients!JoinNext PROVE ExInv'
  <2> DEFINE c == count[main]
  <2>1. /\ stage[main] = "join" /\ c \in Threads /\ joinLock[c] = "free" /\ stage[c] = "done"
        /\ joinLock' = [joinLock EXCEPT ![c] = "freed"]
        /\ UNCHANGED <<numbers, pending, xret, results>>
    BY <1>4, ExNames DEF Clients!JoinNext, ExType, MainAt, ThreadAt, Threads
  <2>2. /\ stage'[main] = IF c + 1 < NThreads THEN "join" ELSE "done"
        /\ count'[main] = IF c + 1 < NThreads THEN c + 1 ELSE 0
        /\ \A t \in Threads : stage'[t] = stage[t] /\ count'[t] = count[t]
        /\ DOMAIN stage' = 0..NThreads /\ count' \in [0..NThreads -> Nat]
    <3>1. CASE c + 1 < NThreads
      <4>1. count' = [count EXCEPT ![main] = c + 1] /\ stage' = stage
        BY <1>4, <3>1, ExNames DEF Clients!JoinNext, Clients!NextLoop, Clients!Round
      <4>2. c + 1 \in Nat
        BY <2>1 DEF Threads
      <4>3. DOMAIN stage' = 0..NThreads
        BY <4>1 DEF ExType
      <4> QED BY <3>1, <4>1, <4>2, <4>3, <2>1, Counted, ExNames
    <3>2. CASE ~(c + 1 < NThreads)
      <4>1. count' = [count EXCEPT ![main] = 0] /\ stage' = [stage EXCEPT ![main] = "done"]
        BY <1>4, <3>2, ExNames DEF Clients!JoinNext, Clients!NextLoop, Clients!Goto
      <4> QED BY <3>2, <4>1, <2>1, Counted, Moved, ExNames
    <3> QED BY <3>1, <3>2
  <2>3. /\ joinLock'[c] = "freed" /\ \A t \in Threads : t # c => joinLock'[t] = joinLock[t]
        /\ DOMAIN joinLock' = Threads
    BY <2>1 DEF ExType
  <2>4. ExType'
    BY <2>1, <2>2, <2>3 DEF ExType
  <2>5. MainAt'
    <3>1. \A t \in Threads : t < c + 1 => stage[t] = "done"
      BY <2>1, ExNames DEF MainAt, Threads
    <3>2. ~(c + 1 < NThreads) => \A t \in Threads : stage[t] = "done"
      <4>1. c \in Nat /\ NThreads \in Nat
        BY <2>1, ExNames
      <4>2. ASSUME ~(c + 1 < NThreads), NEW t \in Threads PROVE stage[t] = "done"
        <5>1. t \in Nat /\ t < NThreads
          BY ExNames
        <5> QED BY <3>1, <4>1, <4>2, <5>1
      <4> QED BY <4>2
    <3> QED BY <3>1, <3>2, <2>1, <2>2, ExNames DEF MainAt
  <2>6. ThreadAt'
    BY <2>1, <2>2, <2>3, ExNames DEF ThreadAt
  <2>7. Added' = Added
    BY <2>1, <2>2, ExNames DEF Added
  <2>8. \A t \in Threads : Got(t)' = Got(t) /\ \A j \in 1..Got(t) : Value(t, j)' = Value(t, j)
    BY <2>1, <2>2 DEF Got, Value
  <2> QED BY <2>1, <2>4, <2>5, <2>6, <2>7, <2>8, NothingGot
<1>5. ASSUME NEW t \in Threads, Clients!CallRemove(t) PROVE ExInv'
  <2>1. /\ stage[t] = "remove" /\ pending[t] = NoOp
        /\ pending' = [pending EXCEPT ![t] = RemoveCall]
        /\ stage' = [stage EXCEPT ![t] = "removing"]
        /\ UNCHANGED <<numbers, xret, count, results, joinLock>>
    BY <1>5, ExNames DEF Clients!CallRemove, Clients!Queue!Call, Clients!Goto, RemoveCall
  <2>2. /\ stage'[t] = "removing" /\ pending'[t] = RemoveCall /\ t # main /\ t \in 0..NThreads
        /\ DOMAIN stage' = 0..NThreads /\ DOMAIN pending' = 0..NThreads
        /\ \A s \in 0..NThreads : s # t => stage'[s] = stage[s] /\ pending'[s] = pending[s]
    BY <2>1, ExNames DEF ExType
  <2>3. stage'[main] = stage[main] /\ pending'[main] = pending[main] /\ AddCall' = AddCall
    BY <2>1, <2>2, ExNames DEF AddCall
  <2>4. ExType'
    BY <2>1, <2>2 DEF ExType
  <2>5. MainAt'
    BY <2>1, <2>2, <2>3, ExNames DEF MainAt
  <2>6. ThreadAt'
    BY <2>1, <2>2, <2>3, ExNames DEF ThreadAt
  <2>7. Added' = Added
    BY <2>1, <2>3 DEF Added
  <2>8. \A s \in Threads : Got(s)' = Got(s) /\ \A j \in 1..Got(s) : Value(s, j)' = Value(s, j)
    BY <2>1, <2>2, ExNames DEF Got, Value
  <2> QED BY <2>1, <2>4, <2>5, <2>6, <2>7, <2>8, NothingGot
<1>6. ASSUME NEW t \in Threads, Clients!RemoveReturned(t) PROVE ExInv'
  <2> DEFINE n == Len(results[t])
             l == IF n + 1 < Calls THEN "remove" ELSE "release"
  <2>1. /\ stage[t] = "removing" /\ pending[t] = NoOp /\ count[t] = n /\ n \in Nat
        /\ results' = [results EXCEPT ![t] = Append(results[t], xret[t])]
        /\ count' = [count EXCEPT ![t] = n + 1]
        /\ stage' = [stage EXCEPT ![t] = l]
        /\ UNCHANGED <<numbers, pending, xret, joinLock>>
    <3>1. count[t] = n /\ n \in Nat
      BY DEF ThreadAt, ExType
    <3> QED BY <1>6, <3>1, ExNames DEF Clients!RemoveReturned, Clients!Goto, Clients!Round
  <2>a. t \in 0..NThreads /\ t # main /\ results[t] \in Seq(Int) /\ xret[t] \in Int
    BY ExNames DEF ExType
  <2>b. Append(results[t], xret[t]) \in Seq(Int) /\ Len(Append(results[t], xret[t])) = n + 1
        /\ Append(results[t], xret[t])[n + 1] = xret[t]
        /\ \A j \in 1..n : Append(results[t], xret[t])[j] = results[t][j]
    BY <2>a, AppendProperties
  <2>c. /\ results' \in [Threads -> Seq(Int)] /\ results'[t] = Append(results[t], xret[t])
        /\ \A s \in Threads : s # t => results'[s] = results[s]
    BY <2>1, <2>b DEF ExType
  <2>d. DOMAIN stage' = 0..NThreads /\ stage'[t] = l /\ \A s \in 0..NThreads : s # t => stage'[s] = stage[s]
    BY <2>1, <2>a, Moved
  <2>e. n + 1 \in Nat /\ n < Calls
    BY <2>1 DEF ThreadAt
  <2>f. count' \in [0..NThreads -> Nat] /\ count'[t] = n + 1 /\ \A s \in 0..NThreads : s # t => count'[s] = count[s]
    BY <2>1, <2>a, <2>e, Counted
  <2>3. stage'[main] = stage[main] /\ count'[main] = count[main] /\ pending'[main] = pending[main] /\ AddCall' = AddCall
    BY <2>1, <2>a, <2>d, <2>f, ExNames DEF AddCall
  <2>4. ExType'
    BY <2>1, <2>c, <2>d, <2>f DEF ExType
  <2>5. MainAt'
    BY <2>1, <2>3, <2>d, ExNames DEF MainAt
  <2>6. ThreadAt'
    <3> SUFFICES ASSUME NEW s \in Threads PROVE ThreadAt!(s)'
      BY DEF ThreadAt
    <3>1. CASE s = t
      <4>1. n + 1 < Calls \/ n + 1 = Calls
        BY <2>1, <2>e, ExNames
      <4> QED BY <2>1, <2>b, <2>c, <2>d, <2>f, <2>3, <3>1, <4>1, ExNames DEF ThreadAt
    <3>2. CASE s # t
      <4>1. /\ stage'[s] = stage[s] /\ count'[s] = count[s] /\ results'[s] = results[s]
            /\ pending'[s] = pending[s] /\ joinLock'[s] = joinLock[s]
        BY <2>1, <2>c, <2>d, <2>f, <3>2, ExNames
      <4> QED BY <2>3, <4>1 DEF ThreadAt
    <3> QED BY <3>1, <3>2
  <2>7. Added' = Added
    BY <2>1, <2>3 DEF Added
  <2>8. \A s \in Threads : Got(s)' = Got(s) /\ \A j \in 1..Got(s) : Value(s, j)' = Value(s, j)
    <3> TAKE s \in Threads
    <3>1. CASE s = t
      <4>1. Got(t) = n + 1 /\ Got(t)' = n + 1
        BY <2>1, <2>b, <2>c, <2>d DEF Got
      <4>2. ASSUME NEW j \in 1..n+1 PROVE Value(t, j)' = Value(t, j)
        <5>1. CASE j <= n
          BY <5>1, <2>1, <2>b, <2>c DEF Value
        <5>2. CASE j = n + 1
          BY <5>2, <2>1, <2>b, <2>c DEF Value
        <5> QED BY <5>1, <5>2, <2>1
      <4> QED BY <3>1, <4>1, <4>2
    <3>2. CASE s # t
      <4>1. stage'[s] = stage[s] /\ results'[s] = results[s] /\ pending'[s] = pending[s] /\ xret'[s] = xret[s]
        BY <2>1, <2>c, <2>d, <3>2, ExNames
      <4> QED BY <4>1 DEF Got, Value
    <3> QED BY <3>1, <3>2
  <2> QED BY <2>1, <2>4, <2>5, <2>6, <2>7, <2>8, NothingGot
<1>7. ASSUME NEW t \in Threads, Clients!ReleaseLast(t) PROVE ExInv'
  <2>1. /\ stage[t] = "release" /\ joinLock' = [joinLock EXCEPT ![t] = "free"]
        /\ stage' = [stage EXCEPT ![t] = "done"]
        /\ UNCHANGED <<numbers, pending, xret, count, results>>
    BY <1>7 DEF Clients!ReleaseLast, Clients!Goto
  <2>2. /\ stage'[t] = "done" /\ t # main /\ t \in 0..NThreads
        /\ DOMAIN stage' = 0..NThreads
        /\ \A s \in 0..NThreads : s # t => stage'[s] = stage[s]
    BY <2>1, ExNames DEF ExType
  <2>3. stage'[main] = stage[main] /\ AddCall' = AddCall
    BY <2>1, <2>2, ExNames DEF AddCall
  <2>b. DOMAIN joinLock' = Threads /\ \A s \in Threads : s # t => joinLock'[s] = joinLock[s]
    BY <2>1 DEF ExType
  <2>4. ExType'
    BY <2>1, <2>2, <2>b DEF ExType
  <2>5. MainAt'
    BY <2>1, <2>2, <2>3, ExNames DEF MainAt
  <2>6. ThreadAt'
    BY <2>1, <2>2, <2>3, <2>b, ExNames DEF ThreadAt
  <2>7. Added' = Added
    BY <2>1, <2>3 DEF Added
  <2>8. \A s \in Threads : Got(s)' = Got(s) /\ \A j \in 1..Got(s) : Value(s, j)' = Value(s, j)
    BY <2>1, <2>2, ExNames DEF Got, Value
  <2> QED BY <2>1, <2>4, <2>5, <2>6, <2>7, <2>8, NothingGot
<1>8. ASSUME NEW t \in 0..NThreads, Clients!InQueue(t), Clients!Queue!Add(t) PROVE ExInv'
  <2>1. /\ pending[t].kind = "add" /\ numbers' = Append(numbers, pending[t].item)
        /\ pending' = [pending EXCEPT ![t] = NoOp]
        /\ UNCHANGED <<xret, stage, count, results, joinLock>>
    BY <1>8, ExNames DEF Clients!InQueue, Clients!Queue!Add
  <2>2. pending[t] # NoOp
    BY <2>1, ExNames
  <2>3. t = main
    <3>1. ASSUME t # main PROVE FALSE
      <4>1. t \in Threads /\ pending[t] = RemoveCall
        BY <2>2, <3>1, ExNames DEF ThreadAt
      <4> QED BY <2>1, <4>1, ExNames
    <3> QED BY <3>1
  <2>4. stage[main] = "adding" /\ pending[main] = AddCall /\ pending'[main] = NoOp /\ DOMAIN pending' = 0..NThreads
        /\ \A s \in Threads : pending'[s] = pending[s]
    BY <2>1, <2>2, <2>3, ExNames DEF MainAt, ExType
  <2> DEFINE n == Len(numbers)
             c == count[main]
  <2>5. c \in Int /\ pending[t].item = c
    BY <2>3, <2>4, ExNames DEF ExType
  <2>6. /\ numbers' \in Seq(Int) /\ Len(numbers') = n + 1 /\ numbers'[n + 1] = c
        /\ \A j \in 1..n : numbers'[j] = numbers[j]
    BY <2>1, <2>5, AppendProperties DEF ExType
  <2>7. ExType'
    BY <2>1, <2>4, <2>6 DEF ExType
  <2>8. MainAt'
    BY <2>1, <2>4 DEF MainAt
  <2>9. ThreadAt'
    BY <2>1, <2>4 DEF ThreadAt
  <2>10. Added = c /\ Added' = c + 1
    BY <2>1, <2>4, ExNames DEF Added
  <2>11. Removed' = Removed /\ c = Removed + n
    BY <1>a, <2>5, <2>6, <2>10 DEF Removed
  <2>12. QueueInv'
    <3>1. ASSUME NEW j \in 1..n+1 PROVE numbers'[j] = Removed + j - 1
      <4>1. CASE j = n + 1
        BY <1>a, <2>5, <2>6, <2>11, <4>1
      <4>2. CASE j # n + 1
        <5>1. j \in 1..n
          BY <1>a, <4>2
        <5> QED BY <2>6, <5>1 DEF QueueInv
      <4> QED BY <4>1, <4>2
    <3> QED BY <2>6, <2>11, <3>1 DEF QueueInv
  <2>13. \A s \in Threads : Got(s)' = Got(s) /\ \A j \in 1..Got(s) : Value(s, j)' = Value(s, j)
    BY <2>1, <2>4 DEF Got, Value
  <2>14. GotInv'
    BY <2>11, <2>13 DEF GotInv
  <2> QED BY <2>7, <2>8, <2>9, <2>12, <2>14
<1>9. ASSUME NEW t \in 0..NThreads, Clients!InQueue(t), Clients!Queue!Remove(t) PROVE ExInv'
  <2>1. /\ pending[t].kind \in {"remove", "tryremove"} /\ numbers # <<>> /\ numbers' = Tail(numbers)
        /\ xret' = [xret EXCEPT ![t] = Head(numbers)]
        /\ pending' = [pending EXCEPT ![t] = NoOp]
        /\ UNCHANGED <<stage, count, results, joinLock>>
    BY <1>9, ExNames DEF Clients!InQueue, Clients!Queue!Remove
  <2>2. pending[t] # NoOp
    BY <2>1, ExNames
  <2>3. t \in Threads
    <3>1. ASSUME t = main PROVE FALSE
      <4>1. pending[t] = AddCall
        BY <2>2, <3>1 DEF MainAt
      <4> QED BY <2>1, <4>1, ExNames
    <3> QED BY <3>1, ExNames
  <2> DEFINE n == Len(numbers)
             v == numbers[1]
  <2>g. PICK g \in Nat : g = Len(results[t])
    BY <2>3 DEF ExType
  <2>4. /\ stage[t] = "removing" /\ pending'[t] = NoOp /\ DOMAIN pending' = 0..NThreads /\ t # main
        /\ \A s \in 0..NThreads : s # t => pending'[s] = pending[s]
    BY <2>1, <2>2, <2>3, ExNames DEF ThreadAt, ExType
  <2>5. /\ Head(numbers) = v /\ v \in Int /\ numbers' \in Seq(Int) /\ Len(numbers') = n - 1 /\ n \in Nat \ {0}
        /\ \A j \in 1..n-1 : numbers'[j] = numbers[j + 1]
    BY <2>1, HeadTailProperties DEF ExType
  <2>6. /\ xret' \in [0..NThreads -> Int] /\ xret'[t] = v /\ \A s \in 0..NThreads : s # t => xret'[s] = xret[s]
    BY <2>1, <2>5 DEF ExType
  <2>7. ExType'
    BY <2>1, <2>4, <2>5, <2>6 DEF ExType
  <2>8. pending'[main] = pending[main] /\ AddCall' = AddCall
    BY <2>1, <2>4, ExNames DEF AddCall
  <2>9. MainAt'
    BY <2>1, <2>8 DEF MainAt
  <2>10. ThreadAt'
    BY <2>1, <2>4, <2>8, ExNames DEF ThreadAt
  <2>11. Added' = Added
    BY <2>1, <2>8 DEF Added
  <2>12. Removed' = Removed + 1 /\ v = Removed /\ Removed \in Nat
    BY <1>a, <2>5, <2>11 DEF Removed, QueueInv
  <2>13. QueueInv'
    <3>1. \A j \in 1..n-1 : numbers'[j] = Removed + 1 + j - 1
      BY <1>a, <2>5, <2>12 DEF QueueInv
    <3> QED BY <2>5, <2>12, <3>1 DEF QueueInv
  <2>14. g \in Nat /\ Got(t) = g /\ Got(t)' = g + 1 /\ Value(t, g + 1)' = v
         /\ \A j \in 1..g : Value(t, j)' = Value(t, j)
    BY <2>1, <2>2, <2>3, <2>4, <2>6, <2>g, ExNames DEF Got, Value, ExType
  <2>15. \A s \in Threads : s # t => Got(s)' = Got(s) /\ \A j \in 1..Got(s) : Value(s, j)' = Value(s, j)
    BY <2>1, <2>4, <2>6, ExNames DEF Got, Value
  <2>16. GotInv'
    <3>1. ASSUME NEW s \in Threads, NEW j \in 1..Got(s)'
          PROVE  \/ s = t /\ j = g + 1 /\ Value(s, j)' = Removed
                 \/ j \in 1..Got(s) /\ Value(s, j)' = Value(s, j)
      <4>1. CASE s = t
        <5>1. g \in Nat /\ j \in 1..g + 1 /\ Got(s) = g
          BY <2>14, <4>1
        <5>2. j = g + 1 \/ j \in 1..g
          BY <5>1
        <5> QED BY <2>12, <2>14, <4>1, <5>1, <5>2 DEF Value, Got
      <4>2. CASE s # t
        BY <2>15, <4>2
      <4> QED BY <4>1, <4>2
    <3>2. \A s \in Threads : \A j \in 1..Got(s) : Value(s, j) \in Nat /\ Value(s, j) < Removed
      BY <2>12 DEF GotInv
    <3>3. \A s \in Threads : \A j \in 1..Got(s)' : Value(s, j)' \in 0..Removed
      BY <3>1, <3>2, <2>12
    <3>4. \A s \in Threads : \A j, k \in 1..Got(s)' : j < k => Value(s, j)' < Value(s, k)'
      <4> SUFFICES ASSUME NEW s \in Threads, NEW j \in 1..Got(s)', NEW k \in 1..Got(s)', j < k
                   PROVE  Value(s, j)' < Value(s, k)'
        OBVIOUS
      <4>1. CASE s = t /\ k = g + 1
        <5>1. j \in 1..Got(s) /\ Value(s, j)' = Value(s, j) /\ Value(s, k)' = Removed
          <6>1. g \in Nat /\ j \in 1..g + 1 /\ j < g + 1 /\ Got(s) = g
            BY <4>1, <2>14
          <6>2. j \in 1..g
            BY <6>1
          <6> QED BY <4>1, <2>12, <2>14, <6>1, <6>2 DEF Value, Got
        <5> QED BY <3>2, <5>1
      <4>2. CASE ~(s = t /\ k = g + 1)
        <5>1. k \in 1..Got(s) /\ Value(s, k)' = Value(s, k)
          BY <3>1, <4>2
        <5>2. j \in 1..Got(s) /\ Value(s, j)' = Value(s, j)
          BY <3>1, <4>2, <5>1, <2>14
        <5> QED BY <5>1, <5>2 DEF GotInv
      <4> QED BY <4>1, <4>2
    <3>5. \A r, s \in Threads : r # s => \A j \in 1..Got(r)', k \in 1..Got(s)' : Value(r, j)' # Value(s, k)'
      <4> SUFFICES ASSUME NEW r \in Threads, NEW s \in Threads, r # s, NEW j \in 1..Got(r)', NEW k \in 1..Got(s)'
                   PROVE  Value(r, j)' # Value(s, k)'
        OBVIOUS
      <4>1. CASE r = t /\ j = g + 1
        <5>1. k \in 1..Got(s) /\ Value(s, k)' = Value(s, k) /\ Value(r, j)' = Removed
          BY <4>1, <3>1, <2>12, <2>14
        <5>2. Value(s, k) \in Nat /\ Value(s, k) < Removed
          BY <3>2, <5>1
        <5> QED BY <5>1, <5>2, <2>12
      <4>2. CASE s = t /\ k = g + 1
        <5>1. j \in 1..Got(r) /\ Value(r, j)' = Value(r, j) /\ Value(s, k)' = Removed
          BY <4>2, <3>1, <2>12, <2>14
        <5>2. Value(r, j) \in Nat /\ Value(r, j) < Removed
          BY <3>2, <5>1
        <5> QED BY <5>1, <5>2, <2>12
      <4>3. CASE ~(r = t /\ j = g + 1) /\ ~(s = t /\ k = g + 1)
        <5>1. j \in 1..Got(r) /\ Value(r, j)' = Value(r, j) /\ k \in 1..Got(s) /\ Value(s, k)' = Value(s, k)
          BY <4>3, <3>1
        <5> QED BY <5>1 DEF GotInv
      <4> QED BY <4>1, <4>2, <4>3
    <3>6. \A m \in 0..Removed : \E s \in Threads : \E j \in 1..Got(s)' : Value(s, j)' = m
      <4> SUFFICES ASSUME NEW m \in 0..Removed PROVE \E s \in Threads : \E j \in 1..Got(s)' : Value(s, j)' = m
        OBVIOUS
      <4>1. CASE m = Removed
        <5>1. g + 1 \in 1..Got(t)' /\ Value(t, g + 1)' = m
          BY <4>1, <2>12, <2>14
        <5> QED BY <2>3, <5>1 DEF Value, Got
      <4>2. CASE m # Removed
        <5>1. m \in 0..Removed-1
          BY <4>2, <2>12
        <5>2. PICK s \in Threads : \E j \in 1..Got(s) : Value(s, j) = m
          BY <5>1 DEF GotInv
        <5>3. PICK j \in 1..Got(s) : Value(s, j) = m
          BY <5>2
        <5>4. j \in 1..Got(s)' /\ Value(s, j)' = Value(s, j)
          BY <2>14, <2>15
        <5> QED BY <5>3, <5>4
      <4> QED BY <4>1, <4>2
    <3>7. Removed' - 1 = Removed
      BY <2>12
    <3> QED BY <3>3, <3>4, <3>5, <3>6, <3>7 DEF GotInv
  <2> QED BY <2>7, <2>9, <2>10, <2>13, <2>16
<1>10. CASE UNCHANGED exVars
  <2> USE <1>10 DEF exVars
  <2>1. ExType' /\ MainAt' /\ ThreadAt'
    BY DEF ExType, MainAt, ThreadAt, AddCall
  <2>2. Added' = Added /\ \A s \in Threads : Got(s)' = Got(s) /\ \A j \in 1..Got(s) : Value(s, j)' = Value(s, j)
    BY DEF Added, Got, Value
  <2> QED BY <2>1, <2>2, NothingGot
<1>11. ASSUME NEW t \in 0..NThreads, Clients!InQueue(t) PROVE ExInv'
  BY <1>8, <1>9, <1>11 DEF Clients!InQueue
<1>12. Clients!Threads = Threads
  BY ExNames
<1> QED
  BY <1>1, <1>2, <1>3, <1>4, <1>5, <1>6, <1>7, <1>10, <1>11, <1>12 DEF Clients!ExNext

(* When main has joined all threads they have all the numbers: as many as  *)
(* there are places in the results.                                        *)
LEMMA ExMerges == ExInv => Clients!ResultsMerge
<1> SUFFICES ASSUME ExInv PROVE Clients!ResultsMerge
  OBVIOUS
<1> USE DEF ExInv
<1>1. \A t \in Threads : /\ Len(results[t]) \in Nat /\ DOMAIN results[t] = 1..Len(results[t])
                         /\ Got(t) >= Len(results[t]) /\ Got(t) \in Nat
  BY DEF ExType, Got
<1>2. \A t \in Threads : \A j \in DOMAIN results[t] : j \in 1..Got(t) /\ results[t][j] = Value(t, j)
  BY <1>1 DEF Value
<1>3. \A t \in Threads : \A j, k \in DOMAIN results[t] : j < k => results[t][j] < results[t][k]
  BY <1>2 DEF GotInv
<1>4. ASSUME stage[main] = "done"
      PROVE  /\ \A n \in 0..NumItems-1 : \E t \in Threads : \E j \in DOMAIN results[t] : results[t][j] = n
             /\ \A t \in Threads : Len(results[t]) = Calls /\ stage[t] = "done"
             /\ numbers = <<>>
  <2>1. \A t \in Threads : stage[t] = "done" /\ Len(results[t]) = Calls
    BY <1>4 DEF MainAt, ThreadAt
  <2>2. \A t \in Threads : Got(t) = Calls
    BY <2>1 DEF Got
  <2>3. Added = NumItems
    BY <1>4 DEF Added
  <2>4. Len(numbers) \in Nat /\ Removed = NumItems - Len(numbers) /\ Removed \in Nat
    BY <2>3, AddedNat, ExNames DEF Removed, QueueInv
  <2> DEFINE P == Threads \X (1..Calls)
             f == [p \in P |-> Value(p[1], p[2])]
  <2>5. IsFiniteSet(P) /\ Cardinality(P) = NumItems
    <3>1. IsFiniteSet(Threads) /\ Cardinality(Threads) = NThreads
      BY ExampleAssumption, FS_Interval, 0 \in Int, NThreads - 1 \in Int, ~(0 > NThreads - 1), NThreads - 1 - 0 + 1 = NThreads DEF Threads
    <3>2. IsFiniteSet(1..Calls) /\ Cardinality(1..Calls) = Calls
      BY ExampleAssumption, FS_Interval, 1 \in Int, Calls \in Int, ~(1 > Calls), Calls - 1 + 1 = Calls
    <3> QED BY <3>1, <3>2, FS_Product DEF NumItems
  <2>6. IsFiniteSet(0..Removed-1) /\ Cardinality(0..Removed-1) = Removed
    <3>1. CASE Removed = 0
      BY <2>4, <3>1, FS_Interval, 0 \in Int, Removed - 1 \in Int, 0 > Removed - 1
    <3>2. CASE Removed # 0
      BY <2>4, <3>2, FS_Interval, 0 \in Int, Removed - 1 \in Int, ~(0 > Removed - 1), Removed - 1 - 0 + 1 = Removed
    <3> QED BY <3>1, <3>2
  <2>7. \A p \in P : p[1] \in Threads /\ p[2] \in 1..Calls /\ p[2] \in 1..Got(p[1]) /\ p = <<p[1], p[2]>>
    BY <2>2
  <2>8. f \in [P -> 0..Removed-1]
    BY <2>7 DEF GotInv
  <2>9. \A p, q \in P : f[p] = f[q] => p = q
    <3> SUFFICES ASSUME NEW p \in P, NEW q \in P, f[p] = f[q] PROVE p = q
      OBVIOUS
    <3>1. Value(p[1], p[2]) = Value(q[1], q[2])
      OBVIOUS
    <3> HIDE DEF f, P
    <3>2. p[1] = q[1]
      BY <2>7, <3>1 DEF GotInv
    <3>3. p[2] = q[2]
      <4>1. p[2] \in Int /\ q[2] \in Int
        BY <2>7
      <4>2. \A j, k \in 1..Got(p[1]) : j < k => Value(p[1], j) < Value(p[1], k)
        BY <2>7 DEF GotInv
      <4>3. \A j \in 1..Got(p[1]) : Value(p[1], j) \in Int
        BY <2>7 DEF GotInv
      <4> QED BY <2>7, <3>1, <3>2, <4>1, <4>2, <4>3
    <3> QED BY <2>7, <3>2, <3>3
  <2>10. \A n \in 0..Removed-1 : \E p \in P : f[p] = n
    <3> SUFFICES ASSUME NEW n \in 0..Removed-1 PROVE \E p \in P : f[p] = n
      OBVIOUS
    <3>1. PICK t \in Threads : \E j \in 1..Got(t) : Value(t, j) = n
      BY DEF GotInv
    <3>2. PICK j \in 1..Got(t) : Value(t, j) = n
      BY <3>1
    <3>3. <<t, j>> \in P
      BY <2>2
    <3> QED BY <3>2, <3>3
  <2>11. ExistsBijection(P, 0..Removed-1)
    <3> HIDE DEF f, P
    <3>1. f \in Injection(P, 0..Removed-1)
      BY <2>8, <2>9 DEF Injection, IsInjective
    <3>2. f \in Surjection(P, 0..Removed-1)
      BY <2>8, <2>10 DEF Surjection
    <3> QED BY <3>1, <3>2 DEF ExistsBijection, Bijection
  <2>12. Removed = NumItems
    BY <2>5, <2>6, <2>11, FS_Bijection
  <2>13. numbers = <<>>
    BY <2>4, <2>12, ExNames, EmptySeq DEF ExType
  <2>14. \A n \in 0..NumItems-1 : \E t \in Threads : \E j \in DOMAIN results[t] : results[t][j] = n
    BY <1>1, <1>2, <2>1, <2>2, <2>12 DEF GotInv
  <2> QED BY <2>1, <2>13, <2>14
<1> QED BY <1>3, <1>4, ExNames DEF Clients!ResultsMerge

-----------------------------------------------------------------------------
(* malloc.c, for any constants as malloc.c has them. What holds of 0 and  *)
(* of the next number holds up to N.                                      *)
LEMMA UpInduction ==
  ASSUME NEW N \in Nat, NEW S, 0 \in S, \A i \in 0..N-1 : i \in S => i + 1 \in S
  PROVE  0..N \subseteq S
<1> DEFINE missing == {i \in 0..N : i \notin S}
<1>1. SUFFICES ASSUME missing # {} PROVE FALSE
  OBVIOUS
<1>2. PICK k \in missing : \A j \in missing : ~(<<j, k>> \in OpToRel(<, Nat))
  <2>1. missing \subseteq Nat
    OBVIOUS
  <2> HIDE DEF missing
  <2> QED BY <1>1, <2>1, NatLessThanWellFounded, WFMin
<1>3. k - 1 \in missing /\ k \in Nat /\ k - 1 \in Nat
  <2>1. k \in 0..N /\ k \notin S /\ k # 0
    BY <1>2
  <2>2. k - 1 \in 0..N-1 /\ (k - 1) + 1 = k
    BY <2>1
  <2> QED BY <2>1, <2>2
<1>4. <<k - 1, k>> \in OpToRel(<, Nat)
  BY <1>3 DEF OpToRel
<1> QED BY <1>2, <1>3, <1>4

-----------------------------------------------------------------------------
(* Lists.                                                                   *)
FirstOf(L) == IF L = <<>> THEN Null ELSE L[1]

(* L is the list that the links k make from p: its blocks, each once, one *)
(* leading to the next and the last to NULL.                              *)
IsList(k, p, L) ==
  /\ L \in Seq(DOMAIN k)
  /\ \A i, j \in 1..Len(L) : L[i] = L[j] => i = j
  /\ p = FirstOf(L)
  /\ \A i \in 1..Len(L) : k[L[i]] = IF i = Len(L) THEN Null ELSE L[i + 1]

(* A list is no longer than there are blocks.                             *)
LEMMA Shorter ==
  ASSUME NEW k, NEW p, NEW L, IsList(k, p, L), IsFiniteSet(DOMAIN k)
  PROVE  Len(L) <= Cardinality(DOMAIN k) /\ Cardinality(DOMAIN k) \in Nat /\ Len(L) \in Nat
<1>1. L \in Injection(1..Len(L), DOMAIN k)
  BY DEF IsList, Injection, IsInjective
<1>2. IsFiniteSet(1..Len(L)) /\ Cardinality(1..Len(L)) <= Cardinality(DOMAIN k)
  BY <1>1, FS_Injection
<1>3. Len(L) \in Nat
  BY DEF IsList
<1>4. Cardinality(1..Len(L)) = Len(L)
  <2>1. CASE Len(L) = 0
    BY <2>1, FS_Interval, 1 \in Int, 0 \in Int, 1 > 0
  <2>2. CASE Len(L) # 0
    BY <1>3, <2>2, FS_Interval, 1 \in Int, Len(L) \in Int, ~(1 > Len(L)), Len(L) - 1 + 1 = Len(L)
  <2> QED BY <2>1, <2>2
<1> QED BY <1>2, <1>3, <1>4, FS_CardinalityType

(* What a walk from p along k comes to, and what ListFrom is of it.        *)
WalkSteps(k, p, n) == CHOOSE l : l = [i \in 0..n |-> IF i = 0 THEN <<p>>
                                  ELSE LET s == l[i - 1]  q == s[Len(s)]
                                       IN  IF q \in DOMAIN k THEN Append(s, k[q]) ELSE s]
Walk(k, p) == LET s == WalkSteps(k, p, Cardinality(DOMAIN k) + 1)[Cardinality(DOMAIN k) + 1] IN SubSeq(s, 1, Len(s) - 1)

(* The walk from the first block of a list comes to the blocks of the     *)
(* list.                                                                  *)
LEMMA WalkIs ==
  ASSUME NEW k, NEW p, NEW L, IsList(k, p, L), IsFiniteSet(DOMAIN k), Null \notin DOMAIN k
  PROVE  Walk(k, p) = L
<1> DEFINE n == Cardinality(DOMAIN k) + 1
           M == Append(L, Null)
           Pre(i) == SubSeq(M, 1, IF i < Len(M) THEN i + 1 ELSE Len(M))
           Next1(s) == LET q == s[Len(s)] IN IF q \in DOMAIN k THEN Append(s, k[q]) ELSE s
           Is(l) == l = [i \in 0..n |-> IF i = 0 THEN <<p>> ELSE Next1(l[i - 1])]
<1>1. n \in Nat /\ Len(L) \in Nat /\ Len(L) + 1 <= n
  BY Shorter
<1>2. /\ M \in Seq(DOMAIN k \cup {Null}) /\ Len(M) = Len(L) + 1 /\ M[Len(L) + 1] = Null
      /\ \A i \in 1..Len(L) : M[i] = L[i] /\ L[i] \in DOMAIN k
  BY DEF IsList
<1>3. p = M[1]
  <2>1. CASE L = <<>>
    BY <1>2, <2>1 DEF IsList, FirstOf
  <2>2. CASE L # <<>>
    BY <1>1, <1>2, <2>2 DEF IsList, FirstOf
  <2> QED BY <2>1, <2>2
<1>4. \A i \in 1..Len(L) : k[M[i]] = M[i + 1]
  <2> SUFFICES ASSUME NEW i \in 1..Len(L) PROVE k[M[i]] = M[i + 1]
    OBVIOUS
  <2>1. CASE i = Len(L)
    BY <1>2, <2>1 DEF IsList
  <2>2. CASE i # Len(L)
    <3>1. i + 1 \in 1..Len(L)
      BY <1>1, <2>2
    <3> QED BY <1>2, <2>2, <3>1 DEF IsList
  <2> QED BY <2>1, <2>2
<1> HIDE DEF M
<1>5. Pre(0) = <<p>>
  <2>1. Len(SubSeq(M, 1, 1)) = 1 /\ SubSeq(M, 1, 1)[1] = M[1] /\ SubSeq(M, 1, 1) \in Seq(DOMAIN k \cup {Null})
    BY <1>1, <1>2
  <2>2. SubSeq(M, 1, 1) = <<M[1]>>
    <3>1. <<M[1]>> \in Seq(DOMAIN k \cup {Null}) /\ Len(<<M[1]>>) = 1 /\ <<M[1]>>[1] = M[1]
      BY <1>1, <1>2
    <3> DEFINE a == SubSeq(M, 1, 1)
               c == <<M[1]>>
               V == DOMAIN k \cup {Null}
    <3>2. a \in Seq(V) /\ c \in Seq(V) /\ Len(a) = Len(c)
      BY <2>1, <3>1
    <3>3. \A i \in 1..Len(a) : a[i] = c[i]
      BY <2>1, <3>1
    <3> HIDE DEF a, c, V
    <3>4. a = c
      BY <3>2, <3>3, SeqEqual
    <3> QED BY <3>4 DEF a, c
  <2>3. Pre(0) = SubSeq(M, 1, 1)
    BY <1>1, <1>2
  <2> QED BY <1>3, <2>2, <2>3
<1>6. \A i \in 1..n : Pre(i) = Next1(Pre(i - 1))
  <2> SUFFICES ASSUME NEW i \in 1..n PROVE Pre(i) = Next1(Pre(i - 1))
    OBVIOUS
  <2>1. CASE i <= Len(L)
    <3>1. Pre(i - 1) = SubSeq(M, 1, i) /\ Pre(i) = SubSeq(M, 1, i + 1)
      BY <1>1, <1>2, <2>1
    <3>2. Len(SubSeq(M, 1, i)) = i /\ SubSeq(M, 1, i)[i] = M[i] /\ M[i] \in DOMAIN k /\ k[M[i]] = M[i + 1]
      BY <1>1, <1>2, <1>4, <2>1
    <3>3. Next1(Pre(i - 1)) = Append(SubSeq(M, 1, i), M[i + 1])
      BY <3>1, <3>2
    <3>4. SubSeq(M, 1, i + 1) = Append(SubSeq(M, 1, i), M[i + 1])
      <4>1. i + 1 \in 1..Len(M) /\ i \in 1..Len(M)
        BY <1>1, <1>2, <2>1
      <4> QED BY <1>2, <4>1
    <3> QED BY <3>1, <3>3, <3>4
  <2>2. CASE i > Len(L)
    <3>1. Pre(i - 1) = SubSeq(M, 1, Len(M)) /\ Pre(i) = SubSeq(M, 1, Len(M))
      BY <1>1, <1>2, <2>2
    <3>2. LET s == SubSeq(M, 1, Len(M)) IN s[Len(s)] = Null
      BY <1>1, <1>2
    <3> HIDE DEF Pre
    <3> QED BY <3>1, <3>2
  <2>3. i \in Int /\ Len(L) \in Int
    BY <1>1
  <2> HIDE DEF Pre, Next1
  <2> QED BY <2>1, <2>2, <2>3
<1> HIDE DEF Pre, Next1
<1>7. Is([i \in 0..n |-> Pre(i)])
  <2>1. \A i \in 0..n : Pre(i) = IF i = 0 THEN <<p>> ELSE Next1([j \in 0..n |-> Pre(j)][i - 1])
    BY <1>1, <1>5, <1>6
  <2> QED BY <2>1
<1> HIDE DEF n, Is
<1>8. Is(CHOOSE l : Is(l))
  BY <1>7
<1> DEFINE f == CHOOSE l : Is(l)
<1> HIDE DEF f
<1>9. f = [i \in 0..n |-> IF i = 0 THEN <<p>> ELSE Next1(f[i - 1])]
  BY <1>8 DEF Is, f
<1>10. f[n] = Pre(n)
  <2> DEFINE S == {i \in 0..n : f[i] = Pre(i)}
  <2>1. 0 \in S
    BY <1>1, <1>5, <1>9
  <2>2. \A i \in 0..n-1 : i \in S => i + 1 \in S
    <3> SUFFICES ASSUME NEW i \in 0..n-1, i \in S PROVE i + 1 \in S
      OBVIOUS
    <3>1. i + 1 \in 0..n /\ i + 1 # 0 /\ (i + 1) - 1 = i /\ i + 1 \in 1..n
      BY <1>1
    <3>2. f[i + 1] = Next1(f[i])
      BY <1>9, <3>1
    <3>3. Pre(i + 1) = Next1(Pre(i))
      BY <1>6, <3>1
    <3> QED BY <3>1, <3>2, <3>3
  <2> HIDE DEF S
  <2>3. 0..n \subseteq S
    BY <1>1, <2>1, <2>2, UpInduction
  <2>4. n \in S
    BY <1>1, <2>3
  <2> QED BY <2>4 DEF S
<1>11. WalkSteps(k, p, n) = f
  BY DEF WalkSteps, f, Is, Next1
<1>12. Pre(n) = M
  BY <1>1, <1>2 DEF Pre
<1>13. SubSeq(M, 1, Len(M) - 1) = L
  BY <1>1, <1>2 DEF IsList
<1> QED BY <1>10, <1>11, <1>12, <1>13 DEF Walk, n

(* What Updated and Restricted make of a map.                             *)
LEMMA UpdatedIs ==
  ASSUME NEW f, NEW g
  PROVE  /\ DOMAIN Updated(f, g) = DOMAIN f \cup DOMAIN g
         /\ \A x \in DOMAIN g : Updated(f, g)[x] = g[x]
         /\ \A x \in DOMAIN f \ DOMAIN g : Updated(f, g)[x] = f[x]
BY DEF Updated

LEMMA RestrictedIs ==
  ASSUME NEW f, NEW S
  PROVE  DOMAIN Restricted(f, S) = DOMAIN f \cap S /\ \A x \in DOMAIN f \cap S : Restricted(f, S)[x] = f[x]
BY DEF Restricted

(* A list stays a list if the links of its blocks stay.                   *)
LEMMA SameList ==
  ASSUME NEW k, NEW m, NEW p, NEW L, IsList(k, p, L),
         \A i \in 1..Len(L) : L[i] \in DOMAIN m /\ m[L[i]] = k[L[i]]
  PROVE  IsList(m, p, L)
<1>1. L \in Seq(DOMAIN m)
  BY DEF IsList
<1> QED BY <1>1 DEF IsList

(* The first n members of L; and two sequences, one after the other.      *)
Members(L, n) == {L[i] : i \in 1..n}

Joined(X, L) == X \o L

(* Blocks that lead to one another and then to a list are a longer list.  *)
LEMMA ChainList ==
  ASSUME NEW k, NEW q, NEW L, IsList(k, q, L), NEW n \in Nat \ {0}, NEW X \in [1..n -> DOMAIN k],
         \A i, j \in 1..n : X[i] = X[j] => i = j,
         \A i \in 1..n, j \in 1..Len(L) : X[i] # L[j],
         \A i \in 1..n : k[X[i]] = IF i = n THEN q ELSE X[i + 1],
         NEW M, M = Joined(X, L)
  PROVE  /\ IsList(k, X[1], M) /\ Len(M) = n + Len(L) /\ Len(L) \in Nat
         /\ \A i \in 1..n : M[i] = X[i]
         /\ \A j \in 1..Len(L) : M[n + j] = L[j]
         /\ \A i \in 1..Len(M) : M[i] \in Members(X, n) \cup Members(L, Len(L))
<1>1. X \in Seq(DOMAIN k) /\ Len(X) = n /\ L \in Seq(DOMAIN k) /\ Len(L) \in Nat
  BY DEF IsList
<1> DEFINE V == DOMAIN k
<1>10. X \in Seq(V) /\ L \in Seq(V)
  BY <1>1
<1> HIDE DEF V
<1>11. /\ M \in Seq(V) /\ Len(M) = Len(X) + Len(L)
       /\ \A i \in 1..Len(X) : M[i] = X[i]
       /\ \A i \in 1..Len(L) : M[Len(X) + i] = L[i]
  <2>1. Len(X) \in Nat /\ Len(L) \in Nat
    BY <1>10
  <2>2. M \in Seq(V) /\ Len(M) = Len(X) + Len(L)
    BY <1>10, <2>1 DEF Joined
  <2>3. ASSUME NEW i \in 1..Len(X) PROVE M[i] = X[i]
    BY <1>10, <2>1 DEF Joined
  <2>4. ASSUME NEW i \in 1..Len(L) PROVE M[Len(X) + i] = L[i]
    BY <1>10, <2>1 DEF Joined
  <2> QED BY <2>2, <2>3, <2>4
<1>2. M \in Seq(DOMAIN k) /\ Len(M) = n + Len(L)
  BY <1>1, <1>11 DEF V
<1>3. /\ \A i \in 1..n : M[i] = X[i]
      /\ \A j \in 1..Len(L) : M[n + j] = L[j]
  BY <1>1, <1>11
<1>4. \A i \in 1..Len(M) : i \in 1..n \/ \E j \in 1..Len(L) : i = n + j
  <2> SUFFICES ASSUME NEW i \in 1..Len(M), i \notin 1..n PROVE \E j \in 1..Len(L) : i = n + j
    OBVIOUS
  <2>1. i - n \in 1..Len(L) /\ i = n + (i - n)
    BY <1>1, <1>2
  <2> QED BY <2>1
<1>5. \A i, j \in 1..Len(M) : M[i] = M[j] => i = j
  <2> SUFFICES ASSUME NEW i \in 1..Len(M), NEW j \in 1..Len(M), M[i] = M[j] PROVE i = j
    OBVIOUS
  <2>1. CASE i \in 1..n /\ j \in 1..n
    BY <1>3, <2>1
  <2>2. CASE i \in 1..n /\ j \notin 1..n
    BY <1>3, <1>4, <2>2
  <2>3. CASE i \notin 1..n /\ j \in 1..n
    BY <1>3, <1>4, <2>3
  <2>4. CASE i \notin 1..n /\ j \notin 1..n
    <3>1. PICK a \in 1..Len(L) : i = n + a
      BY <1>4, <2>4
    <3>2. PICK c \in 1..Len(L) : j = n + c
      BY <1>4, <2>4
    <3>3. L[a] = L[c]
      BY <1>3, <3>1, <3>2
    <3> QED BY <3>1, <3>2, <3>3 DEF IsList
  <2> QED BY <2>1, <2>2, <2>3, <2>4
<1>6. X[1] = FirstOf(M)
  <2>1. M # <<>> /\ 1 \in 1..n
    BY <1>1, <1>2
  <2> QED BY <1>3, <2>1 DEF FirstOf
<1>7. \A i \in 1..Len(M) : k[M[i]] = IF i = Len(M) THEN Null ELSE M[i + 1]
  <2> SUFFICES ASSUME NEW i \in 1..Len(M) PROVE k[M[i]] = IF i = Len(M) THEN Null ELSE M[i + 1]
    OBVIOUS
  <2>1. CASE i \in 1..n /\ i # n
    <3>1. i + 1 \in 1..n /\ i # Len(M)
      BY <1>1, <1>2, <2>1
    <3> QED BY <1>3, <2>1, <3>1
  <2>2. CASE i = n
    <3>1. k[M[i]] = q /\ q = FirstOf(L)
      BY <1>3, <2>2 DEF IsList
    <3>2. CASE L = <<>>
      <4>1. Len(M) = n
        BY <1>1, <1>2, <3>2
      <4> QED BY <2>2, <3>1, <3>2, <4>1 DEF FirstOf
    <3>3. CASE L # <<>>
      <4>1. 1 \in 1..Len(L) /\ n # Len(M)
        BY <1>1, <1>2, <3>3, EmptySeq
      <4> QED BY <1>3, <2>2, <3>1, <3>3, <4>1 DEF FirstOf
    <3> QED BY <3>2, <3>3
  <2>3. CASE i \notin 1..n
    <3>1. PICK a \in 1..Len(L) : i = n + a
      BY <1>4, <2>3
    <3>2. k[M[i]] = IF a = Len(L) THEN Null ELSE L[a + 1]
      BY <1>3, <3>1 DEF IsList
    <3>3. CASE a = Len(L)
      BY <1>2, <3>1, <3>2, <3>3
    <3>4. CASE a # Len(L)
      <4>1. a + 1 \in 1..Len(L) /\ i + 1 = n + (a + 1) /\ i # Len(M)
        BY <1>1, <1>2, <3>1, <3>4
      <4> QED BY <1>3, <3>2, <3>4, <4>1
    <3> QED BY <3>3, <3>4
  <2> QED BY <2>1, <2>2, <2>3
<1>8. IsList(k, X[1], M)
  BY <1>2, <1>5, <1>6, <1>7 DEF IsList
<1>9. \A i \in 1..Len(M) : M[i] \in Members(X, n) \cup Members(L, Len(L))
  <2> SUFFICES ASSUME NEW i \in 1..Len(M) PROVE M[i] \in Members(X, n) \cup Members(L, Len(L))
    OBVIOUS
  <2>1. CASE i \in 1..n
    BY <1>3, <2>1 DEF Members
  <2>2. CASE i \notin 1..n
    <3>1. PICK j \in 1..Len(L) : i = n + j
      BY <1>4, <2>2
    <3>2. M[i] = L[j]
      BY <1>3, <3>1
    <3> QED BY <3>2 DEF Members
  <2> QED BY <2>1, <2>2
<1> QED BY <1>1, <1>2, <1>3, <1>8, <1>9

(* Without its first block a list is a list, from the block that the      *)
(* first one leads to.                                                    *)
LEMMA TailList ==
  ASSUME NEW k, NEW p, NEW L, IsList(k, p, L), p # Null
  PROVE  /\ IsList(k, k[p], Tail(L)) /\ p \in DOMAIN k
         /\ Len(L) \in Nat \ {0} /\ Len(Tail(L)) = Len(L) - 1 /\ p = L[1]
         /\ \A i \in 1..Len(L) - 1 : Tail(L)[i] = L[i + 1] /\ L[i + 1] # p
<1>1. L # <<>> /\ p = L[1] /\ L \in Seq(DOMAIN k)
  BY DEF IsList, FirstOf
<1>2. /\ Tail(L) \in Seq(DOMAIN k) /\ Len(Tail(L)) = Len(L) - 1 /\ Len(L) \in Nat \ {0}
      /\ \A i \in 1..Len(L) - 1 : Tail(L)[i] = L[i + 1]
  BY <1>1, HeadTailProperties, EmptySeq
<1>3. \A i \in 1..Len(L) - 1 : i \in 1..Len(L) /\ i + 1 \in 1..Len(L) /\ i + 1 # 1 /\ 1 \in 1..Len(L)
  BY <1>2
<1>4. \A i \in 1..Len(L) - 1 : L[i + 1] # p
  BY <1>1, <1>3 DEF IsList
<1>5. k[p] = FirstOf(Tail(L))
  <2>1. 1 \in 1..Len(L)
    BY <1>2
  <2>2. k[p] = IF 1 = Len(L) THEN Null ELSE L[2]
    <3>1. k[L[1]] = IF 1 = Len(L) THEN Null ELSE L[1 + 1]
      BY <2>1 DEF IsList
    <3> QED BY <1>1, <3>1
  <2> DEFINE T == Tail(L)
             bytes == Len(L)
  <2>5. T \in Seq(DOMAIN k) /\ Len(T) = bytes - 1 /\ bytes \in Nat \ {0}
    BY <1>2
  <2>3. CASE Len(L) = 1
    <3>1. Tail(L) = <<>>
      <4>1. Len(T) = 0
        BY <2>3, <2>5
      <4> HIDE DEF T
      <4>2. T = <<>>
        BY <2>5, <4>1, EmptySeq
      <4> QED BY <4>2 DEF T
    <3> QED BY <2>2, <2>3, <3>1 DEF FirstOf
  <2>4. CASE Len(L) # 1
    <3>1. Tail(L) # <<>> /\ 1 \in 1..Len(L) - 1
      <4>1. Len(T) # 0 /\ 1 \in 1..bytes - 1
        <5> HIDE DEF T, bytes
        <5>1. bytes # 1
          BY <2>4 DEF bytes
        <5> QED BY <2>5, <5>1
      <4> QED BY <4>1, EmptySeq
    <3>2. Tail(L)[1] = L[2]
      BY <1>2, <3>1
    <3> QED BY <2>2, <2>4, <3>1, <3>2 DEF FirstOf
  <2> QED BY <2>3, <2>4
<1>6. \A i, j \in 1..Len(Tail(L)) : Tail(L)[i] = Tail(L)[j] => i = j
  <2> SUFFICES ASSUME NEW i \in 1..Len(L) - 1, NEW j \in 1..Len(L) - 1, Tail(L)[i] = Tail(L)[j] PROVE i = j
    BY <1>2
  <2>1. L[i + 1] = L[j + 1]
    BY <1>2
  <2>2. i + 1 = j + 1
    BY <1>3, <2>1 DEF IsList
  <2> QED BY <2>2
<1>7. \A i \in 1..Len(Tail(L)) : k[Tail(L)[i]] = IF i = Len(Tail(L)) THEN Null ELSE Tail(L)[i + 1]
  <2> SUFFICES ASSUME NEW i \in 1..Len(L) - 1
               PROVE  k[Tail(L)[i]] = IF i = Len(L) - 1 THEN Null ELSE Tail(L)[i + 1]
    BY <1>2
  <2>1. k[Tail(L)[i]] = IF i + 1 = Len(L) THEN Null ELSE L[i + 1 + 1]
    BY <1>2, <1>3 DEF IsList
  <2>2. CASE i = Len(L) - 1
    BY <1>2, <2>1, <2>2
  <2>3. CASE i # Len(L) - 1
    <3> DEFINE bytes == Len(L)
    <3>2. bytes \in Nat \ {0} /\ i \in 1..bytes - 1 /\ i # bytes - 1
      BY <1>2, <2>3
    <3>1. i + 1 \in 1..Len(L) - 1 /\ i + 1 # Len(L)
      <4> HIDE DEF bytes
      <4>1. i + 1 \in 1..bytes - 1 /\ i + 1 # bytes
        BY <3>2
      <4> QED BY <4>1 DEF bytes
    <3> QED BY <1>2, <2>1, <2>3, <3>1
  <2> QED BY <2>2, <2>3
<1>8. p \in DOMAIN k
  BY <1>1, <1>2
<1>9. IsList(k, k[p], Tail(L))
  BY <1>2, <1>5, <1>6, <1>7 DEF IsList
<1> QED BY <1>1, <1>2, <1>4, <1>8, <1>9

(* The list from NULL is empty.                                           *)
LEMMA NullList ==
  ASSUME NEW k, NEW L, IsList(k, Null, L), Null \notin DOMAIN k
  PROVE  L = <<>>
<1> SUFFICES ASSUME L # <<>> PROVE FALSE
  OBVIOUS
<1>1. L \in Seq(DOMAIN k) /\ Null = L[1]
  BY DEF IsList, FirstOf
<1>2. 1 \in 1..Len(L)
  BY <1>1, EmptySeq
<1> QED BY <1>1, <1>2

(* Arithmetic: products, quotients and remainders.                        *)
LEMMA TimesMonotone ==
  ASSUME NEW j \in Nat, NEW k \in Nat, NEW c \in Nat, j < k
  PROVE  j * c + c <= k * c /\ j * c \in Nat /\ k * c \in Nat
<1>1. k - j - 1 \in Nat /\ k = j + 1 + (k - j - 1)
  OBVIOUS
<1>2. PICK d \in Nat : k = j + 1 + d
  BY <1>1
<1>3. d * c \in Nat /\ k * c = j * c + c + d * c
  BY <1>2, SMTT(30)
<1> QED BY <1>3, SMTT(30)

LEMMA DivIs ==
  ASSUME NEW m \in Nat, NEW c \in Nat \ {0}
  PROVE  LET q == m \div c IN q \in Nat /\ q * c <= m /\ m < q * c + c /\ q * c \in Nat
OBVIOUS

LEMMA DivUnique ==
  ASSUME NEW m \in Nat, NEW q \in Nat, NEW c \in Nat \ {0}, q * c <= m, m < q * c + c
  PROVE  m \div c = q
OBVIOUS

LEMMA ModZero ==
  ASSUME NEW k \in Nat, NEW c \in Nat \ {0}
  PROVE  (k * c) % c = 0
OBVIOUS

LEMMA ModPlus ==
  ASSUME NEW m \in Nat, NEW k \in Nat, NEW c \in Nat \ {0}, m % c = 0
  PROVE  (m + k * c) % c = 0
<1>1. PICK q \in Nat : m = q * c
  <2>1. m \div c \in Nat /\ m = (m \div c) * c
    OBVIOUS
  <2> QED BY <2>1
<1>2. m + k * c = (q + k) * c /\ q + k \in Nat
  BY <1>1, SMTT(30)
<1> QED BY <1>2, ModZero

(* Grain is a header with the waste before it, Pitch(b) a chunk of bin b  *)
(* with its header.                                                       *)
Grain == WORD + WORD
Pitch(b) == bin2size(b) + WORD
Bins == 0..BINS - 1
Largest == bin2size(BINS - 1)

(* What MemoryAssumption says of the sizes.                               *)
LEMMA Sizings ==
  /\ WORD \in Nat \ {0} /\ Grain \in Nat \ {0} /\ ALIGN * WORD = Grain /\ WASTE = WORD /\ WASTE + WORD = Grain
  /\ BINS \in Nat \ {0} /\ BIGBLOCK \in Nat /\ Size \subseteq Nat
  /\ \A b \in Nat : Pitch(b) \in Nat \ {0} /\ bin2size(b) = b * Grain + WORD /\ b * Grain \in Nat /\ Pitch(b) = (b + 1) * Grain
<1>1. /\ WORD \in Nat \ {0} /\ Grain \in Nat \ {0} /\ ALIGN * WORD = Grain /\ WASTE = WORD /\ WASTE + WORD = Grain
      /\ BINS \in Nat \ {0} /\ BIGBLOCK \in Nat /\ Size \subseteq Nat
  BY MemoryAssumption, SMTT(30) DEF WASTE, Grain
<1>2. ASSUME NEW b \in Nat
      PROVE  Pitch(b) \in Nat \ {0} /\ bin2size(b) = b * Grain + WORD /\ b * Grain \in Nat /\ Pitch(b) = (b + 1) * Grain
  <2>1. bin2size(b) = b * Grain + WORD
    <3>1. bin2size(b) = ((b + 1) * 2 - 1) * WORD
      BY MemoryAssumption DEF bin2size
    <3>2. (b + 1) * 2 - 1 = b + b + 1
      OBVIOUS
    <3>3. (b + b + 1) * WORD = b * (WORD + WORD) + WORD
      BY <1>1, SMTT(30)
    <3> QED BY <3>1, <3>2, <3>3 DEF Grain
  <2>2. b * Grain \in Nat
    BY <1>1, SMTT(30)
  <2>3. (b + 1) * Grain = b * Grain + Grain
    BY <1>1, SMTT(30)
  <2> QED BY <1>1, <2>1, <2>2, <2>3 DEF Pitch, Grain
<1> QED BY <1>1, <1>2

(* Each bin has a size of its own, and size2bin finds it.                 *)
LEMMA BinSizes ==
  /\ Largest \in Nat
  /\ \A b \in Bins : bin2size(b) \in Nat /\ bin2size(b) >= WORD /\ bin2size(b) <= Largest
  /\ \A b, c \in Bins : bin2size(b) = bin2size(c) => b = c
  /\ \A b \in Bins : size2bin(bin2size(b)) = b
<1>1. BINS - 1 \in Nat /\ BINS - 1 \in Bins
  BY Sizings DEF Bins
<1>2. \A b \in Bins : b \in Nat /\ b <= BINS - 1
  BY Sizings DEF Bins
<1>3. \A b, c \in Nat : b < c => bin2size(b) < bin2size(c)
  <2> SUFFICES ASSUME NEW b \in Nat, NEW c \in Nat, b < c PROVE bin2size(b) < bin2size(c)
    OBVIOUS
  <2>1. b * Grain + Grain <= c * Grain
    BY Sizings, TimesMonotone
  <2>2. b * Grain \in Nat /\ c * Grain \in Nat /\ Grain \in Nat \ {0} /\ WORD \in Nat
    BY Sizings
  <2>3. bin2size(b) = b * Grain + WORD /\ bin2size(c) = c * Grain + WORD
    BY Sizings
  <2> DEFINE x == b * Grain
             y == c * Grain
  <2> HIDE DEF x, y
  <2>4. x \in Nat /\ y \in Nat /\ x + Grain <= y /\ bin2size(b) = x + WORD /\ bin2size(c) = y + WORD
    BY <2>1, <2>2, <2>3 DEF x, y
  <2> QED BY <2>2, <2>4
<1>4. \A b \in Nat : bin2size(b) \in Nat /\ bin2size(b) >= WORD
  <2> SUFFICES ASSUME NEW b \in Nat PROVE bin2size(b) \in Nat /\ bin2size(b) >= WORD
    OBVIOUS
  <2> DEFINE x == b * Grain
  <2>1. x \in Nat /\ bin2size(b) = x + WORD /\ WORD \in Nat
    BY Sizings
  <2> HIDE DEF x
  <2> QED BY <2>1
<1>5. \A b \in Bins : bin2size(b) <= Largest
  <2> SUFFICES ASSUME NEW b \in Bins PROVE bin2size(b) <= Largest
    OBVIOUS
  <2>1. b = BINS - 1 \/ b < BINS - 1
    BY <1>1, <1>2
  <2> QED BY <1>1, <1>2, <1>3, <1>4, <2>1 DEF Largest
<1>6. \A b, c \in Bins : bin2size(b) = bin2size(c) => b = c
  <2> SUFFICES ASSUME NEW b \in Bins, NEW c \in Bins, bin2size(b) = bin2size(c), b # c PROVE FALSE
    OBVIOUS
  <2>1. b < c \/ c < b
    BY <1>2
  <2> QED BY <1>2, <1>3, <1>4, <2>1
<1>7. \A b \in Bins : size2bin(bin2size(b)) = b
  <2> SUFFICES ASSUME NEW b \in Bins PROVE size2bin(bin2size(b)) = b
    OBVIOUS
  <2> DEFINE x == b * Grain
             m == bin2size(b) + (WORD - 1)
  <2>1. x \in Nat /\ bin2size(b) = x + WORD /\ WORD \in Nat \ {0} /\ b \in Nat /\ Grain \in Nat \ {0} /\ Grain = WORD + WORD
    BY Sizings, <1>2 DEF Grain
  <2>2. m \in Nat /\ x <= m /\ m < x + Grain
    <3> HIDE DEF x
    <3> QED BY <2>1
  <2> HIDE DEF m
  <2>3. m \div Grain = b
    BY <2>1, <2>2, DivUnique
  <2>4. ~(bin2size(b) > bin2size(BINS - 1))
    BY <1>1, <1>4, <1>5, <1>2 DEF Largest
  <2>5. WORD * (ALIGN - 1) = WORD /\ WORD * ALIGN = Grain
    BY MemoryAssumption, SMTT(30) DEF Grain
  <2>6. size2bin(bin2size(b)) = (bin2size(b) + (WORD - 1)) \div Grain
    BY <2>4, <2>5 DEF size2bin
  <2> QED BY <2>3, <2>6 DEF m
<1> QED BY <1>1, <1>2, <1>4, <1>5, <1>6, <1>7 DEF Largest

(* size2bin gives a bin whose blocks are long enough, or -1 if no bin has *)
(* them.                                                                  *)
LEMMA ClassOfSize ==
  ASSUME NEW n \in Nat
  PROVE  /\ n > Largest => size2bin(n) = -1
         /\ n <= Largest => size2bin(n) \in Bins /\ n <= bin2size(size2bin(n))
         /\ -1 \notin Bins
<1>1. Largest \in Nat /\ WORD \in Nat \ {0} /\ Grain \in Nat \ {0} /\ Grain = WORD + WORD /\ BINS - 1 \in Nat
  BY BinSizes, Sizings DEF Grain
<1>2. n > Largest => size2bin(n) = -1
  BY DEF size2bin, Largest
<1>3. -1 \notin Bins
  BY <1>1 DEF Bins
<1>4. ASSUME n <= Largest PROVE size2bin(n) \in Bins /\ n <= bin2size(size2bin(n))
  <2> DEFINE m == n + (WORD - 1)
             q == m \div Grain
             x == q * Grain
             y == (BINS - 1) * Grain
  <2>1. WORD * (ALIGN - 1) = WORD /\ WORD * ALIGN = Grain
    BY MemoryAssumption, SMTT(30) DEF Grain
  <2>2. ~(n > bin2size(BINS - 1))
    BY <1>1, <1>4 DEF Largest
  <2>3. size2bin(n) = q
    BY <2>1, <2>2 DEF size2bin
  <2>4. m \in Nat
    BY <1>1
  <2>5. q \in Nat /\ x <= m /\ m < x + Grain /\ x \in Nat
    <3> HIDE DEF m
    <3> QED BY <1>1, <2>4, DivIs
  <2>6. bin2size(q) = x + WORD
    <3> HIDE DEF m, q
    <3> QED BY <2>5, Sizings
  <2>7. Largest = y + WORD /\ y \in Nat
    BY <1>1, Sizings DEF Largest
  <2>8. q <= BINS - 1
    <3> SUFFICES ASSUME q > BINS - 1 PROVE FALSE
      <4> HIDE DEF q
      <4> QED BY <1>1, <2>5
    <3>1. y + Grain <= x
      <4> HIDE DEF q
      <4> QED BY <1>1, <2>5, TimesMonotone
    <3> HIDE DEF q, x, y
    <3> QED BY <1>1, <1>4, <2>5, <2>7, <3>1
  <2>9. n <= x + WORD
    <3> HIDE DEF q, x, y
    <3> QED BY <1>1, <2>5
  <2>10. q \in Bins
    <3> HIDE DEF q
    <3> QED BY <1>1, <2>5, <2>8 DEF Bins
  <2> QED BY <2>3, <2>6, <2>9, <2>10
<1> QED BY <1>2, <1>3, <1>4

(* The chunks of a big block.                                              *)
LEMMA ChunksIs ==
  ASSUME NEW b \in Bins
  PROVE  /\ Chunks(b) \in Nat \ {0}
         /\ Chunks(b) * Pitch(b) <= BIGBLOCK - WORD
         /\ (BIGBLOCK - WASTE) \div (bin2size(b) + WORD) = Chunks(b)
<1> DEFINE m == BIGBLOCK - WORD
           q == m \div Pitch(b)
<1>1. b \in Nat /\ Pitch(b) \in Nat \ {0} /\ WASTE = WORD /\ WORD \in Nat /\ BIGBLOCK \in Nat
  BY Sizings DEF Bins
<1>2. BIGBLOCK >= WORD + Largest + WORD /\ Largest \in Nat /\ bin2size(b) <= Largest /\ bin2size(b) \in Nat
  BY <1>1, MemoryAssumption, BinSizes DEF Largest
<1>3. m \in Nat /\ m >= Pitch(b)
  BY <1>1, <1>2 DEF Pitch
<1>4. Chunks(b) = q
  BY <1>1 DEF Chunks, Pitch
<1>5. q \in Nat /\ q * Pitch(b) <= m /\ m < q * Pitch(b) + Pitch(b)
  <2> HIDE DEF m
  <2> QED BY <1>1, <1>3, DivIs
<1>6. q # 0
  <2> SUFFICES ASSUME q = 0 PROVE FALSE
    OBVIOUS
  <2>1. q * Pitch(b) = 0
    <3> HIDE DEF q
    <3> QED BY <1>1
  <2> HIDE DEF q, m
  <2> QED BY <1>1, <1>3, <1>5, <2>1
<1> QED BY <1>4, <1>5, <1>6 DEF Chunks

(* The chunks lie in the big block, aligned and one after the other.      *)
LEMMA NthIs ==
  ASSUME NEW b \in Bins, NEW a \in Nat, a % Grain = 0
  PROVE  LET s == bin2size(b)
         IN  /\ \A j \in 0..Chunks(b) - 1 :
                  /\ Nth(a, s, j) \in Nat /\ Nth(a, s, j) % Grain = 0
                  /\ a + Grain <= Nth(a, s, j) /\ Nth(a, s, j) + s <= a + BIGBLOCK
             /\ \A i, j \in 0..Chunks(b) - 1 : i < j => Nth(a, s, i) + s + WORD <= Nth(a, s, j)
<1> DEFINE s == bin2size(b)
<1>1. b \in Nat /\ Pitch(b) \in Nat \ {0} /\ WORD \in Nat \ {0} /\ Grain \in Nat \ {0} /\ Grain = WORD + WORD /\ BIGBLOCK \in Nat
  BY Sizings DEF Bins, Grain
<1>2. Chunks(b) \in Nat \ {0} /\ s \in Nat /\ Pitch(b) = s + WORD /\ Chunks(b) * Pitch(b) \in Nat /\ Chunks(b) * Pitch(b) <= BIGBLOCK - WORD
  <2>1. Chunks(b) \in Nat \ {0} /\ s \in Nat /\ Pitch(b) = s + WORD /\ Chunks(b) * Pitch(b) <= BIGBLOCK - WORD
    BY ChunksIs, BinSizes DEF Pitch
  <2>2. Chunks(b) * Pitch(b) \in Nat
    BY <1>1, <2>1
  <2> QED BY <2>1, <2>2
<1>3. \A j \in Nat : Nth(a, s, j) = a + Grain + j * Pitch(b) /\ j * Pitch(b) \in Nat
  <2> SUFFICES ASSUME NEW j \in Nat PROVE Nth(a, s, j) = a + Grain + j * Pitch(b) /\ j * Pitch(b) \in Nat
    OBVIOUS
  <2>1. j * Pitch(b) \in Nat
    BY <1>1
  <2>2. Nth(a, s, j) = a + WORD + WORD + j * Pitch(b)
    BY Sizings, <1>2 DEF Nth
  <2> DEFINE x == j * Pitch(b)
  <2> HIDE DEF x
  <2>3. x \in Nat /\ Nth(a, s, j) = a + WORD + WORD + x
    BY <2>1, <2>2 DEF x
  <2>4. Nth(a, s, j) = a + Grain + x
    BY <1>1, <2>3
  <2> QED BY <2>1, <2>4 DEF x
<1>4. \A i, j \in Nat : i < j => Nth(a, s, i) + s + WORD <= Nth(a, s, j)
  <2> SUFFICES ASSUME NEW i \in Nat, NEW j \in Nat, i < j PROVE Nth(a, s, i) + s + WORD <= Nth(a, s, j)
    OBVIOUS
  <2> DEFINE x == i * Pitch(b)
             y == j * Pitch(b)
  <2>1. x + Pitch(b) <= y
    BY <1>1, TimesMonotone
  <2>2. x \in Nat /\ y \in Nat /\ Nth(a, s, i) = a + Grain + x /\ Nth(a, s, j) = a + Grain + y
    BY <1>3
  <2> HIDE DEF x, y, s
  <2> QED BY <1>1, <1>2, <2>1, <2>2
<1>5. \A j \in 0..Chunks(b) - 1 : Nth(a, s, j) + s <= a + BIGBLOCK
  <2> SUFFICES ASSUME NEW j \in 0..Chunks(b) - 1 PROVE Nth(a, s, j) + s <= a + BIGBLOCK
    OBVIOUS
  <2> DEFINE x == j * Pitch(b)
             y == Chunks(b) * Pitch(b)
  <2>1. j \in Nat /\ j < Chunks(b)
    BY <1>2
  <2>2. x + Pitch(b) <= y
    BY <1>1, <1>2, <2>1, TimesMonotone
  <2>3. x \in Nat /\ Nth(a, s, j) = a + Grain + x
    BY <1>3, <2>1
  <2>4. y \in Nat /\ y <= BIGBLOCK - WORD
    BY <1>2
  <2> HIDE DEF x, y, s
  <2> QED BY <1>1, <1>2, <2>2, <2>3, <2>4
<1>6. \A j \in Nat : Nth(a, s, j) \in Nat /\ a + Grain <= Nth(a, s, j)
  <2> SUFFICES ASSUME NEW j \in Nat PROVE Nth(a, s, j) \in Nat /\ a + Grain <= Nth(a, s, j)
    OBVIOUS
  <2> DEFINE x == j * Pitch(b)
  <2>1. x \in Nat /\ Nth(a, s, j) = a + Grain + x
    BY <1>3
  <2> HIDE DEF x, s
  <2> QED BY <1>1, <2>1
<1>7. \A j \in Nat : Nth(a, s, j) % Grain = 0
  <2> SUFFICES ASSUME NEW j \in Nat PROVE Nth(a, s, j) % Grain = 0
    OBVIOUS
  <2>1. Pitch(b) = (b + 1) * Grain
    BY <1>1, Sizings
  <2>2. Nth(a, s, j) = a + (1 + j * (b + 1)) * Grain /\ 1 + j * (b + 1) \in Nat
    <3>1. Nth(a, s, j) = a + Grain + j * Pitch(b)
      BY <1>3
    <3>2. j * ((b + 1) * Grain) = (j * (b + 1)) * Grain /\ j * (b + 1) \in Nat
      BY <1>1, SMTT(30)
    <3> DEFINE z == j * (b + 1)
    <3>3. (1 + z) * Grain = Grain + z * Grain
      <4>1. z \in Nat
        BY <3>2
      <4> HIDE DEF z
      <4> QED BY <1>1, <4>1, SMTT(30)
    <3> HIDE DEF z
    <3>4. j * Pitch(b) = z * Grain /\ z \in Nat
      BY <2>1, <3>2 DEF z
    <3>5. z * Grain \in Nat
      BY <1>1, <3>4
    <3>6. Nth(a, s, j) = a + (1 + z) * Grain
      BY <3>1, <3>3, <3>4, <3>5, <1>1
    <3> QED BY <3>4, <3>6 DEF z
  <2> DEFINE k == 1 + j * (b + 1)
  <2>3. k \in Nat /\ Nth(a, s, j) = a + k * Grain
    BY <2>2
  <2> HIDE DEF k
  <2>4. (a + k * Grain) % Grain = 0
    BY <1>1, <2>3, ModPlus
  <2> QED BY <2>3, <2>4
<1>8. \A j \in 0..Chunks(b) - 1 : j \in Nat
  BY <1>2
<1> HIDE DEF s
<1>9. /\ \A j \in 0..Chunks(b) - 1 :
                  /\ Nth(a, s, j) \in Nat /\ Nth(a, s, j) % Grain = 0
                  /\ a + Grain <= Nth(a, s, j) /\ Nth(a, s, j) + s <= a + BIGBLOCK
      /\ \A i, j \in 0..Chunks(b) - 1 : i < j => Nth(a, s, i) + s + WORD <= Nth(a, s, j)
  BY <1>4, <1>5, <1>6, <1>7, <1>8
<1> QED BY <1>9 DEF s

(* What mmap is asked for.                                                *)
Lengths == {BIGBLOCK} \cup {n + WASTE + WORD : n \in Size}

(* The parts of the invariant, of the bins bn, the sizes s, the links k   *)
(* of free blocks, the mapped pages mp and the blocks us in use: where    *)
(* blocks are and what is said of them.                                   *)
HeapTyped(bn, s, k, mp, us) ==
  /\ DOMAIN bn = Bins
  /\ IsFiniteSet(DOMAIN k) /\ DOMAIN k \subseteq Nat \ {0} /\ DOMAIN us \subseteq Nat \ {0}
  /\ DOMAIN k \cap DOMAIN us = {} /\ us \in [DOMAIN us -> Size]
  /\ \A p \in DOMAIN k \cup DOMAIN us : s[p] \in Nat
  /\ DOMAIN k \cup DOMAIN us \subseteq DOMAIN s
  /\ DOMAIN mp \subseteq Page /\ \A a \in DOMAIN mp : mp[a] \in Lengths

(* A block is aligned and with its header in one mapped page.             *)
Placed(s, all, mp) ==
  \A p \in all : p % Grain = 0 /\ \E a \in DOMAIN mp : a + WORD <= p /\ p + s[p] <= a + mp[a]

(* No block reaches the header of the next one.                           *)
Disjoint(s, all) == \A p, q \in all : p < q => p + s[p] + WORD <= q

(* A block in use has the size of its bin, or, if it is large, what was   *)
(* asked for.                                                             *)
Sized(s, us) ==
  \A p \in DOMAIN us : IF us[p] <= Largest THEN s[p] = bin2size(size2bin(us[p])) ELSE s[p] = us[p]

(* ls[b] is the list of bin b: its blocks have its size, and each free    *)
(* block is in one.                                                       *)
Listed(bn, s, k, ls) ==
  /\ DOMAIN ls = Bins
  /\ \A b \in Bins : IsList(k, bn[b], ls[b]) /\ \A i \in 1..Len(ls[b]) : s[ls[b][i]] = bin2size(b)
  /\ \A p \in DOMAIN k : \E b \in Bins : \E i \in 1..Len(ls[b]) : ls[b][i] = p

(* The invariant with ls, the lists of free blocks, as an argument: the   *)
(* code keeps no such sequences, but what its steps do to the links is    *)
(* best said of them.                                                     *)
Kept(bn, s, k, mp, us, ls) ==
  /\ HeapTyped(bn, s, k, mp, us)
  /\ Placed(s, DOMAIN k \cup DOMAIN us, mp) /\ Disjoint(s, DOMAIN k \cup DOMAIN us)
  /\ Sized(s, us) /\ Listed(bn, s, k, ls)

(* What MemoryAssumption says of the pages.                               *)
LEMMA PagesAre ==
  /\ \A a \in Page : a \in Nat \ {0} /\ a % Grain = 0
  /\ \A a, c \in Page : a < c => \A bytes \in Lengths : a + bytes <= c
  /\ Lengths \subseteq Nat /\ BIGBLOCK \in Lengths /\ \A n \in Size : n \in Nat /\ n + Grain \in Lengths /\ n + WASTE + WORD = n + Grain
<1>1. \A n \in Size : n \in Nat /\ n + WASTE + WORD = n + Grain /\ n + WASTE + WORD \in Nat
  BY Sizings DEF Grain
<1>2. \A a \in Page : a \in Nat \ {0} /\ a % Grain = 0
  BY MemoryAssumption, Sizings
<1>3. \A a, c \in Page : a < c => \A bytes \in Lengths : a + bytes <= c
  BY MemoryAssumption DEF Lengths
<1>4. Lengths \subseteq Nat
  BY <1>1, Sizings DEF Lengths
<1> QED BY <1>1, <1>2, <1>3, <1>4 DEF Lengths

(* Blocks in a page that was not mapped are apart from those there were.   *)
LEMMA NewBlocks ==
  ASSUME NEW s, NEW A, NEW mp, NEW t, NEW B, NEW a \in Page, NEW bytes \in Lengths, NEW mp1,
         a \notin DOMAIN mp, DOMAIN mp \subseteq Page, \A c \in DOMAIN mp : mp[c] \in Lengths,
         mp1 = Updated(mp, At(a, bytes)),
         Placed(s, A, mp), Disjoint(s, A), \A p \in A : p \in Nat /\ s[p] \in Nat /\ t[p] = s[p],
         \A p \in B : p \in Nat /\ t[p] \in Nat /\ p % Grain = 0 /\ a + Grain <= p /\ p + t[p] <= a + bytes,
         Disjoint(t, B)
  PROVE  Placed(t, A \cup B, mp1) /\ Disjoint(t, A \cup B) /\ A \cap B = {}
<1>1. /\ DOMAIN mp1 = DOMAIN mp \cup {a} /\ mp1[a] = bytes
      /\ \A c \in DOMAIN mp : mp1[c] = mp[c]
  BY DEF Updated, At
<1>2. \A c \in DOMAIN mp : c \in Nat /\ mp[c] \in Nat /\ ((c < a /\ c + mp[c] <= a) \/ (a < c /\ a + bytes <= c))
  <2> SUFFICES ASSUME NEW c \in DOMAIN mp
               PROVE  c \in Nat /\ mp[c] \in Nat /\ ((c < a /\ c + mp[c] <= a) \/ (a < c /\ a + bytes <= c))
    OBVIOUS
  <2>1. c \in Page /\ c # a /\ c \in Nat /\ a \in Nat /\ mp[c] \in Lengths /\ mp[c] \in Nat
    BY PagesAre
  <2>2. c < a \/ a < c
    BY <2>1
  <2> QED BY <2>1, <2>2, PagesAre
<1>3. WORD \in Nat \ {0} /\ Grain \in Nat \ {0} /\ Grain = WORD + WORD /\ a \in Nat /\ bytes \in Nat
  BY Sizings, PagesAre DEF Grain
<1>4. \A p \in A, q \in B : p + s[p] + WORD <= q \/ q + t[q] + WORD <= p
  <2> SUFFICES ASSUME NEW p \in A, NEW q \in B PROVE p + s[p] + WORD <= q \/ q + t[q] + WORD <= p
    OBVIOUS
  <2>1. PICK c \in DOMAIN mp : c + WORD <= p /\ p + s[p] <= c + mp[c]
    BY DEF Placed
  <2>2. c \in Nat /\ mp[c] \in Nat /\ ((c < a /\ c + mp[c] <= a) \/ (a < c /\ a + bytes <= c))
    BY <1>2
  <2> QED BY <1>3, <2>1, <2>2
<1>5. Placed(t, A \cup B, mp1)
  <2>1. \A p \in A : p % Grain = 0 /\ \E c \in DOMAIN mp1 : c + WORD <= p /\ p + t[p] <= c + mp1[c]
    BY <1>1 DEF Placed
  <2>2. \A p \in B : p % Grain = 0 /\ a + WORD <= p /\ p + t[p] <= a + mp1[a]
    BY <1>1, <1>3
  <2> QED BY <1>1, <2>1, <2>2 DEF Placed
<1>6. \A p \in A, q \in B : p # q
  BY <1>3, <1>4
<1>7. Disjoint(t, A \cup B)
  <2> SUFFICES ASSUME NEW p \in A \cup B, NEW q \in A \cup B, p < q PROVE p + t[p] + WORD <= q
    BY DEF Disjoint
  <2>1. CASE p \in A /\ q \in A
    BY <2>1 DEF Disjoint
  <2>2. CASE p \in B /\ q \in B
    BY <2>2 DEF Disjoint
  <2>3. CASE p \in A /\ q \in B
    BY <1>3, <1>4, <2>3
  <2>4. CASE p \in B /\ q \in A
    BY <1>3, <1>4, <2>4
  <2> QED BY <2>1, <2>2, <2>3, <2>4
<1> QED BY <1>5, <1>6, <1>7

(* A block is in one list, once.                                           *)
LEMMA Once ==
  ASSUME NEW bn, NEW s, NEW k, NEW ls, Listed(bn, s, k, ls),
         NEW b \in Bins, NEW c \in Bins, NEW i \in 1..Len(ls[b]), NEW j \in 1..Len(ls[c]), ls[b][i] = ls[c][j]
  PROVE  b = c /\ i = j
<1>1. bin2size(b) = bin2size(c)
  BY DEF Listed
<1>2. b = c
  BY <1>1, BinSizes
<1> QED BY <1>2 DEF Listed, IsList

(* The blocks that a big block is cut into, as a list that leads to q.     *)
CutUp(a, b) == [i \in 1..Chunks(b) |-> Nth(a, bin2size(b), i - 1)]

(* What l is of that list, if list_from_block makes it.                   *)
IsCut(a, b, q, l, c, n) ==
  LET cut == Members(c, n)
  IN  /\ n \in Nat \ {0} /\ c \in [1..n -> cut] /\ IsFiniteSet(cut)
      /\ DOMAIN l.sz = cut /\ DOMAIN l.lnk = cut /\ l.first = c[1]
      /\ \A p \in cut : l.sz[p] = bin2size(b)
      /\ \A i \in 1..n : l.lnk[c[i]] = IF i = n THEN q ELSE c[i + 1]
      /\ \A i, j \in 1..n : c[i] = c[j] => i = j
      /\ \A p \in cut : p \in Nat /\ p % Grain = 0 /\ a + Grain <= p /\ p + bin2size(b) <= a + BIGBLOCK
      /\ \A p, r \in cut : p < r => p + bin2size(b) + WORD <= r

LEMMA CutIs ==
  ASSUME NEW b \in Bins, NEW a \in Nat, a % Grain = 0, NEW q,
         NEW l, l = list_from_block(bin2size(b), a, q), NEW c, c = CutUp(a, b), NEW n, n = Chunks(b)
  PROVE  IsCut(a, b, q, l, c, n)
<1> DEFINE s == bin2size(b)
           cut == {c[i] : i \in 1..n}
           at == [j \in 0..Chunks(b) - 1 |-> Nth(a, s, j)]
           index(x) == CHOOSE j \in DOMAIN at : at[j] = x
           places == {at[j] : j \in DOMAIN at}
<1>1. n \in Nat \ {0} /\ (BIGBLOCK - WASTE) \div (s + WORD) = n /\ s \in Nat /\ WORD \in Nat
  BY ChunksIs, BinSizes, Sizings
<1>2. l = [sz |-> [x \in places |-> s],
           lnk |-> [x \in places |-> IF index(x) = Chunks(b) - 1 THEN q ELSE at[index(x) + 1]],
           first |-> a + WASTE + WORD]
  BY Zenon DEF list_from_block, Chunks
<1>3. \A i \in 1..n : i - 1 \in 0..n - 1 /\ c[i] = at[i - 1] /\ c[i] = Nth(a, s, i - 1)
  BY <1>1 DEF CutUp
<1>4. \A j \in 0..n - 1 : j + 1 \in 1..n /\ c[j + 1] = at[j] /\ at[j] = Nth(a, s, j)
  <2> SUFFICES ASSUME NEW j \in 0..n - 1 PROVE j + 1 \in 1..n /\ c[j + 1] = at[j] /\ at[j] = Nth(a, s, j)
    OBVIOUS
  <2>1. j + 1 \in 1..n /\ (j + 1) - 1 = j
    BY <1>1
  <2> QED BY <1>3, <2>1
<1>5. /\ \A j \in 0..n - 1 : /\ Nth(a, s, j) \in Nat /\ Nth(a, s, j) % Grain = 0
                             /\ a + Grain <= Nth(a, s, j) /\ Nth(a, s, j) + s <= a + BIGBLOCK
      /\ \A i, j \in 0..n - 1 : i < j => Nth(a, s, i) + s + WORD <= Nth(a, s, j)
  BY NthIs
<1>6. \A i, j \in 0..n - 1 : at[i] = at[j] => i = j
  <2> SUFFICES ASSUME NEW i \in 0..n - 1, NEW j \in 0..n - 1, at[i] = at[j], i # j PROVE FALSE
    OBVIOUS
  <2>1. i < j \/ j < i
    BY <1>1
  <2>2. Nth(a, s, i) = Nth(a, s, j) /\ Nth(a, s, i) \in Nat
    BY <1>4, <1>5
  <2> HIDE DEF s
  <2>3. Nth(a, s, i) + s + WORD <= Nth(a, s, j) \/ Nth(a, s, j) + s + WORD <= Nth(a, s, i)
    BY <1>5, <2>1
  <2>4. WORD > 0
    BY Sizings
  <2> QED BY <1>1, <2>2, <2>3, <2>4
<1> HIDE DEF s
<1>8. DOMAIN at = 0..n - 1
  OBVIOUS
<1> HIDE DEF at
<1>7. places = cut
  <2>1. places \subseteq cut
    BY <1>4, <1>8
  <2>2. cut \subseteq places
    BY <1>3, <1>8
  <2> QED BY <2>1, <2>2
<1>9. \A j \in 0..n - 1 : index(at[j]) = j
  BY <1>6, <1>8
<1>10. \A i, j \in 1..n : c[i] = c[j] => i = j
  <2> SUFFICES ASSUME NEW i \in 1..n, NEW j \in 1..n, c[i] = c[j] PROVE i = j
    OBVIOUS
  <2>1. i - 1 = j - 1
    BY <1>3, <1>6
  <2> QED BY <1>1, <2>1
<1> HIDE DEF places, cut
<1>11. DOMAIN l.sz = cut /\ DOMAIN l.lnk = cut /\ l.first = a + WASTE + WORD /\ \A p \in cut : l.sz[p] = s
  BY <1>2, <1>7
<1>12. \A i \in 1..n : l.lnk[c[i]] = IF i = n THEN q ELSE c[i + 1]
  <2> SUFFICES ASSUME NEW i \in 1..n PROVE l.lnk[c[i]] = IF i = n THEN q ELSE c[i + 1]
    OBVIOUS
  <2>1. c[i] \in places /\ c[i] = at[i - 1] /\ i - 1 \in 0..n - 1
    BY <1>3, <1>7 DEF cut
  <2>2. l.lnk[c[i]] = IF index(c[i]) = n - 1 THEN q ELSE at[index(c[i]) + 1]
    BY <1>2, <2>1
  <2>3. index(c[i]) = i - 1
    BY <1>9, <2>1
  <2>4. CASE i = n
    BY <2>2, <2>3, <2>4
  <2>5. CASE i # n
    <3>1. i - 1 # n - 1 /\ (i - 1) + 1 = i /\ i \in 0..n - 1
      BY <1>1, <2>5
    <3> QED BY <1>4, <2>2, <2>3, <2>5, <3>1
  <2> QED BY <2>4, <2>5
<1>13. l.first = c[1]
  <2>1. 1 \in 1..n
    BY <1>1
  <2>2. c[1] = Nth(a, s, 0)
    BY <1>3, <2>1
  <2>3. Nth(a, s, 0) = a + WASTE + WORD
    BY <1>1, Sizings DEF Nth
  <2> QED BY <1>11, <2>2, <2>3
<1>14. \A p \in cut : p \in Nat /\ p % Grain = 0 /\ a + Grain <= p /\ p + s <= a + BIGBLOCK
  BY <1>3, <1>5 DEF cut
<1>15. \A p, r \in cut : p < r => p + s + WORD <= r
  <2> SUFFICES ASSUME NEW i \in 1..n, NEW j \in 1..n, c[i] < c[j] PROVE c[i] + s + WORD <= c[j]
    BY DEF cut
  <2>1. c[i] = Nth(a, s, i - 1) /\ c[j] = Nth(a, s, j - 1) /\ i - 1 \in 0..n - 1 /\ j - 1 \in 0..n - 1
    BY <1>3
  <2>2. c[i] \in Nat /\ c[j] \in Nat
    BY <1>5, <2>1
  <2>3. i - 1 < j - 1
    <3> SUFFICES ASSUME ~(i - 1 < j - 1) PROVE FALSE
      OBVIOUS
    <3>1. i - 1 = j - 1 \/ j - 1 < i - 1
      BY <1>1
    <3>2. CASE i - 1 = j - 1
      BY <2>1, <2>2, <3>2
    <3>3. CASE j - 1 < i - 1
      <4>1. c[j] + s + WORD <= c[i]
        BY <1>5, <2>1, <3>3
      <4> QED BY <1>1, <2>2, <4>1
    <3> QED BY <3>1, <3>2, <3>3
  <2> QED BY <1>5, <2>1, <2>3
<1>16. c \in [1..n -> cut] /\ IsFiniteSet(cut)
  <2>1. c = [i \in 1..n |-> c[i]]
    BY DEF CutUp
  <2>2. c \in [1..n -> cut]
    BY <2>1 DEF cut
  <2>3. c \in Surjection(1..n, cut)
    BY <2>2 DEF Surjection, cut
  <2>4. IsFiniteSet(1..n)
    BY <1>1, FS_Interval
  <2> QED BY <2>2, <2>3, <2>4, FS_Surjection
<1> QED BY <1>1, <1>10, <1>11, <1>12, <1>13, <1>14, <1>15, <1>16 DEF s, cut, Members, IsCut

(* A big block is cut for bin b (list_from_block): its chunks come to the  *)
(* front of the list.                                                      *)
LEMMA FillKeeps ==
  ASSUME NEW bn, NEW s, NEW k, NEW mp, NEW us, NEW ls, Kept(bn, s, k, mp, us, ls),
         NEW b \in Bins, NEW a \in Page, a \notin DOMAIN mp
  PROVE  LET l == list_from_block(bin2size(b), a, bn[b])
             ls1 == [ls EXCEPT ![b] = Joined(CutUp(a, b), ls[b])]
         IN  /\ Kept([bn EXCEPT ![b] = l.first], Updated(s, l.sz), Updated(k, l.lnk), Updated(mp, At(a, BIGBLOCK)), us, ls1)
             /\ Len(ls1[b]) = Chunks(b) + Len(ls[b]) /\ Len(ls[b]) \in Nat
             /\ \A c \in Bins \ {b} : ls1[c] = ls[c]
             /\ l.first \in DOMAIN l.lnk /\ DOMAIN l.lnk \cap (DOMAIN k \cup DOMAIN us) = {}
<1> DEFINE q == bn[b]
           l == list_from_block(bin2size(b), a, q)
           c == CutUp(a, b)
           n == Chunks(b)
           cut == Members(c, n)
           A == DOMAIN k \cup DOMAIN us
           s1 == Updated(s, l.sz)
           k1 == Updated(k, l.lnk)
           mp1 == Updated(mp, At(a, BIGBLOCK))
           bn1 == [bn EXCEPT ![b] = l.first]
           M == Joined(c, ls[b])
           ls1 == [ls EXCEPT ![b] = M]
<1>1. a \in Nat \ {0} /\ a % Grain = 0 /\ BIGBLOCK \in Lengths
  BY PagesAre
<1>2. /\ n \in Nat \ {0} /\ c \in [1..n -> cut] /\ IsFiniteSet(cut)
      /\ DOMAIN l.sz = cut /\ DOMAIN l.lnk = cut /\ l.first = c[1]
      /\ \A p \in cut : l.sz[p] = bin2size(b)
      /\ \A i \in 1..n : l.lnk[c[i]] = IF i = n THEN q ELSE c[i + 1]
      /\ \A i, j \in 1..n : c[i] = c[j] => i = j
      /\ \A p \in cut : p \in Nat /\ p % Grain = 0 /\ a + Grain <= p /\ p + bin2size(b) <= a + BIGBLOCK
      /\ \A p, r \in cut : p < r => p + bin2size(b) + WORD <= r
  <2>1. a \in Nat /\ l = list_from_block(bin2size(b), a, q) /\ c = CutUp(a, b) /\ n = Chunks(b)
    BY <1>1
  <2>2. IsCut(a, b, q, l, c, n)
    <3> HIDE DEF q, c, n, l
    <3> QED BY <1>1, <2>1, CutIs
  <2> HIDE DEF q, c, n, l
  <2> QED BY <2>2 DEF IsCut
<1>3. c[1] \in cut
  BY <1>2
<1>4. HeapTyped(bn, s, k, mp, us) /\ Placed(s, A, mp) /\ Disjoint(s, A) /\ Sized(s, us) /\ Listed(bn, s, k, ls)
  BY DEF Kept
<1> HIDE DEF c, n, l
<1> HIDE DEF cut
<1>5. /\ DOMAIN s1 = DOMAIN s \cup cut /\ (\A p \in cut : s1[p] = bin2size(b)) /\ \A p \in DOMAIN s \ cut : s1[p] = s[p]
      /\ DOMAIN k1 = DOMAIN k \cup cut /\ (\A p \in cut : k1[p] = l.lnk[p]) /\ \A p \in DOMAIN k \ cut : k1[p] = k[p]
  <2>1. /\ DOMAIN s1 = DOMAIN s \cup DOMAIN l.sz
        /\ \A x \in DOMAIN l.sz : s1[x] = l.sz[x]
        /\ \A x \in DOMAIN s \ DOMAIN l.sz : s1[x] = s[x]
    BY UpdatedIs
  <2>2. /\ DOMAIN k1 = DOMAIN k \cup DOMAIN l.lnk
        /\ \A x \in DOMAIN l.lnk : k1[x] = l.lnk[x]
        /\ \A x \in DOMAIN k \ DOMAIN l.lnk : k1[x] = k[x]
    BY UpdatedIs
  <2> HIDE DEF s1, k1
  <2> QED BY <1>2, <2>1, <2>2
<1>6. DOMAIN mp1 = DOMAIN mp \cup {a} /\ mp1[a] = BIGBLOCK /\ \A x \in DOMAIN mp \ {a} : mp1[x] = mp[x]
  BY DEF Updated, At
<1> DEFINE t == [p \in A \cup cut |-> IF p \in cut THEN bin2size(b) ELSE s[p]]
<1>7. A \cap cut = {} /\ Placed(t, A \cup cut, mp1) /\ Disjoint(t, A \cup cut)
  <2>0. A \cap cut = {}
    <3> SUFFICES ASSUME NEW p \in A, p \in cut PROVE FALSE
      OBVIOUS
    <3>1. PICK x \in DOMAIN mp : x + WORD <= p /\ p + s[p] <= x + mp[x]
      BY <1>4 DEF Placed
    <3>2. x \in Page /\ x # a /\ mp[x] \in Lengths
      BY <1>4 DEF HeapTyped
    <3>3. x \in Nat /\ mp[x] \in Nat /\ s[p] \in Nat /\ p \in Nat /\ WORD \in Nat \ {0} /\ Grain = WORD + WORD /\ BIGBLOCK \in Nat /\ bin2size(b) \in Nat
      BY <1>4, <3>2, PagesAre, Sizings, BinSizes DEF HeapTyped, Grain
    <3>4. (x < a => x + mp[x] <= a) /\ (a < x => a + BIGBLOCK <= x)
      BY <1>1, <3>2, PagesAre
    <3>5. a + Grain <= p /\ p + bin2size(b) <= a + BIGBLOCK
      BY <1>2
    <3> QED BY <1>1, <3>1, <3>2, <3>3, <3>4, <3>5
  <2>1. \A p \in A : p \in Nat /\ s[p] \in Nat /\ t[p] = s[p]
    BY <1>4, <2>0 DEF HeapTyped
  <2>2. \A p \in cut : p \in Nat /\ t[p] \in Nat /\ p % Grain = 0 /\ a + Grain <= p /\ p + t[p] <= a + BIGBLOCK
    BY <1>2, BinSizes
  <2>3. Disjoint(t, cut)
    BY <1>2 DEF Disjoint
  <2>4. DOMAIN mp \subseteq Page /\ \A x \in DOMAIN mp : mp[x] \in Lengths
    BY <1>4 DEF HeapTyped
  <2>5. mp1 = Updated(mp, At(a, BIGBLOCK)) /\ a \notin DOMAIN mp
    OBVIOUS
  <2>6. Placed(s, A, mp) /\ Disjoint(s, A)
    BY <1>4
  <2> HIDE DEF t, A, mp1
  <2> QED BY <1>1, <2>0, <2>1, <2>2, <2>3, <2>4, <2>5, <2>6, NewBlocks
<1>8. DOMAIN k1 \cup DOMAIN us = A \cup cut
  BY <1>5
<1>9. \A p \in A \cup cut : t[p] = s1[p]
  BY <1>4, <1>5, <1>7 DEF HeapTyped
<1>10. Placed(s1, A \cup cut, mp1) /\ Disjoint(s1, A \cup cut)
  <2> HIDE DEF t, s1, A, mp1
  <2> QED BY <1>7, <1>9 DEF Placed, Disjoint
<1> HIDE DEF t
<1>11. HeapTyped(bn1, s1, k1, mp1, us)
  <2>1. IsFiniteSet(DOMAIN k1)
    <3>1. IsFiniteSet(DOMAIN k) /\ DOMAIN k1 = DOMAIN k \cup cut /\ IsFiniteSet(cut)
      BY <1>2, <1>4, <1>5 DEF HeapTyped
    <3> HIDE DEF k1
    <3> QED BY <3>1, FS_Union
  <2>2. \A p \in cut : p \in Nat \ {0} /\ s1[p] \in Nat
    <3>1. Grain \in Nat /\ bin2size(b) \in Nat
      BY Sizings, BinSizes
    <3> QED BY <1>1, <1>2, <1>5, <3>1
  <2>3. \A p \in A : s1[p] \in Nat
    BY <1>4, <1>5, <1>7 DEF HeapTyped
  <2> HIDE DEF s1, k1, mp1
  <2> QED BY <1>1, <1>4, <1>5, <1>6, <1>7, <2>1, <2>2, <2>3 DEF HeapTyped
<1>12. Sized(s1, us)
  <2>1. \A p \in DOMAIN us : s1[p] = s[p]
    BY <1>4, <1>5, <1>7 DEF HeapTyped
  <2> HIDE DEF s1
  <2> QED BY <1>4, <2>1 DEF Sized
<1> HIDE DEF s1, k1, mp1
<1>13. \A d \in Bins : IsList(k1, bn[d], ls[d]) /\ \A i \in 1..Len(ls[d]) : ls[d][i] \in DOMAIN k /\ s1[ls[d][i]] = bin2size(d)
  <2> SUFFICES ASSUME NEW d \in Bins
               PROVE  IsList(k1, bn[d], ls[d]) /\ \A i \in 1..Len(ls[d]) : ls[d][i] \in DOMAIN k /\ s1[ls[d][i]] = bin2size(d)
    OBVIOUS
  <2>1. IsList(k, bn[d], ls[d]) /\ \A i \in 1..Len(ls[d]) : s[ls[d][i]] = bin2size(d)
    BY <1>4 DEF Listed
  <2>2. \A i \in 1..Len(ls[d]) : ls[d][i] \in DOMAIN k
    BY <2>1, ElementOfSeq DEF IsList
  <2>3. \A p \in DOMAIN k : p \notin cut /\ p \in DOMAIN s
    BY <1>4, <1>7 DEF HeapTyped
  <2>4. \A i \in 1..Len(ls[d]) : ls[d][i] \in DOMAIN k1 /\ k1[ls[d][i]] = k[ls[d][i]] /\ s1[ls[d][i]] = s[ls[d][i]]
    BY <1>5, <2>2, <2>3
  <2>5. IsList(k1, bn[d], ls[d])
    BY <2>1, <2>4, SameList
  <2> QED BY <2>1, <2>2, <2>4, <2>5
<1>14. /\ IsList(k1, c[1], M) /\ Len(M) = n + Len(ls[b]) /\ Len(ls[b]) \in Nat
       /\ \A i \in 1..n : M[i] = c[i]
       /\ \A j \in 1..Len(ls[b]) : M[n + j] = ls[b][j]
       /\ \A i \in 1..Len(M) : M[i] \in Members(c, n) \cup Members(ls[b], Len(ls[b]))
  <2>1. c \in [1..n -> DOMAIN k1]
    BY <1>2, <1>5
  <2>2. \A i \in 1..n, j \in 1..Len(ls[b]) : c[i] # ls[b][j]
    <3>1. \A i \in 1..n : c[i] \in cut
      BY DEF cut, Members
    <3>2. \A j \in 1..Len(ls[b]) : ls[b][j] \in A
      BY <1>13
    <3> HIDE DEF A
    <3> QED BY <1>7, <3>1, <3>2
  <2>3. \A i \in 1..n : k1[c[i]] = IF i = n THEN q ELSE c[i + 1]
    BY <1>2, <1>5 DEF cut, Members
  <2>4. IsList(k1, q, ls[b])
    BY <1>13
  <2>5. n \in Nat \ {0} /\ \A i, j \in 1..n : c[i] = c[j] => i = j
    BY <1>2
  <2> DEFINE L == ls[b]
  <2>6. IsList(k1, q, L) /\ (\A i \in 1..n, j \in 1..Len(L) : c[i] # L[j]) /\ M = Joined(c, L)
    BY <2>2, <2>4
  <2> HIDE DEF q, L, M
  <2>7. /\ IsList(k1, c[1], M) /\ Len(M) = n + Len(L) /\ Len(L) \in Nat
        /\ \A i \in 1..n : M[i] = c[i]
        /\ \A j \in 1..Len(L) : M[n + j] = L[j]
        /\ \A i \in 1..Len(M) : M[i] \in Members(c, n) \cup Members(L, Len(L))
    BY <2>1, <2>3, <2>5, <2>6, ChainList
  <2> QED BY <2>7 DEF L
<1>15. DOMAIN bn = Bins /\ DOMAIN ls = Bins
  BY <1>4 DEF HeapTyped, Listed
<1>16. /\ DOMAIN ls1 = Bins /\ ls1[b] = M /\ bn1[b] = c[1]
       /\ \A d \in Bins \ {b} : ls1[d] = ls[d] /\ bn1[d] = bn[d]
  BY <1>2, <1>15
<1> HIDE DEF ls1, bn1, M
<1>17. Listed(bn1, s1, k1, ls1)
  <2>1. \A i \in 1..Len(M) : s1[M[i]] = bin2size(b)
    <3>1. \A j \in 1..n : s1[c[j]] = bin2size(b)
      BY <1>5 DEF cut, Members
    <3>2. \A j \in 1..Len(ls[b]) : s1[ls[b][j]] = bin2size(b)
      BY <1>13
    <3> QED BY <1>14, <3>1, <3>2 DEF Members
  <2>2. ASSUME NEW d \in Bins
        PROVE  IsList(k1, bn1[d], ls1[d]) /\ \A i \in 1..Len(ls1[d]) : s1[ls1[d][i]] = bin2size(d)
    <3>1. CASE d = b
      BY <1>14, <1>16, <2>1, <3>1
    <3>2. CASE d # b
      <4>1. ls1[d] = ls[d] /\ bn1[d] = bn[d]
        BY <1>16, <3>2
      <4> QED BY <1>13, <4>1
    <3> QED BY <3>1, <3>2
  <2>3. ASSUME NEW p \in DOMAIN k1
        PROVE  \E d \in Bins : \E i \in 1..Len(ls1[d]) : ls1[d][i] = p
    <3>1. CASE p \in cut
      <4>1. PICK i \in 1..n : c[i] = p
        BY <3>1 DEF cut, Members
      <4>2. i \in 1..Len(M)
        BY <1>2, <1>14
      <4> QED BY <1>14, <1>16, <4>1, <4>2
    <3>2. CASE p \notin cut
      <4>1. p \in DOMAIN k
        BY <1>5, <3>2
      <4>5. PICK d \in Bins : \E i \in 1..Len(ls[d]) : ls[d][i] = p
        BY <1>4, <4>1 DEF Listed
      <4>2. PICK i \in 1..Len(ls[d]) : ls[d][i] = p
        BY <4>5
      <4>3. CASE d = b
        <5>1. n + i \in 1..Len(M) /\ M[n + i] = p
          BY <1>2, <1>14, <4>2, <4>3
        <5> QED BY <1>16, <5>1
      <4>4. CASE d # b
        BY <1>16, <4>2, <4>4
      <4> QED BY <4>3, <4>4
    <3> QED BY <3>1, <3>2
  <2> QED BY <1>16, <2>2, <2>3 DEF Listed
<1>18. Kept(bn1, s1, k1, mp1, us, ls1)
  BY <1>8, <1>10, <1>11, <1>12, <1>17 DEF Kept
<1>19. /\ Len(ls1[b]) = n + Len(ls[b]) /\ Len(ls[b]) \in Nat
       /\ \A d \in Bins \ {b} : ls1[d] = ls[d]
       /\ l.first \in DOMAIN l.lnk /\ DOMAIN l.lnk \cap A = {}
  BY <1>2, <1>3, <1>7, <1>14, <1>16
<1> QED BY <1>18, <1>19 DEF bn1, s1, k1, mp1, ls1, M, l, c, n

(* f with e at b.                                                         *)
Altered(f, b, e) == [f EXCEPT ![b] = e]

(* malloc takes the first block of a list.                                 *)
Popped(bn, s, k, mp, us, ls, b, n) ==
  LET p == bn[b]
      ls1 == Altered(ls, b, Tail(ls[b]))
  IN  /\ Kept(Altered(bn, b, k[p]), s, Restricted(k, DOMAIN k \ {p}), mp, Updated(us, At(p, n)), ls1)
      /\ Len(ls[b]) \in Nat \ {0} /\ Len(ls1[b]) = Len(ls[b]) - 1
      /\ \A c \in Bins \ {b} : ls1[c] = ls[c]
      /\ p \in DOMAIN k

(* It keeps the invariant.                                                *)
LEMMA PopKeeps ==
  ASSUME NEW bn, NEW s, NEW k, NEW mp, NEW us, NEW ls, Kept(bn, s, k, mp, us, ls),
         NEW b \in Bins, bn[b] # Null, NEW n \in Size, n <= Largest, b = size2bin(n)
  PROVE  Popped(bn, s, k, mp, us, ls, b, n)
<1> DEFINE p == bn[b]
           k1 == Restricted(k, DOMAIN k \ {p})
           us1 == Updated(us, At(p, n))
           bn1 == Altered(bn, b, k[p])
           T == Tail(ls[b])
           ls1 == Altered(ls, b, T)
           A == DOMAIN k \cup DOMAIN us
<1>1. HeapTyped(bn, s, k, mp, us) /\ Placed(s, A, mp) /\ Disjoint(s, A) /\ Sized(s, us) /\ Listed(bn, s, k, ls)
  BY DEF Kept
<1>2. IsList(k, p, ls[b]) /\ \A i \in 1..Len(ls[b]) : s[ls[b][i]] = bin2size(b)
  BY <1>1 DEF Listed
<1>3. /\ IsList(k, k[p], T) /\ p \in DOMAIN k
      /\ Len(ls[b]) \in Nat \ {0} /\ Len(T) = Len(ls[b]) - 1 /\ p = ls[b][1]
      /\ \A i \in 1..Len(ls[b]) - 1 : T[i] = ls[b][i + 1] /\ ls[b][i + 1] # p
  <2> HIDE DEF p, T
  <2> QED BY <1>2, TailList DEF p, T
<1>4. DOMAIN k1 = DOMAIN k \ {p} /\ \A x \in DOMAIN k \ {p} : k1[x] = k[x]
  <2>1. DOMAIN k1 = DOMAIN k \cap (DOMAIN k \ {p}) /\ \A x \in DOMAIN k \cap (DOMAIN k \ {p}) : k1[x] = k[x]
    BY RestrictedIs
  <2> HIDE DEF k1, p
  <2> QED BY <2>1
<1>5. DOMAIN us1 = DOMAIN us \cup {p} /\ us1[p] = n /\ \A x \in DOMAIN us \ {p} : us1[x] = us[x]
  <2> HIDE DEF p
  <2> QED BY DEF Updated, At
<1>6. us1 \in [DOMAIN us1 -> Size]
  <2>1. us1 = [x \in DOMAIN us1 |-> us1[x]]
    BY DEF Updated
  <2>2. \A x \in DOMAIN us1 : us1[x] \in Size
    BY <1>1, <1>5 DEF HeapTyped
  <2> HIDE DEF us1
  <2> QED BY <2>1, <2>2
<1> HIDE DEF k1, us1
<1>7. DOMAIN k1 \cup DOMAIN us1 = A
  BY <1>3, <1>4, <1>5
<1>8. s[p] = bin2size(b)
  <2>1. 1 \in 1..Len(ls[b])
    BY <1>3
  <2> QED BY <1>2, <1>3, <2>1
<1> HIDE DEF p
<1>9. Sized(s, us1)
  <2>1. \A x \in DOMAIN us : x # p
    BY <1>1, <1>3 DEF HeapTyped
  <2> QED BY <1>1, <1>5, <1>8, <2>1 DEF Sized
<1>10. DOMAIN bn = Bins /\ DOMAIN ls = Bins
  BY <1>1 DEF HeapTyped, Listed
<1>11. /\ DOMAIN ls1 = Bins /\ ls1[b] = T /\ DOMAIN bn1 = Bins /\ bn1[b] = k[p]
       /\ \A d \in Bins \ {b} : ls1[d] = ls[d] /\ bn1[d] = bn[d]
  BY <1>10 DEF Altered
<1> HIDE DEF ls1, bn1, T
<1>12. HeapTyped(bn1, s, k1, mp, us1)
  <2>1. IsFiniteSet(DOMAIN k1)
    BY <1>1, <1>4, FS_Subset DEF HeapTyped
  <2> QED BY <1>1, <1>3, <1>4, <1>5, <1>6, <1>11, <2>1 DEF HeapTyped
<1>13. Listed(bn1, s, k1, ls1)
  <2>1. \A d \in Bins \ {b} : \A i \in 1..Len(ls[d]) : ls[d][i] # p /\ ls[d][i] \in DOMAIN k
    <3> SUFFICES ASSUME NEW d \in Bins \ {b}, NEW i \in 1..Len(ls[d]) PROVE ls[d][i] # p /\ ls[d][i] \in DOMAIN k
      OBVIOUS
    <3>1. s[ls[d][i]] = bin2size(d) /\ IsList(k, bn[d], ls[d])
      BY <1>1 DEF Listed
    <3>2. ls[d][i] \in DOMAIN k
      BY <3>1, ElementOfSeq DEF IsList
    <3> QED BY <1>8, <3>1, <3>2, BinSizes
  <2>2. ASSUME NEW d \in Bins
        PROVE  IsList(k1, bn1[d], ls1[d]) /\ \A i \in 1..Len(ls1[d]) : s[ls1[d][i]] = bin2size(d)
    <3>1. CASE d = b
      <4>1. \A i \in 1..Len(T) : T[i] \in DOMAIN k /\ T[i] # p /\ s[T[i]] = bin2size(b)
        <5> SUFFICES ASSUME NEW i \in 1..Len(T) PROVE T[i] \in DOMAIN k /\ T[i] # p /\ s[T[i]] = bin2size(b)
          OBVIOUS
        <5>1. T[i] \in DOMAIN k
          BY <1>3, ElementOfSeq DEF IsList
        <5>2. i \in 1..Len(ls[b]) - 1 /\ i + 1 \in 1..Len(ls[b])
          BY <1>3
        <5> QED BY <1>2, <1>3, <5>1, <5>2
      <4>2. IsList(k1, k[p], T)
        BY <1>3, <1>4, <4>1, SameList
      <4> QED BY <1>11, <3>1, <4>1, <4>2
    <3>2. CASE d # b
      <4>1. IsList(k, bn[d], ls[d]) /\ (\A i \in 1..Len(ls[d]) : s[ls[d][i]] = bin2size(d)) /\ ls1[d] = ls[d] /\ bn1[d] = bn[d]
        BY <1>1, <1>11, <3>2 DEF Listed
      <4>2. \A i \in 1..Len(ls[d]) : ls[d][i] \in DOMAIN k1 /\ k1[ls[d][i]] = k[ls[d][i]]
        BY <1>4, <2>1, <3>2
      <4>3. IsList(k1, bn[d], ls[d])
        BY <4>1, <4>2, SameList
      <4> QED BY <4>1, <4>3
    <3> QED BY <3>1, <3>2
  <2>3. ASSUME NEW x \in DOMAIN k1
        PROVE  \E d \in Bins : \E i \in 1..Len(ls1[d]) : ls1[d][i] = x
    <3>1. x \in DOMAIN k /\ x # p
      BY <1>4
    <3>5. PICK d \in Bins : \E i \in 1..Len(ls[d]) : ls[d][i] = x
      BY <1>1, <3>1 DEF Listed
    <3>2. PICK i \in 1..Len(ls[d]) : ls[d][i] = x
      BY <3>5
    <3>3. CASE d = b
      <4>1. i # 1
        BY <1>3, <3>1, <3>2, <3>3
      <4>2. i \in 1..Len(ls[b])
        BY <3>2, <3>3
      <4>3. i - 1 \in 1..Len(ls[b]) - 1 /\ (i - 1) + 1 = i
        BY <1>3, <4>1, <4>2
      <4>4. T[i - 1] = x /\ i - 1 \in 1..Len(T)
        BY <1>3, <3>2, <3>3, <4>3
      <4> QED BY <1>11, <4>4
    <3>4. CASE d # b
      BY <1>11, <3>2, <3>4
    <3> QED BY <3>3, <3>4
  <2> QED BY <1>11, <2>2, <2>3 DEF Listed
<1>14. Kept(bn1, s, k1, mp, us1, ls1)
  <2> HIDE DEF A
  <2> QED BY <1>1, <1>7, <1>9, <1>12, <1>13 DEF Kept
<1>15. /\ Kept(bn1, s, k1, mp, us1, ls1) /\ Len(ls[b]) \in Nat \ {0} /\ Len(ls1[b]) = Len(ls[b]) - 1
       /\ (\A c \in Bins \ {b} : ls1[c] = ls[c]) /\ p \in DOMAIN k
  BY <1>3, <1>11, <1>14
<1> QED BY <1>15 DEF bn1, k1, us1, ls1, T, p, Popped

(* free puts a block in front of the list of its size.                     *)
Pushed(bn, s, k, mp, us, ls, b, p) ==
  LET ls1 == [ls EXCEPT ![b] = Joined(<<p>>, ls[b])]
  IN  /\ Kept([bn EXCEPT ![b] = p], s, Updated(k, At(p, bn[b])), mp, Restricted(us, DOMAIN us \ {p}), ls1)
      /\ Len(ls1[b]) = Len(ls[b]) + 1 /\ Len(ls[b]) \in Nat
      /\ \A c \in Bins \ {b} : ls1[c] = ls[c]

(* It keeps the invariant.                                                *)
LEMMA PushKeeps ==
  ASSUME NEW bn, NEW s, NEW k, NEW mp, NEW us, NEW ls, Kept(bn, s, k, mp, us, ls),
         NEW b \in Bins, NEW p \in DOMAIN us, s[p] = bin2size(b)
  PROVE  Pushed(bn, s, k, mp, us, ls, b, p)
<1> DEFINE q == bn[b]
           k1 == Updated(k, At(p, q))
           us1 == Restricted(us, DOMAIN us \ {p})
           bn1 == [bn EXCEPT ![b] = p]
           M == Joined(<<p>>, ls[b])
           ls1 == [ls EXCEPT ![b] = M]
           A == DOMAIN k \cup DOMAIN us
<1>1. HeapTyped(bn, s, k, mp, us) /\ Placed(s, A, mp) /\ Disjoint(s, A) /\ Sized(s, us) /\ Listed(bn, s, k, ls)
  BY DEF Kept
<1>2. DOMAIN us1 = DOMAIN us \ {p} /\ us1 \in [DOMAIN us1 -> Size] /\ \A x \in DOMAIN us \ {p} : us1[x] = us[x]
  BY <1>1 DEF Restricted, HeapTyped
<1>3. DOMAIN k1 = DOMAIN k \cup {p} /\ k1[p] = q /\ p \notin DOMAIN k /\ \A x \in DOMAIN k : k1[x] = k[x]
  <2>1. DOMAIN k1 = DOMAIN k \cup {p} /\ k1[p] = q /\ \A x \in DOMAIN k \ {p} : k1[x] = k[x]
    BY DEF Updated, At
  <2>2. p \notin DOMAIN k
    BY <1>1 DEF HeapTyped
  <2> HIDE DEF k1, q
  <2> QED BY <2>1, <2>2
<1> HIDE DEF k1, us1
<1>4. DOMAIN k1 \cup DOMAIN us1 = A
  BY <1>2, <1>3
<1>5. Sized(s, us1)
  BY <1>1, <1>2 DEF Sized
<1>6. DOMAIN bn = Bins /\ DOMAIN ls = Bins
  BY <1>1 DEF HeapTyped, Listed
<1>7. /\ DOMAIN ls1 = Bins /\ ls1[b] = M /\ DOMAIN bn1 = Bins /\ bn1[b] = p
      /\ \A d \in Bins \ {b} : ls1[d] = ls[d] /\ bn1[d] = bn[d]
  <2> HIDE DEF M
  <2> QED BY <1>6
<1> HIDE DEF ls1, bn1
<1>8. HeapTyped(bn1, s, k1, mp, us1)
  <2>1. IsFiniteSet(DOMAIN k1)
    <3>1. IsFiniteSet(DOMAIN k) /\ IsFiniteSet({p})
      BY <1>1, FS_Singleton DEF HeapTyped
    <3> QED BY <1>3, <3>1, FS_Union
  <2> QED BY <1>1, <1>2, <1>3, <1>7, <2>1 DEF HeapTyped
<1>9. \A d \in Bins : /\ IsList(k1, bn[d], ls[d]) /\ Len(ls[d]) \in Nat
                     /\ \A i \in 1..Len(ls[d]) : ls[d][i] \in DOMAIN k /\ s[ls[d][i]] = bin2size(d)
  <2> SUFFICES ASSUME NEW d \in Bins
               PROVE  /\ IsList(k1, bn[d], ls[d]) /\ Len(ls[d]) \in Nat
                      /\ \A i \in 1..Len(ls[d]) : ls[d][i] \in DOMAIN k /\ s[ls[d][i]] = bin2size(d)
    OBVIOUS
  <2>1. IsList(k, bn[d], ls[d]) /\ \A i \in 1..Len(ls[d]) : s[ls[d][i]] = bin2size(d)
    BY <1>1 DEF Listed
  <2>2. \A i \in 1..Len(ls[d]) : ls[d][i] \in DOMAIN k
    BY <2>1, ElementOfSeq DEF IsList
  <2>3. \A i \in 1..Len(ls[d]) : ls[d][i] \in DOMAIN k1 /\ k1[ls[d][i]] = k[ls[d][i]]
    BY <1>3, <2>2
  <2>4. IsList(k1, bn[d], ls[d])
    BY <2>1, <2>3, SameList
  <2>5. Len(ls[d]) \in Nat
    BY <2>1, LenProperties DEF IsList
  <2> QED BY <2>1, <2>2, <2>4, <2>5
<1>10. /\ IsList(k1, p, M) /\ Len(M) = 1 + Len(ls[b]) /\ Len(ls[b]) \in Nat
       /\ M[1] = p
       /\ \A j \in 1..Len(ls[b]) : M[1 + j] = ls[b][j]
       /\ \A i \in 1..Len(M) : M[i] \in {p} \cup Members(ls[b], Len(ls[b]))
  <2> DEFINE X == <<p>>
             L == ls[b]
             n == 1
  <2>1. n \in Nat \ {0} /\ X \in [1..n -> DOMAIN k1] /\ \A i \in 1..n : X[i] = p /\ i = n /\ i = 1
    BY <1>3
  <2>2. \A i, j \in 1..n : X[i] = X[j] => i = j
    BY <2>1
  <2>3. \A i \in 1..n, j \in 1..Len(L) : X[i] # L[j]
    BY <1>3, <1>9, <2>1
  <2>4. \A i \in 1..n : k1[X[i]] = IF i = n THEN q ELSE X[i + 1]
    BY <1>3, <2>1
  <2>5. IsList(k1, q, L) /\ M = Joined(X, L)
    BY <1>9
  <2>6. X[1] = p /\ Members(X, n) = {p} /\ 1 \in 1..n
    BY <2>1 DEF Members
  <2> HIDE DEF q, L, X, M, n
  <2>7. /\ IsList(k1, X[1], M) /\ Len(M) = n + Len(L) /\ Len(L) \in Nat
        /\ \A i \in 1..n : M[i] = X[i]
        /\ \A j \in 1..Len(L) : M[n + j] = L[j]
        /\ \A i \in 1..Len(M) : M[i] \in Members(X, n) \cup Members(L, Len(L))
    BY <2>1, <2>2, <2>3, <2>4, <2>5, ChainList
  <2> QED BY <2>6, <2>7 DEF L, n
<1> HIDE DEF M
<1>11. Listed(bn1, s, k1, ls1)
  <2>1. \A i \in 1..Len(M) : s[M[i]] = bin2size(b)
    BY <1>9, <1>10 DEF Members
  <2>2. ASSUME NEW d \in Bins
        PROVE  IsList(k1, bn1[d], ls1[d]) /\ \A i \in 1..Len(ls1[d]) : s[ls1[d][i]] = bin2size(d)
    <3>1. CASE d = b
      BY <1>7, <1>10, <2>1, <3>1
    <3>2. CASE d # b
      <4>1. ls1[d] = ls[d] /\ bn1[d] = bn[d]
        BY <1>7, <3>2
      <4> QED BY <1>9, <4>1
    <3> QED BY <3>1, <3>2
  <2>3. ASSUME NEW x \in DOMAIN k1
        PROVE  \E d \in Bins : \E i \in 1..Len(ls1[d]) : ls1[d][i] = x
    <3>1. CASE x = p
      <4>1. 1 \in 1..Len(M)
        BY <1>10
      <4> QED BY <1>7, <1>10, <3>1, <4>1
    <3>2. CASE x # p
      <4>1. x \in DOMAIN k
        BY <1>3, <3>2
      <4>2. PICK d \in Bins : \E i \in 1..Len(ls[d]) : ls[d][i] = x
        BY <1>1, <4>1 DEF Listed
      <4>3. PICK i \in 1..Len(ls[d]) : ls[d][i] = x
        BY <4>2
      <4>4. CASE d = b
        <5>1. 1 + i \in 1..Len(M) /\ M[1 + i] = x
          BY <1>10, <4>3, <4>4
        <5> QED BY <1>7, <5>1
      <4>5. CASE d # b
        BY <1>7, <4>3, <4>5
      <4> QED BY <4>4, <4>5
    <3> QED BY <3>1, <3>2
  <2> QED BY <1>7, <2>2, <2>3 DEF Listed
<1>12. Kept(bn1, s, k1, mp, us1, ls1)
  <2> HIDE DEF A
  <2> QED BY <1>1, <1>4, <1>5, <1>8, <1>11 DEF Kept
<1>13. Len(ls1[b]) = Len(ls[b]) + 1
  BY <1>7, <1>10
<1>14. /\ Kept(bn1, s, k1, mp, us1, ls1) /\ Len(ls1[b]) = Len(ls[b]) + 1 /\ Len(ls[b]) \in Nat
       /\ \A c \in Bins \ {b} : ls1[c] = ls[c]
  BY <1>7, <1>10, <1>12, <1>13
<1> QED BY <1>14 DEF bn1, k1, us1, ls1, M, q, Pushed

(* malloc takes a page for a large block.                                  *)
LEMMA LargeKeeps ==
  ASSUME NEW bn, NEW s, NEW k, NEW mp, NEW us, NEW ls, Kept(bn, s, k, mp, us, ls),
         NEW a \in Page, a \notin DOMAIN mp, NEW n \in Size, n > Largest
  PROVE  LET p == a + WASTE + WORD
         IN  /\ Kept(bn, Updated(s, At(p, n)), k, Updated(mp, At(a, n + WASTE + WORD)), Updated(us, At(p, n)), ls)
             /\ p \notin DOMAIN k \cup DOMAIN us /\ p \in Nat \ {0}
<1> DEFINE p == a + WASTE + WORD
           bytes == n + WASTE + WORD
           s1 == Updated(s, At(p, n))
           mp1 == Updated(mp, At(a, bytes))
           us1 == Updated(us, At(p, n))
           A == DOMAIN k \cup DOMAIN us
<1>1. HeapTyped(bn, s, k, mp, us) /\ Placed(s, A, mp) /\ Disjoint(s, A) /\ Sized(s, us) /\ Listed(bn, s, k, ls)
  BY DEF Kept
<1>2. /\ a \in Nat \ {0} /\ a % Grain = 0 /\ bytes \in Lengths /\ n \in Nat /\ bytes = n + Grain /\ p = a + Grain
      /\ Grain \in Nat \ {0} /\ p \in Nat \ {0}
  <2>1. a \in Nat \ {0} /\ a % Grain = 0 /\ bytes \in Lengths /\ n \in Nat /\ bytes = n + Grain
    BY PagesAre
  <2> QED BY <2>1, Sizings
<1> HIDE DEF p, bytes
<1>3. p % Grain = 0
  <2> DEFINE one == 1
  <2>0. one \in Nat
    OBVIOUS
  <2>2. a + one * Grain = p
    BY <1>2
  <2> HIDE DEF one
  <2>1. (a + one * Grain) % Grain = 0
    BY <1>2, <2>0, ModPlus
  <2> QED BY <2>1, <2>2
<1>4. DOMAIN mp1 = DOMAIN mp \cup {a} /\ mp1[a] = bytes /\ \A x \in DOMAIN mp \ {a} : mp1[x] = mp[x]
  BY DEF Updated, At
<1>5. DOMAIN us1 = DOMAIN us \cup {p} /\ us1[p] = n /\ \A x \in DOMAIN us \ {p} : us1[x] = us[x]
  BY DEF Updated, At
<1>6. DOMAIN s1 = DOMAIN s \cup {p} /\ s1[p] = n /\ \A x \in DOMAIN s \ {p} : s1[x] = s[x]
  BY DEF Updated, At
<1>7. us1 \in [DOMAIN us1 -> Size]
  <2>1. us1 = [x \in DOMAIN us1 |-> us1[x]]
    BY DEF Updated
  <2>2. \A x \in DOMAIN us1 : us1[x] \in Size
    BY <1>1, <1>5 DEF HeapTyped
  <2> HIDE DEF us1
  <2> QED BY <2>1, <2>2
<1>8. p \notin A
  <2> SUFFICES ASSUME p \in A PROVE FALSE
    OBVIOUS
  <2>1. PICK x \in DOMAIN mp : x + WORD <= p /\ p + s[p] <= x + mp[x]
    BY <1>1 DEF Placed
  <2>2. x \in Page /\ x # a /\ mp[x] \in Lengths
    BY <1>1 DEF HeapTyped
  <2>3. x \in Nat /\ mp[x] \in Nat /\ s[p] \in Nat /\ WORD \in Nat \ {0} /\ bytes \in Nat
    BY <1>1, <1>2, <2>2, PagesAre, Sizings DEF HeapTyped
  <2>4. (x < a => x + mp[x] <= a) /\ (a < x => a + bytes <= x)
    BY <1>2, <2>2, PagesAre
  <2> QED BY <1>2, <2>1, <2>2, <2>3, <2>4
<1> DEFINE t == [x \in A \cup {p} |-> IF x = p THEN n ELSE s[x]]
<1>9. Placed(t, A \cup {p}, mp1) /\ Disjoint(t, A \cup {p})
  <2>1. \A x \in A : x \in Nat /\ s[x] \in Nat /\ t[x] = s[x]
    BY <1>1, <1>8 DEF HeapTyped
  <2>2. \A x \in {p} : x \in Nat /\ t[x] \in Nat /\ x % Grain = 0 /\ a + Grain <= x /\ x + t[x] <= a + bytes
    BY <1>2, <1>3
  <2>3. Disjoint(t, {p})
    BY <1>2 DEF Disjoint
  <2>4. DOMAIN mp \subseteq Page /\ \A x \in DOMAIN mp : mp[x] \in Lengths
    BY <1>1 DEF HeapTyped
  <2>5. mp1 = Updated(mp, At(a, bytes)) /\ a \notin DOMAIN mp /\ a \in Page /\ bytes \in Lengths
    BY <1>2
  <2>6. Placed(s, A, mp) /\ Disjoint(s, A)
    BY <1>1
  <2> DEFINE B == {p}
  <2>7. \A x \in B : x \in Nat /\ t[x] \in Nat /\ x % Grain = 0 /\ a + Grain <= x /\ x + t[x] <= a + bytes
    BY <2>2
  <2>8. Disjoint(t, B)
    BY <2>3
  <2> HIDE DEF t, A, mp1, B
  <2>9. Placed(t, A \cup B, mp1) /\ Disjoint(t, A \cup B)
    BY <2>1, <2>4, <2>5, <2>6, <2>7, <2>8, NewBlocks
  <2> QED BY <2>9 DEF B
<1> HIDE DEF mp1, us1, s1
<1>10. \A x \in A \cup {p} : t[x] = s1[x]
  BY <1>1, <1>6, <1>8 DEF HeapTyped
<1> HIDE DEF t
<1>11. DOMAIN k \cup DOMAIN us1 = A \cup {p}
  BY <1>5
<1>12. Placed(s1, DOMAIN k \cup DOMAIN us1, mp1) /\ Disjoint(s1, DOMAIN k \cup DOMAIN us1)
  <2> HIDE DEF A
  <2>1. Placed(s1, A \cup {p}, mp1) /\ Disjoint(s1, A \cup {p})
    BY <1>9, <1>10 DEF Placed, Disjoint
  <2> QED BY <1>11, <2>1
<1>13. HeapTyped(bn, s1, k, mp1, us1)
  <2>1. \A x \in A : s1[x] = s[x]
    BY <1>1, <1>6, <1>8 DEF HeapTyped
  <2> QED BY <1>1, <1>2, <1>4, <1>5, <1>6, <1>7, <1>8, <2>1 DEF HeapTyped
<1>14. Sized(s1, us1)
  <2>1. \A x \in DOMAIN us : s1[x] = s[x] /\ us1[x] = us[x]
    BY <1>1, <1>5, <1>6, <1>8 DEF HeapTyped
  <2>2. ~(n <= Largest)
    BY <1>2, BinSizes
  <2> QED BY <1>1, <1>5, <1>6, <2>1, <2>2 DEF Sized
<1>15. Listed(bn, s1, k, ls)
  <2>1. \A x \in DOMAIN k : s1[x] = s[x]
    BY <1>1, <1>6, <1>8 DEF HeapTyped
  <2>2. \A d \in Bins : \A i \in 1..Len(ls[d]) : ls[d][i] \in DOMAIN k
    BY <1>1, ElementOfSeq DEF Listed, IsList
  <2> QED BY <1>1, <2>1, <2>2 DEF Listed
<1>16. Kept(bn, s1, k, mp1, us1, ls)
  BY <1>12, <1>13, <1>14, <1>15 DEF Kept
<1> QED BY <1>2, <1>8, <1>16 DEF s1, mp1, us1, p, bytes

(* A block is at least a word long.                                       *)
LEMMA LeastSize ==
  ASSUME NEW bn, NEW s, NEW k, NEW mp, NEW us, NEW ls, Kept(bn, s, k, mp, us, ls), NEW p \in DOMAIN k \cup DOMAIN us
  PROVE  s[p] \in Nat /\ s[p] >= WORD
<1>1. HeapTyped(bn, s, k, mp, us) /\ Sized(s, us) /\ Listed(bn, s, k, ls)
  BY DEF Kept
<1>2. s[p] \in Nat
  BY <1>1 DEF HeapTyped
<1>3. CASE p \in DOMAIN k
  <2>1. PICK b \in Bins : \E i \in 1..Len(ls[b]) : ls[b][i] = p
    BY <1>1, <1>3 DEF Listed
  <2>2. s[p] = bin2size(b)
    BY <1>1, <2>1 DEF Listed
  <2> QED BY <1>2, <2>2, BinSizes
<1>4. CASE p \in DOMAIN us
  <2>1. us[p] \in Nat
    BY <1>1, <1>4, Sizings DEF HeapTyped
  <2>2. CASE us[p] <= Largest
    BY <1>1, <1>2, <1>4, <2>1, <2>2, ClassOfSize, BinSizes DEF Sized
  <2>3. CASE us[p] > Largest
    <3>1. s[p] = us[p] /\ Largest >= WORD /\ Largest \in Nat /\ WORD \in Nat
      <4>1. BINS - 1 \in Bins
        BY Sizings DEF Bins
      <4>2. Largest \in Nat /\ Largest >= WORD
        BY <4>1, BinSizes DEF Largest
      <4> QED BY <1>1, <1>4, <2>1, <2>3, <4>2, Sizings DEF Sized
    <3> QED BY <2>1, <2>3, <3>1
  <2> QED BY <2>1, <2>2, <2>3, BinSizes
<1> QED BY <1>3, <1>4

(* free unmaps the page of a large block, in which there is no other.      *)
LEMMA FreeLargeKeeps ==
  ASSUME NEW bn, NEW s, NEW k, NEW mp, NEW us, NEW ls, Kept(bn, s, k, mp, us, ls), NEW p \in DOMAIN us
  PROVE  LET a == p - (WASTE + WORD)
             mp1 == IF a \in DOMAIN mp /\ mp[a] = s[p] + WASTE + WORD THEN Restricted(mp, DOMAIN mp \ {a}) ELSE mp
         IN  Kept(bn, Restricted(s, DOMAIN s \ {p}), k, mp1, Restricted(us, DOMAIN us \ {p}), ls)
<1> DEFINE a == p - (WASTE + WORD)
           mp1 == IF a \in DOMAIN mp /\ mp[a] = s[p] + WASTE + WORD THEN Restricted(mp, DOMAIN mp \ {a}) ELSE mp
           s1 == Restricted(s, DOMAIN s \ {p})
           us1 == Restricted(us, DOMAIN us \ {p})
           A == DOMAIN k \cup DOMAIN us
<1>1. HeapTyped(bn, s, k, mp, us) /\ Placed(s, A, mp) /\ Disjoint(s, A) /\ Sized(s, us) /\ Listed(bn, s, k, ls)
  BY DEF Kept
<1>2. DOMAIN us1 = DOMAIN us \ {p} /\ us1 \in [DOMAIN us1 -> Size] /\ \A x \in DOMAIN us \ {p} : us1[x] = us[x]
  BY <1>1 DEF Restricted, HeapTyped
<1>3. DOMAIN s1 = DOMAIN s \ {p} /\ \A x \in DOMAIN s \ {p} : s1[x] = s[x]
  BY DEF Restricted
<1>4. DOMAIN mp1 \subseteq DOMAIN mp /\ \A x \in DOMAIN mp1 : mp1[x] = mp[x]
  BY DEF Restricted
<1>5. \A x \in DOMAIN mp : x \in DOMAIN mp1 \/ (x = a /\ mp[a] = s[p] + WASTE + WORD)
  BY DEF Restricted
<1> HIDE DEF us1, s1, mp1
<1>6. p \notin DOMAIN k /\ p \in Nat
  BY <1>1 DEF HeapTyped
<1> DEFINE A1 == DOMAIN k \cup DOMAIN us1
<1>7. A1 \subseteq A /\ p \notin A1 /\ \A x \in A1 : s1[x] = s[x]
  BY <1>1, <1>2, <1>3, <1>6 DEF HeapTyped
<1>8. Disjoint(s1, A1)
  <2> HIDE DEF A1, A
  <2> QED BY <1>1, <1>7 DEF Disjoint
<1>9. Placed(s1, A1, mp1)
  <2> SUFFICES ASSUME NEW x \in A1
               PROVE  x % Grain = 0 /\ \E c \in DOMAIN mp1 : c + WORD <= x /\ x + s1[x] <= c + mp1[c]
    BY DEF Placed
  <2>1. x \in A /\ x # p /\ s1[x] = s[x]
    BY <1>7
  <2>2. x % Grain = 0 /\ \E c \in DOMAIN mp : c + WORD <= x /\ x + s[x] <= c + mp[c]
    BY <1>1, <2>1 DEF Placed
  <2>3. PICK c \in DOMAIN mp : c + WORD <= x /\ x + s[x] <= c + mp[c]
    BY <2>2
  <2>4. CASE c \in DOMAIN mp1
    <3>1. mp1[c] = mp[c]
      BY <1>4, <2>4
    <3> QED BY <2>1, <2>2, <2>3, <2>4, <3>1
  <2>5. CASE c = a /\ mp[a] = s[p] + WASTE + WORD
    <3>1. s[x] \in Nat /\ s[x] >= WORD /\ s[p] \in Nat /\ x \in Nat
      <4>1. p \in DOMAIN k \cup DOMAIN us
        OBVIOUS
      <4> QED BY <1>1, <2>1, <4>1, LeastSize DEF HeapTyped
    <3>2. x < p => x + s[x] + WORD <= p
      BY <1>1, <2>1 DEF Disjoint
    <3>3. p < x => p + s[p] + WORD <= x
      BY <1>1, <2>1 DEF Disjoint
    <3>4. WORD \in Nat \ {0} /\ WASTE = WORD
      BY Sizings
    <3>5. a \in Int /\ p = a + WORD + WORD /\ mp[a] = s[p] + WORD + WORD
      BY <1>6, <2>5, <3>1, <3>4
    <3>6. a + WORD <= x /\ x + s[x] <= a + mp[a]
      BY <2>3, <2>5
    <3> HIDE DEF a
    <3> DEFINE m == mp[a]
    <3>7. m = s[p] + WORD + WORD /\ x + s[x] <= a + m
      BY <3>5, <3>6
    <3> HIDE DEF m
    <3>8. CASE x < p
      BY <1>6, <3>1, <3>2, <3>4, <3>5, <3>6, <3>8
    <3>9. CASE p < x
      BY <1>6, <3>1, <3>3, <3>4, <3>5, <3>7, <3>9
    <3> QED BY <1>6, <2>1, <3>1, <3>8, <3>9
  <2> QED BY <1>5, <2>4, <2>5
<1>10. HeapTyped(bn, s1, k, mp1, us1)
  BY <1>1, <1>2, <1>3, <1>4, <1>6, <1>7 DEF HeapTyped
<1>11. Sized(s1, us1)
  BY <1>1, <1>2, <1>7 DEF Sized
<1>12. Listed(bn, s1, k, ls)
  <2>1. \A d \in Bins : \A i \in 1..Len(ls[d]) : ls[d][i] \in DOMAIN k
    BY <1>1, ElementOfSeq DEF Listed, IsList
  <2> QED BY <1>1, <1>7, <2>1 DEF Listed
<1>13. Kept(bn, s1, k, mp1, us1, ls)
  BY <1>8, <1>9, <1>10, <1>11, <1>12 DEF Kept
<1> QED BY <1>13 DEF s1, mp1, us1

(* Maps with the same values are the same to the invariant.               *)
LEMMA MapSame ==
  ASSUME NEW bn, NEW s, NEW k, NEW mp, NEW us, NEW ls, NEW m, Kept(bn, s, k, mp, us, ls),
         DOMAIN m = DOMAIN mp, \A a \in DOMAIN mp : m[a] = mp[a]
  PROVE  Kept(bn, s, k, m, us, ls)
<1> DEFINE A == DOMAIN k \cup DOMAIN us
<1>1. Placed(s, A, m)
  <2>1. Placed(s, A, mp)
    BY DEF Kept
  <2> HIDE DEF A
  <2> QED BY <2>1 DEF Placed
<1>2. HeapTyped(bn, s, k, m, us)
  BY DEF Kept, HeapTyped
<1> QED BY <1>1, <1>2 DEF Kept

(* Filled takes the pages one after the other.                             *)
CutFor(m, a, b) ==
  LET l == list_from_block(bin2size(b), a, m.bin[b])
  IN  [bin |-> [m.bin EXCEPT ![b] = l.first], sz |-> Updated(m.sz, l.sz), lnk |-> Updated(m.lnk, l.lnk)]

FilledAfter(bn, s, k, b, ps) ==
  CHOOSE f : f = [i \in 0..Len(ps) |-> IF i = 0 THEN [bin |-> bn, sz |-> s, lnk |-> k]
                                       ELSE CutFor(f[i - 1], ps[i], b)]

(* The maps after each page are as Filled defines them.                   *)
LEMMA AfterExists ==
  ASSUME NEW bn, NEW s, NEW k, NEW b, NEW ps, Len(ps) \in Nat, NEW f, f = FilledAfter(bn, s, k, b, ps)
  PROVE  /\ f[0] = [bin |-> bn, sz |-> s, lnk |-> k]
         /\ \A i \in 1..Len(ps) : f[i] = CutFor(f[i - 1], ps[i], b)
<1> DEFINE N == Len(ps)
           first == [bin |-> bn, sz |-> s, lnk |-> k]
           Upto(n, g) == g = [i \in 0..n |-> IF i = 0 THEN first ELSE CutFor(g[i - 1], ps[i], b)]
           S == {n \in 0..N : \E g : Upto(n, g)}
<1> HIDE DEF first
<1>1. 0 \in S
  <2> DEFINE g == [i \in 0..0 |-> first]
  <2>1. \A i \in 0..0 : g[i] = IF i = 0 THEN first ELSE CutFor(g[i - 1], ps[i], b)
    OBVIOUS
  <2>2. g = [i \in 0..0 |-> g[i]]
    OBVIOUS
  <2>3. Upto(0, g)
    <3> HIDE DEF g
    <3>1. [i \in 0..0 |-> g[i]] = [i \in 0..0 |-> IF i = 0 THEN first ELSE CutFor(g[i - 1], ps[i], b)]
      BY <2>1
    <3> QED BY <2>2, <3>1
  <2>4. 0 \in 0..N
    OBVIOUS
  <2> HIDE DEF Upto
  <2> QED BY <2>3, <2>4
<1>2. \A n \in 0..N-1 : n \in S => n + 1 \in S
  <2> SUFFICES ASSUME NEW n \in 0..N-1, n \in S PROVE n + 1 \in S
    OBVIOUS
  <2>1. PICK g : Upto(n, g)
    OBVIOUS
  <2> DEFINE h == [i \in 0..n+1 |-> IF i <= n THEN g[i] ELSE CutFor(g[n], ps[n + 1], b)]
  <2>2. n \in Nat /\ n + 1 \in 0..N /\ n + 1 # 0 /\ ~(n + 1 <= n) /\ (n + 1) - 1 = n
    OBVIOUS
  <2>3. \A i \in 0..n+1 : h[i] = IF i = 0 THEN first ELSE CutFor(h[i - 1], ps[i], b)
    <3> SUFFICES ASSUME NEW i \in 0..n+1 PROVE h[i] = IF i = 0 THEN first ELSE CutFor(h[i - 1], ps[i], b)
      OBVIOUS
    <3>1. CASE i <= n
      <4>1. i \in 0..n /\ (i # 0 => i - 1 \in 0..n+1 /\ i - 1 <= n)
        BY <2>2, <3>1
      <4>2. g[i] = IF i = 0 THEN first ELSE CutFor(g[i - 1], ps[i], b)
        BY <2>1, <4>1
      <4>3. h[i] = g[i] /\ (i # 0 => h[i - 1] = g[i - 1])
        BY <3>1, <4>1
      <4> QED BY <4>2, <4>3
    <3>2. CASE i = n + 1
      <4>1. h[n + 1] = CutFor(g[n], ps[n + 1], b) /\ n \in 0..n+1 /\ n <= n /\ h[n] = g[n]
        BY <2>2
      <4> HIDE DEF h
      <4> QED BY <2>2, <3>2, <4>1
    <3> QED BY <2>2, <3>1, <3>2
  <2>4. Upto(n + 1, h)
    <3>1. h = [i \in 0..n+1 |-> h[i]]
      OBVIOUS
    <3>2. [i \in 0..n+1 |-> h[i]] = [i \in 0..n+1 |-> IF i = 0 THEN first ELSE CutFor(h[i - 1], ps[i], b)]
      <4> HIDE DEF h
      <4> QED BY <2>3
    <3> HIDE DEF h
    <3> QED BY <3>1, <3>2
  <2> HIDE DEF Upto
  <2> QED BY <2>2, <2>4
<1>3. \E g : Upto(N, g)
  <2>1. N \in 0..N
    OBVIOUS
  <2> HIDE DEF S
  <2>2. N \in S
    BY <1>1, <1>2, <2>1, UpInduction
  <2> HIDE DEF Upto
  <2> QED BY <2>2 DEF S
<1>4. Upto(N, CHOOSE g : Upto(N, g))
  <2> HIDE DEF Upto
  <2> QED BY <1>3
<1>5. f = CHOOSE g : Upto(N, g)
  BY DEF FilledAfter, first
<1>6. f = [i \in 0..N |-> IF i = 0 THEN first ELSE CutFor(f[i - 1], ps[i], b)]
  BY <1>4, <1>5
<1>7. 0 \in 0..N /\ \A i \in 1..N : i \in 0..N /\ i # 0
  OBVIOUS
<1>8. f[0] = first /\ \A i \in 1..N : f[i] = CutFor(f[i - 1], ps[i], b)
  BY <1>6, <1>7
<1> QED BY <1>8 DEF first

(* The invariant, with the chunks of n more big blocks in the list of bin *)
(* b.                                                                     *)
Increased(bn, s, k, mp, us, ls, b, n) ==
  \E ls1 : /\ Kept(bn, s, k, mp, us, ls1)
           /\ \A c \in Bins : /\ Len(ls[c]) \in Nat
                             /\ Len(ls1[c]) = IF c = b THEN Len(ls[c]) + n * Chunks(b) ELSE Len(ls[c])

(* Filled keeps the invariant.                                            *)
LEMMA FilledKeeps ==
  ASSUME NEW bn, NEW s, NEW k, NEW mp, NEW us, NEW ls, Kept(bn, s, k, mp, us, ls), NEW b \in Bins,
         NEW ps, Len(ps) \in Nat, \A i \in 1..Len(ps) : ps[i] \in Page /\ ps[i] \notin DOMAIN mp,
         \A i, j \in 1..Len(ps) : ps[i] = ps[j] => i = j,
         NEW m, m = FilledAfter(bn, s, k, b, ps)[Len(ps)],
         NEW mp1, DOMAIN mp1 = DOMAIN mp \cup Members(ps, Len(ps)),
         \A a \in DOMAIN mp1 : mp1[a] = IF a \in DOMAIN mp THEN mp[a] ELSE BIGBLOCK
  PROVE  Increased(m.bin, m.sz, m.lnk, mp1, us, ls, b, Len(ps))
<1> DEFINE N == Len(ps)
           f == FilledAfter(bn, s, k, b, ps)
           Mp(i) == [a \in DOMAIN mp \cup Members(ps, i) |-> IF a \in DOMAIN mp THEN mp[a] ELSE BIGBLOCK]
           Fine(i, l) == /\ Kept(f[i].bin, f[i].sz, f[i].lnk, Mp(i), us, l)
                         /\ \A c \in Bins : Len(l[c]) = IF c = b THEN Len(ls[c]) + i * Chunks(b) ELSE Len(ls[c])
           S == {i \in 0..N : \E l : Fine(i, l)}
<1>1. /\ f[0] = [bin |-> bn, sz |-> s, lnk |-> k]
      /\ \A i \in 1..N : f[i] = CutFor(f[i - 1], ps[i], b)
  <2> HIDE DEF f
  <2> QED BY AfterExists DEF f
<1> HIDE DEF f
<1>2. Chunks(b) \in Nat /\ \A c \in Bins : Len(ls[c]) \in Nat
  BY ChunksIs, LenProperties DEF Kept, Listed, IsList
<1>3. 0 \in S
  <2>1. DOMAIN Mp(0) = DOMAIN mp /\ \A a \in DOMAIN mp : Mp(0)[a] = mp[a]
    <3>1. Members(ps, 0) = {}
      <4>1. 1..0 = {}
        OBVIOUS
      <4> QED BY <4>1 DEF Members
    <3> QED BY <3>1
  <2>2. Kept(bn, s, k, Mp(0), us, ls)
    <3> HIDE DEF Mp
    <3> QED BY <2>1, MapSame
  <2>3. f[0].bin = bn /\ f[0].sz = s /\ f[0].lnk = k
    BY <1>1
  <2>4. \A c \in Bins : Len(ls[c]) = IF c = b THEN Len(ls[c]) + 0 * Chunks(b) ELSE Len(ls[c])
    BY <1>2
  <2>5. Fine(0, ls)
    <3> HIDE DEF Mp
    <3> QED BY <2>2, <2>3, <2>4
  <2>6. 0 \in 0..N
    OBVIOUS
  <2> HIDE DEF Fine
  <2> QED BY <2>5, <2>6
<1>4. \A i \in 0..N-1 : i \in S => i + 1 \in S
  <2> SUFFICES ASSUME NEW i \in 0..N-1, i \in S PROVE i + 1 \in S
    OBVIOUS
  <2>1. PICK l : Fine(i, l)
    <3> HIDE DEF Fine
    <3> QED OBVIOUS
  <2> DEFINE a == ps[i + 1]
             g == f[i]
             c0 == Joined(CutUp(a, b), l[b])
             l1 == [l EXCEPT ![b] = c0]
             q == list_from_block(bin2size(b), a, g.bin[b])
             m1 == Updated(Mp(i), At(a, BIGBLOCK))
  <2>2. i \in Nat /\ i + 1 \in 1..N /\ i + 1 \in 0..N /\ (i + 1) - 1 = i /\ \A j \in 1..i : j \in 1..N /\ j # i + 1
    OBVIOUS
  <2>3. a \in Page /\ a \notin DOMAIN Mp(i)
    BY <2>2 DEF Members
  <2>4. f[i + 1] = CutFor(g, a, b)
    BY <1>1, <2>2
  <2>5. /\ Kept([g.bin EXCEPT ![b] = q.first], Updated(g.sz, q.sz), Updated(g.lnk, q.lnk), m1, us, l1)
        /\ Len(l1[b]) = Chunks(b) + Len(l[b]) /\ Len(l[b]) \in Nat
        /\ \A c \in Bins \ {b} : l1[c] = l[c]
    <3>1. Kept(g.bin, g.sz, g.lnk, Mp(i), us, l)
      BY <2>1
    <3> DEFINE M == Mp(i)
               x == g.bin
               y == g.sz
               z == g.lnk
    <3>2. Kept(x, y, z, M, us, l) /\ a \in Page /\ a \notin DOMAIN M
      BY <2>3, <3>1
    <3> HIDE DEF M, a, g, x, y, z
    <3>3. LET w == list_from_block(bin2size(b), a, x[b])
              ls1 == [l EXCEPT ![b] = Joined(CutUp(a, b), l[b])]
          IN  /\ Kept([x EXCEPT ![b] = w.first], Updated(y, w.sz), Updated(z, w.lnk), Updated(M, At(a, BIGBLOCK)), us, ls1)
              /\ Len(ls1[b]) = Chunks(b) + Len(l[b]) /\ Len(l[b]) \in Nat
              /\ \A c \in Bins \ {b} : ls1[c] = l[c]
      BY <3>2, FillKeeps
    <3> QED BY <3>3 DEF M, x, y, z
  <2>6. f[i + 1].bin = [g.bin EXCEPT ![b] = q.first] /\ f[i + 1].sz = Updated(g.sz, q.sz) /\ f[i + 1].lnk = Updated(g.lnk, q.lnk)
    BY <2>4 DEF CutFor
  <2>7. DOMAIN Mp(i + 1) = DOMAIN m1 /\ \A x \in DOMAIN m1 : Mp(i + 1)[x] = m1[x]
    <3>1. Members(ps, i + 1) = Members(ps, i) \cup {a}
      <4>1. \A j \in 1..i + 1 : j \in 1..i \/ j = i + 1
        BY <2>2
      <4>2. \A j \in 1..i : j \in 1..i + 1
        BY <2>2
      <4>3. i + 1 \in 1..i + 1
        BY <2>2
      <4> QED BY <4>1, <4>2, <4>3 DEF Members
    <3>2. DOMAIN m1 = DOMAIN mp \cup Members(ps, i) \cup {a} /\ m1[a] = BIGBLOCK
          /\ \A x \in (DOMAIN mp \cup Members(ps, i)) \ {a} : m1[x] = Mp(i)[x]
      BY DEF Updated, At
    <3> HIDE DEF m1, a
    <3>3. a \notin DOMAIN mp \cup Members(ps, i)
      BY <2>3
    <3>4. \A x \in DOMAIN mp \cup Members(ps, i) : x # a /\ m1[x] = IF x \in DOMAIN mp THEN mp[x] ELSE BIGBLOCK
      BY <3>2, <3>3
    <3> QED BY <3>1, <3>2, <3>3, <3>4
  <2>8. Kept(f[i + 1].bin, f[i + 1].sz, f[i + 1].lnk, Mp(i + 1), us, l1)
    <3> DEFINE x == f[i + 1].bin
               y == f[i + 1].sz
               z == f[i + 1].lnk
               M == Mp(i + 1)
    <3>1. Kept(x, y, z, m1, us, l1)
      BY <2>5, <2>6
    <3>2. DOMAIN M = DOMAIN m1 /\ \A e \in DOMAIN m1 : M[e] = m1[e]
      BY <2>7
    <3> HIDE DEF x, y, z, M, m1, l1
    <3>3. Kept(x, y, z, M, us, l1)
      BY <3>1, <3>2, MapSame
    <3> QED BY <3>3 DEF x, y, z, M
  <2>9. \A c \in Bins : Len(l1[c]) = IF c = b THEN Len(ls[c]) + (i + 1) * Chunks(b) ELSE Len(ls[c])
    <3>1. Len(l[b]) = Len(ls[b]) + i * Chunks(b) /\ \A c \in Bins \ {b} : Len(l[c]) = Len(ls[c])
      BY <2>1
    <3>2. (i + 1) * Chunks(b) = i * Chunks(b) + Chunks(b) /\ i * Chunks(b) \in Nat
      <4> DEFINE z == Chunks(b)
      <4>1. z \in Nat /\ i \in Nat
        BY <1>2, <2>2
      <4> HIDE DEF z
      <4>2. (i + 1) * z = i * z + z /\ i * z \in Nat
        BY <4>1, SMTT(30)
      <4> QED BY <4>2 DEF z
    <3> DEFINE x == i * Chunks(b)
    <3> HIDE DEF l1
    <3>3. Len(l1[b]) = Len(ls[b]) + (i + 1) * Chunks(b)
      <4>1. Len(l1[b]) = Chunks(b) + Len(l[b]) /\ Len(l[b]) = Len(ls[b]) + x /\ (i + 1) * Chunks(b) = x + Chunks(b) /\ x \in Nat
        BY <2>5, <3>1, <3>2
      <4> HIDE DEF x
      <4> QED BY <1>2, <4>1
    <3>4. \A c \in Bins \ {b} : Len(l1[c]) = Len(ls[c])
      BY <2>5, <3>1
    <3> QED BY <3>3, <3>4
  <2>10. Fine(i + 1, l1)
    <3> HIDE DEF l1, Mp
    <3> QED BY <2>8, <2>9
  <2> HIDE DEF Fine
  <2> QED BY <2>2, <2>10
<1>5. N \in S
  <2>1. N \in Nat /\ N \in 0..N
    OBVIOUS
  <2> HIDE DEF S
  <2> QED BY <1>3, <1>4, <2>1, UpInduction
<1>6. PICK l : Fine(N, l)
  <2> HIDE DEF Fine
  <2> QED BY <1>5
<1>7. DOMAIN Mp(N) = DOMAIN mp1 /\ \A a \in DOMAIN Mp(N) : mp1[a] = Mp(N)[a]
  OBVIOUS
<1>8. Kept(m.bin, m.sz, m.lnk, mp1, us, l)
  <2> DEFINE M == Mp(N)
  <2>1. Kept(m.bin, m.sz, m.lnk, M, us, l)
    BY <1>6 DEF f
  <2>2. DOMAIN mp1 = DOMAIN M /\ \A a \in DOMAIN M : mp1[a] = M[a]
    BY <1>7
  <2> DEFINE x == m.bin
             y == m.sz
             z == m.lnk
  <2>3. Kept(x, y, z, M, us, l)
    BY <2>1
  <2> HIDE DEF M, x, y, z
  <2>4. Kept(x, y, z, mp1, us, l)
    BY <2>2, <2>3, MapSame
  <2> QED BY <2>4 DEF x, y, z
<1> QED BY <1>2, <1>6, <1>8 DEF Increased

(* What the invariant says of the lists and the maps.                     *)
LEMMA KeptIs ==
  ASSUME NEW bn, NEW s, NEW k, NEW mp, NEW us, NEW ls, Kept(bn, s, k, mp, us, ls)
  PROVE  /\ DOMAIN bn = Bins /\ Null \notin DOMAIN k /\ Null \notin DOMAIN us /\ IsFiniteSet(DOMAIN k)
         /\ us \in [DOMAIN us -> Size] /\ DOMAIN k \cap DOMAIN us = {}
         /\ \A b \in Bins : IsList(k, bn[b], ls[b]) /\ Len(ls[b]) \in Nat /\ (bn[b] = Null => Len(ls[b]) = 0)
         /\ \A b \in Bins : Walk(k, bn[b]) = ls[b]
<1>1. /\ DOMAIN bn = Bins /\ Null \notin DOMAIN k /\ Null \notin DOMAIN us /\ IsFiniteSet(DOMAIN k)
      /\ us \in [DOMAIN us -> Size] /\ DOMAIN k \cap DOMAIN us = {}
  BY DEF Kept, HeapTyped, Null
<1>2. \A b \in Bins : IsList(k, bn[b], ls[b])
  BY DEF Kept, Listed
<1>3. \A b \in Bins : Len(ls[b]) \in Nat
  BY <1>2, LenProperties DEF IsList
<1>4. ASSUME NEW b \in Bins, bn[b] = Null PROVE Len(ls[b]) = 0
  <2>1. IsList(k, Null, ls[b])
    BY <1>2, <1>4
  <2>2. ls[b] = <<>>
    BY <1>1, <2>1, NullList
  <2> QED BY <2>2
<1>5. \A b \in Bins : Walk(k, bn[b]) = ls[b]
  BY <1>1, <1>2, WalkIs
<1> QED BY <1>1, <1>2, <1>3, <1>4, <1>5

(* What malloc does, with the lists it leaves.                             *)
Gave(ls, n) ==
  \E ls1, p : /\ Kept(bin', sz', lnk', mapped', used', ls1)
              /\ result' = Called("malloc", n, p) /\ p # Null /\ p \notin DOMAIN used
              /\ used' = Updated(used, At(p, n))
              /\ \A c \in Bins : Len(ls1[c]) >= IF c = size2bin(n) THEN Len(ls[c]) - 1 ELSE Len(ls[c])

(* malloc refuses only if the list was empty.                             *)
HadNone(ls, n) == Refused(n) /\ \A c \in Bins : c = size2bin(n) => Len(ls[c]) = 0

(* malloc keeps the invariant (malloc_small, with and without a free      *)
(* block, and malloc_large).                                              *)
LEMMA MallocKeeps ==
  ASSUME NEW ls, Kept(bin, sz, lnk, mapped, used, ls), NEW n \in Size, malloc(n)
  PROVE  Gave(ls, n) \/ HadNone(ls, n)
<1>1. n \in Nat /\ Largest \in Nat
  BY Sizings, BinSizes
<1>2. /\ DOMAIN bin = Bins /\ Null \notin DOMAIN lnk /\ Null \notin DOMAIN used
      /\ DOMAIN lnk \cap DOMAIN used = {}
      /\ \A b \in Bins : Len(ls[b]) \in Nat /\ (bin[b] = Null => Len(ls[b]) = 0)
  BY KeptIs
<1>3. CASE n > Largest
  <2>1. malloc_large(n)
    BY <1>3 DEF malloc, Largest
  <2>2. \A c \in Bins : c # size2bin(n)
    BY <1>1, <1>3, ClassOfSize
  <2>3. PICK a \in Answers :
          IF a = Null THEN Refused(n)
          ELSE /\ mapped' = Updated(mapped, At(a, n + WASTE + WORD))
               /\ sz' = Updated(sz, At(a + WASTE + WORD, n))
               /\ Gives(a + WASTE + WORD, n)
               /\ UNCHANGED <<bin, lnk>>
    BY <2>1 DEF malloc_large
  <2>4. CASE a = Null
    BY <2>2, <2>3, <2>4 DEF HadNone
  <2>5. CASE a # Null
    <3>1. a \in Page /\ a \notin DOMAIN mapped
      BY <2>5 DEF Answers, Mappable
    <3> DEFINE p == a + WASTE + WORD
    <3>2. /\ Kept(bin, Updated(sz, At(p, n)), lnk, Updated(mapped, At(a, n + WASTE + WORD)), Updated(used, At(p, n)), ls)
          /\ p \notin DOMAIN lnk \cup DOMAIN used /\ p \in Nat \ {0}
      BY <1>3, <3>1, LargeKeeps
    <3>3. /\ mapped' = Updated(mapped, At(a, n + WASTE + WORD)) /\ sz' = Updated(sz, At(p, n))
          /\ result' = Called("malloc", n, p) /\ used' = Updated(used, At(p, n)) /\ bin' = bin /\ lnk' = lnk
      BY <2>3, <2>5 DEF Gives
    <3> HIDE DEF p
    <3>4. Kept(bin', sz', lnk', mapped', used', ls)
      BY <3>2, <3>3
    <3>5. \A c \in Bins : Len(ls[c]) >= IF c = size2bin(n) THEN Len(ls[c]) - 1 ELSE Len(ls[c])
      BY <1>2, <2>2
    <3>6. p # Null /\ p \notin DOMAIN used
      BY <3>2 DEF Null
    <3> QED BY <3>3, <3>4, <3>5, <3>6 DEF Gave
  <2> QED BY <2>4, <2>5
<1>4. CASE n <= Largest
  <2> DEFINE b == size2bin(n)
  <2>1. malloc_small(n)
    BY <1>1, <1>4 DEF malloc, Largest
  <2>2. b \in Bins
    BY <1>1, <1>4, ClassOfSize
  <2>3. CASE bin[b] # Null
    <3> DEFINE p == bin[b]
               ls1 == Altered(ls, b, Tail(ls[b]))
    <3>1. /\ bin' = [bin EXCEPT ![b] = lnk[p]] /\ lnk' = Restricted(lnk, DOMAIN lnk \ {p})
          /\ result' = Called("malloc", n, p) /\ used' = Updated(used, At(p, n)) /\ sz' = sz /\ mapped' = mapped
      BY <2>1, <2>3 DEF malloc_small, Gives
    <3>2. /\ Kept(Altered(bin, b, lnk[p]), sz, Restricted(lnk, DOMAIN lnk \ {p}), mapped, Updated(used, At(p, n)), ls1)
          /\ Len(ls[b]) \in Nat \ {0} /\ Len(ls1[b]) = Len(ls[b]) - 1
          /\ \A c \in Bins \ {b} : ls1[c] = ls[c]
          /\ p \in DOMAIN lnk
      BY <1>4, <2>2, <2>3, PopKeeps DEF Popped
    <3>6. bin' = Altered(bin, b, lnk[p])
      BY <3>1 DEF Altered
    <3> HIDE DEF p, b, ls1
    <3>3. Kept(bin', sz', lnk', mapped', used', ls1)
      BY <3>1, <3>2, <3>6
    <3>4. \A c \in Bins : Len(ls1[c]) >= IF c = b THEN Len(ls[c]) - 1 ELSE Len(ls[c])
      BY <1>2, <3>2
    <3>5. p # Null /\ p \notin DOMAIN used
      BY <1>2, <3>2
    <3> QED BY <3>1, <3>3, <3>4, <3>5 DEF Gave, b
  <2>4. CASE bin[b] = Null
    <3>1. PICK a \in Answers :
            IF a = Null THEN Refused(n)
            ELSE LET l == list_from_block(bin2size(b), a, Null)
                 IN  /\ bin' = [bin EXCEPT ![b] = l.lnk[l.first]]
                     /\ sz' = Updated(sz, l.sz)
                     /\ lnk' = Restricted(Updated(lnk, l.lnk), DOMAIN lnk \cup (DOMAIN l.lnk \ {l.first}))
                     /\ mapped' = Updated(mapped, At(a, BIGBLOCK))
                     /\ Gives(l.first, n)
      BY <2>1, <2>4 DEF malloc_small
    <3>2. CASE a = Null
      <4>1. Refused(n)
        BY <3>1, <3>2
      <4>2. \A c \in Bins : c = b => Len(ls[c]) = 0
        BY <1>2, <2>4
      <4> QED BY <4>1, <4>2 DEF HadNone
    <3>3. CASE a # Null
      <4>1. a \in Page /\ a \notin DOMAIN mapped
        BY <3>3 DEF Answers, Mappable
      <4> DEFINE l == list_from_block(bin2size(b), a, Null)
                 k1 == Updated(lnk, l.lnk)
                 s1 == Updated(sz, l.sz)
                 m1 == Updated(mapped, At(a, BIGBLOCK))
                 bn1 == [bin EXCEPT ![b] = l.first]
                 ls1 == [ls EXCEPT ![b] = Joined(CutUp(a, b), ls[b])]
      <4>2. /\ bin' = [bin EXCEPT ![b] = l.lnk[l.first]] /\ sz' = s1
            /\ lnk' = Restricted(k1, DOMAIN lnk \cup (DOMAIN l.lnk \ {l.first}))
            /\ mapped' = m1 /\ result' = Called("malloc", n, l.first) /\ used' = Updated(used, At(l.first, n))
        BY <3>1, <3>3 DEF Gives
      <4>3. /\ Kept(bn1, s1, k1, m1, used, ls1)
            /\ Len(ls1[b]) = Chunks(b) + Len(ls[b]) /\ Len(ls[b]) \in Nat
            /\ \A c \in Bins \ {b} : ls1[c] = ls[c]
            /\ l.first \in DOMAIN l.lnk /\ DOMAIN l.lnk \cap (DOMAIN lnk \cup DOMAIN used) = {}
        <5>1. /\ Kept([bin EXCEPT ![b] = list_from_block(bin2size(b), a, bin[b]).first],
                      Updated(sz, list_from_block(bin2size(b), a, bin[b]).sz),
                      Updated(lnk, list_from_block(bin2size(b), a, bin[b]).lnk), m1, used, ls1)
              /\ Len(ls1[b]) = Chunks(b) + Len(ls[b]) /\ Len(ls[b]) \in Nat
              /\ \A c \in Bins \ {b} : ls1[c] = ls[c]
              /\ list_from_block(bin2size(b), a, bin[b]).first \in DOMAIN list_from_block(bin2size(b), a, bin[b]).lnk
              /\ DOMAIN list_from_block(bin2size(b), a, bin[b]).lnk \cap (DOMAIN lnk \cup DOMAIN used) = {}
          BY <2>2, <4>1, FillKeeps
        <5> HIDE DEF b, ls1, m1
        <5> QED BY <2>4, <5>1
      <4> DEFINE p == l.first
                 k2 == Restricted(k1, DOMAIN k1 \ {p})
                 ls2 == Altered(ls1, b, Tail(ls1[b]))
      <4>4. DOMAIN k1 = DOMAIN lnk \cup DOMAIN l.lnk /\ k1[p] = l.lnk[p] /\ p \in DOMAIN k1
        <5> HIDE DEF l, b
        <5>1. p \in DOMAIN l.lnk
          BY <4>3
        <5> QED BY <5>1 DEF Updated
      <4>5. bn1[b] = p /\ p # Null /\ DOMAIN bn1 = Bins
        <5>1. bn1[b] = p
          BY <1>2, <2>2
        <5>2. Null \notin DOMAIN k1 /\ DOMAIN bn1 = Bins
          <6> HIDE DEF bn1, k1, s1, m1, ls1
          <6> QED BY <4>3, KeptIs
        <5> QED BY <4>4, <5>1, <5>2
      <4>6. /\ Kept(Altered(bn1, b, k1[p]), s1, k2, m1, Updated(used, At(p, n)), ls2)
            /\ Len(ls1[b]) \in Nat \ {0} /\ Len(ls2[b]) = Len(ls1[b]) - 1
            /\ \A c \in Bins \ {b} : ls2[c] = ls1[c]
        <5> HIDE DEF bn1, k1, s1, m1, ls1, p
        <5>1. Kept(bn1, s1, k1, m1, used, ls1) /\ bn1[b] # Null /\ bn1[b] = p
          BY <4>3, <4>5
        <5>3. b = size2bin(n) /\ b \in Bins /\ n <= Largest
          BY <1>4, <2>2
        <5> HIDE DEF b
        <5>4. Popped(bn1, s1, k1, m1, used, ls1, b, n)
          BY <5>1, <5>3, PopKeeps
        <5> QED BY <5>1, <5>4 DEF Popped, p
      <4>7. lnk' = k2
        <5>1. DOMAIN k1 \cap (DOMAIN lnk \cup (DOMAIN l.lnk \ {p})) = DOMAIN k1 \cap (DOMAIN k1 \ {p})
          <6>1. p \notin DOMAIN lnk
            BY <4>3
          <6> HIDE DEF k1, l, p
          <6> QED BY <4>4, <6>1
        <5> HIDE DEF k1
        <5>2. lnk' = Restricted(k1, DOMAIN lnk \cup (DOMAIN l.lnk \ {p}))
          BY <4>2
        <5> HIDE DEF l, p
        <5> QED BY <5>1, <5>2 DEF Restricted
      <4>8. bin' = Altered(bn1, b, k1[p])
        <5>1. bin' = [bin EXCEPT ![b] = k1[p]]
          BY <4>2, <4>4
        <5> HIDE DEF k1, p, l
        <5>2. [bn1 EXCEPT ![b] = k1[p]] = [bin EXCEPT ![b] = k1[p]]
          <6> DEFINE f == l.first
                     e == k1[p]
          <6> HIDE DEF f, e, b
          <6>1. [[bin EXCEPT ![b] = f] EXCEPT ![b] = e] = [bin EXCEPT ![b] = e]
            OBVIOUS
          <6> QED BY <6>1 DEF f, e
        <5> QED BY <5>1, <5>2 DEF Altered
      <4>9. Kept(bin', sz', lnk', mapped', used', ls2)
        <5> HIDE DEF bn1, k1, s1, k2, m1, ls1, ls2, b
        <5>1. sz' = s1 /\ mapped' = m1 /\ used' = Updated(used, At(p, n))
          BY <4>2
        <5> HIDE DEF l, p
        <5> QED BY <4>6, <4>7, <4>8, <5>1
      <4>10. \A c \in Bins : Len(ls2[c]) >= IF c = b THEN Len(ls[c]) - 1 ELSE Len(ls[c])
        <5> HIDE DEF ls1, ls2, b
        <5>1. Len(ls[b]) = 0 /\ Len(ls2[b]) \in Nat
          BY <1>2, <2>2, <2>4, <4>6
        <5>2. \A c \in Bins \ {b} : Len(ls2[c]) = Len(ls[c])
          BY <4>3, <4>6
        <5> QED BY <1>2, <5>1, <5>2
      <4>11. p # Null /\ p \notin DOMAIN used /\ result' = Called("malloc", n, p) /\ used' = Updated(used, At(p, n))
        BY <4>2, <4>3, <4>5
      <4> HIDE DEF ls2, p, b
      <4> QED BY <4>9, <4>10, <4>11 DEF Gave, b
    <3> QED BY <3>2, <3>3
  <2> QED BY <2>3, <2>4
<1> QED BY <1>1, <1>3, <1>4

(* What free does, with the lists it leaves.                               *)
Took(ls, p) ==
  \E ls1 : /\ Kept(bin', sz', lnk', mapped', used', ls1)
           /\ \A c \in Bins : Len(ls1[c]) = IF p # Null /\ c = size2bin(used[p]) THEN Len(ls[c]) + 1 ELSE Len(ls[c])

(* free keeps the invariant (free_small and free_large).                  *)
LEMMA FreeKeeps ==
  ASSUME NEW ls, Kept(bin, sz, lnk, mapped, used, ls), NEW p \in DOMAIN used \cup {Null}, free(p)
  PROVE  Took(ls, p) /\ used' = Restricted(used, DOMAIN used \ {p}) /\ result' = Called("free", p, 0)
<1>1. /\ DOMAIN bin = Bins /\ Null \notin DOMAIN used /\ used \in [DOMAIN used -> Size]
      /\ \A b \in Bins : Len(ls[b]) \in Nat
  BY KeptIs
<1>2. CASE p = Null
  <2>1. bin' = bin /\ sz' = sz /\ lnk' = lnk /\ mapped' = mapped /\ used' = used /\ result' = Called("free", p, 0)
    BY <1>2 DEF free
  <2>2. used = Restricted(used, DOMAIN used \ {p})
    <3>1. DOMAIN used \cap (DOMAIN used \ {p}) = DOMAIN used
      BY <1>1, <1>2
    <3>2. used = [a \in DOMAIN used |-> used[a]]
      BY <1>1
    <3> QED BY <3>1, <3>2 DEF Restricted
  <2> QED BY <1>2, <2>1, <2>2 DEF Took
<1>3. CASE p # Null
  <2>1. p \in DOMAIN used /\ used[p] \in Nat /\ used[p] \in Size
    BY <1>1, <1>3, Sizings
  <2>2. used' = Restricted(used, DOMAIN used \ {p}) /\ result' = Called("free", p, 0)
    BY <1>3 DEF free
  <2>3. Sized(sz, used) /\ Largest \in Nat
    BY BinSizes DEF Kept
  <2>4. CASE used[p] <= Largest
    <3> DEFINE b == size2bin(used[p])
    <3>1. b \in Bins /\ sz[p] = bin2size(b)
      BY <2>1, <2>3, <2>4, ClassOfSize DEF Sized
    <3>2. sz[p] <= Largest /\ size2bin(sz[p]) = b
      BY <3>1, BinSizes
    <3>3. free_small(p, sz[p])
      BY <1>3, <3>2 DEF free, Largest
    <3>4. bin' = [bin EXCEPT ![b] = p] /\ lnk' = Updated(lnk, At(p, bin[b])) /\ sz' = sz /\ mapped' = mapped
      BY <3>2, <3>3 DEF free_small
    <3> DEFINE ls1 == [ls EXCEPT ![b] = Joined(<<p>>, ls[b])]
    <3>5. /\ Kept([bin EXCEPT ![b] = p], sz, Updated(lnk, At(p, bin[b])), mapped, Restricted(used, DOMAIN used \ {p}), ls1)
          /\ Len(ls1[b]) = Len(ls[b]) + 1 /\ Len(ls[b]) \in Nat
          /\ \A c \in Bins \ {b} : ls1[c] = ls[c]
      <4>1. Pushed(bin, sz, lnk, mapped, used, ls, b, p)
        BY <2>1, <3>1, PushKeeps
      <4> QED BY <4>1 DEF Pushed
    <3> HIDE DEF ls1, b
    <3>6. Kept(bin', sz', lnk', mapped', used', ls1)
      BY <2>2, <3>4, <3>5
    <3>7. \A c \in Bins : Len(ls1[c]) = IF c = b THEN Len(ls[c]) + 1 ELSE Len(ls[c])
      BY <3>5
    <3> QED BY <1>3, <2>2, <3>6, <3>7 DEF Took, b
  <2>5. CASE used[p] > Largest
    <3>1. sz[p] = used[p] /\ ~(sz[p] <= Largest)
      BY <2>1, <2>3, <2>5 DEF Sized
    <3>2. free_large(p, sz[p])
      BY <1>3, <3>1 DEF free, Largest
    <3> DEFINE a == p - (WASTE + WORD)
               mp1 == IF a \in DOMAIN mapped /\ mapped[a] = sz[p] + WASTE + WORD
                      THEN Restricted(mapped, DOMAIN mapped \ {a}) ELSE mapped
    <3>3. mapped' = mp1 /\ sz' = Restricted(sz, DOMAIN sz \ {p}) /\ bin' = bin /\ lnk' = lnk
      BY <3>2 DEF free_large
    <3>4. Kept(bin, Restricted(sz, DOMAIN sz \ {p}), lnk, mp1, Restricted(used, DOMAIN used \ {p}), ls)
      BY <2>1, FreeLargeKeeps
    <3> HIDE DEF mp1
    <3>5. Kept(bin', sz', lnk', mapped', used', ls)
      BY <2>2, <3>3, <3>4
    <3>6. \A c \in Bins : c # size2bin(used[p])
      BY <2>1, <2>5, ClassOfSize
    <3> QED BY <2>2, <3>5, <3>6 DEF Took
  <2> QED BY <2>1, <2>3, <2>4, <2>5
<1> QED BY <1>2, <1>3

(* What pre_fill and try_pre_fill do, with the lists they leave.           *)
Provided(ls, n) ==
  \E ls1, r : /\ Kept(bin', sz', lnk', mapped', used', ls1)
              /\ result' = Called("fill", n, r) /\ used' = used
              /\ \A c \in Bins : Len(ls1[c]) = IF c = size2bin(n) THEN Len(ls[c]) + r ELSE Len(ls[c])

(* Filled leaves what is there after its last page.                       *)
LEMMA FilledIs ==
  ASSUME NEW b, NEW ps, Filled(b, ps)
  PROVE  \E m : m = FilledAfter(bin, sz, lnk, b, ps)[Len(ps)] /\ bin' = m.bin /\ sz' = m.sz /\ lnk' = m.lnk
BY Zenon DEF Filled, FilledAfter, CutFor

(* pre_fill and try_pre_fill keep the invariant.                          *)
LEMMA FillStep ==
  ASSUME NEW ls, Kept(bin, sz, lnk, mapped, used, ls), NEW b \in Bins, NEW ps,
         Len(ps) \in Nat, \A i \in 1..Len(ps) : ps[i] \in Mappable,
         \A i, j \in 1..Len(ps) : ps[i] = ps[j] => i = j,
         Filled(b, ps), DOMAIN mapped' = DOMAIN mapped \cup Members(ps, Len(ps)),
         \A a \in DOMAIN mapped' : mapped'[a] = IF a \in DOMAIN mapped THEN mapped[a] ELSE BIGBLOCK,
         used' = used
  PROVE  Increased(bin', sz', lnk', mapped', used', ls, b, Len(ps))
<1>1. PICK m : m = FilledAfter(bin, sz, lnk, b, ps)[Len(ps)] /\ bin' = m.bin /\ sz' = m.sz /\ lnk' = m.lnk
  BY FilledIs
<1>2. \A i \in 1..Len(ps) : ps[i] \in Page /\ ps[i] \notin DOMAIN mapped
  BY DEF Mappable
<1> DEFINE mp1 == mapped'
<1>3. /\ DOMAIN mp1 = DOMAIN mapped \cup Members(ps, Len(ps))
      /\ \A a \in DOMAIN mp1 : mp1[a] = IF a \in DOMAIN mapped THEN mapped[a] ELSE BIGBLOCK
  OBVIOUS
<1> HIDE DEF mp1
<1>4. Increased(m.bin, m.sz, m.lnk, mp1, used, ls, b, Len(ps))
  BY <1>1, <1>2, <1>3, FilledKeeps
<1> QED BY <1>1, <1>4 DEF mp1

LEMMA PreFillKeeps ==
  ASSUME NEW ls, Kept(bin, sz, lnk, mapped, used, ls), NEW n \in Size, NEW p \in Mappable,
         size2bin(n) # -1, pre_fill(n, p)
  PROVE  Provided(ls, n)
<1> DEFINE b == size2bin(n)
           ps == <<p>>
<1>1. b \in Bins
  <2>1. n \in Nat
    BY Sizings
  <2> QED BY <2>1, ClassOfSize, BinSizes
<1>2. Filled(b, ps) /\ mapped' = Updated(mapped, At(p, BIGBLOCK)) /\ result' = Called("fill", n, Chunks(b)) /\ used' = used
  BY DEF pre_fill
<1>3. Len(ps) = 1 /\ Len(ps) \in Nat /\ ps[1] = p
  OBVIOUS
<1>4. Members(ps, Len(ps)) = {p} /\ p \notin DOMAIN mapped
  BY <1>3 DEF Members, Mappable
<1>5. /\ DOMAIN mapped' = DOMAIN mapped \cup {p} /\ mapped'[p] = BIGBLOCK
      /\ \A a \in DOMAIN mapped \ {p} : mapped'[a] = mapped[a]
  BY <1>2 DEF Updated, At
<1>6. Chunks(b) \in Nat
  BY <1>1, ChunksIs
<1> HIDE DEF ps, b
<1>7. \A i \in 1..Len(ps) : i = 1 /\ ps[i] \in Mappable
  BY <1>3
<1>8. \A a \in DOMAIN mapped' : mapped'[a] = IF a \in DOMAIN mapped THEN mapped[a] ELSE BIGBLOCK
  BY <1>4, <1>5
<1>9. DOMAIN mapped' = DOMAIN mapped \cup Members(ps, Len(ps)) /\ \A i, j \in 1..Len(ps) : ps[i] = ps[j] => i = j
  BY <1>4, <1>5, <1>7
<1>12. Increased(bin', sz', lnk', mapped', used', ls, b, Len(ps))
  BY <1>1, <1>2, <1>3, <1>7, <1>8, <1>9, FillStep
<1>10. PICK ls1 : /\ Kept(bin', sz', lnk', mapped', used', ls1)
                  /\ \A c \in Bins : /\ Len(ls[c]) \in Nat
                                    /\ Len(ls1[c]) = IF c = b THEN Len(ls[c]) + Len(ps) * Chunks(b) ELSE Len(ls[c])
  BY <1>12 DEF Increased
<1>11. Len(ps) * Chunks(b) = Chunks(b)
  BY <1>3, <1>6
<1> QED BY <1>2, <1>10, <1>11 DEF Provided, b

(* The pages that try_pre_fill gets differ and were not mapped.           *)
LEMMA PagesInPages ==
  ASSUME NEW ps \in Pages
  PROVE  /\ Len(ps) \in Nat /\ DOMAIN ps = 1..Len(ps) /\ \A i \in 1..Len(ps) : ps[i] \in Mappable
         /\ \A i, j \in 1..Len(ps) : ps[i] = ps[j] => i = j
<1>1. PICK k \in 0..Cardinality(Mappable) :
        ps \in {s \in [1..k -> Mappable] : \A i, j \in 1..k : s[i] = s[j] => i = j}
  BY DEF Pages
<1>2. k \in Nat
  <2>1. IsFiniteSet(Mappable)
    BY MemoryAssumption, FS_Subset DEF Mappable
  <2> QED BY <2>1, FS_CardinalityType
<1>3. Len(ps) = k
  BY <1>1, <1>2
<1> QED BY <1>1, <1>2, <1>3

LEMMA TryPreFillKeeps ==
  ASSUME NEW ls, Kept(bin, sz, lnk, mapped, used, ls), NEW n \in Size, NEW req \in Count, NEW ps \in Pages,
         try_pre_fill(n, req, ps)
  PROVE  Provided(ls, n)
<1>1. n \in Nat /\ Largest \in Nat
  BY Sizings, BinSizes
<1>2. CASE n > Largest
  <2>1. result' = Called("fill", n, 0) /\ bin' = bin /\ sz' = sz /\ lnk' = lnk /\ mapped' = mapped /\ used' = used
    BY <1>1, <1>2 DEF try_pre_fill, Largest
  <2>2. \A c \in Bins : c # size2bin(n)
    BY <1>1, <1>2, ClassOfSize
  <2> QED BY <2>1, <2>2 DEF Provided
<1>3. CASE n <= Largest
  <2> DEFINE b == size2bin(n)
  <2>1. b \in Bins
    BY <1>1, <1>3, ClassOfSize
  <2>2. /\ Filled(b, ps) /\ result' = Called("fill", n, Len(ps) * Chunks(b)) /\ used' = used
        /\ mapped' = Updated(mapped, [a \in {ps[i] : i \in DOMAIN ps} |-> BIGBLOCK])
    BY <1>1, <1>3 DEF try_pre_fill, Largest
  <2>3. /\ Len(ps) \in Nat /\ DOMAIN ps = 1..Len(ps) /\ \A i \in 1..Len(ps) : ps[i] \in Mappable
        /\ \A i, j \in 1..Len(ps) : ps[i] = ps[j] => i = j
    BY PagesInPages
  <2> HIDE DEF b
  <2>4. {ps[i] : i \in DOMAIN ps} = Members(ps, Len(ps))
    BY <2>3 DEF Members
  <2>5. \A a \in Members(ps, Len(ps)) : a \notin DOMAIN mapped
    BY <2>3 DEF Members, Mappable
  <2> DEFINE M == Members(ps, Len(ps))
  <2>6. mapped' = Updated(mapped, [a \in M |-> BIGBLOCK])
    BY <2>2, <2>4
  <2>7. /\ DOMAIN mapped' = DOMAIN mapped \cup M
        /\ \A a \in DOMAIN mapped' : mapped'[a] = IF a \in DOMAIN mapped THEN mapped[a] ELSE BIGBLOCK
    <3>1. \A a \in M : a \notin DOMAIN mapped
      BY <2>5
    <3> HIDE DEF M
    <3> QED BY <2>6, <3>1 DEF Updated
  <2>9. Increased(bin', sz', lnk', mapped', used', ls, b, Len(ps))
    BY <2>1, <2>2, <2>3, <2>7, FillStep
  <2>8. PICK ls1 : /\ Kept(bin', sz', lnk', mapped', used', ls1)
                   /\ \A c \in Bins : /\ Len(ls[c]) \in Nat
                                     /\ Len(ls1[c]) = IF c = b THEN Len(ls[c]) + Len(ps) * Chunks(b) ELSE Len(ls[c])
    BY <2>9 DEF Increased
  <2> QED BY <2>2, <2>8 DEF Provided, b
<1> QED BY <1>1, <1>2, <1>3

(* How many blocks each list has: what Allocator calls certain.           *)
Certain == [b \in 0..BINS - 1 |-> Len(ListFrom(bin[b]))]

(* It is what the walks along the links come to,                          *)
LEMMA CertainIs ==
  /\ Certain = [b \in 0..BINS - 1 |-> Len(Walk(lnk, bin[b]))]
  /\ Certain' = [b \in 0..BINS - 1 |-> Len(Walk(lnk', bin'[b]))]
<1>1. Certain = [b \in 0..BINS - 1 |-> Len(Walk(lnk, bin[b]))]
  BY Zenon DEF Certain, ListFrom, Walk, WalkSteps
<1>2. Certain' = [b \in 0..BINS - 1 |-> Len(Walk(lnk', bin'[b]))]
  BY Zenon DEF Certain, ListFrom, Walk, WalkSteps
<1> QED BY <1>1, <1>2

(* and so the lengths of the lists.                                       *)
LEMMA WalksAre ==
  ASSUME NEW bn, NEW s, NEW k, NEW mp, NEW us, NEW ls, Kept(bn, s, k, mp, us, ls)
  PROVE  [b \in 0..BINS - 1 |-> Len(Walk(k, bn[b]))] = [b \in Bins |-> Len(ls[b])]
<1>1. \A b \in Bins : Walk(k, bn[b]) = ls[b]
  BY KeptIs
<1> QED BY <1>1 DEF Bins

(* What the lists' lengths promise, and what a step does to them.          *)
MmInv == \E ls : Kept(bin, sz, lnk, mapped, used, ls)

(* The invariant holds of the first state, with empty lists.              *)
LEMMA MmStart == MmInit => MmInv /\ Certain = [b \in Bins |-> 0]
<1> SUFFICES ASSUME MmInit PROVE MmInv /\ Certain = [b \in Bins |-> 0]
  OBVIOUS
<1> DEFINE ls == [b \in Bins |-> <<>>]
<1>1. /\ bin = [b \in Bins |-> Null] /\ DOMAIN lnk = {} /\ DOMAIN used = {} /\ DOMAIN mapped = {}
      /\ IsFiniteSet(DOMAIN lnk) /\ used \in [DOMAIN used -> Size]
  BY FS_EmptySet DEF MmInit, Bins
<1>2. \A b \in Bins : ls[b] = <<>> /\ Len(ls[b]) = 0
  OBVIOUS
<1>3. ASSUME NEW b \in Bins PROVE IsList(lnk, bin[b], ls[b]) /\ \A i \in 1..Len(ls[b]) : sz[ls[b][i]] = bin2size(b)
  <2>1. 1..Len(ls[b]) = {} /\ ls[b] \in Seq(DOMAIN lnk) /\ bin[b] = Null
    BY <1>1, <1>2
  <2> QED BY <1>2, <2>1 DEF IsList, FirstOf
<1>4. Listed(bin, sz, lnk, ls)
  BY <1>1, <1>3 DEF Listed
<1>5. HeapTyped(bin, sz, lnk, mapped, used)
  BY <1>1 DEF HeapTyped
<1>6. Kept(bin, sz, lnk, mapped, used, ls)
  BY <1>1, <1>4, <1>5 DEF Kept, Placed, Disjoint, Sized
<1>7. Certain = [b \in Bins |-> Len(ls[b])]
  <2> HIDE DEF ls
  <2> QED BY <1>6, CertainIs, WalksAre
<1> QED BY <1>2, <1>6, <1>7 DEF MmInv

(* A step is one of the four calls.                                       *)
LEMMA MmStep ==
  ASSUME NEW ls, Kept(bin, sz, lnk, mapped, used, ls), MmNext
  PROVE  \/ \E n \in Size : Gave(ls, n) \/ HadNone(ls, n)
         \/ \E p \in DOMAIN used \cup {Null} :
              Took(ls, p) /\ used' = Restricted(used, DOMAIN used \ {p}) /\ result' = Called("free", p, 0)
         \/ \E n \in Size : Provided(ls, n)
<1>1. CASE \E n \in Size : malloc(n)
  BY <1>1, MallocKeeps
<1>2. CASE \E p \in DOMAIN used \cup {Null} : free(p)
  BY <1>2, FreeKeeps
<1>3. CASE \E n \in Size, p \in Mappable : size2bin(n) # -1 /\ pre_fill(n, p)
  BY <1>3, PreFillKeeps
<1>4. CASE \E n \in Size, req \in Count, ps \in Pages : try_pre_fill(n, req, ps)
  BY <1>4, TryPreFillKeeps
<1> QED BY <1>1, <1>2, <1>3, <1>4 DEF MmNext

(* The invariant and the lengths after a step.                            *)
LEMMA CertainNext ==
  ASSUME NEW ls1, Kept(bin', sz', lnk', mapped', used', ls1)
  PROVE  MmInv' /\ Certain' = [b \in Bins |-> Len(ls1[b])]
<1>1. MmInv'
  BY DEF MmInv
<1>2. [b \in 0..BINS - 1 |-> Len(Walk(lnk', bin'[b]))] = [b \in Bins |-> Len(ls1[b])]
  <2> DEFINE bn == bin'
             k == lnk'
             s == sz'
             m == mapped'
             u == used'
  <2>1. Kept(bn, s, k, m, u, ls1)
    OBVIOUS
  <2> HIDE DEF bn, k, s, m, u
  <2>2. [b \in 0..BINS - 1 |-> Len(Walk(k, bn[b]))] = [b \in Bins |-> Len(ls1[b])]
    BY <2>1, WalksAre
  <2> QED BY <2>2 DEF bn, k
<1> QED BY <1>1, <1>2, CertainIs

(* A block is at least as long as was asked for.                           *)
LEMMA LongEnough ==
  ASSUME NEW bn, NEW s, NEW k, NEW mp, NEW us, NEW ls, Kept(bn, s, k, mp, us, ls), NEW p \in DOMAIN us
  PROVE  p \in Nat \ {0} /\ p % Grain = 0 /\ us[p] \in Nat /\ us[p] <= s[p] /\ s[p] \in Nat
<1>1. HeapTyped(bn, s, k, mp, us) /\ Sized(s, us) /\ Placed(s, DOMAIN k \cup DOMAIN us, mp)
  BY DEF Kept
<1>2. p \in Nat \ {0} /\ s[p] \in Nat /\ us[p] \in Nat /\ p % Grain = 0
  BY <1>1, Sizings DEF HeapTyped, Placed
<1>3. us[p] <= s[p]
  BY <1>1, <1>2, ClassOfSize, BinSizes DEF Sized
<1> QED BY <1>2, <1>3

(* Two blocks in use do not overlap.                                      *)
LEMMA ApartFrom ==
  ASSUME NEW bn, NEW s, NEW k, NEW mp, NEW us, NEW ls, Kept(bn, s, k, mp, us, ls),
         NEW p \in DOMAIN us, NEW q \in DOMAIN us, p # q
  PROVE  p + us[p] + WORD <= q \/ q + us[q] + WORD <= p
<1>1. \A x \in {p, q} : x \in Nat /\ us[x] \in Nat /\ us[x] <= s[x] /\ s[x] \in Nat
  BY LongEnough
<1>2. (p < q => p + s[p] + WORD <= q) /\ (q < p => q + s[q] + WORD <= p)
  BY DEF Kept, Disjoint
<1>3. WORD \in Nat
  BY Sizings
<1> QED BY <1>1, <1>2, <1>3

(* The calls are the actions of Allocator.                                *)
LEMMA GaveRefines ==
  ASSUME NEW ls, Kept(bin, sz, lnk, mapped, used, ls), NEW n \in Size, Gave(ls, n)
  PROVE  MmInv' /\ Promise!Give
<1>1. PICK ls1, p :
        /\ Kept(bin', sz', lnk', mapped', used', ls1)
        /\ result' = Called("malloc", n, p) /\ p # Null /\ p \notin DOMAIN used
        /\ used' = Updated(used, At(p, n))
        /\ \A c \in Bins : Len(ls1[c]) >= IF c = size2bin(n) THEN Len(ls[c]) - 1 ELSE Len(ls[c])
  BY DEF Gave
<1>2. MmInv' /\ Certain' = [b \in Bins |-> Len(ls1[b])]
  BY <1>1, CertainNext
<1>3. Certain = [b \in Bins |-> Len(ls[b])]
  BY CertainIs, WalksAre
<1>4. \A c \in Bins : Certain'[c] >= IF c = size2bin(n) THEN Certain[c] - 1 ELSE Certain[c]
  BY <1>1, <1>2, <1>3
<1>5. result'.call = "malloc" /\ result'.ret = p /\ result'.arg = n
  BY <1>1 DEF Called
<1>6. /\ used' = [q \in DOMAIN used \cup {p} |-> IF q = p THEN n ELSE used[q]]
      /\ DOMAIN used' = DOMAIN used \cup {p} /\ used'[p] = n /\ \A q \in DOMAIN used : used'[q] = used[q]
  <2>1. used' = [q \in DOMAIN used \cup {p} |-> IF q = p THEN n ELSE used[q]]
    BY <1>1 DEF Updated, At
  <2> QED BY <1>1, <2>1
<1> DEFINE us == used'
<1>7. Kept(bin', sz', lnk', mapped', us, ls1)
  BY <1>1
<1>8. DOMAIN us = DOMAIN used \cup {p} /\ us[p] = n /\ \A q \in DOMAIN used : us[q] = used[q]
  BY <1>6
<1> HIDE DEF us
<1>9. p % Grain = 0
  BY <1>7, <1>8, LongEnough
<1>10. \A q \in DOMAIN used : p + n + WORD <= q \/ q + used[q] + WORD <= p
  <2> SUFFICES ASSUME NEW q \in DOMAIN used PROVE p + n + WORD <= q \/ q + used[q] + WORD <= p
    OBVIOUS
  <2>1. p \in DOMAIN us /\ q \in DOMAIN us /\ p # q /\ us[p] = n /\ us[q] = used[q]
    BY <1>1, <1>8
  <2>2. p + us[p] + WORD <= q \/ q + us[q] + WORD <= p
    BY <1>7, <2>1, ApartFrom
  <2> QED BY <2>1, <2>2
<1>11. ALIGN * WORD = Grain /\ Null = 0
  BY Sizings DEF Null
<1>12. p % (ALIGN * WORD) = 0 /\ p # 0
  BY <1>1, <1>9, <1>11
<1>13. \A c \in 0..BINS - 1 : Certain'[c] >= (IF c = size2bin(n) THEN Certain[c] - 1 ELSE Certain[c])
  BY <1>4 DEF Bins
<1>14. Promise!Give
  <2>1. \A q \in DOMAIN used : Promise!Apart(p, n, q)
    BY <1>10 DEF Promise!Apart
  <2> QED BY <1>1, <1>5, <1>6, <1>12, <1>13, <2>1, Zenon DEF Promise!Give, Certain
<1> QED BY <1>2, <1>14

LEMMA HadNoneRefines ==
  ASSUME NEW ls, Kept(bin, sz, lnk, mapped, used, ls), NEW n \in Size, HadNone(ls, n)
  PROVE  MmInv' /\ Promise!Refuse
<1>1. /\ result' = Called("malloc", n, Null) /\ bin' = bin /\ sz' = sz /\ lnk' = lnk /\ mapped' = mapped /\ used' = used
      /\ \A c \in Bins : c = size2bin(n) => Len(ls[c]) = 0
  BY DEF HadNone, Refused
<1>2. result'.call = "malloc" /\ result'.ret = 0 /\ result'.arg = n
  BY <1>1 DEF Called, Null
<1>3. Certain = [b \in Bins |-> Len(ls[b])]
  BY CertainIs, WalksAre
<1>4. \A c \in 0..BINS - 1 : c = size2bin(n) => Certain[c] = 0
  BY <1>1, <1>3 DEF Bins
<1>5. Certain' = Certain
  BY <1>1, CertainIs
<1>6. MmInv'
  BY <1>1 DEF MmInv
<1> QED BY <1>1, <1>2, <1>4, <1>5, <1>6, Zenon DEF Promise!Refuse, Certain

LEMMA TookRefines ==
  ASSUME NEW ls, Kept(bin, sz, lnk, mapped, used, ls), NEW p \in DOMAIN used \cup {Null},
         Took(ls, p), used' = Restricted(used, DOMAIN used \ {p}), result' = Called("free", p, 0)
  PROVE  MmInv' /\ Promise!Take
<1>1. PICK ls1 : /\ Kept(bin', sz', lnk', mapped', used', ls1)
                 /\ \A c \in Bins : Len(ls1[c]) = IF p # Null /\ c = size2bin(used[p]) THEN Len(ls[c]) + 1 ELSE Len(ls[c])
  BY DEF Took
<1>2. MmInv' /\ Certain' = [b \in Bins |-> Len(ls1[b])]
  BY <1>1, CertainNext
<1>3. Certain = [b \in Bins |-> Len(ls[b])]
  BY CertainIs, WalksAre
<1>4. Certain' = [c \in 0..BINS - 1 |-> IF p # 0 /\ c = size2bin(used[p]) THEN Certain[c] + 1 ELSE Certain[c]]
  BY <1>1, <1>2, <1>3 DEF Bins, Null
<1>5. result'.call = "free" /\ result'.arg = p
  BY DEF Called
<1>6. used' = [q \in DOMAIN used \ {p} |-> used[q]]
  <2>1. DOMAIN used \cap (DOMAIN used \ {p}) = DOMAIN used \ {p}
    OBVIOUS
  <2> QED BY <2>1 DEF Restricted
<1> QED BY <1>2, <1>4, <1>5, <1>6, Zenon DEF Promise!Take, Certain

LEMMA ProvidedRefines ==
  ASSUME NEW ls, Kept(bin, sz, lnk, mapped, used, ls), NEW n \in Size, Provided(ls, n)
  PROVE  MmInv' /\ Promise!Provide
<1>1. PICK ls1, r :
        /\ Kept(bin', sz', lnk', mapped', used', ls1)
        /\ result' = Called("fill", n, r) /\ used' = used
        /\ \A c \in Bins : Len(ls1[c]) = IF c = size2bin(n) THEN Len(ls[c]) + r ELSE Len(ls[c])
  BY DEF Provided
<1>2. MmInv' /\ Certain' = [b \in Bins |-> Len(ls1[b])]
  BY <1>1, CertainNext
<1>3. Certain = [b \in Bins |-> Len(ls[b])]
  BY CertainIs, WalksAre
<1>4. Certain' = [c \in 0..BINS - 1 |-> IF c = size2bin(n) THEN Certain[c] + r ELSE Certain[c]]
  BY <1>1, <1>2, <1>3 DEF Bins
<1>5. result'.call = "fill" /\ result'.arg = n /\ result'.ret = r
  BY <1>1 DEF Called
<1> QED BY <1>1, <1>2, <1>4, <1>5, Zenon DEF Promise!Provide, Certain

(* A step of malloc.c keeps the invariant, and is a step of Allocator or  *)
(* leaves its variables as they are.                                      *)
LEMMA MmNextRefines ==
  ASSUME MmInv, [MmNext]_mmVars
  PROVE  MmInv' /\ [Promise!AllocatorNext]_<<used, Certain, result>>
<1>1. CASE MmNext
  <2>1. PICK ls : Kept(bin, sz, lnk, mapped, used, ls)
    BY DEF MmInv
  <2>2. \/ \E n \in Size : Gave(ls, n) \/ HadNone(ls, n)
        \/ \E p \in DOMAIN used \cup {Null} :
             Took(ls, p) /\ used' = Restricted(used, DOMAIN used \ {p}) /\ result' = Called("free", p, 0)
        \/ \E n \in Size : Provided(ls, n)
    BY <1>1, <2>1, MmStep
  <2>3. CASE \E n \in Size : Gave(ls, n)
    BY <2>1, <2>3, GaveRefines DEF Promise!AllocatorNext
  <2>4. CASE \E n \in Size : HadNone(ls, n)
    BY <2>1, <2>4, HadNoneRefines DEF Promise!AllocatorNext
  <2>5. CASE \E p \in DOMAIN used \cup {Null} :
               Took(ls, p) /\ used' = Restricted(used, DOMAIN used \ {p}) /\ result' = Called("free", p, 0)
    BY <2>1, <2>5, TookRefines DEF Promise!AllocatorNext
  <2>6. CASE \E n \in Size : Provided(ls, n)
    BY <2>1, <2>6, ProvidedRefines DEF Promise!AllocatorNext
  <2> QED BY <2>2, <2>3, <2>4, <2>5, <2>6
<1>2. CASE UNCHANGED mmVars
  <2>1. bin' = bin /\ sz' = sz /\ lnk' = lnk /\ mapped' = mapped /\ used' = used /\ result' = result
    BY <1>2 DEF mmVars
  <2>2. Certain' = Certain
    BY <2>1, CertainIs
  <2>3. MmInv'
    BY <2>1 DEF MmInv
  <2> QED BY <2>1, <2>2, <2>3
<1> QED BY <1>1, <1>2

(* The first state is one of Allocator.                                   *)
LEMMA MmInitRefines == MmInit => Promise!AllocatorInit
<1> SUFFICES ASSUME MmInit PROVE Promise!AllocatorInit
  OBVIOUS
<1>1. used = [p \in {} |-> 0] /\ result = [call |-> "free", arg |-> 0, ret |-> 0]
  BY DEF MmInit, Called, Null
<1>2. Certain = [c \in 0..BINS - 1 |-> 0]
  BY MmStart DEF Bins
<1> QED BY <1>1, <1>2, Zenon DEF Promise!AllocatorInit, Certain

(* The invariant says that blocks are apart,                              *)
LEMMA BlocksKeptApart == MmInv => BlocksApart
<1> SUFFICES ASSUME NEW ls, Kept(bin, sz, lnk, mapped, used, ls) PROVE BlocksApart
  BY DEF MmInv
<1> DEFINE all == DOMAIN lnk \cup DOMAIN used
<1>1. Placed(sz, all, mapped) /\ Disjoint(sz, all) /\ HeapTyped(bin, sz, lnk, mapped, used)
  BY DEF Kept
<1>2. ALIGN * WORD = Grain /\ WORD \in Nat /\ Grain \in Nat
  BY Sizings
<1>3. \A p, q \in all : p < q => p + sz[p] + WORD <= q
  BY <1>1 DEF Disjoint
<1>4. \A p \in all : p % (ALIGN * WORD) = 0
  BY <1>1, <1>2 DEF Placed
<1>5. \A p \in all : \E a \in DOMAIN mapped : a <= p - WORD /\ p + sz[p] <= a + mapped[a]
  <2> SUFFICES ASSUME NEW p \in all PROVE \E a \in DOMAIN mapped : a <= p - WORD /\ p + sz[p] <= a + mapped[a]
    OBVIOUS
  <2>1. PICK a \in DOMAIN mapped : a + WORD <= p /\ p + sz[p] <= a + mapped[a]
    BY <1>1 DEF Placed
  <2>2. a \in Nat /\ p \in Nat
    BY <1>1, PagesAre DEF HeapTyped
  <2> QED BY <1>2, <2>1, <2>2
<1>6. \A p \in DOMAIN used : used[p] <= sz[p]
  BY LongEnough
<1> QED BY <1>3, <1>4, <1>5, <1>6 DEF BlocksApart

(* and that each free block is in one list, once.                         *)
LEMMA ListsKept == MmInv => ListsAreLists
<1> SUFFICES ASSUME NEW ls, Kept(bin, sz, lnk, mapped, used, ls) PROVE ListsAreLists
  BY DEF MmInv
<1>1. /\ DOMAIN bin = Bins /\ Null \notin DOMAIN lnk /\ IsFiniteSet(DOMAIN lnk) /\ DOMAIN lnk \cap DOMAIN used = {}
      /\ \A b \in Bins : IsList(lnk, bin[b], ls[b]) /\ Len(ls[b]) \in Nat
      /\ \A b \in Bins : Walk(lnk, bin[b]) = ls[b]
  BY KeptIs
<1>2. Listed(bin, sz, lnk, ls)
  BY DEF Kept
<1>3. \A b \in Bins : bin[b] \in DOMAIN lnk \cup {Null}
  <2> SUFFICES ASSUME NEW b \in Bins PROVE bin[b] \in DOMAIN lnk \cup {Null}
    OBVIOUS
  <2>1. bin[b] = FirstOf(ls[b]) /\ ls[b] \in Seq(DOMAIN lnk)
    BY <1>1 DEF IsList
  <2>2. CASE ls[b] = <<>>
    BY <2>1, <2>2 DEF FirstOf
  <2>3. CASE ls[b] # <<>>
    <3>1. 1 \in 1..Len(ls[b])
      BY <2>1, <2>3, EmptySeq
    <3>2. ls[b][1] \in DOMAIN lnk
      BY <2>1, <3>1, ElementOfSeq
    <3> QED BY <2>1, <2>3, <3>2 DEF FirstOf
  <2> QED BY <2>2, <2>3
<1>4. \A p \in DOMAIN lnk : lnk[p] \in DOMAIN lnk \cup {Null} /\ p \notin DOMAIN used
  <2> SUFFICES ASSUME NEW p \in DOMAIN lnk PROVE lnk[p] \in DOMAIN lnk \cup {Null}
    BY <1>1
  <2>1. PICK b \in Bins : \E i \in 1..Len(ls[b]) : ls[b][i] = p
    BY <1>2 DEF Listed
  <2>2. PICK i \in 1..Len(ls[b]) : ls[b][i] = p
    BY <2>1
  <2>3. ls[b] \in Seq(DOMAIN lnk) /\ lnk[p] = IF i = Len(ls[b]) THEN Null ELSE ls[b][i + 1]
    BY <1>1, <2>2 DEF IsList
  <2>4. CASE i # Len(ls[b])
    <3>1. i + 1 \in 1..Len(ls[b])
      BY <1>1, <2>4
    <3>2. ls[b][i + 1] \in DOMAIN lnk
      BY <2>3, <3>1, ElementOfSeq
    <3> QED BY <2>3, <2>4, <3>2
  <2> QED BY <2>3, <2>4
<1>5. \A p : ListFrom(p) = Walk(lnk, p)
  BY Zenon DEF ListFrom, Walk, WalkSteps
<1>6. ASSUME NEW p \in DOMAIN lnk
      PROVE  Cardinality({at \in (0..BINS - 1) \X (1..Cardinality(DOMAIN lnk)) :
                            LET l == ListFrom(bin[at[1]])
                            IN  at[2] <= Len(l) /\ l[at[2]] = p /\ sz[p] = bin2size(at[1])}) = 1
  <2> DEFINE N == Cardinality(DOMAIN lnk)
             Is(at) == LET l == ListFrom(bin[at[1]])
                       IN  at[2] <= Len(l) /\ l[at[2]] = p /\ sz[p] = bin2size(at[1])
             places == {at \in (0..BINS - 1) \X (1..N) : Is(at)}
  <2>1. PICK b \in Bins : \E i \in 1..Len(ls[b]) : ls[b][i] = p
    BY <1>2 DEF Listed
  <2>2. PICK i \in 1..Len(ls[b]) : ls[b][i] = p
    BY <2>1
  <2>3. Len(ls[b]) <= N /\ N \in Nat
    BY <1>1, Shorter
  <2>4. sz[p] = bin2size(b)
    BY <1>2, <2>2 DEF Listed
  <2>5. i \in 1..N /\ i <= Len(ls[b])
    BY <1>1, <2>3
  <2>6. \A c \in Bins : ListFrom(bin[c]) = ls[c]
    BY <1>1, <1>5
  <2>7. Is(<<b, i>>)
    <3>1. ListFrom(bin[b]) = ls[b]
      BY <2>6
    <3> QED BY <2>2, <2>4, <2>5, <3>1
  <2>8. <<b, i>> \in places
    <3> HIDE DEF Is
    <3> QED BY <2>5, <2>7 DEF Bins
  <2>9. \A c \in Bins, j \in 1..N : Is(<<c, j>>) => c = b /\ j = i
    <3> SUFFICES ASSUME NEW c \in Bins, NEW j \in 1..N, Is(<<c, j>>) PROVE c = b /\ j = i
      OBVIOUS
    <3>1. ListFrom(bin[c]) = ls[c]
      BY <2>6
    <3>2. j \in 1..Len(ls[c]) /\ ls[c][j] = p
      BY <1>1, <3>1
    <3> QED BY <1>2, <2>2, <3>2, Once
  <2>10. places = {<<b, i>>}
    <3>1. ASSUME NEW at \in places PROVE at = <<b, i>>
      <4>1. PICK c \in Bins, j \in 1..N : at = <<c, j>>
        BY DEF Bins
      <4>2. Is(<<c, j>>)
        BY <4>1
      <4> HIDE DEF Is
      <4> QED BY <2>9, <4>1, <4>2
    <3> HIDE DEF places
    <3> QED BY <2>8, <3>1
  <2>11. Cardinality(places) = 1
    <3> HIDE DEF places
    <3> QED BY <2>10, FS_Singleton
  <2> QED BY <2>11
<1> QED BY <1>1, <1>3, <1>4, <1>6 DEF ListsAreLists

(* No page is lost: also, a large block is alone in a page that is as     *)
(* long as free_large takes it to be.                                     *)
LargeAlone ==
  \A p \in DOMAIN used : sz[p] <= Largest \/ (p - Grain \in DOMAIN mapped /\ mapped[p - Grain] = sz[p] + Grain)

LeakInv == NothingLeaks /\ LargeAlone

(* Where the first block of a page is.                                    *)
LEMMA FirstAt ==
  /\ \A a \in Page : a \in Nat /\ a + WASTE + WORD = a + Grain /\ (a + Grain) - Grain = a
  /\ \A n \in Size : n \in Nat /\ n + WASTE + WORD = n + Grain
<1>1. WASTE \in Nat /\ WORD \in Nat /\ Grain \in Nat /\ WASTE + WORD = Grain
  BY Sizings
<1>2. \A a \in Nat : a + WASTE + WORD = a + Grain /\ (a + Grain) - Grain = a
  BY <1>1
<1> QED BY <1>2, PagesAre

(* LeakInv without WASTE.                                                 *)
LEMMA LeakIs ==
  ASSUME DOMAIN mapped \subseteq Page
  PROVE  LeakInv <=> (\A a \in DOMAIN mapped : a + Grain \in DOMAIN lnk \cup DOMAIN used) /\ LargeAlone
BY FirstAt DEF LeakInv, NothingLeaks

LEMMA LeakIsNext ==
  ASSUME DOMAIN mapped' \subseteq Page
  PROVE  LeakInv' <=> (\A a \in DOMAIN mapped' : a + Grain \in DOMAIN lnk' \cup DOMAIN used') /\ LargeAlone'
BY FirstAt DEF LeakInv, NothingLeaks

(* What list_from_block leaves of a page: its first block, and sizes of   *)
(* small blocks only.                                                     *)
LEMMA CutLeaves ==
  ASSUME NEW b \in Bins, NEW a \in Page, NEW q, NEW l, l = list_from_block(bin2size(b), a, q)
  PROVE  /\ l.first = a + Grain /\ l.first \in DOMAIN l.lnk /\ DOMAIN l.sz = DOMAIN l.lnk
         /\ \A p \in DOMAIN l.sz : l.sz[p] <= Largest
<1>1. a \in Nat /\ a % Grain = 0
  BY PagesAre
<1>2. IsCut(a, b, q, l, CutUp(a, b), Chunks(b))
  BY <1>1, CutIs
<1>3. 1 \in 1..Chunks(b)
  BY ChunksIs
<1>4. l.first \in DOMAIN l.lnk /\ DOMAIN l.sz = DOMAIN l.lnk
  BY <1>2, <1>3 DEF IsCut, Members
<1>5. \A p \in DOMAIN l.sz : l.sz[p] = bin2size(b)
  BY <1>2 DEF IsCut
<1>6. l.first = a + WASTE + WORD
  BY Zenon DEF list_from_block
<1>7. l.first = a + Grain
  BY <1>1, <1>6, Sizings
<1> QED BY <1>4, <1>5, <1>7, BinSizes

(* Filled keeps the blocks there are, leaves the first one of each page,  *)
(* and makes no large one.                                                *)
Grown(s, k, s1, k1, ps, n) ==
  /\ DOMAIN k \subseteq DOMAIN k1 /\ \A j \in 1..n : ps[j] + Grain \in DOMAIN k1
  /\ \A p \in DOMAIN s : p \in DOMAIN s1 /\ (s1[p] = s[p] \/ s1[p] <= Largest)

LEMMA FilledGrows ==
  ASSUME NEW bn, NEW s, NEW k, NEW b \in Bins, NEW ps, Len(ps) \in Nat, \A i \in 1..Len(ps) : ps[i] \in Page,
         NEW m, m = FilledAfter(bn, s, k, b, ps)[Len(ps)]
  PROVE  Grown(s, k, m.sz, m.lnk, ps, Len(ps))
<1> DEFINE N == Len(ps)
           f == FilledAfter(bn, s, k, b, ps)
           S == {i \in 0..N : Grown(s, k, f[i].sz, f[i].lnk, ps, i)}
<1>1. /\ f[0] = [bin |-> bn, sz |-> s, lnk |-> k]
      /\ \A i \in 1..N : f[i] = CutFor(f[i - 1], ps[i], b)
  <2> HIDE DEF f
  <2> QED BY AfterExists DEF f
<1> HIDE DEF f
<1>2. 0 \in S
  <2>1. f[0].sz = s /\ f[0].lnk = k /\ 0 \in 0..N /\ 1..0 = {}
    BY <1>1
  <2> QED BY <2>1 DEF Grown
<1>3. ASSUME NEW i \in 0..N-1, i \in S PROVE i + 1 \in S
  <2> DEFINE g == f[i]
             a == ps[i + 1]
             l == list_from_block(bin2size(b), a, g.bin[b])
             s1 == f[i + 1].sz
             k1 == f[i + 1].lnk
  <2>1. i + 1 \in 1..N /\ i + 1 \in 0..N /\ (i + 1) - 1 = i /\ \A j \in 1..i + 1 : j \in 1..i \/ j = i + 1
    OBVIOUS
  <2>2. a \in Page
    BY <2>1
  <2>3. f[i + 1] = CutFor(g, a, b)
    BY <1>1, <2>1
  <2>4. s1 = Updated(g.sz, l.sz) /\ k1 = Updated(g.lnk, l.lnk)
    BY <2>3 DEF CutFor
  <2>5. /\ l.first = a + Grain /\ l.first \in DOMAIN l.lnk
        /\ \A p \in DOMAIN l.sz : l.sz[p] <= Largest
    <3> HIDE DEF a, g
    <3> QED BY <2>2, CutLeaves
  <2>6. Grown(s, k, g.sz, g.lnk, ps, i)
    BY <1>3
  <2> HIDE DEF l, s1, k1, g
  <2>7. DOMAIN k \subseteq DOMAIN k1 /\ \A j \in 1..i : ps[j] + Grain \in DOMAIN k1
    BY <2>4, <2>6 DEF Grown, Updated
  <2>8. ps[i + 1] + Grain \in DOMAIN k1
    BY <2>4, <2>5 DEF Updated
  <2>9. \A p \in DOMAIN s : p \in DOMAIN s1 /\ (s1[p] = s[p] \/ s1[p] <= Largest)
    BY <2>4, <2>5, <2>6 DEF Grown, Updated
  <2>10. Grown(s, k, s1, k1, ps, i + 1)
    BY <2>1, <2>7, <2>8, <2>9 DEF Grown
  <2> QED BY <2>1, <2>10 DEF s1, k1
<1>4. N \in S
  <2>1. N \in Nat /\ N \in 0..N
    OBVIOUS
  <2> HIDE DEF S
  <2> QED BY <1>2, <1>3, <2>1, UpInduction
<1> QED BY <1>4 DEF f

(* Pages filled are not lost.                                             *)
LEMMA FillLosesNothing ==
  ASSUME NEW ls, Kept(bin, sz, lnk, mapped, used, ls), LeakInv, NEW b \in Bins, NEW ps,
         Len(ps) \in Nat, \A i \in 1..Len(ps) : ps[i] \in Mappable, Filled(b, ps),
         mapped' = Updated(mapped, [a \in Members(ps, Len(ps)) |-> BIGBLOCK]), used' = used
  PROVE  LeakInv'
<1>1. PICK m : m = FilledAfter(bin, sz, lnk, b, ps)[Len(ps)] /\ bin' = m.bin /\ sz' = m.sz /\ lnk' = m.lnk
  BY FilledIs
<1>2. \A i \in 1..Len(ps) : ps[i] \in Page /\ ps[i] \notin DOMAIN mapped
  BY DEF Mappable
<1>3. Grown(sz, lnk, m.sz, m.lnk, ps, Len(ps))
  BY <1>1, <1>2, FilledGrows
<1>4. Grown(sz, lnk, sz', lnk', ps, Len(ps))
  BY <1>1, <1>3
<1> DEFINE M == Members(ps, Len(ps))
<1>5. \A a \in M : a \in Page /\ a \notin DOMAIN mapped /\ a + Grain \in DOMAIN lnk'
  BY <1>2, <1>4 DEF Members, Grown
<1>6. mapped' = Updated(mapped, [a \in M |-> BIGBLOCK])
  OBVIOUS
<1> HIDE DEF M
<1>7. DOMAIN mapped' = DOMAIN mapped \cup M /\ \A a \in DOMAIN mapped : mapped'[a] = mapped[a]
  BY <1>5, <1>6 DEF Updated
<1>8. DOMAIN mapped \subseteq Page /\ DOMAIN used \subseteq DOMAIN sz
  BY DEF Kept, HeapTyped
<1>9. DOMAIN mapped' \subseteq Page
  BY <1>5, <1>7, <1>8
<1>10. (\A a \in DOMAIN mapped : a + Grain \in DOMAIN lnk \cup DOMAIN used) /\ LargeAlone
  BY <1>8, LeakIs
<1>11. \A a \in DOMAIN mapped' : a + Grain \in DOMAIN lnk' \cup DOMAIN used'
  BY <1>4, <1>5, <1>7, <1>10 DEF Grown
<1>12. LargeAlone'
  BY <1>4, <1>7, <1>8, <1>10 DEF Grown, LargeAlone
<1> QED BY <1>9, <1>11, <1>12, LeakIsNext

(* malloc loses no page,                                                  *)
LEMMA MallocLosesNothing ==
  ASSUME NEW ls, Kept(bin, sz, lnk, mapped, used, ls), LeakInv, NEW n \in Size, malloc(n)
  PROVE  LeakInv'
<1>1. DOMAIN mapped \subseteq Page /\ DOMAIN used \subseteq DOMAIN sz
  BY DEF Kept, HeapTyped
<1>2. n \in Nat /\ Largest \in Nat /\ Grain \in Nat
  BY Sizings, BinSizes
<1>3. (\A a \in DOMAIN mapped : a + Grain \in DOMAIN lnk \cup DOMAIN used) /\ LargeAlone
  BY <1>1, LeakIs
<1>4. CASE Refused(n)
  BY <1>4 DEF Refused, LeakInv, NothingLeaks, LargeAlone
<1>5. CASE n > Largest /\ ~Refused(n)
  <2>1. malloc_large(n)
    BY <1>5 DEF malloc, Largest
  <2>2. PICK a \in Mappable :
          /\ mapped' = Updated(mapped, At(a, n + WASTE + WORD))
          /\ sz' = Updated(sz, At(a + WASTE + WORD, n))
          /\ Gives(a + WASTE + WORD, n)
          /\ UNCHANGED <<bin, lnk>>
    BY <1>5, <2>1 DEF malloc_large, Answers
  <2>3. a \in Page /\ a \notin DOMAIN mapped
    BY DEF Mappable
  <2> DEFINE p == a + Grain
             bytes == n + Grain
  <2>4. a + WASTE + WORD = p /\ n + WASTE + WORD = bytes /\ p - Grain = a
    BY <2>3, FirstAt
  <2>5. mapped' = Updated(mapped, At(a, bytes)) /\ sz' = Updated(sz, At(p, n)) /\ used' = Updated(used, At(p, n)) /\ lnk' = lnk
    BY <2>2, <2>4 DEF Gives
  <2> HIDE DEF p, bytes
  <2>6. DOMAIN mapped' = DOMAIN mapped \cup {a} /\ mapped'[a] = bytes /\ \A c \in DOMAIN mapped : mapped'[c] = mapped[c]
    BY <2>3, <2>5 DEF Updated, At
  <2>7. DOMAIN used' = DOMAIN used \cup {p} /\ sz'[p] = n /\ \A q \in DOMAIN used : q # p => sz'[q] = sz[q]
    BY <1>1, <2>5 DEF Updated, At
  <2>8. LargeAlone'
    <3> SUFFICES ASSUME NEW q \in DOMAIN used'
                 PROVE  sz'[q] <= Largest \/ (q - Grain \in DOMAIN mapped' /\ mapped'[q - Grain] = sz'[q] + Grain)
      BY Zenon DEF LargeAlone
    <3>1. CASE q = p
      BY <2>4, <2>6, <2>7, <3>1 DEF bytes
    <3>2. CASE q # p
      BY <1>3, <2>6, <2>7, <3>2 DEF LargeAlone
    <3> QED BY <3>1, <3>2
  <2>9. \A c \in DOMAIN mapped' : c + Grain \in DOMAIN lnk' \cup DOMAIN used'
    BY <1>3, <2>5, <2>6, <2>7 DEF p
  <2> QED BY <1>1, <2>3, <2>6, <2>8, <2>9, LeakIsNext
<1>6. CASE n <= Largest /\ ~Refused(n)
  <2> DEFINE b == size2bin(n)
  <2>1. malloc_small(n) /\ b \in Bins
    BY <1>2, <1>6, ClassOfSize DEF malloc, Largest
  <2>2. CASE bin[b] # Null
    <3> DEFINE p == bin[b]
    <3>1. lnk' = Restricted(lnk, DOMAIN lnk \ {p}) /\ used' = Updated(used, At(p, n)) /\ sz' = sz /\ mapped' = mapped
      BY <2>1, <2>2 DEF malloc_small, Gives
    <3>2. Sized(sz, Updated(used, At(p, n)))
      <4>1. Popped(bin, sz, lnk, mapped, used, ls, b, n)
        BY <1>6, <2>1, <2>2, PopKeeps
      <4> HIDE DEF b
      <4> QED BY <4>1 DEF Popped, Kept
    <3> HIDE DEF p
    <3>3. DOMAIN used' = DOMAIN used \cup {p} /\ DOMAIN lnk \ {p} \subseteq DOMAIN lnk' /\ used'[p] = n
      BY <3>1 DEF Updated, At, Restricted
    <3>4. sz[p] = bin2size(b)
      BY <1>6, <3>1, <3>2, <3>3 DEF Sized
    <3>5. sz[p] <= Largest
      BY <2>1, <3>4, BinSizes
    <3>6. LargeAlone'
      BY <1>3, <3>1, <3>3, <3>5 DEF LargeAlone
    <3>7. \A c \in DOMAIN mapped' : c + Grain \in DOMAIN lnk' \cup DOMAIN used'
      BY <1>3, <3>1, <3>3
    <3> QED BY <1>1, <3>1, <3>6, <3>7, LeakIsNext
  <2>3. CASE bin[b] = Null
    <3> DEFINE l(a) == list_from_block(bin2size(b), a, Null)
    <3>1. PICK a \in Mappable :
            /\ sz' = Updated(sz, l(a).sz)
            /\ lnk' = Restricted(Updated(lnk, l(a).lnk), DOMAIN lnk \cup (DOMAIN l(a).lnk \ {l(a).first}))
            /\ mapped' = Updated(mapped, At(a, BIGBLOCK))
            /\ used' = Updated(used, At(l(a).first, n))
      BY <1>6, <2>1, <2>3 DEF malloc_small, Answers, Gives
    <3>2. a \in Page /\ a \notin DOMAIN mapped
      BY DEF Mappable
    <3> DEFINE c == l(a)
               p == a + Grain
    <3>3. c.first = p /\ p \in DOMAIN c.sz /\ \A q \in DOMAIN c.sz : c.sz[q] <= Largest
      <4> HIDE DEF b
      <4> QED BY <2>1, <3>2, CutLeaves
    <3>4. /\ sz' = Updated(sz, c.sz) /\ lnk' = Restricted(Updated(lnk, c.lnk), DOMAIN lnk \cup (DOMAIN c.lnk \ {c.first}))
          /\ mapped' = Updated(mapped, At(a, BIGBLOCK)) /\ used' = Updated(used, At(p, n))
      BY <3>1, <3>3
    <3> HIDE DEF c, p
    <3>5. DOMAIN lnk \subseteq DOMAIN lnk' /\ DOMAIN used' = DOMAIN used \cup {p}
      BY <3>4 DEF Updated, Restricted, At
    <3>6. DOMAIN mapped' = DOMAIN mapped \cup {a} /\ \A d \in DOMAIN mapped : mapped'[d] = mapped[d]
      BY <3>2, <3>4 DEF Updated, At
    <3>7. \A q \in DOMAIN used' : sz'[q] <= Largest \/ (q \in DOMAIN used /\ sz'[q] = sz[q])
      BY <1>1, <3>3, <3>4, <3>5 DEF Updated
    <3>8. LargeAlone'
      BY <1>3, <3>6, <3>7 DEF LargeAlone
    <3>9. \A d \in DOMAIN mapped' : d + Grain \in DOMAIN lnk' \cup DOMAIN used'
      BY <1>3, <3>5, <3>6 DEF p
    <3> QED BY <1>1, <3>2, <3>6, <3>8, <3>9, LeakIsNext
  <2> QED BY <2>2, <2>3
<1> QED BY <1>2, <1>4, <1>5, <1>6

(* nor does free: free_large unmaps the page of the block.                 *)
LEMMA FreeLosesNothing ==
  ASSUME NEW ls, Kept(bin, sz, lnk, mapped, used, ls), LeakInv, NEW p \in DOMAIN used \cup {Null}, free(p)
  PROVE  LeakInv'
<1>1. /\ DOMAIN mapped \subseteq Page /\ DOMAIN used \subseteq DOMAIN sz /\ \A q \in DOMAIN used : q \in Nat /\ sz[q] \in Nat
      /\ Largest \in Nat /\ Grain \in Nat
  BY Sizings, BinSizes DEF Kept, HeapTyped
<1>2. (\A a \in DOMAIN mapped : a + Grain \in DOMAIN lnk \cup DOMAIN used) /\ LargeAlone
  BY <1>1, LeakIs
<1>3. CASE p = Null
  BY <1>3 DEF free, LeakInv, NothingLeaks, LargeAlone
<1>4. CASE p # Null
  <2>1. p \in DOMAIN used /\ used' = Restricted(used, DOMAIN used \ {p})
    BY <1>4 DEF free
  <2>2. DOMAIN used' = DOMAIN used \ {p}
    BY <2>1 DEF Restricted
  <2>3. CASE sz[p] <= Largest
    <3>1. lnk' = Updated(lnk, At(p, bin[size2bin(sz[p])])) /\ sz' = sz /\ mapped' = mapped
      BY <1>4, <2>3 DEF free, free_small, Largest
    <3>2. DOMAIN lnk' = DOMAIN lnk \cup {p}
      BY <3>1 DEF Updated, At
    <3>3. LargeAlone'
      BY <1>2, <2>2, <3>1 DEF LargeAlone
    <3>4. \A a \in DOMAIN mapped' : a + Grain \in DOMAIN lnk' \cup DOMAIN used'
      BY <1>2, <2>2, <3>1, <3>2
    <3> QED BY <1>1, <3>1, <3>3, <3>4, LeakIsNext
  <2>4. CASE ~(sz[p] <= Largest)
    <3> DEFINE a == p - Grain
    <3>1. p - (WASTE + WORD) = a /\ sz[p] + WASTE + WORD = sz[p] + Grain
      <4>1. WASTE \in Nat /\ WORD \in Nat /\ WASTE + WORD = Grain
        BY Sizings
      <4>2. \A k \in Nat : k + WASTE + WORD = k + Grain
        BY <1>1, <4>1
      <4> QED BY <1>1, <2>1, <4>1, <4>2
    <3>2. free_large(p, sz[p])
      BY <1>4, <2>4 DEF free, Largest
    <3>3. a \in DOMAIN mapped /\ mapped[a] = sz[p] + Grain
      BY <1>2, <2>1, <2>4 DEF LargeAlone
    <3>4. mapped' = Restricted(mapped, DOMAIN mapped \ {a}) /\ sz' = Restricted(sz, DOMAIN sz \ {p}) /\ lnk' = lnk
      BY <3>1, <3>2, <3>3 DEF free_large
    <3>5. /\ DOMAIN mapped' = DOMAIN mapped \ {a} /\ \A c \in DOMAIN mapped \ {a} : mapped'[c] = mapped[c]
          /\ \A q \in DOMAIN used \ {p} : sz'[q] = sz[q]
      <4> HIDE DEF a
      <4> QED BY <1>1, <3>4 DEF Restricted
    <3>6. LargeAlone'
      <4> SUFFICES ASSUME NEW q \in DOMAIN used \ {p}
                   PROVE  sz'[q] <= Largest \/ (q - Grain \in DOMAIN mapped' /\ mapped'[q - Grain] = sz'[q] + Grain)
        BY <2>2, Zenon DEF LargeAlone
      <4>1. q - Grain # a
        BY <1>1, <2>1
      <4>2. sz'[q] = sz[q]
        BY <3>5
      <4>3. sz[q] <= Largest \/ (q - Grain \in DOMAIN mapped /\ mapped[q - Grain] = sz[q] + Grain)
        BY <1>2 DEF LargeAlone
      <4> HIDE DEF a
      <4> QED BY <3>5, <4>1, <4>2, <4>3
    <3>7. ASSUME NEW c \in DOMAIN mapped' PROVE c + Grain \in DOMAIN lnk' \cup DOMAIN used'
      <4>1. c \in DOMAIN mapped /\ c # a /\ c \in Nat
        BY <1>1, <3>5, <3>7, FirstAt
      <4>2. c + Grain # p
        BY <1>1, <2>1, <4>1
      <4> QED BY <1>2, <2>2, <3>4, <4>1, <4>2
    <3> QED BY <1>1, <3>5, <3>6, <3>7, LeakIsNext
  <2> QED BY <2>3, <2>4
<1> QED BY <1>3, <1>4

(* Nor any other call.                                                    *)
LEMMA NothingLost ==
  ASSUME MmInv, LeakInv, [MmNext]_mmVars
  PROVE  LeakInv'
<1>1. PICK ls : Kept(bin, sz, lnk, mapped, used, ls)
  BY DEF MmInv
<1>2. CASE \E n \in Size : malloc(n)
  BY <1>1, <1>2, MallocLosesNothing
<1>3. CASE \E p \in DOMAIN used \cup {Null} : free(p)
  BY <1>1, <1>3, FreeLosesNothing
<1>4. CASE \E n \in Size, p \in Mappable : size2bin(n) # -1 /\ pre_fill(n, p)
  <2>1. PICK n \in Size, p \in Mappable : size2bin(n) # -1 /\ pre_fill(n, p)
    BY <1>4
  <2> DEFINE ps == <<p>>
  <2>2. size2bin(n) \in Bins
    BY <2>1, Sizings, ClassOfSize, BinSizes
  <2>3. Len(ps) = 1 /\ Len(ps) \in Nat /\ (\A i \in 1..Len(ps) : ps[i] \in Mappable) /\ Members(ps, Len(ps)) = {p}
    BY DEF Members
  <2>4. Filled(size2bin(n), ps) /\ mapped' = Updated(mapped, [a \in {p} |-> BIGBLOCK]) /\ used' = used
    BY <2>1 DEF pre_fill, At
  <2> HIDE DEF ps
  <2>5. mapped' = Updated(mapped, [a \in Members(ps, Len(ps)) |-> BIGBLOCK])
    BY <2>3, <2>4
  <2> QED BY <1>1, <2>2, <2>3, <2>4, <2>5, FillLosesNothing
<1>5. CASE \E n \in Size, req \in Count, ps \in Pages : try_pre_fill(n, req, ps)
  <2>1. PICK n \in Size, req \in Count, ps \in Pages : try_pre_fill(n, req, ps)
    BY <1>5
  <2>2. CASE Largest < n
    BY <2>1, <2>2 DEF try_pre_fill, Largest, LeakInv, NothingLeaks, LargeAlone
  <2>3. CASE ~(Largest < n)
    <3>1. size2bin(n) \in Bins
      <4>1. n \in Nat /\ Largest \in Nat
        BY Sizings, BinSizes
      <4> QED BY <2>3, <4>1, ClassOfSize
    <3>2. Len(ps) \in Nat /\ DOMAIN ps = 1..Len(ps) /\ \A i \in 1..Len(ps) : ps[i] \in Mappable
      BY PagesInPages
    <3>3. /\ Filled(size2bin(n), ps) /\ used' = used
          /\ mapped' = Updated(mapped, [a \in {ps[i] : i \in DOMAIN ps} |-> BIGBLOCK])
      BY <2>1, <2>3 DEF try_pre_fill, Largest
    <3>4. {ps[i] : i \in DOMAIN ps} = Members(ps, Len(ps))
      BY <3>2 DEF Members
    <3>5. mapped' = Updated(mapped, [a \in Members(ps, Len(ps)) |-> BIGBLOCK])
      BY <3>3, <3>4
    <3> QED BY <1>1, <3>1, <3>2, <3>3, <3>5, FillLosesNothing
  <2> QED BY <2>2, <2>3
<1>6. CASE UNCHANGED mmVars
  BY <1>6 DEF mmVars, LeakInv, NothingLeaks, LargeAlone
<1> QED BY <1>2, <1>3, <1>4, <1>5, <1>6 DEF MmNext

-----------------------------------------------------------------------------
(* The run: a step is one of a program, and leaves the others alone.       *)
QueuesInv == LinkedInv /\ ExInv

LEMMA StepsApart ==
  [QueuesNext]_allVars => [Next]_vars /\ [Clients!ExNext]_exVars /\ [Clients!FifoNext]_fifoVars /\ [MmNext]_mmVars
BY DEF QueuesNext, InQueue, InExample, InLinked, InMemory, allVars

LEMMA QueuesInvariance == QueuesSpec => []QueuesInv
<1>1. QueuesInit => QueuesInv
  BY LinkedInit, ExInit DEF QueuesInit, QueuesInv
<1>2. QueuesInv /\ [QueuesNext]_allVars => QueuesInv'
  BY StepsApart, LinkedNext, ExNext DEF QueuesInv
<1> QED BY <1>1, <1>2, PTL DEF QueuesSpec

(* The elements of the linked queues are reached in the order in which they*)
(* were put; the results of queue_ex.c merge to what main has added, for   *)
(* any number of threads that remove any number of times.                  *)
THEOREM ClientsRight == QueuesSpec => []QueuesHold
<1>1. QueuesInv => QueuesHold
  BY LinkedHolds, ExMerges DEF QueuesInv, QueuesHold
<1> QED BY <1>1, QueuesInvariance, PTL

(* In the run conc_queue.c does what it does alone.                        *)
THEOREM QueueAlone == QueuesSpec => Spec
<1>1. QueuesInit => Init
  BY DEF QueuesInit
<1> QED BY <1>1, StepsApart, PTL DEF QueuesSpec, Spec

(* malloc.c keeps what Allocator promises: blocks given are aligned, long  *)
(* enough and apart, a call for which a list has a block succeeds, and     *)
(* try_pre_fill counts right; every free block is in one list, once.       *)
THEOREM BlocksAreAllocated == QueuesSpec => ImplementsAllocator
<1>1. QueuesInit => MmInit
  BY DEF QueuesInit
<1>2. QueuesInit => MmInv
  BY <1>1, MmStart
<1>3. MmInv /\ [QueuesNext]_allVars => MmInv'
  BY StepsApart, MmNextRefines
<1>9. QueuesInit => LeakInv
  BY <1>1 DEF MmInit, LeakInv, NothingLeaks, LargeAlone
<1>10. MmInv /\ LeakInv /\ [QueuesNext]_allVars => LeakInv'
  BY StepsApart, NothingLost
<1>4. QueuesSpec => [](MmInv /\ LeakInv)
  BY <1>2, <1>3, <1>9, <1>10, PTL DEF QueuesSpec
<1>5. MmInv /\ LeakInv => ListsAreLists /\ BlocksApart /\ NothingLeaks
  BY ListsKept, BlocksKeptApart DEF LeakInv
<1>6. MmInv /\ [QueuesNext]_allVars =>
        [Promise!AllocatorNext]_<<used, [b \in 0..BINS - 1 |-> Len(ListFrom(bin[b]))], result>>
  BY StepsApart, MmNextRefines DEF Certain
<1>7. QueuesInit => Promise!AllocatorInit
  BY <1>1, MmInitRefines
<1>8. QueuesSpec => Promise!AllocatorSpec
  BY <1>4, <1>6, <1>7, PTL DEF QueuesSpec, Promise!AllocatorSpec
<1> QED BY <1>4, <1>5, <1>8, PTL DEF ImplementsAllocator
=============================================================================
