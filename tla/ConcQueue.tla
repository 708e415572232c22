----------------------------- MODULE ConcQueue -----------------------------
(***************************************************************************)
(* The concurrent queue of progs/conc_queue.c: a circular buffer under one *)
(* lock with two condition variables, addc for threads that wait for room  *)
(* and remc for those that wait for an item.  The lock and the condition   *)
(* variables are those of mailbox/threads.c (pthreads): a signal wakes one *)
(* waiter, a waiter may also wake up for no reason, and whoever wakes up   *)
(* has to get the lock again, in competition with everybody else.          *)
(*                                                                         *)
(* A definition Name_Suffix is a faulty variant of Name, for the mutation  *)
(* runs; nothing uses it.                                                  *)
(***************************************************************************)
EXTENDS Integers, FiniteSets

CONSTANTS
  Thread,
  Item,         \* what r may point to
  NULL,
  SIZE,         \* length of the buffer (10 in the code)
  MaxSpurious   \* bound on the wakeups without a signal

ASSUME ThreadAssumption   == IsFiniteSet(Thread)
ASSUME SizeAssumption     == SIZE \in Nat \ {0}
ASSUME NullAssumption     == NULL \notin Item
ASSUME SpuriousAssumption == MaxSpurious \in Nat

VARIABLES
  buf, length, head, tail,   \* tgt->d
  lock,                      \* the holder of tgt->lock: {} or {t}
  addc, remc,                \* the threads that wait on tgt->d.addc and remc
  pc,                        \* control point of each thread
  op,                        \* the call it executes
  len,                       \* its len
  ret,                       \* what its last remove returned
  spurious                   \* number of wakeups without a signal

queue == <<buf, length, head, tail>>
conds == <<addc, remc>>
vars  == <<queue, lock, conds, pc, op, len, ret, spurious>>

Slot == 0 .. SIZE-1

AddOp     == [kind : {"add"}, item : Item]
RemoveOp  == [kind : {"remove"}]
TryOp     == [kind : {"tryremove"}]
NoOp      == [kind |-> "none"]
Operation == AddOp \cup RemoveOp \cup TryOp

(* q_new.                                                                  *)
Init ==
  /\ buf = [s \in Slot |-> NULL]
  /\ length = 0
  /\ head = 0
  /\ tail = 0
  /\ lock = {}
  /\ addc = {}
  /\ remc = {}
  /\ pc = [t \in Thread |-> "out"]
  /\ op = [t \in Thread |-> NoOp]
  /\ len = [t \in Thread |-> 0]
  /\ ret = [t \in Thread |-> NULL]
  /\ spurious = 0

Goto(t, l) == pc' = [pc EXCEPT ![t] = l]

Call(t, o) ==
  /\ pc[t] = "out"
  /\ op' = [op EXCEPT ![t] = o]
  /\ Goto(t, "acquire")
  /\ UNCHANGED <<queue, lock, conds, len, ret, spurious>>

(* At the start of a call, and at the end of waitcond.                     *)
Acquire(t) ==
  /\ pc[t] = "acquire"
  /\ lock = {}
  /\ lock' = {t}
  /\ Goto(t, "test")
  /\ UNCHANGED <<queue, conds, op, len, ret, spurious>>

MustWait(o) ==
  \/ o.kind = "add" /\ length >= SIZE
  \/ o.kind = "remove" /\ length = 0

(* len = q->length and the test of it.  waitcond lets go of the lock and   *)
(* starts to wait in one step.                                             *)
Wait(t) ==
  /\ pc[t] = "test"
  /\ MustWait(op[t])
  /\ len' = [len EXCEPT ![t] = length]
  /\ IF op[t].kind = "add"
     THEN addc' = addc \cup {t} /\ UNCHANGED remc
     ELSE remc' = remc \cup {t} /\ UNCHANGED addc
  /\ lock' = {}
  /\ Goto(t, "wait")
  /\ UNCHANGED <<queue, op, ret, spurious>>

(* What a thread that was woken does with its len.                         *)
Proceed(t) ==
  /\ pc[t] = "test"
  /\ ~MustWait(op[t])
  /\ len' = [len EXCEPT ![t] = length]
  /\ IF op[t].kind = "tryremove" /\ length = 0
     THEN ret' = [ret EXCEPT ![t] = NULL] /\ Goto(t, "release")
     ELSE UNCHANGED ret /\ Goto(t, "transfer")
  /\ UNCHANGED <<queue, lock, conds, op, spurious>>

(* (t + 1) % SIZE, of an index of the buffer.                              *)
NextSlot_OffEnd(s) == s + 1
NextSlot(s) == IF s = SIZE-1 THEN 0 ELSE s + 1

Put(t, x) ==
  /\ pc[t] = "transfer"
  /\ op[t].kind = "add"
  /\ buf' = [buf EXCEPT ![tail] = x]
  /\ tail' = NextSlot(tail)
  /\ length' = len[t] + 1
  /\ Goto(t, "signal")
  /\ UNCHANGED <<head, lock, conds, op, len, ret, spurious>>

Taken_Newest == buf[IF tail = 0 THEN SIZE-1 ELSE tail - 1]
Taken == buf[head]

Take(t) ==
  /\ pc[t] = "transfer"
  /\ op[t].kind # "add"
  /\ ret' = [ret EXCEPT ![t] = Taken]
  /\ buf' = [buf EXCEPT ![head] = NULL]
  /\ head' = NextSlot(head)
  /\ length' = len[t] - 1
  /\ Goto(t, "signal")
  /\ UNCHANGED <<tail, lock, conds, op, len, spurious>>

(* signalcond(addc) after a removal, signalcond(remc) after an addition.   *)
Signalled_Swapped(t) == IF op[t].kind = "add" THEN addc ELSE remc
Signalled(t) == IF op[t].kind = "add" THEN remc ELSE addc

Signal(t) ==
  /\ pc[t] = "signal"
  /\ IF Signalled(t) = {}
     THEN Goto(t, "release") /\ UNCHANGED conds
     ELSE \E w \in Signalled(t) :
            /\ addc' = addc \ {w}
            /\ remc' = remc \ {w}
            /\ pc' = [pc EXCEPT ![t] = "release", ![w] = "acquire"]
  /\ UNCHANGED <<queue, lock, op, len, ret, spurious>>

WakeSpuriously(w) ==
  /\ spurious < MaxSpurious
  /\ spurious' = spurious + 1
  /\ w \in addc \cup remc
  /\ addc' = addc \ {w}
  /\ remc' = remc \ {w}
  /\ Goto(w, "acquire")
  /\ UNCHANGED <<queue, lock, op, len, ret>>

(* The call returns; its locals are gone.                                  *)
Release(t) ==
  /\ pc[t] = "release"
  /\ lock' = {}
  /\ op' = [op EXCEPT ![t] = NoOp]
  /\ len' = [len EXCEPT ![t] = 0]
  /\ Goto(t, "out")
  /\ UNCHANGED <<queue, conds, ret, spurious>>

InLock(t) == Wait(t) \/ Proceed(t) \/ Take(t) \/ Signal(t) \/ Release(t)

Next ==
  \E t \in Thread :
    \/ \E o \in Operation : Call(t, o)
    \/ Acquire(t)
    \/ InLock(t)
    \/ Put(t, op[t].item)
    \/ WakeSpuriously(t)

Spec == Init /\ [][Next]_vars

-----------------------------------------------------------------------------
TypeOK ==
  /\ buf \in [Slot -> Item \cup {NULL}]
  /\ length \in 0 .. SIZE
  /\ head \in Slot
  /\ tail \in Slot
  /\ lock \in SUBSET Thread
  /\ addc \in SUBSET Thread
  /\ remc \in SUBSET Thread
  /\ pc \in [Thread -> {"out", "acquire", "test", "wait", "transfer", "signal", "release"}]
  /\ op \in [Thread -> Operation \cup {NoOp}]
  /\ len \in [Thread -> 0 .. SIZE]
  /\ ret \in [Thread -> Item \cup {NULL}]
  /\ spurious \in 0 .. MaxSpurious

Awake == {"acquire", "test", "transfer"}

(* The threads that will come for an item, or are about to signal that     *)
(* there is one; and those that will come for room, or signal it.          *)
ForItem == {t \in Thread : \/ op[t].kind = "remove" /\ pc[t] \in Awake
                           \/ op[t].kind = "add" /\ pc[t] = "signal"}

ForRoom == {t \in Thread : \/ op[t].kind = "add" /\ pc[t] \in Awake
                           \/ op[t].kind \in {"remove", "tryremove"} /\ pc[t] = "signal"}

(* No wakeup is lost.  While a thread sleeps in q_remove, there is for     *)
(* each item in the queue a thread that is awake and will come for it, or  *)
(* is about to wake one that will; while a thread sleeps in q_add, so there*)
(* is for each free slot.  It holds although whoever was woken may find    *)
(* that another thread has been faster.                                    *)
NoLostWakeup ==
  /\ remc # {} => length <= Cardinality(ForItem)
  /\ addc # {} => SIZE - length <= Cardinality(ForRoom)

(* The items in the buffer, from head on.                                  *)
SlotAt(j) == IF head + j - 1 < SIZE THEN head + j - 1 ELSE head + j - 1 - SIZE

Content == [j \in 1 .. length |-> buf[SlotAt(j)]]

Unserved == {"acquire", "test", "wait", "transfer"}

Fifo == INSTANCE BoundedFifo
          WITH queue <- Content,
               pending <- [t \in Thread |-> IF pc[t] \in Unserved THEN op[t] ELSE NoOp]

(* The queue is a bounded FIFO queue with atomic operations.               *)
ImplementsFifo == Fifo!Spec
=============================================================================
