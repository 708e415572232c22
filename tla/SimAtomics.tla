----------------------------- MODULE SimAtomics -----------------------------
(***************************************************************************)
(* Atomic operations simulated with a lock, as atomics/sim_atomics.c (and  *)
(* mailbox/atomic_exchange.c, for the exchange alone) has them: the cell   *)
(* is plain memory, and every operation brackets its plain accesses with   *)
(* acquire and release of the cell's lock.  The lock is the spin lock of   *)
(* concurrency/threads.c: a CAS from 0 to 1, repeated until it succeeds.   *)
(*                                                                         *)
(* A definition Name_Suffix is a faulty variant of Name, for the mutation  *)
(* runs; nothing uses it.                                                  *)
(***************************************************************************)
EXTENDS Integers

CONSTANTS Thread, Val

ASSUME ValAssumption == Val \subseteq Int /\ Val # {}

VARIABLES
  val,    \* tgt->val
  alive,  \* the cell and its lock have not been freed
  lock,   \* the word of tgt->lock: 0 free, 1 held
  pc,     \* control point of each thread
  op,     \* the operation it executes, with its arguments
  x       \* its local x

vars == <<val, alive, lock, pc, op, x>>

Load      == [kind : {"load"}]
Store     == [kind : {"store"}, v : Val]
Exchange  == [kind : {"exchange"}, v : Val]
CAS       == [kind : {"CAS"}, c : Val, v : Val]
Operation == Load \cup Store \cup Exchange \cup CAS

(* make_atomic makes the lock, which is then held, and releases it, before *)
(* any other thread knows of the cell.                                     *)
Init ==
  /\ val \in Val
  /\ alive = TRUE
  /\ lock = 0
  /\ pc = [t \in Thread |-> "out"]
  /\ op = [t \in Thread |-> [kind |-> "load"]]
  /\ x = [t \in Thread |-> 0]

Goto(t, l) == pc' = [pc EXCEPT ![t] = l]

Call(t, o) ==
  /\ alive
  /\ pc[t] = "out"
  /\ op' = [op EXCEPT ![t] = o]
  /\ Goto(t, "acquire")
  /\ UNCHANGED <<val, alive, lock, x>>

(* The round of acquire's loop whose CAS succeeds; the others change       *)
(* nothing.  store_SC goes straight to its store.                          *)
CanAcquire_Load == lock \in {0, 1}
CanAcquire == lock = 0

FirstAccess(t) == IF op[t].kind = "store" THEN "write" ELSE "read"

Acquire(t) ==
  /\ pc[t] = "acquire"
  /\ CanAcquire
  /\ lock' = 1
  /\ Goto(t, FirstAccess(t))
  /\ UNCHANGED <<val, alive, op, x>>

(* x = tgt->val; a CAS then compares, and has its result.                  *)
Compare_Always(t) == TRUE
Compare(t) == val = op[t].c

ReadVal(t) ==
  /\ pc[t] = "read"
  /\ LET equal == op[t].kind = "CAS" /\ Compare(t) IN
       /\ x' = [x EXCEPT ![t] = IF op[t].kind # "CAS" THEN val
                                ELSE IF equal THEN 1 ELSE 0]
       /\ Goto(t, IF op[t].kind = "exchange" \/ equal THEN "write" ELSE "release")
  /\ UNCHANGED <<val, alive, lock, op>>

(* tgt->val = v.                                                           *)
WriteVal(t) ==
  /\ pc[t] = "write"
  /\ val' = op[t].v
  /\ Goto(t, "release")
  /\ UNCHANGED <<alive, lock, op, x>>

(* release, and return x.                                                  *)
Unlocked_Kept == 1
Unlocked == 0

Release(t) ==
  /\ pc[t] = "release"
  /\ lock' = Unlocked
  /\ Goto(t, "out")
  /\ UNCHANGED <<val, alive, op, x>>

(* free_atomic, by a thread that owns the whole cell, so that nobody else  *)
(* is in an operation or will call one.  acquire succeeds at once, and the *)
(* lock goes while it is held.                                             *)
FreeAtomic(t) ==
  /\ \A s \in Thread : pc[s] = "out"
  /\ alive
  /\ CanAcquire
  /\ alive' = FALSE
  /\ lock' = 1
  /\ x' = [x EXCEPT ![t] = val]
  /\ op' = [op EXCEPT ![t] = [kind |-> "free"]]
  /\ UNCHANGED <<val, pc>>

Step(t) == Acquire(t) \/ ReadVal(t) \/ WriteVal(t) \/ Release(t)

Next ==
  \E t \in Thread : (\E o \in Operation : Call(t, o)) \/ Step(t) \/ FreeAtomic(t)

Spec == Init /\ [][Next]_vars

(* Every thread inside an operation is run.  Nothing makes the spin lock   *)
(* fair, so acquire gets weak fairness only.                               *)
FairSpec == Spec /\ \A t \in Thread : WF_vars(Step(t))

-----------------------------------------------------------------------------
TypeOK ==
  /\ val \in Val
  /\ alive \in BOOLEAN
  /\ lock \in {0, 1}
  /\ pc \in [Thread -> {"out", "acquire", "read", "write", "release"}]
  /\ op \in [Thread -> Operation \cup [kind : {"free"}]]
  /\ x \in [Thread -> Val \cup {0, 1}]
  /\ \A t \in Thread :
       /\ pc[t] # "out" => op[t] \in Operation
       /\ pc[t] = "write" => op[t].kind # "load"
       /\ pc[t] = "read" => op[t].kind # "store"

(* A thread that owns the lock.                                            *)
Inside(t) == pc[t] \in {"read", "write", "release"}

(* The plain accesses to val never race: one thread at a time is between   *)
(* acquire and release, and it is there only while the lock is held.       *)
NoRace ==
  /\ \A s, t \in Thread : Inside(s) /\ Inside(t) => s = t
  /\ \A t \in Thread : Inside(t) => lock = 1

(* An operation has taken effect when it is about to release; an operation *)
(* that writes does so at its write.                                       *)
Stage == [t \in Thread |->
            CASE pc[t] = "out"     -> "out"
              [] pc[t] = "release" -> "done"
              [] OTHER             -> "called"]

(* What a caller may see of x: nothing while its call has not taken effect. *)
Ret == [t \in Thread |->
          IF Stage[t] # "called" /\ op[t].kind # "store" THEN x[t] ELSE 0]

Cell == INSTANCE AtomicCell WITH stage <- Stage, ret <- Ret

(* The simulated operations are atomic: the clients of the cell cannot     *)
(* tell it from one whose operations take effect in a single step between  *)
(* call and return.                                                        *)
ImplementsCell == Cell!Spec

(* As long as an operation is under way, some operation comes to its end,  *)
(* though the unfair spin lock may starve a given thread.                  *)
SomeReturns ==
  (\E t \in Thread : pc[t] # "out") ~> (\E t \in Thread : pc[t] = "release")
=============================================================================
