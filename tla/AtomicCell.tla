----------------------------- MODULE AtomicCell -----------------------------
(***************************************************************************)
(* An atomic memory cell as its clients see it: between its call and its   *)
(* return, every operation takes effect in one step.  This is what the     *)
(* libraries of atomics/ promise (SC mode), however they do it.            *)
(***************************************************************************)
EXTENDS Integers

CONSTANTS Thread, Val

(* The operations, with their arguments.                                   *)
Op == [kind : {"load"}] \cup [kind : {"store", "exchange"}, v : Val]
        \cup [kind : {"CAS"}, c : Val, v : Val]

(* The value operation o leaves in a cell that holds x, and what it        *)
(* returns: 1 or 0 for a CAS, nothing of interest for a store.             *)
After(o, x)  == IF o.kind = "load" \/ (o.kind = "CAS" /\ o.c # x) THEN x ELSE o.v
Result(o, x) == CASE o.kind = "CAS"   -> IF o.c = x THEN 1 ELSE 0
                  [] o.kind = "store" -> 0
                  [] OTHER            -> x

VARIABLES
  val,     \* the content of the cell
  alive,   \* it has not been freed
  stage,   \* stage[t]: is t outside, has it called, has its call taken effect
  op,      \* op[t]: the operation t called last
  ret      \* ret[t]: its result, once it has taken effect

vars == <<val, alive, stage, op, ret>>

Init ==
  /\ val \in Val
  /\ alive = TRUE
  /\ stage = [t \in Thread |-> "out"]
  /\ op = [t \in Thread |-> [kind |-> "load"]]
  /\ ret = [t \in Thread |-> 0]

Call(t, o) ==
  /\ alive
  /\ stage[t] = "out"
  /\ stage' = [stage EXCEPT ![t] = "called"]
  /\ op' = [op EXCEPT ![t] = o]
  /\ ret' = [ret EXCEPT ![t] = 0]
  /\ UNCHANGED <<val, alive>>

TakeEffect(t) ==
  /\ stage[t] = "called"
  /\ val' = After(op[t], val)
  /\ ret' = [ret EXCEPT ![t] = Result(op[t], val)]
  /\ stage' = [stage EXCEPT ![t] = "done"]
  /\ UNCHANGED <<alive, op>>

Return(t) ==
  /\ stage[t] = "done"
  /\ stage' = [stage EXCEPT ![t] = "out"]
  /\ UNCHANGED <<val, alive, op, ret>>

(* The last owner frees the cell and takes its content away.               *)
Free(t) ==
  /\ alive
  /\ \A s \in Thread : stage[s] = "out"
  /\ alive' = FALSE
  /\ ret' = [ret EXCEPT ![t] = val]
  /\ op' = [op EXCEPT ![t] = [kind |-> "free"]]
  /\ UNCHANGED <<val, stage>>

Next ==
  \E t \in Thread :
    \/ \E o \in Op : Call(t, o)
    \/ TakeEffect(t)
    \/ Return(t)
    \/ Free(t)

Spec == Init /\ [][Next]_vars
=============================================================================
