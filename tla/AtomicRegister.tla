--------------------------- MODULE AtomicRegister ---------------------------
(***************************************************************************)
(* A register that holds a whole vector: what the node of                  *)
(* atomics/kvnode_atomic.c implements for one writer and its readers.      *)
(***************************************************************************)
CONSTANTS Reader, Vector, Initial

VARIABLES
  value,   \* the vector written last
  got      \* got[r]: the vector reader r read last

vars == <<value, got>>

Init ==
  /\ value = Initial
  /\ got = [r \in Reader |-> Initial]

Write == value' \in Vector /\ UNCHANGED got

Read(r) == got' = [got EXCEPT ![r] = value] /\ UNCHANGED value

Next == Write \/ \E r \in Reader : Read(r)

Spec == Init /\ [][Next]_vars
=============================================================================
