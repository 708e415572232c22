----------------------------- MODULE Allocator -----------------------------
(***************************************************************************)
(* What malloc and free promise (malloc.h): blocks that do not overlap, of *)
(* the size asked for, aligned; and for each size class a number of blocks *)
(* that are certain to be there when they are asked for.                   *)
(***************************************************************************)
EXTENDS Integers

CONSTANTS Class,          \* the size classes
          ClassOf(_),     \* the class of a size, or something else if it is too large for all
          Align,          \* what addresses are multiples of
          Header          \* how many bytes before a block are not the caller's either

VARIABLES held,           \* the size asked for of each block that is in use
          certain,        \* the number of blocks of each class that are certain
          answer          \* the last call: its name, argument and result

Apart(p, m, q) == p + m + Header <= q \/ q + held[q] + Header <= p

AllocatorInit ==
  held = [p \in {} |-> 0] /\ certain = [c \in Class |-> 0] /\ answer = [call |-> "free", arg |-> 0, ret |-> 0]

\* A new block; only a certain one may be used up.
Give ==
  LET p == answer'.ret
      n == answer'.arg
  IN  /\ answer'.call = "malloc" /\ p # 0 /\ p \notin DOMAIN held /\ p % Align = 0
      /\ held' = [q \in DOMAIN held \cup {p} |-> IF q = p THEN n ELSE held[q]]
      /\ \A q \in DOMAIN held : Apart(p, n, q)
      /\ \A c \in Class : certain'[c] >= (IF c = ClassOf(n) THEN certain[c] - 1 ELSE certain[c])

\* No block, for want of a certain one.
Refuse ==
  /\ answer'.call = "malloc" /\ answer'.ret = 0
  /\ \A c \in Class : c = ClassOf(answer'.arg) => certain[c] = 0
  /\ UNCHANGED <<held, certain>>

\* free(p), of a block or of NULL.
Take ==
  LET p == answer'.arg
  IN  /\ answer'.call = "free"
      /\ held' = [q \in DOMAIN held \ {p} |-> held[q]]
      /\ certain' = [c \in Class |-> IF p # 0 /\ c = ClassOf(held[p]) THEN certain[c] + 1 ELSE certain[c]]

\* More blocks of a class are made sure of, as many as the answer says.
Provide ==
  /\ answer'.call = "fill" /\ UNCHANGED held
  /\ certain' = [c \in Class |-> IF c = ClassOf(answer'.arg) THEN certain[c] + answer'.ret ELSE certain[c]]

AllocatorNext == Give \/ Refuse \/ Take \/ Provide
AllocatorSpec == AllocatorInit /\ [][AllocatorNext]_<<held, certain, answer>>
=============================================================================
