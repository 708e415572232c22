------------------------------ MODULE MCQueues ------------------------------
(***************************************************************************)
(* The run of the queues: conc_queue.c (ConcQueue), the program queue_ex.c *)
(* over what it promises and the linked queues of queue.c and queue2.c     *)
(* (QueueClients); and of the free lists of malloc.c (Malloc).  One of     *)
(* them is used, the others stay as they were initialized.                 *)
(***************************************************************************)
EXTENDS ConcQueue, Malloc, TLC

CONSTANTS
  NThreads, Calls,                           \* of queue_ex.c, with SIZE
  Elem, MaxSteps                             \* of queue.c

ASSUME ExampleAssumption == NThreads \in Nat \ {0} /\ Calls \in Nat \ {0}
ASSUME ElemAssumption    == Elem \subseteq Nat \ {0}   \* malloc does not return NULL to make_elem

VARIABLES
  program,   \* which one is used
  numbers, pending, xret, stage, count, results, joinLock,              \* queue_ex.c
  version, inMain, steps, fhead, ftail, elem, held, contents, outcome   \* queue.c

exVars   == <<numbers, pending, xret, stage, count, results, joinLock>>
fifoVars == <<version, inMain, steps, fhead, ftail, elem, held, contents, outcome>>
allVars  == <<program, vars, exVars, fifoVars, mmVars>>

Clients == INSTANCE QueueClients WITH queue <- numbers, ret <- xret, head <- fhead, tail <- ftail

QueuesInit ==
  /\ program \in {"conc_queue", "queue_ex", "queue", "malloc"}
  /\ Init /\ Clients!ExInit /\ Clients!FifoInit /\ MmInit
  /\ program = "queue" \/ (version = "queue" /\ inMain)

InQueue   == program = "conc_queue" /\ UNCHANGED <<program, exVars, fifoVars, mmVars>>
InExample == program = "queue_ex" /\ UNCHANGED <<program, vars, fifoVars, mmVars>>
InLinked  == program = "queue" /\ UNCHANGED <<program, vars, exVars, mmVars>>
InMemory ==  program = "malloc" /\ UNCHANGED <<program, vars, exVars, fifoVars>>

QueuesNext ==
  \/ InQueue /\ Next
  \/ InExample /\ Clients!ExNext
  \/ InLinked /\ Clients!FifoNext
  \/ InMemory /\ MmNext

QueuesSpec == QueuesInit /\ [][QueuesNext]_allVars

-----------------------------------------------------------------------------
(* What was put in and not yet taken out is in the queue, in order; the    *)
(* results of queue_ex.c merge to its input.                               *)
QueuesHold == Clients!FifoHolds /\ Clients!ResultsMerge

-----------------------------------------------------------------------------
\* The instance that TLC checks.
ThreadSymmetry == Permutations(Thread)
=============================================================================
