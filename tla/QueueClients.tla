---------------------------- MODULE QueueClients ----------------------------
(***************************************************************************)
(* Two programs with queues: progs/queue_ex.c on the queue of conc_queue.c,*)
(* progs/queue.c and queue2.c with queues of their own.  Each has          *)
(* variables and actions of its own.                                       *)
(***************************************************************************)
EXTENDS Integers, Sequences

CONSTANTS
  NThreads, Calls,   \* of queue_ex.c, 3 and 3 in the code
  SIZE,              \* the room in its queue, 10 in the code
  Elem,              \* what malloc returns in queue.c
  MaxSteps           \* bound: the calls of a client of queue.c

-----------------------------------------------------------------------------
(* The program progs/queue_ex.c: threads remove numbers from a queue to    *)
(* which main adds them; main joins each through a lock of its own and     *)
(* deletes the queue.  The queue is what progs/conc_queue.c promises       *)
(* (BoundedFifo): a call takes effect in one step.                         *)
adder == NThreads              \* main; the threads are 0 .. NThreads-1
Threads == 0 .. NThreads-1
NumItems == NThreads * Calls   \* main adds 0 .. NumItems-1

VARIABLES
  queue, pending, ret,   \* the queue, see BoundedFifo
  stage,     \* control point of each thread, main included
  count,     \* its i
  results,   \* results[t]
  joinLock   \* thread_locks[t]: "none", "held", "free" or "freed"
exVars == <<queue, pending, ret, stage, count, results, joinLock>>

Queue == INSTANCE BoundedFifo WITH Thread <- 0..NThreads, Item <- 0 .. NumItems-1, NULL <- -1

ExInit ==
  /\ Queue!Init
  /\ stage = [t \in 0..NThreads |-> IF t = adder THEN "spawn" ELSE "new"]
  /\ count = [t \in 0..NThreads |-> 0]
  /\ results = [t \in Threads |-> <<>>]
  /\ joinLock = [t \in Threads |-> "none"]

Goto(t, l) == stage' = [stage EXCEPT ![t] = l]
Round(t) == count' = [count EXCEPT ![t] = @ + 1]
NextLoop(t, n, l) ==         \* the end of a loop of n rounds, after which comes l
  IF count[t] + 1 < n THEN Round(t) /\ UNCHANGED stage
  ELSE count' = [count EXCEPT ![t] = 0] /\ Goto(t, l)

(* makelock and spawn; q_add; acquire, freelock2; q_del, of an empty queue.*)
SpawnThread ==
  /\ stage[adder] = "spawn"
  /\ joinLock' = [joinLock EXCEPT ![count[adder]] = "held"]
  /\ count' = [count EXCEPT ![adder] = (@ + 1) % NThreads]
  /\ stage' = [stage EXCEPT ![count[adder]] = "remove", ![adder] = IF count[adder] + 1 < NThreads THEN "spawn" ELSE "add"]
  /\ UNCHANGED <<queue, pending, ret, results>>

Numbered_Same == 0
Numbered == count[adder]
CallAdd ==
  /\ stage[adder] = "add" /\ Queue!Call(adder, [kind |-> "add", item |-> Numbered])
  /\ Goto(adder, "adding") /\ UNCHANGED <<count, results, joinLock>>
AddReturned ==
  /\ stage[adder] = "adding" /\ pending[adder] = Queue!NoOp
  /\ IF count[adder] + 1 < NumItems THEN Round(adder) /\ Goto(adder, "add")
     ELSE count' = [count EXCEPT ![adder] = 0] /\ Goto(adder, "join")
  /\ UNCHANGED <<queue, pending, ret, results, joinLock>>
JoinNext ==
  /\ stage[adder] = "join" /\ joinLock[count[adder]] = "free"
  /\ joinLock' = [joinLock EXCEPT ![count[adder]] = "freed"]
  /\ NextLoop(adder, NThreads, "done")
  /\ UNCHANGED <<queue, pending, ret, results>>

(* q_remove, results[t][i] = *d; release2.                                 *)
CallRemove(t) ==
  /\ stage[t] = "remove" /\ Queue!Call(t, [kind |-> "remove"])
  /\ Goto(t, "removing") /\ UNCHANGED <<count, results, joinLock>>
RemoveReturned(t) ==
  /\ stage[t] = "removing" /\ pending[t] = Queue!NoOp
  /\ results' = [results EXCEPT ![t] = Append(@, ret[t])]
  /\ Round(t) /\ Goto(t, IF count[t] + 1 < Calls THEN "remove" ELSE "release")
  /\ UNCHANGED <<queue, pending, ret, joinLock>>
ReleaseLast(t) ==
  /\ stage[t] = "release"
  /\ joinLock' = [joinLock EXCEPT ![t] = "free"]
  /\ Goto(t, "done") /\ UNCHANGED <<queue, pending, ret, count, results>>

InQueue(t) ==
  /\ Queue!Add(t) \/ Queue!Remove(t)
  /\ pending' = [pending EXCEPT ![t] = Queue!NoOp]
  /\ UNCHANGED <<stage, count, results, joinLock>>
ExNext == \/ SpawnThread \/ CallAdd \/ AddReturned \/ JoinNext
          \/ \E t \in Threads : CallRemove(t) \/ RemoveReturned(t) \/ ReleaseLast(t)
          \/ \E t \in 0..NThreads : InQueue(t)

(* "results should merge to input" (queue_ex.c:63): each thread's results  *)
(* ascend, and at the end every number is in exactly one place; the queue  *)
(* that is deleted then is empty and not in use.                           *)
ResultsMerge ==
  /\ \A t \in Threads : \A j, k \in DOMAIN results[t] : j < k => results[t][j] < results[t][k]
  /\ stage[adder] = "done" =>
       /\ \A n \in 0 .. NumItems-1 : \E t \in Threads : \E j \in DOMAIN results[t] : results[t][j] = n
       /\ \A t \in Threads : Len(results[t]) = Calls /\ stage[t] = "done"
       /\ queue = <<>>

-----------------------------------------------------------------------------
(* The queues of progs/queue.c and progs/queue2.c, linked through their    *)
(* elements, which the client makes, puts, gets and frees.  An execution   *)
(* is that of a client, or of main.  Memory that is freed is not in elem   *)
(* any more: to touch it is an error.                                      *)
NoElem == 0      \* not an Elem
Uninit == -1   \* the next of an element that was never put

VARIABLES
  version,    \* the file, "queue" or "queue2"
  inMain,     \* TRUE while main runs, not a client
  steps,      \* calls made so far
  head, tail, \* the fields of *Q; tail is stale while head is NULL
  elem,       \* the elements that are allocated
  held,       \* those that the client has in its hands
  contents,   \* what was put and not yet got, in order (fifo_put_spec, fifo_get_spec)
  outcome     \* the result of the last fifo_empty or of main; -1 after exit(1)
fifoVars == <<version, inMain, steps, head, tail, elem, held, contents, outcome>>

FifoInit ==
  /\ version \in {"queue", "queue2"} /\ inMain \in BOOLEAN
  /\ steps = 0 /\ outcome = 0
  /\ head = NoElem /\ tail = NoElem /\ elem = [p \in {} |-> 0] /\ held = {} /\ contents = <<>>

(* main: two elements are put, the first is got, read and freed.           *)
queue_main == <<"make_elem", "fifo_put", "make_elem", "fifo_put", "fifo_get", "read", "free">>
queue2_main == <<"make_elem", "fifo_put", "make_elem", "fifo_put", "fifo_get", "read", "free">>
fifo_main == IF version = "queue" THEN queue_main ELSE queue2_main
May(call) ==
  /\ outcome # -1
  /\ IF inMain THEN steps < Len(fifo_main) /\ fifo_main[steps + 1] = call ELSE steps < MaxSteps
  /\ steps' = steps + 1 /\ UNCHANGED <<version, inMain>>

(* make_elem(i, 10 * i), or make_elem(i), for the i-th element of main;    *)
(* surely_malloc ends the program if malloc fails.                         *)
elem_of(i) == [a |-> i, b |-> 10 * i, next |-> Uninit]
elem2_of(i) == [data |-> i, next |-> Uninit]
MakeElem ==
  /\ May("make_elem")
  /\ \/ \E p \in Elem \ DOMAIN elem :
          LET new == IF version = "queue" THEN elem_of((steps \div 2) + 1) ELSE elem2_of((steps \div 2) + 1) IN
            /\ elem' = [q \in DOMAIN elem \cup {p} |-> IF q = p THEN new ELSE elem[q]]
            /\ held' = held \cup {p}
       /\ UNCHANGED outcome
     \/ outcome' = -1 /\ UNCHANGED <<elem, held>>
  /\ UNCHANGED <<head, tail, contents>>

Linked_NextStays(p) == IF head = NoElem THEN elem ELSE [elem EXCEPT ![tail].next = p]
Linked(p) == LET cleared == [elem EXCEPT ![p].next = NoElem]
             IN  IF head = NoElem THEN cleared ELSE [cleared EXCEPT ![tail].next = p]
FifoPut ==
  /\ May("fifo_put")
  /\ \E p \in held :
       /\ elem' = Linked(p)
       /\ head' = (IF head = NoElem THEN p ELSE head) /\ tail' = p
       /\ held' = held \ {p} /\ contents' = Append(contents, p)
  /\ UNCHANGED outcome

FifoEmpty ==
  /\ May("fifo_empty")
  /\ outcome' = IF head = NoElem THEN 1 ELSE 0
  /\ UNCHANGED <<head, tail, elem, held, contents>>

(* The queue is not empty (fifo_get_spec).                                 *)
FifoGet ==
  /\ May("fifo_get") /\ contents # <<>>
  /\ head' = elem[head].next
  /\ held' = held \cup {head} /\ contents' = Tail(contents)
  /\ UNCHANGED <<tail, elem, outcome>>

(* p->a + p->b, or p->data.                                                *)
ReadElem ==
  /\ inMain /\ May("read")
  /\ outcome' = (LET e == elem[CHOOSE p \in held : TRUE] IN IF version = "queue" THEN e.a + e.b ELSE e.data)
  /\ UNCHANGED <<head, tail, elem, held, contents>>

FreeElem ==
  /\ May("free")
  /\ \E p \in held : elem' = [q \in DOMAIN elem \ {p} |-> elem[q]] /\ held' = held \ {p}
  /\ UNCHANGED <<head, tail, contents, outcome>>

FifoNext == MakeElem \/ FifoPut \/ FifoEmpty \/ FifoGet \/ ReadElem \/ FreeElem

-----------------------------------------------------------------------------
(* The elements that are reached from head are those that were put and not *)
(* got, in this order, ending in NULL and, if there are any, at tail, even *)
(* if an element is put again after it was got, while its next still points*)
(* into the queue; fifo_empty says whether there are any; main returns     *)
(* 1 + 10 (verif_queue.v:332), or 1.                                       *)
FifoHolds ==
  /\ (contents = <<>>) <=> (head = NoElem)
  /\ contents # <<>> =>
       /\ head = contents[1] /\ tail = contents[Len(contents)]
       /\ \A i \in DOMAIN contents :
            elem[contents[i]].next = IF i < Len(contents) THEN contents[i + 1] ELSE NoElem
  /\ (inMain /\ steps = Len(fifo_main) /\ outcome # -1) => outcome = IF version = "queue" THEN 11 ELSE 1
=============================================================================
