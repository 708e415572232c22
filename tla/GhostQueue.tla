----------------------------- MODULE GhostQueue -----------------------------
(***************************************************************************)
(* The program progs/ghost_queue.c: producers and consumers on the queue   *)
(* of ConcQueue, whose q_add also stamps the request with the number of    *)
(* requests so far.  Every thread makes the same number of calls, then     *)
(* releases a lock of its own on which main waits; main deletes the queue  *)
(* when it has joined them all.                                            *)
(***************************************************************************)
EXTENDS ConcQueue, Sequences, SequencesExt

CONSTANTS
  NProducers,   \* 3 in the code, as many as consumers
  Calls         \* what each thread adds or removes, 3 in the code

NThreads == 2 * NProducers

(* Thread is 0 .. NThreads-1 and Item is 0 .. NProducers * Calls - 1.      *)

VARIABLES
  next,      \* tgt->d.next
  stage,     \* control point of each thread in f or g
  i,         \* its i
  res,       \* the timestamps in its res, for a consumer
  joinLock,  \* thread_locks[t]
  mpc,       \* control point of main
  mi         \* main's i

testVars == <<next, stage, i, res, joinLock, mpc, mi>>

IsProducer(t) == t < NProducers

(* main has made the queue.                                                *)
TestInit ==
  /\ Init
  /\ next = 0
  /\ stage = [t \in Thread |-> "new"]
  /\ i = [t \in Thread |-> 0]
  /\ res = [t \in Thread |-> <<>>]
  /\ joinLock = [t \in Thread |-> "none"]
  /\ mpc = "spawn"
  /\ mi = 0

(* Unstamped is what every producer adds, all alike until they are stamped.  *)
Unstamped == 0

CallQueue(t) ==
  /\ stage[t] = "loop"
  /\ i[t] < Calls
  /\ Call(t, IF IsProducer(t) THEN [kind |-> "add", item |-> Unstamped] ELSE [kind |-> "remove"])
  /\ stage' = [stage EXCEPT ![t] = "call"]
  /\ UNCHANGED <<next, i, res, joinLock, mpc, mi>>

(* request->timestamp = n, in the critical section.                        *)
Stamp_Reread == length
Stamp == next

StampAndPut(t) ==
  /\ Put(t, Stamp)
  /\ next' = next + 1
  /\ UNCHANGED <<stage, i, res, joinLock, mpc, mi>>

InQueue(t) ==
  /\ Acquire(t) \/ InLock(t)
  /\ UNCHANGED testVars

SpuriousWakeup(t) == WakeSpuriously(t) /\ UNCHANGED testVars

(* The call has returned; a consumer frees the request and keeps its stamp.*)
CallReturned(t) ==
  /\ stage[t] = "call"
  /\ pc[t] = "out"
  /\ stage' = [stage EXCEPT ![t] = "loop"]
  /\ i' = [i EXCEPT ![t] = i[t] + 1]
  /\ res' = [res EXCEPT ![t] = IF IsProducer(t) THEN <<>> ELSE Append(res[t], ret[t])]
  /\ UNCHANGED <<vars, next, joinLock, mpc, mi>>

(* release2(arg).                                                          *)
Finished(t) == i[t] = Calls

ReleaseJoin(t) ==
  /\ stage[t] = "loop"
  /\ Finished(t)
  /\ joinLock' = [joinLock EXCEPT ![t] = "free"]
  /\ stage' = [stage EXCEPT ![t] = "done"]
  /\ UNCHANGED <<vars, next, i, res, mpc, mi>>

(* makelock, which leaves the lock held, and spawn.                        *)
Spawn ==
  /\ mpc = "spawn"
  /\ joinLock' = [joinLock EXCEPT ![mi] = "held"]
  /\ stage' = [stage EXCEPT ![mi] = "loop"]
  /\ IF mi + 1 < NThreads
     THEN mi' = mi + 1 /\ UNCHANGED mpc
     ELSE mi' = 0 /\ mpc' = "join"
  /\ UNCHANGED <<vars, next, i, res>>

Acquirable_Held(l) == l \in {"held", "free"}
Acquirable(l) == l = "free"

(* acquire and freelock2.                                                  *)
Join ==
  /\ mpc = "join"
  /\ Acquirable(joinLock[mi])
  /\ joinLock' = [joinLock EXCEPT ![mi] = "freed"]
  /\ IF mi + 1 < NThreads
     THEN mi' = mi + 1 /\ UNCHANGED mpc
     ELSE mpc' = "delete" /\ UNCHANGED mi
  /\ UNCHANGED <<vars, next, stage, i, res>>

(* q_del: acquire, then everything is freed.                               *)
DeleteQueue ==
  /\ mpc = "delete"
  /\ lock = {}
  /\ mpc' = "deleted"
  /\ UNCHANGED <<vars, next, stage, i, res, joinLock, mi>>

MainStep == Spawn \/ Join \/ DeleteQueue

ThreadStep(t) == \/ CallQueue(t) \/ InQueue(t) \/ StampAndPut(t)
                 \/ CallReturned(t) \/ ReleaseJoin(t)

TestNext == MainStep \/ \E t \in Thread : ThreadStep(t) \/ SpuriousWakeup(t)

allVars == <<vars, testVars>>

(* Every thread that can run does in the end.  Nobody has to be given the  *)
(* lock in preference to others: each makes a bounded number of calls.     *)
TestSpec ==
  /\ TestInit
  /\ [][TestNext]_allVars
  /\ WF_allVars(MainStep)
  /\ \A t \in Thread : WF_allVars(ThreadStep(t))

-----------------------------------------------------------------------------
(* What a consumer removes, it removes in the order of the timestamps.  No *)
(* two consumers get the same stamp, and the newest stamps are those in    *)
(* the queue, in order.                                                    *)
StampsInOrder ==
  /\ \A t \in Thread : \A j, k \in DOMAIN res[t] : j < k => res[t][j] < res[t][k]
  /\ \A s, t \in Thread : s # t => ToSet(res[s]) \cap ToSet(res[t]) = {}
  /\ \A j \in DOMAIN Content : Content[j] = next - length + j - 1

(* The precondition of q_del: tgt is empty, and nobody is in it any more.  *)
DeletedWhenUnused ==
  mpc = "deleted" => /\ length = 0
                     /\ lock = {}
                     /\ \A t \in Thread : stage[t] = "done" /\ pc[t] = "out"

(* The program terminates: no consumer waits for a request and no producer *)
(* for room that never comes.                                              *)
Terminates == <>(mpc = "deleted")
=============================================================================
