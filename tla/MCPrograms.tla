----------------------------- MODULE MCPrograms -----------------------------
(***************************************************************************)
(* The programs that start threads and wait for them: the test program of  *)
(* hashtable_atomic.c, on top of the operations of HashTable, and, in the  *)
(* second half, the run that has ghost_queue.c (GhostQueue) and incrN.c,   *)
(* incr.c, incr2.c, cond.c and cond_queue.c (CondVars) besides.  One of    *)
(* them works, the others stay as they were initialized.                   *)
(***************************************************************************)
EXTENDS HashTable, Sequences

-----------------------------------------------------------------------------
(* The test program of hashtable_atomic.c: main starts the threads, each   *)
(* adds the same keys in the same order and counts its successes, and main *)
(* adds up the counts, joining thread after thread through a lock of its   *)
(* own.  The calls to add_item are HashTable's, step by step.              *)
CONSTANT Keys   \* the keys a thread adds, in order (1, 2, 3 in the code)

ASSUME ThreadAssumption == /\ IsFiniteSet(Thread) /\ Thread # {}
                           /\ Thread = 0 .. Cardinality(Thread)-1
ASSUME KeysAssumption   == /\ Keys \in Seq(Key)
                           /\ \A j, k \in 1 .. Len(Keys) : Keys[j] = Keys[k] => j = k
ASSUME OneIsItem        == 1 \in Item

VARIABLES
  fpc,       \* control point of each thread in f
  done,      \* number of keys each thread has added (its i)
  count,     \* its total
  results,   \* *results[t]
  joinLock,  \* thread_locks[t]
  mpc,       \* control point of main
  i,         \* the thread main spawns or joins next
  total      \* main's total

mainVars == <<mpc, i, total>>
testVars == <<fpc, done, count, results, joinLock, mainVars>>

NThreads == Cardinality(Thread)

(* main has made the locks, all held, and the table.                       *)
TestInit ==
  /\ Init
  /\ fpc = [t \in Thread |-> "new"]
  /\ done = [t \in Thread |-> 0]
  /\ count = [t \in Thread |-> 0]
  /\ results = [t \in Thread |-> 0]
  /\ joinLock = [t \in Thread |-> "held"]
  /\ mpc = "spawn"
  /\ i = 0
  /\ total = 0

(* f calls add_item(i + 1, 1).                                             *)
CallAdd(t) ==
  /\ fpc[t] = "loop"
  /\ done[t] < Len(Keys)
  /\ Call(t, [kind |-> "add", key |-> Keys[done[t] + 1], item |-> 1])
  /\ fpc' = [fpc EXCEPT ![t] = "adding"]
  /\ UNCHANGED <<done, count, results, joinLock, mainVars>>

InAdd(t) ==
  /\ fpc[t] = "adding"
  /\ Step(t)
  /\ UNCHANGED testVars

(* add_item has returned r: if(r) total++.                                 *)
AddReturned(t) ==
  /\ fpc[t] = "adding"
  /\ pc[t] = "out"
  /\ count' = [count EXCEPT ![t] = @ + ret[t]]
  /\ done' = [done EXCEPT ![t] = @ + 1]
  /\ fpc' = [fpc EXCEPT ![t] = "loop"]
  /\ UNCHANGED <<vars, results, joinLock, mainVars>>

(* *res = total.                                                           *)
StoreResult(t) ==
  /\ fpc[t] = "loop"
  /\ done[t] = Len(Keys)
  /\ results' = [results EXCEPT ![t] = count[t]]
  /\ fpc' = [fpc EXCEPT ![t] = "release"]
  /\ UNCHANGED <<vars, done, count, joinLock, mainVars>>

ReleaseJoin(t) ==
  /\ fpc[t] = "release"
  /\ joinLock' = [joinLock EXCEPT ![t] = "free"]
  /\ fpc' = [fpc EXCEPT ![t] = "done"]
  /\ UNCHANGED <<vars, done, count, results, mainVars>>

Spawn ==
  /\ mpc = "spawn"
  /\ fpc' = [fpc EXCEPT ![i] = "loop"]
  /\ IF i + 1 < NThreads
     THEN i' = i + 1 /\ UNCHANGED mpc
     ELSE i' = 0 /\ mpc' = "join"
  /\ UNCHANGED <<vars, done, count, results, joinLock, total>>

Acquirable_Held(l) == l \in {"held", "free"}
Acquirable(l) == l = "free"

(* acquire and freelock.                                                   *)
Join ==
  /\ mpc = "join"
  /\ Acquirable(joinLock[i])
  /\ joinLock' = [joinLock EXCEPT ![i] = "freed"]
  /\ mpc' = "add"
  /\ UNCHANGED <<vars, fpc, done, count, results, i, total>>

(* total += *results[i]; free.                                             *)
AddUp ==
  /\ mpc = "add"
  /\ total' = total + results[i]
  /\ IF i + 1 < NThreads
     THEN i' = i + 1 /\ mpc' = "join"
     ELSE mpc' = "done" /\ UNCHANGED i
  /\ UNCHANGED <<vars, fpc, done, count, results, joinLock>>

ThreadStep(t) == \/ CallAdd(t) \/ InAdd(t) \/ AddReturned(t)
                 \/ StoreResult(t) \/ ReleaseJoin(t)
MainStep == Spawn \/ Join \/ AddUp

TestNext == MainStep \/ \E t \in Thread : ThreadStep(t)

-----------------------------------------------------------------------------
(* "total should be equal to 3": of the threads that race to add a key     *)
(* exactly one succeeds.                                                   *)
TotalIsNumberOfKeys == mpc = "done" => total = Len(Keys)

(* A thread does not touch its lock once main has freed it.                *)
JoinedLast == \A t \in Thread : joinLock[t] = "freed" => fpc[t] = "done"

-----------------------------------------------------------------------------
(* The run.                                                                *)
CONSTANTS
  NProducers, Calls, Stamped, NULL, SIZE, MaxSpurious,  \* of GhostQueue
  N, Request                                         \* of CondVars, with SIZE and NULL

ASSUME NAssumption     == N \in Nat
ASSUME GhostAssumption == /\ NProducers \in Nat \ {0} /\ Calls \in Nat
                          /\ SIZE \in Nat \ {0}
ASSUME RequestAssumption == IsFiniteSet(Request) /\ NULL \notin Request

VARIABLES
  program,   \* which one works
  nctr, nlock, threadLock, npc, ntmp, nmain, ni, ntotal,                    \* incrN.c
  copy, pctr, plock, pjoin, at, ptmp,                                       \* incr.c and incr2.c
  qbuf, qlength, head, tail, qlock, addc, remc, qpc, qop, len, qret, spurious,
  next, stage, qi, res, qjoin, qmain, qmi,                                  \* ghost_queue.c
  mutex, tlock, data, waiting, cmain, cpc, seen,                            \* cond.c
  rlock, rlength, rbuf, allocated, asleep, rpc, request                     \* cond_queue.c

incrVars == <<nctr, nlock, threadLock, npc, ntmp, nmain, ni, ntotal>>

pairVars == <<copy, pctr, plock, pjoin, at, ptmp>>

tableVars == <<vars, testVars>>

Ghost == INSTANCE GhostQueue
           WITH Thread <- 0 .. 2*NProducers-1, Item <- Stamped, buf <- qbuf, length <- qlength, lock <- qlock,
                pc <- qpc, op <- qop, ret <- qret, i <- qi, joinLock <- qjoin, mpc <- qmain, mi <- qmi
ghostVars == <<qbuf, qlength, head, tail, qlock, addc, remc, qpc, qop, len, qret, spurious,
               next, stage, qi, res, qjoin, qmain, qmi>>

Cond == INSTANCE CondVars
          WITH ctr <- pctr, ctr_lock <- plock, thread_lock <- pjoin, tmp <- ptmp, mpc <- cmain, tpc <- cpc,
               requests_lock <- rlock, length <- rlength, buf <- rbuf, pc <- rpc
condVars == <<mutex, tlock, data, waiting, cmain, cpc, seen>>

requestVars == <<rlock, rlength, rbuf, allocated, asleep, rpc, request>>

allVars == <<program, incrVars, pairVars, tableVars, ghostVars, condVars, requestVars>>

ProgramsInit ==
  /\ program \in {"incrN", "incr_pair", "hashtable_test", "ghost_queue", "cond", "cond_queue"}
  /\ Cond!IncrNInit /\ Cond!PairInit /\ TestInit /\ Ghost!TestInit /\ Cond!CondInit /\ Cond!RequestInit
  /\ program = "incr_pair" \/ copy = "incr"

InIncrN    == program = "incrN" /\ UNCHANGED <<program, pairVars, tableVars, ghostVars, condVars, requestVars>>
InPair     == program = "incr_pair" /\ UNCHANGED <<program, incrVars, tableVars, ghostVars, condVars, requestVars>>
InTest     == program = "hashtable_test" /\ UNCHANGED <<program, incrVars, pairVars, ghostVars, condVars, requestVars>>
InGhost    == program = "ghost_queue" /\ UNCHANGED <<program, incrVars, pairVars, tableVars, condVars, requestVars>>
InCond     == program = "cond" /\ UNCHANGED <<program, incrVars, pairVars, tableVars, ghostVars, requestVars>>
InRequests == program = "cond_queue" /\ UNCHANGED <<program, incrVars, pairVars, tableVars, ghostVars, condVars>>

ProgramsNext ==
  \/ InIncrN /\ Cond!IncrNNext
  \/ InPair /\ Cond!PairNext
  \/ InTest /\ TestNext
  \/ InGhost /\ Ghost!TestNext
  \/ InCond /\ Cond!CondNext
  \/ InRequests /\ Cond!RequestNext

(* What main, and the thread of number t, can do in the program that works.*)
MainRuns ==
  \/ InIncrN /\ Cond!IncrNMainStep
  \/ InPair /\ Cond!PairMain
  \/ InTest /\ MainStep
  \/ InGhost /\ Ghost!MainStep
  \/ InCond /\ Cond!CondMain /\ ~waiting
  \/ InRequests /\ Cond!AwakeStep("main")

ThreadRuns(t) ==
  \/ InIncrN /\ t \in 0 .. N-1 /\ Cond!IncrNThreadStep(t)
  \/ InPair /\ t = 0 /\ Cond!PairThread
  \/ InTest /\ t \in Thread /\ ThreadStep(t)
  \/ InGhost /\ t \in 0 .. 2*NProducers-1 /\ Ghost!ThreadStep(t)
  \/ InCond /\ t = 0 /\ Cond!CondThread
  \/ InRequests /\ t = 0 /\ Cond!AwakeStep("producer")
  \/ InRequests /\ t = 1 /\ Cond!AwakeStep("consumer")

(* Every thread that can run does in the end.  A sleeper that nobody has   *)
(* signalled need not wake, and does not wake again and again.             *)
ProgramsSpec ==
  /\ ProgramsInit /\ [][ProgramsNext]_allVars
  /\ WF_allVars(MainRuns)
  /\ \A t \in 0 .. 4 : WF_allVars(ThreadRuns(t))
  /\ <>[][~((InCond /\ Cond!CondUnsignalled) \/ (InRequests /\ Cond!RequestUnsignalled))]_allVars

-----------------------------------------------------------------------------
(* main reads what the threads have counted: incr.c and incr2.c return 2,  *)
(* and "total should be equal to 3" in the test of the hash table.         *)
CountsAreRight == Cond!CountIsTwo /\ TotalIsNumberOfKeys

(* What main frees, nobody uses any more: the locks of the threads, the    *)
(* queue, the condition variable; and what it waited for has happened.     *)
FreedWhenUnused == JoinedLast /\ Cond!PairFreedLast /\ Ghost!DeletedWhenUnused /\ Cond!CondFreedLast

(* incrN.c: no thread uses a lock that main has freed, and main reads what *)
(* all of them have counted.                                               *)
NoUseAfterFree == Cond!NoUseAfterFree
TotalIsN == Cond!TotalIsN

(* The stamps of ghost_queue.c are in the order in which the queue hands   *)
(* the requests out.                                                       *)
StampsInOrder == Ghost!StampsInOrder

(* cond_queue.c: no request is lost, handed out twice or freed while it is *)
(* in the buffer, and while there is one the consumer goes on.             *)
RequestsServed == []Cond!RequestsAccounted /\ Cond!RequestsTaken

(* The programs come to their end, where they have one: no join and no     *)
(* wait lasts forever.  main of cond_queue.c gets to start the producer.   *)
ProgramsEnd ==
  <>(\/ program = "incrN" /\ nmain = "done"
     \/ program = "incr_pair" /\ Cond!Ended("main")
     \/ program = "hashtable_test" /\ mpc = "done"
     \/ program = "ghost_queue" /\ qmain = "deleted"
     \/ program = "cond" /\ cmain = "done"
     \/ program = "cond_queue" /\ rpc["main"] = "loop")
-----------------------------------------------------------------------------
\* The instance that TLC checks.
\* Three keys that all start at the last entry of the table.
MCKeys == <<3, 7, 11>>
=============================================================================
