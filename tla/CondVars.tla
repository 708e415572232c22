------------------------------ MODULE CondVars ------------------------------
(***************************************************************************)
(* Programs of a few threads that wait for one another: progs/incrN.c,     *)
(* progs/incr.c and progs/incr2.c with locks, progs/cond.c and             *)
(* progs/cond_queue.c with condition variables.  Each has variables and    *)
(* actions of its own.                                                     *)
(*                                                                         *)
(* A definition Name_Suffix is a faulty variant of Name, for the mutation  *)
(* runs; nothing uses it.                                                  *)
(***************************************************************************)
EXTENDS Integers, FiniteSets, Sequences

CONSTANTS
  N,         \* number of threads of incrN.c (5 in the code)
  Request,   \* the addresses that malloc may return
  NULL,
  SIZE       \* slots of buf, 10 in the code

-----------------------------------------------------------------------------
(* The program progs/incrN.c: main starts N threads that increment one     *)
(* shared counter under its lock, waits for them, destroys the lock and    *)
(* reads the counter without it.  A thread is joined through a lock of its *)
(* own: main makes it, held, the thread releases it as the last thing it   *)
(* does, and main acquires it and frees it.  The increment is a load and a *)
(* store, so that without the lock updates would get lost.                 *)
IncrNThread == 0 .. N-1

VARIABLES
  nctr,        \* c.ctr
  nlock,       \* c.lock
  threadLock,  \* thread_lock[t]
  npc,         \* control point of thread t
  ntmp,        \* the value thread t loaded from c.ctr
  nmain,       \* control point of main
  ni,          \* its loop counter
  ntotal       \* the t that main returns
incrNVars == <<nctr, nlock, threadLock, npc, ntmp, nmain, ni, ntotal>>

(* A lock is not made yet, held, free, or freed: its memory is given back. *)
LockState == {"none", "held", "free", "freed"}

(* main has run init_ctr.                                                  *)
IncrNInit ==
  /\ nctr = 0
  /\ nlock = "free"
  /\ threadLock = [t \in IncrNThread |-> "none"]
  /\ npc = [t \in IncrNThread |-> "new"]
  /\ ntmp = [t \in IncrNThread |-> 0]
  /\ nmain = "spawn"
  /\ ni = 0
  /\ ntotal = 0

-----------------------------------------------------------------------------
(* thread_func.                                                            *)

Free_Ignored(l) == TRUE
Free(l) == l = "free"

Unlocked_Kept == "held"
Unlocked == "free"

(* incr's acquire, in a thread that has been spawned.                      *)
IncrNAcquire(t) ==
  /\ npc[t] = "acquire"
  /\ Free(nlock)
  /\ nlock' = "held"
  /\ npc' = [npc EXCEPT ![t] = "load"]
  /\ UNCHANGED <<nctr, threadLock, ntmp, nmain, ni, ntotal>>

IncrNLoad(t) ==
  /\ npc[t] = "load"
  /\ ntmp' = [ntmp EXCEPT ![t] = nctr]
  /\ npc' = [npc EXCEPT ![t] = "store"]
  /\ UNCHANGED <<nctr, nlock, threadLock, nmain, ni, ntotal>>

IncrNStore(t) ==
  /\ npc[t] = "store"
  /\ nctr' = ntmp[t] + 1
  /\ npc' = [npc EXCEPT ![t] = "release"]
  /\ UNCHANGED <<nlock, threadLock, ntmp, nmain, ni, ntotal>>

IncrNRelease(t) ==
  /\ npc[t] = "release"
  /\ nlock' = Unlocked
  /\ npc' = [npc EXCEPT ![t] = "join"]
  /\ UNCHANGED <<nctr, threadLock, ntmp, nmain, ni, ntotal>>

(* release of the thread's own lock: ready to be joined.                   *)
ReadyToJoin(t) ==
  /\ npc[t] = "join"
  /\ threadLock' = [threadLock EXCEPT ![t] = "free"]
  /\ npc' = [npc EXCEPT ![t] = "done"]
  /\ UNCHANGED <<nctr, nlock, ntmp, nmain, ni, ntotal>>

-----------------------------------------------------------------------------
(* main.                                                                   *)

NewLock_Open == "free"
NewLock == "held"

(* A round of the first loop: makelock and spawn.                          *)
Spawn ==
  /\ nmain = "spawn"
  /\ ni < N
  /\ threadLock' = [threadLock EXCEPT ![ni] = NewLock]
  /\ npc' = [npc EXCEPT ![ni] = "acquire"]
  /\ ni' = ni + 1
  /\ UNCHANGED <<nctr, nlock, ntmp, nmain, ntotal>>

AllSpawned ==
  /\ nmain = "spawn"
  /\ ni = N
  /\ nmain' = "join"
  /\ ni' = 0
  /\ UNCHANGED <<nctr, nlock, threadLock, npc, ntmp, ntotal>>

(* A round of the second loop is an acquire and a freelock.                *)
JoinAcquire ==
  /\ nmain = "join"
  /\ ni < N
  /\ Free(threadLock[ni])
  /\ threadLock' = [threadLock EXCEPT ![ni] = "held"]
  /\ nmain' = "freelock"
  /\ UNCHANGED <<nctr, nlock, npc, ntmp, ni, ntotal>>

NextJoin == ni + 1

JoinFree ==
  /\ nmain = "freelock"
  /\ threadLock' = [threadLock EXCEPT ![ni] = "freed"]
  /\ ni' = NextJoin
  /\ nmain' = "join"
  /\ UNCHANGED <<nctr, nlock, npc, ntmp, ntotal>>

LastJoin == ni >= N

(* dest_ctr is an acquire and a freelock as well.                          *)
DestroyAcquire ==
  /\ nmain = "join"
  /\ LastJoin
  /\ Free(nlock)
  /\ nlock' = "held"
  /\ nmain' = "destroy"
  /\ UNCHANGED <<nctr, threadLock, npc, ntmp, ni, ntotal>>

DestroyFree ==
  /\ nmain = "destroy"
  /\ nlock' = "freed"
  /\ nmain' = "read"
  /\ UNCHANGED <<nctr, threadLock, npc, ntmp, ni, ntotal>>

ReadTotal ==
  /\ nmain = "read"
  /\ ntotal' = nctr
  /\ nmain' = "done"
  /\ UNCHANGED <<nctr, nlock, threadLock, npc, ntmp, ni>>

-----------------------------------------------------------------------------
IncrNThreadStep(t) == IncrNAcquire(t) \/ IncrNLoad(t) \/ IncrNStore(t) \/ IncrNRelease(t) \/ ReadyToJoin(t)

IncrNMainStep ==
  \/ Spawn \/ AllSpawned \/ JoinAcquire \/ JoinFree
  \/ DestroyAcquire \/ DestroyFree \/ ReadTotal

IncrNNext == IncrNMainStep \/ \E t \in IncrNThread : IncrNThreadStep(t)

-----------------------------------------------------------------------------
IncrNTypeOK ==
  /\ nctr \in Nat
  /\ nlock \in LockState
  /\ threadLock \in [IncrNThread -> LockState]
  /\ npc \in [IncrNThread -> {"new", "acquire", "load", "store", "release", "join", "done"}]
  /\ ntmp \in [IncrNThread -> Nat]
  /\ nmain \in {"spawn", "join", "freelock", "destroy", "read", "done"}
  /\ ni \in 0 .. N
  /\ ntotal \in Nat

(* No thread's next access is to a lock that main has freed, and none is   *)
(* made to the counter's lock once main reads the counter without it.      *)
NoUseAfterFree ==
  \A t \in IncrNThread :
    /\ npc[t] \in {"acquire", "load", "store", "release"} => nlock # "freed"
    /\ npc[t] # "done" => threadLock[t] # "freed"

(* No increment is lost, and main has waited for every one of them: the    *)
(* counter it reads at the end is N.                                       *)
TotalIsN == nmain = "done" => ntotal = N

-----------------------------------------------------------------------------
(* The programs progs/incr.c and progs/incr2.c: main starts one thread and *)
(* both increment the counter under its lock; main joins the thread        *)
(* through a second lock, reads the counter and frees both locks.          *)
VARIABLES
  copy,             \* the file: "incr" or "incr2"
  ctr,              \* c.ctr, or ctr
  ctr_lock,         \* c.lock in incr.c: "held", "free" or "freed"
  thread_lock,      \* the same for the lock that main joins through
  at,               \* how far main and thread_func are
  tmp               \* what each loaded last; in main, at the end, t
pairVars == <<copy, ctr, ctr_lock, thread_lock, at, tmp>>

(* The steps of main after spawn: incr, the join, read, and the end.       *)
incr_NoLock == <<"load", "store">>
incr == <<"acquire", "load", "store", "release">>
read == <<"acquire", "load", "release">>
incr_main == incr \o <<"join">> \o read \o <<"acquire", "freeJoinLock", "freeLock">>
incr2_main == incr \o <<"join">> \o read \o <<"acquire", "freeJoinLock", "freeLock">>
thread_func == incr \o <<"finish">>
Code(t) == IF t = "thread" THEN thread_func ELSE IF copy = "incr" THEN incr_main ELSE incr2_main
Ended(t) == at[t] > Len(Code(t))

PairInit ==
  /\ copy \in {"incr", "incr2"}
  /\ ctr = 0 /\ ctr_lock = "free" /\ thread_lock = "held"
  /\ at = [t \in {"main", "thread"} |-> 1] /\ tmp = [t \in {"main", "thread"} |-> 0]

Is(t, l) == ~Ended(t) /\ Code(t)[at[t]] = l /\ at' = [at EXCEPT ![t] = @ + 1] /\ UNCHANGED copy

AcquireLock(t) == Is(t, "acquire") /\ ctr_lock = "free" /\ ctr_lock' = "held" /\ UNCHANGED <<ctr, thread_lock, tmp>>
LoadCtr(t)     == Is(t, "load") /\ tmp' = [tmp EXCEPT ![t] = ctr] /\ UNCHANGED <<ctr, ctr_lock, thread_lock>>
StoreCtr(t)    == Is(t, "store") /\ ctr' = tmp[t] + 1 /\ UNCHANGED <<ctr_lock, thread_lock, tmp>>
ReleaseLock(t) == Is(t, "release") /\ ctr_lock' = "free" /\ UNCHANGED <<ctr, thread_lock, tmp>>
Finish         == Is("thread", "finish") /\ thread_lock' = "free" /\ UNCHANGED <<ctr, ctr_lock, tmp>>
JoinThread     == Is("main", "join") /\ thread_lock = "free" /\ thread_lock' = "held" /\ UNCHANGED <<ctr, ctr_lock, tmp>>
FreeJoinLock   == Is("main", "freeJoinLock") /\ thread_lock' = "freed" /\ UNCHANGED <<ctr, ctr_lock, tmp>>
FreeLock       == Is("main", "freeLock") /\ ctr_lock' = "freed" /\ UNCHANGED <<ctr, thread_lock, tmp>>

IncrStep(t)    == AcquireLock(t) \/ LoadCtr(t) \/ StoreCtr(t) \/ ReleaseLock(t)
PairMain       == IncrStep("main") \/ JoinThread \/ FreeJoinLock \/ FreeLock
PairThread     == IncrStep("thread") \/ Finish
PairNext       == PairMain \/ PairThread

(* No increment is lost: main returns 2.                                   *)
CountIsTwo == Ended("main") => tmp["main"] = 2

(* main frees the locks when the thread does not use them any more.        *)
PairFreedLast == thread_lock = "freed" \/ ctr_lock = "freed" => Ended("thread")

-----------------------------------------------------------------------------
(* The program progs/cond.c: a thread sets data and signals, main waits    *)
(* for it with a condition variable, joins it through a second lock and    *)
(* frees the locks and the condition variable.  main holds the mutex from  *)
(* makelock until it waits, so that the thread cannot signal too early.    *)
VARIABLES
  mutex, tlock,   \* the holder: "main", "thread", "none"; or "freed"
  data,
  waiting,        \* main sleeps on cond and has not been signalled
  mpc, tpc,       \* control points of main and thread_func
  seen            \* main's v
condVars == <<mutex, tlock, data, waiting, mpc, tpc, seen>>

(* makelock gives a lock that its maker holds.                             *)
CondInit ==
  /\ mutex = "main" /\ tlock = "main"
  /\ data = 0 /\ waiting = FALSE /\ seen = 0
  /\ mpc = "test" /\ tpc = "acquire"

(* while(!v), and waitcond: it lets go of the mutex and sleeps in one step.*)
Test ==
  /\ mpc = "test"
  /\ IF seen = 0
     THEN mutex' = "none" /\ waiting' = TRUE /\ mpc' = "asleep"
     ELSE mpc' = "join" /\ UNCHANGED <<mutex, waiting>>
  /\ UNCHANGED <<tlock, data, tpc, seen>>

(* waitcond returns, signalled or not, when it has the mutex; v = data.    *)
Wake ==
  /\ mpc = "asleep" /\ mutex = "none"
  /\ mutex' = "main" /\ waiting' = FALSE
  /\ seen' = data
  /\ mpc' = "test"
  /\ UNCHANGED <<tlock, data, tpc>>

Join ==
  /\ mpc = "join" /\ tlock = "none"
  /\ tlock' = "freed" /\ mutex' = "freed"
  /\ mpc' = "done"
  /\ UNCHANGED <<data, waiting, tpc, seen>>

ThreadAcquire ==
  /\ tpc = "acquire" /\ mutex = "none"
  /\ mutex' = "thread" /\ data' = 1
  /\ tpc' = "signal"
  /\ UNCHANGED <<tlock, waiting, mpc, seen>>

CondSignal ==
  /\ tpc = "signal"
  /\ waiting' = FALSE
  /\ tpc' = "release"
  /\ UNCHANGED <<mutex, tlock, data, mpc, seen>>

ThreadRelease ==
  /\ tpc = "release"
  /\ mutex' = "none"
  /\ tpc' = "release2"
  /\ UNCHANGED <<tlock, data, waiting, mpc, seen>>

Release2 ==
  /\ tpc = "release2"
  /\ tlock' = "none"
  /\ tpc' = "done"
  /\ UNCHANGED <<mutex, data, waiting, mpc, seen>>

CondThread == ThreadAcquire \/ CondSignal \/ ThreadRelease \/ Release2
CondMain == Test \/ Join \/ Wake
CondNext == CondThread \/ CondMain

(* The threads run; a sleeper that nobody has signalled need not wake, and *)
(* does not wake again and again.                                          *)
CondUnsignalled == waiting /\ Wake

-----------------------------------------------------------------------------
(* main frees the locks and the condition variable when the thread is past *)
(* its last use of them, and v is 1 then.                                  *)
CondFreedLast == mpc = "done" => tpc = "done" /\ seen = 1 /\ mutex = "freed"

-----------------------------------------------------------------------------
(* The program progs/cond_queue.c: a producer and a consumer share a stack *)
(* of requests with a lock and two condition variables; signals are sent   *)
(* after the lock is released.  main starts the producer when the buffer   *)
(* is empty.                                                               *)
Role == {"main", "producer", "consumer"}
Slot == 0 .. SIZE-1

VARIABLES
  requests_lock,   \* its holder, or "none"
  length, buf,
  allocated,   \* the requests that are not freed
  asleep,      \* for each condition variable, the threads that wait and are not signalled
  pc,          \* control point of each thread
  request      \* the request it holds in its variable of that name
requestVars == <<requests_lock, length, buf, allocated, asleep, pc, request>>

(* main has made the lock, released it, and spawned the consumer.          *)
RequestInit ==
  /\ requests_lock = "none" /\ length = 0
  /\ buf = [s \in Slot |-> NULL]
  /\ allocated = {}
  /\ asleep = [c \in {"requests_consumer", "requests_producer"} |-> {}]
  /\ pc = [t \in Role |-> IF t = "producer" THEN "new" ELSE "acquire"]
  /\ request = [t \in Role |-> NULL]

Goto(t, l) == pc' = [pc EXCEPT ![t] = l]

GetRequest ==
  /\ pc["producer"] = "get"
  /\ \E r \in Request \ allocated :
       allocated' = allocated \cup {r} /\ request' = [request EXCEPT !["producer"] = r]
  /\ Goto("producer", "acquire")
  /\ UNCHANGED <<requests_lock, length, buf, asleep>>

(* acquire, at first and at the end of waitcond (its return without a      *)
(* signal included).                                                       *)
Condition(t) == IF t = "consumer" THEN "requests_consumer" ELSE "requests_producer"
Acquire(t) ==
  /\ pc[t] \in {"acquire", "asleep"} /\ requests_lock = "none"
  /\ requests_lock' = t
  /\ asleep' = [asleep EXCEPT ![Condition(t)] = @ \ {t}]
  /\ Goto(t, "test")
  /\ UNCHANGED <<length, buf, allocated, request>>

(* The loops around waitcond: on length >= 10, == 0 and != 0.              *)
MustWait_OffByOne(t) ==
  CASE t = "producer" -> length > SIZE
    [] t = "consumer" -> length = 0
    [] t = "main" -> length # 0
MustWait(t) ==
  CASE t = "producer" -> length >= SIZE
    [] t = "consumer" -> length = 0
    [] t = "main" -> length # 0

Wait(t) ==
  /\ pc[t] = "test" /\ MustWait(t)
  /\ asleep' = [asleep EXCEPT ![Condition(t)] = @ \cup {t}]
  /\ requests_lock' = "none"
  /\ Goto(t, "asleep")
  /\ UNCHANGED <<length, buf, allocated, request>>

(* add(request), length = len + 1; release.                                *)
Add ==
  /\ pc["producer"] = "test" /\ ~MustWait("producer")
  /\ buf' = [s \in Slot \cup {length} |-> IF s = length THEN request["producer"] ELSE buf[s]]
  /\ length' = length + 1
  /\ request' = [request EXCEPT !["producer"] = NULL]
  /\ requests_lock' = "none"
  /\ Goto("producer", "signal")
  /\ UNCHANGED <<allocated, asleep>>

(* remove(), length = len - 1; release.                                    *)
Remove ==
  /\ pc["consumer"] = "test" /\ ~MustWait("consumer")
  /\ request' = [request EXCEPT !["consumer"] = buf[length - 1]]
  /\ buf' = [buf EXCEPT ![length - 1] = NULL]
  /\ length' = length - 1
  /\ requests_lock' = "none"
  /\ Goto("consumer", "signal")
  /\ UNCHANGED <<allocated, asleep>>

(* signalcond wakes one of the threads that wait, if there is any.         *)
Woken(c) == IF asleep[c] = {} THEN asleep' = asleep
            ELSE \E s \in asleep[c] : asleep' = [asleep EXCEPT ![c] = @ \ {s}]
SignalConsumer_First == asleep' = asleep
SignalConsumer == Woken("requests_consumer")
SignalProducer == Woken("requests_producer")

Signal(t) ==
  /\ pc[t] = "signal"
  /\ IF t = "producer" THEN SignalConsumer ELSE SignalProducer
  /\ Goto(t, IF t = "producer" THEN "get" ELSE "process")
  /\ UNCHANGED <<requests_lock, length, buf, allocated, request>>

(* process_request(request).                                               *)
Process ==
  /\ pc["consumer"] = "process"
  /\ allocated' = allocated \ {request["consumer"]}
  /\ request' = [request EXCEPT !["consumer"] = NULL]
  /\ Goto("consumer", "acquire")
  /\ UNCHANGED <<requests_lock, length, buf, asleep>>

(* main has found the buffer empty: release, and spawn the producer.       *)
StartProducer ==
  /\ pc["main"] = "test" /\ ~MustWait("main")
  /\ requests_lock' = "none"
  /\ pc' = [pc EXCEPT !["main"] = "loop", !["producer"] = "get"]
  /\ UNCHANGED <<length, buf, allocated, asleep, request>>

ProducerStep == GetRequest \/ Add
ConsumerStep == Remove \/ Process
RequestStep(t) ==
  \/ Acquire(t) \/ Wait(t) \/ Signal(t)
  \/ t = "producer" /\ ProducerStep
  \/ t = "consumer" /\ ConsumerStep
  \/ t = "main" /\ StartProducer
RequestNext == \E t \in Role : RequestStep(t)

(* The threads run; a sleeper that nobody has signalled need not wake, and *)
(* does not wake again and again.                                          *)
Sleeps(t) == t \in asleep[Condition(t)]
AwakeStep(t) == RequestStep(t) /\ ~Sleeps(t)
RequestUnsignalled == \E t \in Role : Sleeps(t) /\ Acquire(t)

-----------------------------------------------------------------------------
(* length never leaves the buffer and counts its requests, which are at its*)
(* bottom; each request is in one place until it is processed, once, and   *)
(* then freed (add, remove, process_request).                              *)
RequestsAccounted ==
  /\ length \in 0..SIZE /\ DOMAIN buf = Slot
  /\ \A s \in Slot : buf[s] = NULL <=> s >= length
  /\ \A s, u \in Slot : s # u /\ buf[s] # NULL => buf[s] # buf[u]
  /\ allocated = ({buf[s] : s \in Slot} \cup {request[t] : t \in Role}) \ {NULL}
  /\ Cardinality(allocated) = length + Cardinality({t \in Role : request[t] # NULL})

(* No signal is lost: while there is a request the consumer takes one.     *)
(* (Which one is another matter: the buffer is a stack, and the oldest may *)
(* wait forever.)                                                          *)
RequestsTaken == length > 0 ~> pc["consumer"] = "process"
=============================================================================
