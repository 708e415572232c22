--------------------------- MODULE ProgramsProofs ---------------------------
(***************************************************************************)
(* Proofs about the programs that start threads and wait for them, for any *)
(* number of threads, calls, keys and slots: what they count is right, and *)
(* what they free is not used any more.                                    *)
(***************************************************************************)
EXTENDS MCPrograms, HashTableProofs, SequenceTheorems

-----------------------------------------------------------------------------
(* incrN.c.                                                                *)

(* The threads whose increment is in the counter.                          *)
Counted == {t \in Cond!IncrNThread : npc[t] \in {"release", "join", "done"}}

(* The threads between acquire and release of the counter's nlock.          *)
Inside(t) == npc[t] \in {"load", "store", "release"}

LockInv ==
  /\ \A s, t \in Cond!IncrNThread : Inside(s) /\ Inside(t) => s = t
  /\ \A t \in Cond!IncrNThread : Inside(t) => nlock = "held" /\ nmain # "destroy"
  /\ nmain = "destroy" => nlock = "held"
  /\ nlock = "freed" <=> nmain \in {"read", "done"}

CounterInv ==
  /\ nctr = Cardinality(Counted)
  /\ \A t \in Cond!IncrNThread : npc[t] = "store" => ntmp[t] = nctr

(* The threads main has joined.                                            *)
Joined(t) == \/ nmain \in {"join", "freelock"} /\ t < ni
             \/ nmain \in {"destroy", "read", "done"}

JoinedInv ==
  \A t \in Cond!IncrNThread :
    /\ npc[t] = "new" <=> nmain = "spawn" /\ t >= ni
    /\ npc[t] \in {"acquire", "load", "store", "release", "join"} => threadLock[t] = "held"
    /\ Joined(t) => npc[t] = "done"
    /\ nmain = "freelock" /\ t = ni => npc[t] = "done"
    /\ threadLock[t] = "freed" => Joined(t)

EndInv ==
  /\ nmain = "freelock" => ni < N
  /\ nmain = "done" => ntotal = nctr

IncrInv == Cond!IncrNTypeOK /\ LockInv /\ CounterInv /\ JoinedInv /\ EndInv

LEMMA IncrThreads ==
  /\ IsFiniteSet(Cond!IncrNThread) /\ Cardinality(Cond!IncrNThread) = N
  /\ IsFiniteSet(Counted)
<1>1. IsFiniteSet(Cond!IncrNThread) /\ Cardinality(Cond!IncrNThread) = N
  BY FS_Interval, NAssumption DEF Cond!IncrNThread
<1>2. IsFiniteSet(Counted)
  BY <1>1, FS_Subset DEF Counted
<1> QED BY <1>1, <1>2

LEMMA IncrInitInv == Cond!IncrNInit => IncrInv
<1> SUFFICES ASSUME Cond!IncrNInit PROVE IncrInv
  OBVIOUS
<1>1. Counted = {}
  BY DEF Cond!IncrNInit, Counted
<1>2. nctr = Cardinality(Counted)
  BY <1>1, FS_EmptySet DEF Cond!IncrNInit
<1> QED
  BY <1>2, NAssumption
  DEF Cond!IncrNInit, IncrInv, Cond!IncrNTypeOK, Cond!LockState, LockInv, Inside, CounterInv, JoinedInv, Joined,
      EndInv, Cond!IncrNThread

LEMMA IncrNextInv == IncrInv /\ [Cond!IncrNNext]_incrVars => IncrInv'
<1> SUFFICES ASSUME IncrInv, [Cond!IncrNNext]_incrVars PROVE IncrInv'
  OBVIOUS
<1> USE NAssumption DEF IncrInv
<1>0. \A t \in Cond!IncrNThread : t \in Int
  BY DEF Cond!IncrNThread
<1>1. ASSUME NEW t \in Cond!IncrNThread, Cond!IncrNAcquire(t) PROVE IncrInv'
  <2> USE <1>1 DEF Cond!IncrNAcquire, Cond!Free
  <2>1. Cond!IncrNTypeOK'
    BY DEF Cond!IncrNTypeOK, Cond!LockState
  <2>2. LockInv'
    BY DEF Cond!IncrNTypeOK, LockInv, Inside
  <2>3. Counted' = Counted
    BY DEF Cond!IncrNTypeOK, Counted
  <2>4. CounterInv'
    BY <2>3 DEF Cond!IncrNTypeOK, CounterInv
  <2>5. JoinedInv' /\ EndInv'
    BY DEF Cond!IncrNTypeOK, JoinedInv, Joined, EndInv
  <2> QED BY <2>1, <2>2, <2>4, <2>5
<1>2. ASSUME NEW t \in Cond!IncrNThread, Cond!IncrNLoad(t) PROVE IncrInv'
  <2> USE <1>2 DEF Cond!IncrNLoad
  <2>1. Cond!IncrNTypeOK'
    BY DEF Cond!IncrNTypeOK, Cond!LockState
  <2>2. LockInv'
    BY DEF Cond!IncrNTypeOK, LockInv, Inside
  <2>3. Counted' = Counted
    BY DEF Cond!IncrNTypeOK, Counted
  <2>4. CounterInv'
    BY <2>3 DEF Cond!IncrNTypeOK, CounterInv
  <2>5. JoinedInv' /\ EndInv'
    BY DEF Cond!IncrNTypeOK, JoinedInv, Joined, EndInv
  <2> QED BY <2>1, <2>2, <2>4, <2>5
<1>3. ASSUME NEW t \in Cond!IncrNThread, Cond!IncrNStore(t) PROVE IncrInv'
  <2> USE <1>3 DEF Cond!IncrNStore
  <2>1. Cond!IncrNTypeOK'
    BY DEF Cond!IncrNTypeOK, Cond!LockState
  <2>2. LockInv'
    BY DEF Cond!IncrNTypeOK, LockInv, Inside
  <2>3. Counted' = Counted \cup {t} /\ t \notin Counted
    BY DEF Cond!IncrNTypeOK, Counted
  <2>4. Cardinality(Counted') = Cardinality(Counted) + 1
    BY <2>3, IncrThreads, FS_AddElement
  <2>5. nctr' = nctr + 1
    BY DEF CounterInv
  <2>6. \A s \in Cond!IncrNThread : npc'[s] # "store"
    BY DEF Cond!IncrNTypeOK, LockInv, Inside
  <2>7. CounterInv'
    BY <2>4, <2>5, <2>6 DEF CounterInv
  <2>8. nmain # "done"
    BY DEF JoinedInv, Joined
  <2>9. JoinedInv' /\ EndInv'
    BY <2>8 DEF Cond!IncrNTypeOK, JoinedInv, Joined, EndInv
  <2> QED BY <2>1, <2>2, <2>7, <2>9
<1>4. ASSUME NEW t \in Cond!IncrNThread, Cond!IncrNRelease(t) PROVE IncrInv'
  <2> USE <1>4 DEF Cond!IncrNRelease, Cond!Unlocked
  <2>1. Cond!IncrNTypeOK'
    BY DEF Cond!IncrNTypeOK, Cond!LockState
  <2>2. LockInv'
    BY DEF Cond!IncrNTypeOK, LockInv, Inside
  <2>3. Counted' = Counted
    BY DEF Cond!IncrNTypeOK, Counted
  <2>4. CounterInv'
    BY <2>3 DEF Cond!IncrNTypeOK, CounterInv
  <2>5. JoinedInv' /\ EndInv'
    BY DEF Cond!IncrNTypeOK, JoinedInv, Joined, EndInv
  <2> QED BY <2>1, <2>2, <2>4, <2>5
<1>5. ASSUME NEW t \in Cond!IncrNThread, Cond!ReadyToJoin(t) PROVE IncrInv'
  <2> USE <1>5 DEF Cond!ReadyToJoin
  <2>1. Cond!IncrNTypeOK'
    BY DEF Cond!IncrNTypeOK, Cond!LockState
  <2>2. LockInv'
    BY DEF Cond!IncrNTypeOK, LockInv, Inside
  <2>3. Counted' = Counted
    BY DEF Cond!IncrNTypeOK, Counted
  <2>4. CounterInv'
    BY <2>3 DEF Cond!IncrNTypeOK, CounterInv
  <2>5. JoinedInv' /\ EndInv'
    BY DEF Cond!IncrNTypeOK, JoinedInv, Joined, EndInv
  <2> QED BY <2>1, <2>2, <2>4, <2>5
<1>6. CASE Cond!Spawn
  <2> USE <1>6 DEF Cond!Spawn, Cond!NewLock
  <2>0. PICK k \in Cond!IncrNThread : k = ni
    BY DEF Cond!IncrNTypeOK, Cond!IncrNThread
  <2>1. Cond!IncrNTypeOK'
    BY <2>0 DEF Cond!IncrNTypeOK, Cond!LockState
  <2>2. LockInv'
    BY DEF Cond!IncrNTypeOK, LockInv, Inside
  <2>3. Counted' = Counted
    BY <2>0 DEF Cond!IncrNTypeOK, Counted, JoinedInv
  <2>4. CounterInv'
    BY <2>0, <2>3 DEF Cond!IncrNTypeOK, CounterInv
  <2>5. JoinedInv' /\ EndInv'
    BY <2>0, <1>0 DEF Cond!IncrNTypeOK, JoinedInv, Joined, EndInv
  <2> QED BY <2>1, <2>2, <2>4, <2>5
<1>7. CASE Cond!AllSpawned
  <2> USE <1>7 DEF Cond!AllSpawned
  <2>1. Cond!IncrNTypeOK' /\ LockInv' /\ EndInv'
    BY DEF Cond!IncrNTypeOK, LockInv, Inside, EndInv
  <2>2. CounterInv'
    BY DEF CounterInv, Counted
  <2>3. JoinedInv'
    BY <1>0 DEF Cond!IncrNTypeOK, JoinedInv, Joined, Cond!IncrNThread
  <2> QED BY <2>1, <2>2, <2>3
<1>8. CASE Cond!JoinAcquire
  <2> USE <1>8 DEF Cond!JoinAcquire, Cond!Free
  <2>0. PICK k \in Cond!IncrNThread : k = ni
    BY DEF Cond!IncrNTypeOK, Cond!IncrNThread
  <2>1. Cond!IncrNTypeOK' /\ LockInv' /\ EndInv'
    BY DEF Cond!IncrNTypeOK, Cond!LockState, LockInv, Inside, EndInv
  <2>2. CounterInv'
    BY DEF CounterInv, Counted
  <2>3. npc[k] = "done"
    BY <2>0, <1>0 DEF Cond!IncrNTypeOK, JoinedInv
  <2>4. JoinedInv'
    BY <2>0, <2>3, <1>0 DEF Cond!IncrNTypeOK, JoinedInv, Joined
  <2> QED BY <2>1, <2>2, <2>4
<1>9. CASE Cond!JoinFree
  <2> USE <1>9 DEF Cond!JoinFree, Cond!NextJoin
  <2>0. PICK k \in Cond!IncrNThread : k = ni
    BY DEF Cond!IncrNTypeOK, EndInv, Cond!IncrNThread
  <2>1. Cond!IncrNTypeOK'
    BY <2>0 DEF Cond!IncrNTypeOK, Cond!LockState, EndInv
  <2>4. LockInv' /\ EndInv'
    BY DEF LockInv, Inside, EndInv
  <2>2. CounterInv'
    BY DEF CounterInv, Counted
  <2>3. JoinedInv'
    BY <2>0, <1>0 DEF Cond!IncrNTypeOK, JoinedInv, Joined
  <2> QED BY <2>1, <2>2, <2>3, <2>4
<1>10. CASE Cond!DestroyAcquire
  <2> USE <1>10 DEF Cond!DestroyAcquire, Cond!LastJoin, Cond!Free
  <2>1. Cond!IncrNTypeOK' /\ LockInv' /\ EndInv'
    BY DEF Cond!IncrNTypeOK, Cond!LockState, LockInv, Inside, EndInv
  <2>2. CounterInv'
    BY DEF CounterInv, Counted
  <2>3. \A t \in Cond!IncrNThread : t < ni
    BY DEF Cond!IncrNTypeOK, Cond!IncrNThread
  <2>4. JoinedInv'
    BY <2>3, <1>0 DEF JoinedInv, Joined
  <2> QED BY <2>1, <2>2, <2>4
<1>11. CASE Cond!DestroyFree
  <2> USE <1>11 DEF Cond!DestroyFree
  <2>1. Cond!IncrNTypeOK' /\ LockInv' /\ EndInv'
    BY DEF Cond!IncrNTypeOK, Cond!LockState, LockInv, Inside, EndInv, JoinedInv, Joined
  <2>2. CounterInv'
    BY DEF CounterInv, Counted
  <2>3. JoinedInv'
    BY DEF JoinedInv, Joined
  <2> QED BY <2>1, <2>2, <2>3
<1>12. CASE Cond!ReadTotal
  <2> USE <1>12 DEF Cond!ReadTotal
  <2>1. Cond!IncrNTypeOK' /\ LockInv' /\ EndInv'
    BY DEF Cond!IncrNTypeOK, Cond!LockState, LockInv, Inside, EndInv
  <2>2. CounterInv'
    BY DEF CounterInv, Counted
  <2>3. JoinedInv'
    BY DEF JoinedInv, Joined
  <2> QED BY <2>1, <2>2, <2>3
<1>13. CASE UNCHANGED incrVars
  BY <1>13 DEF incrVars, Cond!IncrNTypeOK, LockInv, Inside, CounterInv, Counted, JoinedInv, Joined, EndInv
<1> QED
  BY <1>1, <1>2, <1>3, <1>4, <1>5, <1>6, <1>7, <1>8, <1>9, <1>10, <1>11, <1>12, <1>13
  DEF Cond!IncrNNext, Cond!IncrNMainStep, Cond!IncrNThreadStep

LEMMA IncrCorrect == IncrInv => NoUseAfterFree /\ TotalIsN
<1> SUFFICES ASSUME IncrInv PROVE NoUseAfterFree /\ TotalIsN
  OBVIOUS
<1>1. NoUseAfterFree
  BY DEF NoUseAfterFree, Cond!NoUseAfterFree, IncrInv, LockInv, JoinedInv, Joined
<1>2. ASSUME nmain = "done" PROVE ntotal = N
  <2>1. Counted = Cond!IncrNThread
    BY <1>2 DEF IncrInv, JoinedInv, Joined, Counted
  <2> QED BY <1>2, <2>1, IncrThreads DEF IncrInv, EndInv, CounterInv
<1> QED BY <1>1, <1>2 DEF TotalIsN, Cond!TotalIsN

-----------------------------------------------------------------------------
(* incr.c and incr2.c.                                                     *)

LEMMA ThreadCode ==
  LET code == Cond!Code("thread") IN
  /\ Len(code) = 5
  /\ code[1] = "acquire" /\ code[2] = "load" /\ code[3] = "store" /\ code[4] = "release"
  /\ code[5] = "finish"
BY DEF Cond!Code, Cond!thread_func, Cond!incr

LEMMA MainCode ==
  LET code == Cond!Code("main") IN
  /\ Len(code) = 11
  /\ code[1] = "acquire" /\ code[2] = "load" /\ code[3] = "store" /\ code[4] = "release"
  /\ code[5] = "join" /\ code[6] = "acquire" /\ code[7] = "load" /\ code[8] = "release"
  /\ code[9] = "acquire" /\ code[10] = "freeJoinLock" /\ code[11] = "freeLock"
<1> DEFINE code == Cond!Code("main")
<1>1. code = <<"acquire", "load", "store", "release">> \o <<"join">> \o <<"acquire", "load", "release">>
             \o <<"acquire", "freeJoinLock", "freeLock">>
  BY DEF Cond!Code, Cond!incr_main, Cond!incr2_main, Cond!incr, Cond!read
<1> HIDE DEF code
<1>2. Len(code) = 11
  BY <1>1
<1>3. /\ code[1] = "acquire" /\ code[2] = "load" /\ code[3] = "store" /\ code[4] = "release"
  BY <1>1
<1>4. /\ code[5] = "join" /\ code[6] = "acquire" /\ code[7] = "load" /\ code[8] = "release"
  BY <1>1
<1>5. /\ code[9] = "acquire" /\ code[10] = "freeJoinLock" /\ code[11] = "freeLock"
  BY <1>1
<1> QED BY <1>2, <1>3, <1>4, <1>5 DEF code

(* Which of the two holds the counter's lock.                              *)
MainHolds   == at["main"] \in {2, 3, 4, 7, 8, 10, 11}
ThreadHolds == at["thread"] \in {2, 3, 4}

PairInv ==
  /\ at \in [{"main", "thread"} -> Nat]
  /\ ptmp \in [{"main", "thread"} -> Int]
  /\ at["main"] \in 1 .. 12 /\ at["thread"] \in 1 .. 6
  /\ ~(MainHolds /\ ThreadHolds)
  /\ plock = IF MainHolds \/ ThreadHolds THEN "held" ELSE IF at["main"] = 12 THEN "freed" ELSE "free"
  /\ pjoin = IF at["main"] > 10 THEN "freed"
             ELSE IF at["main"] < 6 /\ at["thread"] = 6 THEN "free" ELSE "held"
  /\ at["main"] > 5 => at["thread"] = 6
  /\ pctr = (IF at["main"] > 3 THEN 1 ELSE 0) + (IF at["thread"] > 3 THEN 1 ELSE 0)
  /\ at["main"] = 3 \/ at["main"] > 7 => ptmp["main"] = pctr
  /\ at["thread"] = 3 => ptmp["thread"] = pctr

LEMMA PairInitInv == Cond!PairInit => PairInv
BY DEF Cond!PairInit, PairInv, MainHolds, ThreadHolds

(* Where the two are when they take a step.                                *)
LEMMA ThreadAt ==
  ASSUME PairInv, NEW l, Cond!Is("thread", l)
  PROVE  /\ at' = [at EXCEPT !["thread"] = @ + 1]
         /\ l = "acquire" => at["thread"] = 1
         /\ l = "load" => at["thread"] = 2
         /\ l = "store" => at["thread"] = 3
         /\ l = "release" => at["thread"] = 4
         /\ l = "finish" => at["thread"] = 5
<1> DEFINE th == at["thread"]
<1>1. th \in 1 .. 6 /\ ~(th > 5)
  BY ThreadCode DEF Cond!Is, Cond!Ended, PairInv
<1>2. th = 1 \/ th = 2 \/ th = 3 \/ th = 4 \/ th = 5
  BY <1>1
<1>3. l = Cond!Code("thread")[th] /\ at' = [at EXCEPT !["thread"] = @ + 1]
  BY DEF Cond!Is
<1> HIDE DEF th
<1> QED BY <1>2, <1>3, ThreadCode DEF th

LEMMA MainAt ==
  ASSUME PairInv, NEW l, Cond!Is("main", l)
  PROVE  /\ at' = [at EXCEPT !["main"] = @ + 1]
         /\ l = "acquire" => at["main"] \in {1, 6, 9}
         /\ l = "load" => at["main"] \in {2, 7}
         /\ l = "store" => at["main"] = 3
         /\ l = "release" => at["main"] \in {4, 8}
         /\ l = "join" => at["main"] = 5
         /\ l = "freeJoinLock" => at["main"] = 10
         /\ l = "freeLock" => at["main"] = 11
<1> DEFINE m == at["main"]
<1>1. m \in 1 .. 12 /\ ~(m > 11)
  BY MainCode DEF Cond!Is, Cond!Ended, PairInv
<1>2. m \in {1, 2, 3, 4, 5, 6, 7, 8, 9, 10, 11}
  BY <1>1
<1>3. l = Cond!Code("main")[m] /\ at' = [at EXCEPT !["main"] = @ + 1]
  BY DEF Cond!Is
<1> HIDE DEF m
<1> QED BY <1>2, <1>3, MainCode DEF m

LEMMA PairNextInv == PairInv /\ [Cond!PairNext]_pairVars => PairInv'
<1> SUFFICES ASSUME PairInv, [Cond!PairNext]_pairVars PROVE PairInv'
  OBVIOUS
<1> USE DEF PairInv, MainHolds, ThreadHolds
<1>1. CASE Cond!AcquireLock("main")
  BY <1>1, MainAt DEF Cond!AcquireLock
<1>2. CASE Cond!LoadCtr("main")
  BY <1>2, MainAt DEF Cond!LoadCtr
<1>3. CASE Cond!StoreCtr("main")
  BY <1>3, MainAt DEF Cond!StoreCtr
<1>4. CASE Cond!ReleaseLock("main")
  BY <1>4, MainAt DEF Cond!ReleaseLock
<1>5. CASE Cond!JoinThread
  BY <1>5, MainAt DEF Cond!JoinThread
<1>6. CASE Cond!FreeJoinLock
  BY <1>6, MainAt DEF Cond!FreeJoinLock
<1>7. CASE Cond!FreeLock
  BY <1>7, MainAt DEF Cond!FreeLock
<1>8. CASE Cond!AcquireLock("thread")
  BY <1>8, ThreadAt DEF Cond!AcquireLock
<1>9. CASE Cond!LoadCtr("thread")
  BY <1>9, ThreadAt DEF Cond!LoadCtr
<1>10. CASE Cond!StoreCtr("thread")
  BY <1>10, ThreadAt DEF Cond!StoreCtr
<1>11. CASE Cond!ReleaseLock("thread")
  BY <1>11, ThreadAt DEF Cond!ReleaseLock
<1>12. CASE Cond!Finish
  BY <1>12, ThreadAt DEF Cond!Finish
<1>13. CASE UNCHANGED pairVars
  BY <1>13 DEF pairVars
<1> QED
  BY <1>1, <1>2, <1>3, <1>4, <1>5, <1>6, <1>7, <1>8, <1>9, <1>10, <1>11, <1>12, <1>13
  DEF Cond!PairNext, Cond!PairMain, Cond!PairThread, Cond!IncrStep

LEMMA PairCorrect == PairInv => Cond!CountIsTwo /\ Cond!PairFreedLast
<1> SUFFICES ASSUME PairInv PROVE Cond!CountIsTwo /\ Cond!PairFreedLast
  OBVIOUS
<1>0. at["main"] \in 1 .. 12 /\ at["thread"] \in 1 .. 6
  BY DEF PairInv
<1>1. /\ Cond!Ended("main") => at["main"] = 12
      /\ at["thread"] = 6 => Cond!Ended("thread")
  <2>1. ~(at["main"] > 11) => ~Cond!Ended("main")
    BY MainCode DEF Cond!Ended
  <2>2. at["thread"] > 5 => Cond!Ended("thread")
    BY ThreadCode DEF Cond!Ended
  <2> QED BY <1>0, <2>1, <2>2
<1>2. Cond!CountIsTwo
  BY <1>1 DEF PairInv, Cond!CountIsTwo
<1>3. Cond!PairFreedLast
  BY <1>1 DEF PairInv, MainHolds, ThreadHolds, Cond!PairFreedLast
<1> QED BY <1>2, <1>3

-----------------------------------------------------------------------------
(* cond.c.                                                                 *)

CondInv ==
  /\ cmain \in {"test", "asleep", "join", "done"}
  /\ cpc \in {"acquire", "signal", "release", "release2", "done"}
  /\ mutex = IF cmain = "done" THEN "freed"
             ELSE IF cmain \in {"test", "join"} THEN "main"
             ELSE IF cpc \in {"signal", "release"} THEN "thread" ELSE "none"
  /\ tlock = IF cmain = "done" THEN "freed" ELSE IF cpc = "done" THEN "none" ELSE "main"
  /\ cmain # "asleep" => cpc \notin {"signal", "release"}
  /\ cmain = "done" => cpc = "done"
  /\ data \in {0, 1} /\ seen \in {0, 1}
  /\ cmain \in {"join", "done"} => seen = 1

LEMMA CondInitInv == Cond!CondInit => CondInv
BY DEF Cond!CondInit, CondInv

LEMMA CondNextInv == CondInv /\ [Cond!CondNext]_condVars => CondInv'
<1> SUFFICES ASSUME CondInv, [Cond!CondNext]_condVars PROVE CondInv'
  OBVIOUS
<1> USE DEF CondInv
<1>1. CASE Cond!CondThread
  BY <1>1 DEF Cond!CondThread, Cond!ThreadAcquire, Cond!CondSignal, Cond!ThreadRelease, Cond!Release2
<1>2. CASE Cond!CondMain
  BY <1>2 DEF Cond!CondMain, Cond!Test, Cond!Wake, Cond!Join
<1>3. CASE UNCHANGED condVars
  BY <1>3 DEF condVars
<1> QED BY <1>1, <1>2, <1>3 DEF Cond!CondNext

LEMMA CondCorrect == CondInv => Cond!CondFreedLast
BY DEF CondInv, Cond!CondFreedLast

-----------------------------------------------------------------------------
(* The test program of hashtable_atomic.c.                                 *)

KeyNumber == 1 .. Len(Keys)

(* A thread is in add_item with its next key, or in no call.               *)
CallInv ==
  \A t \in Thread :
    /\ fpc[t] = "adding" => done[t] < Len(Keys)
    /\ fpc[t] = "adding" /\ pc[t] # "out" => op[t] = [kind |-> "add", key |-> Keys[done[t] + 1], item |-> 1]
    /\ fpc[t] # "adding" => pc[t] = "out"
    /\ fpc[t] \in {"release", "done"} => done[t] = Len(Keys) /\ results[t] = count[t]

(* The threads that main has joined, and whose results it has added.       *)
HasJoined(t) == \/ mpc = "done"
                \/ mpc \in {"join", "add"} /\ t < i
                \/ mpc = "add" /\ t = i
Added == IF mpc = "done" THEN NThreads ELSE IF mpc = "spawn" THEN 0 ELSE i

ThreadsInv ==
  \A t \in Thread :
    /\ fpc[t] = "new" <=> mpc = "spawn" /\ t >= i
    /\ joinLock[t] # "held" => fpc[t] = "done"
    /\ joinLock[t] = "freed" <=> HasJoined(t)

TestType ==
  /\ fpc \in [Thread -> {"new", "loop", "adding", "release", "done"}]
  /\ done \in [Thread -> 0 .. Len(Keys)]
  /\ count \in [Thread -> Int]
  /\ results \in [Thread -> Int]
  /\ joinLock \in [Thread -> {"held", "free", "freed"}]
  /\ mpc \in {"spawn", "join", "add", "done"}
  /\ i \in Thread
  /\ total \in Int

(* The successes of a thread, those of the call it is returning from       *)
(* included, and the number of keys it has seen in the table.              *)
Returning(t) == fpc[t] = "adding" /\ pc[t] = "out"
Successes(t) == IF Returning(t) THEN count[t] + ret[t] ELSE count[t]
Seen(t) == IF Returning(t) THEN done[t] + 1 ELSE done[t]

Nobody == -1

(* won[j] is the thread whose add_item has set the item of the j-th key.   *)
KeysWon(won) ==
  /\ \A j \in KeyNumber : won[j] = Nobody <=> \A e \in Entry : keys[e] = Keys[j] => values[e] = 0
  /\ \A t \in Thread : Successes(t) = Cardinality({j \in KeyNumber : won[j] = t})
  /\ \A t \in Thread : \A j \in KeyNumber : j <= Seen(t) => won[j] # Nobody
  /\ total = Cardinality({j \in KeyNumber : won[j] # Nobody /\ won[j] < Added})

WonInv == \E won \in [KeyNumber -> Thread \cup {Nobody}] : KeysWon(won)

TestInv == IInv /\ TestType /\ CallInv /\ ThreadsInv /\ WonInv

LEMMA TestFacts ==
  /\ NThreads \in Nat \ {0} /\ Thread = 0 .. NThreads-1
  /\ \A t \in Thread : t \in Int /\ t >= 0 /\ t # Nobody
  /\ Len(Keys) \in Nat
  /\ \A j \in KeyNumber : j \in Int /\ Keys[j] \in Key /\ Keys[j] # 0
  /\ \A j, k \in KeyNumber : Keys[j] = Keys[k] => j = k
  /\ IsFiniteSet(KeyNumber) /\ Cardinality(KeyNumber) = Len(Keys)
<1>1. NThreads \in Nat
  BY ThreadAssumption, FS_CardinalityType DEF NThreads
<1>2. Thread = 0 .. NThreads-1
  BY ThreadAssumption DEF NThreads
<1>3. NThreads # 0
  BY <1>1, <1>2, ThreadAssumption
<1>4. Len(Keys) \in Nat /\ \A j \in KeyNumber : j \in Int /\ Keys[j] \in Key
  BY KeysAssumption DEF KeyNumber
<1>5. \A j \in KeyNumber : Keys[j] # 0
  BY <1>4, KeyAssumption
<1>6. \A j, k \in KeyNumber : Keys[j] = Keys[k] => j = k
  BY KeysAssumption DEF KeyNumber
<1>7. IsFiniteSet(KeyNumber) /\ Cardinality(KeyNumber) = Len(Keys)
  BY <1>4, FS_Interval DEF KeyNumber
<1> QED BY <1>1, <1>2, <1>3, <1>4, <1>5, <1>6, <1>7 DEF Nobody

(* A set of key numbers is finite, and has one more when one comes in.     *)
LEMMA KeySets ==
  ASSUME NEW S \in SUBSET KeyNumber
  PROVE  /\ IsFiniteSet(S) /\ Cardinality(S) \in Nat
         /\ \A j \in KeyNumber : j \notin S => Cardinality(S \cup {j}) = Cardinality(S) + 1
<1>1. IsFiniteSet(S)
  BY TestFacts, FS_Subset
<1> QED BY <1>1, FS_CardinalityType, FS_AddElement

LEMMA TestInitInv == TestInit => TestInv
<1> SUFFICES ASSUME TestInit PROVE TestInv
  OBVIOUS
<1> USE DEF TestInit
<1>1. IInv
  BY InitInv
<1>2. TestType /\ CallInv /\ ThreadsInv
  BY TestFacts DEF Init, TestType, CallInv, ThreadsInv, HasJoined
<1>3. KeysWon([j \in KeyNumber |-> Nobody])
  <2> DEFINE won == [j \in KeyNumber |-> Nobody]
  <2>1. \A t \in Thread : {j \in KeyNumber : won[j] = t} = {}
    BY TestFacts
  <2>2. {j \in KeyNumber : won[j] # Nobody /\ won[j] < Added} = {}
    OBVIOUS
  <2>3. \A t \in Thread : Successes(t) = 0 /\ Seen(t) = 0
    BY DEF Successes, Seen, Returning
  <2>4. \A e \in Entry : values[e] = 0
    BY DEF Init
  <2>5. \A t \in Thread : \A j \in KeyNumber : ~(j <= Seen(t))
    BY <2>3, TestFacts DEF KeyNumber
  <2> QED BY <2>1, <2>2, <2>3, <2>4, <2>5, FS_EmptySet DEF KeysWon
<1>4. [j \in KeyNumber |-> Nobody] \in [KeyNumber -> Thread \cup {Nobody}]
  OBVIOUS
<1> QED BY <1>1, <1>2, <1>3, <1>4 DEF TestInv, WonInv

(* The threads call the table as its clients may.                          *)
LEMMA TestCallsTable ==
  ASSUME TestType, CallInv, [TestNext]_tableVars
  PROVE  [Next]_vars
<1>1. ASSUME NEW t \in Thread, CallAdd(t) PROVE Next
  <2>1. done[t] + 1 \in KeyNumber
    BY <1>1, TestFacts DEF CallAdd, TestType, KeyNumber
  <2>2. [kind |-> "add", key |-> Keys[done[t] + 1], item |-> 1] \in Operation
    BY <2>1, TestFacts, OneIsItem DEF Operation, AddItem
  <2> QED BY <1>1, <2>2 DEF CallAdd, Next
<1>2. ASSUME NEW t \in Thread, InAdd(t) PROVE Next
  BY <1>2 DEF InAdd, Next
<1>3. ASSUME NEW t \in Thread, AddReturned(t) \/ StoreResult(t) \/ ReleaseJoin(t) PROVE UNCHANGED vars
  BY <1>3 DEF AddReturned, StoreResult, ReleaseJoin
<1>4. CASE MainStep
  BY <1>4 DEF MainStep, Spawn, Join, AddUp
<1>5. CASE UNCHANGED tableVars
  BY <1>5 DEF tableVars
<1> QED BY <1>1, <1>2, <1>3, <1>4, <1>5 DEF TestNext, ThreadStep

(* A step in add_item changes nothing of the other threads, and the call   *)
(* stays the same until it returns.                                        *)
LEMMA StepEffect ==
  ASSUME TypeOK, NEW t \in Thread, Step(t)
  PROVE  /\ pc[t] # "out"
         /\ pc' \in [Thread -> {"out", "probe", "claim", "value"}]
         /\ \A s \in Thread \ {t} : pc'[s] = pc[s] /\ op'[s] = op[s] /\ ret'[s] = ret[s]
         /\ pc'[t] # "out" => op'[t] = op[t] /\ ret'[t] = ret[t]
<1> USE DEF TypeOK
<1>1. CASE Probe(t)
  BY <1>1 DEF Probe, Found, TryNextEntry, Return, Goto
<1>2. CASE Claim(t)
  BY <1>2 DEF Claim, Found, TryNextEntry, Goto
<1>3. CASE UseValue(t)
  BY <1>3 DEF UseValue, Store, Load, AddIfUnset, Return, Goto
<1> QED BY <1>1, <1>2, <1>3 DEF Step

LEMMA TestControl ==
  ASSUME TypeOK, TestType, CallInv, ThreadsInv, [TestNext]_tableVars
  PROVE  TestType' /\ CallInv' /\ ThreadsInv'
<1> USE DEF TestType, mainVars
<1>a. \A t \in Thread : t \in Int
  BY TestFacts
<1>b. NThreads \in Nat \ {0} /\ Thread = 0 .. NThreads-1 /\ i \in 0 .. NThreads-1
  BY TestFacts
<1>c. Len(Keys) \in Nat
  BY TestFacts
<1>d. NThreads \in Nat \ {0} /\ i \in 0 .. NThreads-1
  BY <1>b
<1>1. ASSUME NEW t \in Thread, CallAdd(t) PROVE TestType' /\ CallInv' /\ ThreadsInv'
  <2> USE <1>1 DEF CallAdd
  <2>1. TestType' /\ ThreadsInv'
    BY DEF ThreadsInv, HasJoined
  <2>2. CallInv'
    BY DEF TypeOK, Call, Goto, CallInv
  <2> QED BY <2>1, <2>2
<1>2. ASSUME NEW t \in Thread, InAdd(t) PROVE TestType' /\ CallInv' /\ ThreadsInv'
  <2>1. UNCHANGED <<fpc, done, count, results, joinLock, mpc, i, total>> /\ fpc[t] = "adding"
    BY <1>2 DEF InAdd, testVars
  <2>2. TestType' /\ ThreadsInv'
    BY <2>1 DEF ThreadsInv, HasJoined
  <2>3. /\ pc[t] # "out"
        /\ \A s \in Thread \ {t} : pc'[s] = pc[s] /\ op'[s] = op[s]
        /\ pc'[t] # "out" => op'[t] = op[t]
    BY <1>2, StepEffect DEF InAdd
  <2>4. CallInv'
    BY <2>1, <2>3 DEF CallInv
  <2> QED BY <2>2, <2>4
<1>3. ASSUME NEW t \in Thread, AddReturned(t) PROVE TestType' /\ CallInv' /\ ThreadsInv'
  <2>a. ret[t] \in Item \cup {0, 1} /\ \A x \in Item : x \in Int
    BY ItemAssumption DEF TypeOK
  <2>0. ret[t] \in Int
    BY <2>a
  <2> USE <1>3 DEF AddReturned, vars
  <2>1. done[t] < Len(Keys)
    BY DEF CallInv
  <2>2. TestType'
    BY <2>0, <2>1, <1>c
  <2>3. ThreadsInv'
    BY DEF ThreadsInv, HasJoined
  <2>4. CallInv'
    BY <2>1 DEF CallInv
  <2> QED BY <2>2, <2>3, <2>4
<1>4. ASSUME NEW t \in Thread, StoreResult(t) PROVE TestType' /\ CallInv' /\ ThreadsInv'
  BY <1>4 DEF StoreResult, vars, CallInv, ThreadsInv, HasJoined
<1>5. ASSUME NEW t \in Thread, ReleaseJoin(t) PROVE TestType' /\ CallInv' /\ ThreadsInv'
  BY <1>5 DEF ReleaseJoin, vars, CallInv, ThreadsInv, HasJoined
<1>6. CASE Spawn
  <2> USE <1>6 DEF Spawn, vars
  <2>1. fpc[i] = "new"
    BY <1>a DEF ThreadsInv
  <2>2. TestType'
    <3>1. i' \in 0 .. NThreads-1
      BY <1>d
    <3>2. i' \in Thread
      BY <3>1, <1>b
    <3> QED BY <3>2
  <2>3. CallInv'
    BY <2>1 DEF CallInv
  <2>4. CASE i + 1 < NThreads
    <3>1. i' = i + 1 /\ mpc' = mpc
      BY <2>4
    <3> QED BY <2>2, <2>3, <3>1, <1>a DEF ThreadsInv, HasJoined
  <2>5. CASE ~(i + 1 < NThreads)
    <3>1. i' = 0 /\ mpc' = "join"
      BY <2>5
    <3>2. \A t \in Thread : t >= 0 /\ ~(t > i)
      BY <2>5, <1>b
    <3>3. \A t \in Thread : t = i \/ ~(t >= i)
      BY <3>2, <1>a
    <3> QED BY <2>2, <2>3, <3>1, <3>2, <3>3, <1>a DEF ThreadsInv, HasJoined
  <2> QED BY <2>4, <2>5
<1>7. CASE Join
  <2> USE <1>7 DEF Join, Acquirable, vars
  <2>1. TestType' /\ CallInv'
    BY <1>a, <1>b DEF CallInv
  <2>2. ThreadsInv'
    BY <1>a, <1>b DEF ThreadsInv, HasJoined
  <2> QED BY <2>1, <2>2
<1>8. CASE AddUp
  <2> USE <1>8 DEF AddUp, vars
  <2>1. CallInv'
    BY DEF CallInv
  <2>2. TestType'
    <3>1. i' \in 0 .. NThreads-1
      BY <1>d
    <3>2. i' \in Thread
      BY <3>1, <1>b
    <3> QED BY <3>2
  <2>3. CASE i + 1 < NThreads
    <3>1. i' = i + 1 /\ mpc' = "join"
      BY <2>3
    <3>2. \A t \in Thread : t < i + 1 <=> t < i \/ t = i
      BY <1>a
    <3> QED BY <2>1, <2>2, <3>1, <3>2 DEF ThreadsInv, HasJoined
  <2>4. CASE ~(i + 1 < NThreads)
    <3>1. i' = i /\ mpc' = "done"
      BY <2>4
    <3>2. \A t \in Thread : t < i \/ t = i
      BY <2>4, <1>b
    <3> QED BY <2>1, <2>2, <3>1, <3>2 DEF ThreadsInv, HasJoined
  <2> QED BY <2>3, <2>4
<1>9. CASE UNCHANGED tableVars
  BY <1>9 DEF tableVars, vars, testVars, CallInv, ThreadsInv, HasJoined
<1> QED
  BY <1>1, <1>2, <1>3, <1>4, <1>5, <1>6, <1>7, <1>8, <1>9 DEF TestNext, ThreadStep, MainStep

(* Who has won which key stays as it is when no item is set, no result is  *)
(* added and no thread has seen more keys.                                 *)
LEMMA WonKept ==
  ASSUME NEW won, KeysWon(won),
         \A j \in KeyNumber : (\A e \in Entry : keys[e] = Keys[j] => values[e] = 0)
                              <=> (\A e \in Entry : keys'[e] = Keys[j] => values'[e] = 0),
         \A t \in Thread : Successes(t)' = Successes(t) /\ Seen(t)' = Seen(t),
         total' = total, Added' = Added
  PROVE  KeysWon(won)'
BY DEF KeysWon

LEMMA AddIsCalled ==
  ASSUME TypeOK, SearchInv, TestType, CallInv, NEW t \in Thread, InAdd(t)
  PROVE  LET k == done[t] + 1 IN
         /\ k \in KeyNumber /\ op[t].kind = "add" /\ op[t].key = Keys[k] /\ op[t].item = 1
         /\ pc[t] = "value" => keys[idx[t]] = Keys[k]
         /\ fpc[t] = "adding" /\ pc[t] # "out" /\ idx[t] \in Entry
<1>1. fpc[t] = "adding" /\ pc[t] # "out"
  BY StepEffect DEF InAdd
<1>2. op[t] = [kind |-> "add", key |-> Keys[done[t] + 1], item |-> 1] /\ done[t] < Len(Keys)
  BY <1>1 DEF CallInv
<1>3. done[t] + 1 \in KeyNumber
  BY <1>2, TestFacts DEF TestType, KeyNumber
<1> QED BY <1>1, <1>2, <1>3 DEF SearchInv, TypeOK

(* Where main and the other threads are does not matter to the count.      *)
LEMMA WonQuiet ==
  ASSUME NEW won, KeysWon(won), UNCHANGED table, UNCHANGED total, Added' = Added,
         \A t \in Thread : Successes(t)' = Successes(t) /\ Seen(t)' = Seen(t)
  PROVE  KeysWon(won)'
BY WonKept DEF table

LEMMA WonClaim ==
  ASSUME IInv, TestType, CallInv, NEW won, KeysWon(won), NEW t \in Thread, InAdd(t), Claim(t)
  PROVE  KeysWon(won)'
<1> DEFINE f == idx[t]
           k == done[t] + 1
<1>1. k \in KeyNumber /\ op[t].key = Keys[k] /\ f \in Entry /\ pc[t] # "out"
  BY AddIsCalled DEF IInv
<1>2. keys' = [keys EXCEPT ![f] = IF keys[f] = 0 THEN Keys[k] ELSE keys[f]] /\ values' = values
  BY <1>1 DEF Claim, Claimed
<1>3. \A s \in Thread : pc'[s] = "out" <=> pc[s] = "out"
  BY <1>1 DEF IInv, TypeOK, Claim, TryNextEntry, Found, Goto
<1>4. \A s \in Thread : ret'[s] = ret[s]
  BY DEF Claim, TryNextEntry, Found
<1>5. UNCHANGED <<fpc, done, count, results, mpc, i, total>>
  BY DEF InAdd, testVars, mainVars
<1>6. \A s \in Thread : Successes(s)' = Successes(s) /\ Seen(s)' = Seen(s)
  BY <1>3, <1>4, <1>5 DEF Successes, Seen, Returning
<1>7. Added' = Added
  BY <1>5 DEF Added
<1>8. ASSUME NEW j \in KeyNumber
      PROVE  (\A e \in Entry : keys[e] = Keys[j] => values[e] = 0)
             <=> (\A e \in Entry : keys'[e] = Keys[j] => values'[e] = 0)
  <2>1. keys[f] = 0 => values[f] = 0
    BY <1>1 DEF IInv, FreshInv
  <2>2. Keys[j] # 0
    BY TestFacts
  <2>3. \A e \in Entry : e # f => keys'[e] = keys[e]
    BY <1>2
  <2>4. keys'[f] = IF keys[f] = 0 THEN Keys[k] ELSE keys[f]
    BY <1>1, <1>2 DEF IInv, TypeOK
  <2> QED BY <2>1, <2>2, <2>3, <2>4, <1>1, <1>2
<1> QED BY <1>5, <1>6, <1>7, <1>8, WonKept

LEMMA WonAdd ==
  ASSUME IInv, TestType, CallInv, ThreadsInv, NEW won \in [KeyNumber -> Thread \cup {Nobody}], KeysWon(won),
         NEW t \in Thread, InAdd(t), UseValue(t)
  PROVE  WonInv'
<1> DEFINE f == idx[t]
           k == done[t] + 1
<1>1. /\ k \in KeyNumber /\ op[t].kind = "add" /\ op[t].key = Keys[k] /\ op[t].item = 1
      /\ f \in Entry /\ pc[t] # "out" /\ fpc[t] = "adding" /\ keys[f] = Keys[k]
  BY AddIsCalled DEF IInv, UseValue
<1>2. AddIfUnset(t) /\ UNCHANGED keys
  BY <1>1 DEF UseValue, Store, Load
<1>3. /\ UNCHANGED <<fpc, done, count, results, mpc, i, total>>
      /\ Added' = Added
  BY DEF InAdd, testVars, mainVars, Added
<1>4. /\ pc' = [pc EXCEPT ![t] = "out"] /\ pc \in [Thread -> {"out", "probe", "claim", "value"}]
      /\ ret' = [ret EXCEPT ![t] = IF values[f] = 0 THEN 1 ELSE 0] /\ ret \in [Thread -> Item \cup {0, 1}]
  BY <1>2 DEF AddIfUnset, Unset, Return, Goto, IInv, TypeOK
<1>5. \A s \in Thread \ {t} : Successes(s)' = Successes(s) /\ Seen(s)' = Seen(s)
  BY <1>3, <1>4 DEF Successes, Seen, Returning
<1>6. /\ Successes(t) = count[t] /\ Seen(t) = done[t]
      /\ Successes(t)' = count[t] + (IF values[f] = 0 THEN 1 ELSE 0) /\ Seen(t)' = done[t] + 1
  BY <1>1, <1>3, <1>4 DEF Successes, Seen, Returning
<1>7. \A e \in Entry : keys[e] = Keys[k] => e = f
  <2>1. NoDuplicateKeys
    BY InvUnique
  <2> QED BY <2>1, <1>1, TestFacts DEF NoDuplicateKeys
<1>8. \A s \in Thread : \A j \in KeyNumber : j <= Seen(s)' => j <= Seen(s) \/ (s = t /\ j = k)
  <2>1. \A j \in KeyNumber : j <= done[t] + 1 => j <= done[t] \/ j = k
    BY TestFacts DEF TestType
  <2> QED BY <1>5, <1>6, <2>1
<1>9. CASE values[f] # 0
  <2>1. UNCHANGED values
    BY <1>2, <1>9 DEF AddIfUnset, Unset
  <2>2. won[k] # Nobody
    BY <1>1, <1>9 DEF KeysWon
  <2>3. Successes(t)' = Successes(t)
    BY <1>6, <1>9, TestFacts DEF TestType
  <2>4. \A j \in KeyNumber : won[j] = Nobody <=> \A e \in Entry : keys'[e] = Keys[j] => values'[e] = 0
    BY <1>2, <2>1 DEF KeysWon
  <2>5. \A s \in Thread : Successes(s)' = Cardinality({j \in KeyNumber : won[j] = s})
    BY <1>5, <2>3 DEF KeysWon
  <2>6. \A s \in Thread : \A j \in KeyNumber : j <= Seen(s)' => won[j] # Nobody
    BY <1>8, <2>2 DEF KeysWon
  <2>7. KeysWon(won)'
    BY <1>3, <2>4, <2>5, <2>6 DEF KeysWon
  <2> QED BY <2>7 DEF WonInv
<1>10. CASE values[f] = 0
  <2>1. values' = [values EXCEPT ![f] = 1]
    BY <1>1, <1>2, <1>10 DEF AddIfUnset, Unset
  <2>2. won[k] = Nobody /\ t # Nobody
    BY <1>1, <1>7, <1>10, TestFacts DEF KeysWon
  <2>3. PICK new \in [KeyNumber -> Thread \cup {Nobody}] :
          new[k] = t /\ \A j \in KeyNumber : j # k => new[j] = won[j]
    <3>1. [won EXCEPT ![k] = t] \in [KeyNumber -> Thread \cup {Nobody}]
      BY <1>1
    <3> QED BY <1>1, <3>1
  <2>4. ASSUME NEW j \in KeyNumber
        PROVE  new[j] = Nobody <=> \A e \in Entry : keys'[e] = Keys[j] => values'[e] = 0
    <3>1. CASE j = k
      <4>1. values'[f] = 1
        BY <1>1, <2>1 DEF IInv, TypeOK
      <4> QED BY <3>1, <4>1, <1>1, <1>2, <2>2, <2>3
    <3>2. CASE j # k
      <4>1. keys[f] # Keys[j]
        BY <3>2, <1>1, TestFacts
      <4>2. \A e \in Entry : keys[e] = Keys[j] => values'[e] = values[e]
        BY <2>1, <4>1
      <4> QED BY <4>2, <3>2, <1>2, <2>3 DEF KeysWon
    <3> QED BY <3>1, <3>2
  <2>5. \A s \in Thread : s # t => {j \in KeyNumber : new[j] = s} = {j \in KeyNumber : won[j] = s}
    BY <2>2, <2>3, TestFacts
  <2>6. /\ {j \in KeyNumber : new[j] = t} = {j \in KeyNumber : won[j] = t} \cup {k}
        /\ k \notin {j \in KeyNumber : won[j] = t}
    BY <1>1, <2>2, <2>3
  <2>7. Cardinality({j \in KeyNumber : new[j] = t}) = Cardinality({j \in KeyNumber : won[j] = t}) + 1
    BY <1>1, <2>6, KeySets
  <2>8. \A s \in Thread : Successes(s)' = Cardinality({j \in KeyNumber : new[j] = s})
    BY <1>5, <1>6, <1>10, <2>5, <2>7 DEF KeysWon
  <2>9. \A s \in Thread : \A j \in KeyNumber : j <= Seen(s)' => new[j] # Nobody
    BY <1>8, <2>2, <2>3 DEF KeysWon
  <2>10. ~(t < Added)
    <3>1. t \in 0 .. NThreads-1 /\ i \in 0 .. NThreads-1
      BY TestFacts DEF TestType
    <3>2. ~HasJoined(t)
      BY <1>1 DEF ThreadsInv
    <3> QED BY <3>1, <3>2 DEF HasJoined, Added, TestType
  <2>11. {j \in KeyNumber : new[j] # Nobody /\ new[j] < Added}
         = {j \in KeyNumber : won[j] # Nobody /\ won[j] < Added}
    BY <2>2, <2>3, <2>10
  <2>12. KeysWon(new)'
    BY <1>3, <2>4, <2>8, <2>9, <2>11 DEF KeysWon
  <2> QED BY <2>12 DEF WonInv
<1> QED BY <1>9, <1>10

LEMMA WonAddUp ==
  ASSUME TestType, CallInv, ThreadsInv, NEW won \in [KeyNumber -> Thread \cup {Nobody}], KeysWon(won), AddUp
  PROVE  KeysWon(won)'
<1> DEFINE before == {j \in KeyNumber : won[j] # Nobody /\ won[j] < Added}
           his    == {j \in KeyNumber : won[j] = i}
           after  == {j \in KeyNumber : won[j] # Nobody /\ won[j] < i + 1}
<1>1. i \in Thread /\ i \in 0 .. NThreads-1 /\ NThreads \in Nat /\ i # Nobody
  BY TestFacts DEF TestType
<1>2. Added = i /\ Added' = i + 1
  BY <1>1 DEF AddUp, Added, NThreads
<1>3. results[i] = Successes(i)
  <2>1. fpc[i] = "done"
    BY <1>1 DEF AddUp, ThreadsInv, HasJoined
  <2> QED BY <2>1, <1>1 DEF CallInv, Successes, Returning
<1>4. total' = Cardinality(before) + Cardinality(his)
  BY <1>1, <1>3 DEF KeysWon, AddUp
<1>5. IsFiniteSet(before) /\ IsFiniteSet(his) /\ Cardinality(before) \in Nat /\ Cardinality(his) \in Nat
  BY KeySets
<1>6. Cardinality(before \cup his) = Cardinality(before) + Cardinality(his)
  <2>1. before \cap his = {}
    BY <1>1, <1>2
  <2> HIDE DEF before, his
  <2>2. Cardinality(before \cap his) = 0
    BY <2>1, FS_EmptySet
  <2>3. Cardinality(before \cup his) = Cardinality(before) + Cardinality(his) - Cardinality(before \cap his)
    BY <1>5, FS_Union
  <2> QED BY <2>2, <2>3, <1>5
<1>7. before \cup his = after
  <2>1. \A j \in KeyNumber : won[j] # Nobody => won[j] \in Int
    BY TestFacts
  <2> QED BY <2>1, <1>1, <1>2
<1>8. total' = Cardinality(after)
  BY <1>4, <1>6, <1>7
<1>9. \A s \in Thread : Successes(s)' = Successes(s) /\ Seen(s)' = Seen(s)
  BY DEF AddUp, vars, Successes, Seen, Returning
<1>10. keys' = keys /\ values' = values
  BY DEF AddUp, vars
<1>11. total' = Cardinality({j \in KeyNumber : won[j] # Nobody /\ won[j] < Added'})
  BY <1>2, <1>8
<1> QED BY <1>9, <1>10, <1>11 DEF KeysWon

LEMMA TestWon ==
  ASSUME IInv, TestType, CallInv, ThreadsInv, WonInv, [TestNext]_tableVars
  PROVE  WonInv'
<1> PICK won \in [KeyNumber -> Thread \cup {Nobody}] : KeysWon(won)
  BY DEF WonInv
<1> SUFFICES ASSUME ~(\E t \in Thread : InAdd(t) /\ UseValue(t)) PROVE KeysWon(won)'
  BY WonAdd DEF WonInv
<1>1. ASSUME NEW t \in Thread, CallAdd(t) PROVE KeysWon(won)'
  <2>1. /\ UNCHANGED <<table, total, ret, done, count, mpc, i>>
        /\ \A s \in Thread \ {t} : fpc'[s] = fpc[s] /\ pc'[s] = pc[s]
        /\ fpc[t] = "loop" /\ fpc'[t] = "adding" /\ pc'[t] = "probe"
    BY <1>1 DEF CallAdd, Call, Goto, mainVars, IInv, TypeOK, TestType
  <2>2. \A s \in Thread : Successes(s)' = Successes(s) /\ Seen(s)' = Seen(s)
    BY <2>1 DEF Successes, Seen, Returning
  <2>3. Added' = Added
    BY <2>1 DEF Added
  <2> QED BY <2>1, <2>2, <2>3, WonQuiet
<1>2. ASSUME NEW t \in Thread, InAdd(t), Probe(t) PROVE KeysWon(won)'
  <2>1. /\ UNCHANGED <<table, total, ret, done, count, mpc, i, fpc>>
        /\ \A s \in Thread : pc'[s] = "out" <=> pc[s] = "out"
    <3>1. op[t].kind = "add" /\ pc[t] # "out"
      BY <1>2, AddIsCalled DEF IInv
    <3> QED BY <3>1, <1>2
            DEF InAdd, testVars, mainVars, Probe, Found, TryNextEntry, Goto, IInv, TypeOK
  <2>2. \A s \in Thread : Successes(s)' = Successes(s) /\ Seen(s)' = Seen(s)
    BY <2>1 DEF Successes, Seen, Returning
  <2>3. Added' = Added
    BY <2>1 DEF Added
  <2> QED BY <2>1, <2>2, <2>3, WonQuiet
<1>3. ASSUME NEW t \in Thread, AddReturned(t) PROVE KeysWon(won)'
  <2>1. /\ UNCHANGED <<table, total, ret, pc, mpc, i>>
        /\ \A s \in Thread \ {t} : fpc'[s] = fpc[s] /\ done'[s] = done[s] /\ count'[s] = count[s]
        /\ fpc[t] = "adding" /\ pc[t] = "out" /\ fpc'[t] = "loop"
        /\ done'[t] = done[t] + 1 /\ count'[t] = count[t] + ret[t]
    BY <1>3 DEF AddReturned, vars, table, mainVars, TestType
  <2>2. \A s \in Thread : Successes(s)' = Successes(s) /\ Seen(s)' = Seen(s)
    BY <2>1 DEF Successes, Seen, Returning
  <2>3. Added' = Added
    BY <2>1 DEF Added
  <2> QED BY <2>1, <2>2, <2>3, WonQuiet
<1>4. ASSUME NEW t \in Thread, StoreResult(t) \/ ReleaseJoin(t) PROVE KeysWon(won)'
  <2>1. /\ UNCHANGED <<table, total, ret, pc, done, count, mpc, i>>
        /\ \A s \in Thread : fpc'[s] = "adding" <=> fpc[s] = "adding"
    BY <1>4 DEF StoreResult, ReleaseJoin, vars, table, mainVars, TestType
  <2>2. \A s \in Thread : Successes(s)' = Successes(s) /\ Seen(s)' = Seen(s)
    BY <2>1 DEF Successes, Seen, Returning
  <2>3. Added' = Added
    BY <2>1 DEF Added
  <2> QED BY <2>1, <2>2, <2>3, WonQuiet
<1>5. CASE Spawn
  <2>1. fpc[i] = "new"
    BY <1>5, TestFacts DEF ThreadsInv, TestType, Spawn
  <2>2. /\ UNCHANGED <<table, total, ret, pc, done, count>>
        /\ \A s \in Thread : fpc'[s] = "adding" <=> fpc[s] = "adding"
    BY <1>5, <2>1 DEF Spawn, vars, table, TestType
  <2>3. \A s \in Thread : Successes(s)' = Successes(s) /\ Seen(s)' = Seen(s)
    BY <2>2 DEF Successes, Seen, Returning
  <2>4. Added' = Added
    BY <1>5 DEF Added, Spawn
  <2> QED BY <2>2, <2>3, <2>4, WonQuiet
<1>6. CASE Join
  <2>1. UNCHANGED <<table, total, ret, pc, done, count, fpc>>
    BY <1>6 DEF Join, vars, table
  <2>2. \A s \in Thread : Successes(s)' = Successes(s) /\ Seen(s)' = Seen(s)
    BY <2>1 DEF Successes, Seen, Returning
  <2>3. Added' = Added
    BY <1>6 DEF Added, Join
  <2> QED BY <2>1, <2>2, <2>3, WonQuiet
<1>7. CASE UNCHANGED tableVars
  <2>1. UNCHANGED <<table, total, ret, pc, done, count, fpc, mpc, i>>
    BY <1>7 DEF tableVars, vars, testVars, mainVars, table
  <2>2. \A s \in Thread : Successes(s)' = Successes(s) /\ Seen(s)' = Seen(s)
    BY <2>1 DEF Successes, Seen, Returning
  <2>3. Added' = Added
    BY <2>1 DEF Added
  <2> QED BY <2>1, <2>2, <2>3, WonQuiet
<1>8. ASSUME NEW t \in Thread, InAdd(t) PROVE KeysWon(won)'
  <2>1. Probe(t) \/ Claim(t)
    BY <1>8 DEF InAdd, Step
  <2> QED BY <2>1, <1>8, <1>2, WonClaim
<1> QED
  BY <1>1, <1>3, <1>4, <1>5, <1>6, <1>7, <1>8, WonAddUp DEF TestNext, ThreadStep, MainStep

(* The calls are the table's, so the invariants of the table hold as well. *)
LEMMA TestNextInv == TestInv /\ [TestNext]_tableVars => TestInv'
<1> SUFFICES ASSUME TestInv, [TestNext]_tableVars PROVE TestInv'
  OBVIOUS
<1> USE DEF TestInv
<1>1. [Next]_vars
  BY TestCallsTable
<1>2. IInv'
  BY <1>1, NextInv
<1>3. TestType' /\ CallInv' /\ ThreadsInv'
  BY TestControl DEF IInv
<1>4. WonInv'
  BY TestWon
<1> QED BY <1>2, <1>3, <1>4

LEMMA TestCorrect == TestInv => TotalIsNumberOfKeys /\ JoinedLast
<1> SUFFICES ASSUME TestInv PROVE TotalIsNumberOfKeys /\ JoinedLast
  OBVIOUS
<1>1. JoinedLast
  BY DEF TestInv, ThreadsInv, JoinedLast
<1>2. ASSUME mpc = "done" PROVE total = Len(Keys)
  <2> PICK won \in [KeyNumber -> Thread \cup {Nobody}] : KeysWon(won)
    BY DEF TestInv, WonInv
  <2>a. 0 \in Thread
    BY TestFacts
  <2>b. fpc[0] = "done"
    BY <2>a, <1>2 DEF TestInv, ThreadsInv, HasJoined
  <2>1. 0 \in Thread /\ fpc[0] = "done" /\ done[0] = Len(Keys)
    BY <2>a, <2>b DEF TestInv, CallInv
  <2>2. \A j \in KeyNumber : won[j] # Nobody
    <3>1. Seen(0) = Len(Keys)
      BY <2>1 DEF Seen, Returning
    <3>2. \A j \in KeyNumber : j <= Seen(0)
      BY <3>1, TestFacts DEF KeyNumber
    <3> QED BY <2>1, <3>2 DEF KeysWon
  <2>3. Added = NThreads /\ \A t \in Thread : t < NThreads
    BY <1>2, TestFacts DEF Added
  <2>4. {j \in KeyNumber : won[j] # Nobody /\ won[j] < Added} = KeyNumber
    BY <2>2, <2>3
  <2> QED BY <2>4, TestFacts DEF KeysWon
<1> QED BY <1>1, <1>2 DEF TotalIsNumberOfKeys

-----------------------------------------------------------------------------
(* ghost_queue.c.                                                          *)

GThread   == 0 .. 2*NProducers-1
Producers == 0 .. NProducers-1
Consumers == NProducers .. 2*NProducers-1
Buffer    == 0 .. SIZE-1

GhostType ==
  /\ qpc \in [GThread -> {"out", "acquire", "test", "wait", "transfer", "signal", "release"}]
  /\ stage \in [GThread -> {"new", "loop", "call", "done"}]
  /\ qop \in [GThread -> {[kind |-> "add", item |-> 0], [kind |-> "remove"], [kind |-> "none"]}]
  /\ qi \in [GThread -> 0 .. Calls]
  /\ qjoin \in [GThread -> {"none", "held", "free", "freed"}]
  /\ qmain \in {"spawn", "join", "delete", "deleted"}
  /\ qmi \in GThread
  /\ addc \in SUBSET GThread /\ remc \in SUBSET GThread /\ qlock \in SUBSET GThread

InCS(t) == qpc[t] \in {"test", "transfer", "signal", "release"}

(* Where the threads are, and who has the lock.                            *)
GhostControl ==
  \A t \in GThread :
    /\ InCS(t) => qlock = {t}
    /\ t \in qlock => InCS(t)
    /\ t \in addc \cup remc => qpc[t] = "wait"
    /\ stage[t] # "call" => qpc[t] = "out"
    /\ stage[t] = "call" => qi[t] < Calls
    /\ qpc[t] # "out" => qop[t].kind = IF t \in Producers THEN "add" ELSE "remove"
    /\ stage[t] = "done" => qi[t] = Calls

(* What main has joined is done.                                           *)
GhostJoins ==
  \A t \in GThread :
    /\ stage[t] = "new" <=> qmain = "spawn" /\ t >= qmi
    /\ qjoin[t] \in {"free", "freed"} => stage[t] = "done"
    /\ \/ qmain = "join" /\ t < qmi
       \/ qmain \in {"delete", "deleted"}
       => stage[t] = "done"

SlotFrom(h, k) == IF h + k < SIZE THEN h + k ELSE h + k - SIZE

(* The buffer holds the newest stamps in order.                            *)
GhostBuffer ==
  /\ qbuf \in [Buffer -> Int \cup {NULL}] /\ qlength \in 0 .. SIZE
  /\ head \in Buffer /\ tail \in Buffer /\ next \in Int
  /\ len \in [GThread -> Int]
  /\ tail = SlotFrom(head, qlength)
  /\ \A k \in 0 .. qlength-1 : qbuf[SlotFrom(head, k)] = next - qlength + k
  /\ \A t \in GThread : qpc[t] = "transfer" =>
       /\ len[t] = qlength
       /\ t \in Producers => qlength < SIZE
       /\ t \notin Producers => qlength > 0

(* A thread in a call that has put or taken its request.                   *)
Moved(t) == stage[t] = "call" /\ qpc[t] \in {"signal", "release", "out"}
Holds(t) == t \notin Producers /\ Moved(t)

(* The stamps that consumers hold are older, in order and all different.   *)
GhostResults ==
  /\ res \in [GThread -> Seq(Int)]
  /\ qret \in [GThread -> Int \cup {NULL}]
  /\ \A t \in GThread :
       /\ \A j \in DOMAIN res[t] : res[t][j] < next - qlength
       /\ \A j, k \in DOMAIN res[t] : j < k => res[t][j] < res[t][k]
       /\ Holds(t) => /\ qret[t] \in Int /\ qret[t] < next - qlength
                      /\ \A j \in DOMAIN res[t] : res[t][j] < qret[t]
  /\ \A s, t \in GThread : s # t =>
       /\ \A j \in DOMAIN res[s], k \in DOMAIN res[t] : res[s][j] # res[t][k]
       /\ Holds(t) => \A j \in DOMAIN res[s] : res[s][j] # qret[t]
       /\ Holds(s) /\ Holds(t) => qret[s] # qret[t]

(* The requests that have been put into the queue, and those taken out.    *)
CallNumber == 0 .. Calls-1
Requests(t) == IF Moved(t) THEN qi[t] + 1 ELSE qi[t]
MovedBy(T) == {x \in T \X CallNumber : x[2] < Requests(x[1])}

GhostCount == Cardinality(MovedBy(Producers)) = Cardinality(MovedBy(Consumers)) + qlength

GhostInv == GhostType /\ GhostControl /\ GhostJoins /\ GhostBuffer /\ GhostResults /\ GhostCount

LEMMA GhostFacts ==
  /\ NProducers \in Nat \ {0} /\ Calls \in Nat /\ SIZE \in Nat \ {0}
  /\ \A t \in GThread : /\ t \in Int /\ t >= 0
                        /\ Ghost!IsProducer(t) <=> t \in Producers
                        /\ t \notin Producers <=> t \in Consumers
  /\ Ghost!NThreads = 2*NProducers
  /\ 0 \in GThread
BY GhostAssumption DEF GThread, Producers, Consumers, Ghost!IsProducer, Ghost!NThreads

LEMMA GhostControlNext ==
  ASSUME GhostType, GhostControl, GhostJoins, [Ghost!TestNext]_ghostVars
  PROVE  GhostType' /\ GhostControl' /\ GhostJoins'
<1> USE DEF GhostType, Ghost!queue, Ghost!conds, Ghost!Goto, Ghost!vars, Ghost!testVars
<1>p. \A t \in GThread : Ghost!IsProducer(t) <=> t \in Producers
  BY GhostFacts
<1>n. \A t \in GThread : t \in Int
  BY GhostFacts
<1>1. ASSUME NEW t \in GThread, Ghost!CallQueue(t) PROVE GhostType' /\ GhostControl' /\ GhostJoins'
  <2> USE <1>1 DEF Ghost!CallQueue, Ghost!Call, Ghost!Unstamped
  <2>1. GhostType'
    BY DEF GhostControl
  <2>2. GhostControl'
    BY <1>p DEF GhostControl, InCS
  <2>3. GhostJoins'
    BY DEF GhostJoins, GhostControl
  <2> QED BY <2>1, <2>2, <2>3
<1>2. ASSUME NEW t \in GThread, Ghost!StampAndPut(t) PROVE GhostType' /\ GhostControl' /\ GhostJoins'
  <2> USE <1>2 DEF Ghost!StampAndPut, Ghost!Put
  <2>1. GhostType'
    BY DEF GhostControl
  <2>2. GhostControl'
    BY DEF GhostControl, InCS
  <2>3. GhostJoins'
    BY DEF GhostJoins, GhostControl
  <2> QED BY <2>1, <2>2, <2>3
<1>3. ASSUME NEW t \in GThread, Ghost!CallReturned(t) PROVE GhostType' /\ GhostControl' /\ GhostJoins'
  <2> USE <1>3 DEF Ghost!CallReturned
  <2>0. Calls \in Nat /\ qi[t] < Calls
    BY GhostFacts DEF GhostControl
  <2>1. GhostType'
    BY <2>0
  <2>2. GhostControl'
    BY DEF GhostControl, InCS
  <2>3. GhostJoins'
    BY DEF GhostJoins, GhostControl
  <2> QED BY <2>1, <2>2, <2>3
<1>4. ASSUME NEW t \in GThread, Ghost!ReleaseJoin(t) PROVE GhostType' /\ GhostControl' /\ GhostJoins'
  <2> USE <1>4 DEF Ghost!ReleaseJoin, Ghost!Finished
  <2>1. GhostType'
    BY DEF GhostControl
  <2>2. GhostControl'
    BY DEF GhostControl, InCS
  <2>3. GhostJoins'
    BY DEF GhostJoins, GhostControl
  <2> QED BY <2>1, <2>2, <2>3
<1>5. ASSUME NEW t \in GThread, Ghost!SpuriousWakeup(t) PROVE GhostType' /\ GhostControl' /\ GhostJoins'
  <2> USE <1>5 DEF Ghost!SpuriousWakeup, Ghost!WakeSpuriously
  <2>1. GhostType'
    BY DEF GhostControl
  <2>2. GhostControl'
    BY DEF GhostControl, InCS
  <2>3. GhostJoins'
    BY DEF GhostJoins, GhostControl
  <2> QED BY <2>1, <2>2, <2>3
<1>6. ASSUME NEW t \in GThread, Ghost!Acquire(t), UNCHANGED Ghost!testVars
     PROVE  GhostType' /\ GhostControl' /\ GhostJoins'
  <2> USE <1>6 DEF Ghost!Acquire
  <2>1. GhostType'
    BY DEF GhostControl
  <2>2. GhostControl'
    BY DEF GhostControl, InCS
  <2>3. GhostJoins'
    BY DEF GhostJoins
  <2> QED BY <2>1, <2>2, <2>3
<1>7. ASSUME NEW t \in GThread, Ghost!Wait(t), UNCHANGED Ghost!testVars
     PROVE  GhostType' /\ GhostControl' /\ GhostJoins'
  <2> USE <1>7 DEF Ghost!Wait
  <2>1. GhostType'
    OBVIOUS
  <2>a. /\ qlock = {t} /\ qlock' = {} /\ qpc[t] = "test" /\ stage[t] = "call"
        /\ \A s \in GThread \ {t} : ~InCS(s)
    BY DEF GhostControl, InCS
  <2>b. addc' \cup remc' = addc \cup remc \cup {t}
    BY DEF Ghost!MustWait
  <2>c. qpc' = [qpc EXCEPT ![t] = "wait"] /\ UNCHANGED <<stage, qi, qop>>
    OBVIOUS
  <2>2. GhostControl'
    BY <2>a, <2>b, <2>c DEF GhostControl, InCS
  <2>3. GhostJoins'
    BY DEF GhostJoins
  <2> QED BY <2>1, <2>2, <2>3
<1>8. ASSUME NEW t \in GThread, Ghost!Proceed(t), UNCHANGED Ghost!testVars
     PROVE  GhostType' /\ GhostControl' /\ GhostJoins'
  <2> USE <1>8 DEF Ghost!Proceed
  <2>1. GhostType'
    BY DEF GhostControl
  <2>2. GhostControl'
    BY DEF GhostControl, InCS
  <2>3. GhostJoins'
    BY DEF GhostJoins
  <2> QED BY <2>1, <2>2, <2>3
<1>9. ASSUME NEW t \in GThread, Ghost!Take(t), UNCHANGED Ghost!testVars
     PROVE  GhostType' /\ GhostControl' /\ GhostJoins'
  <2> USE <1>9 DEF Ghost!Take
  <2>1. GhostType'
    BY DEF GhostControl
  <2>2. GhostControl'
    BY DEF GhostControl, InCS
  <2>3. GhostJoins'
    BY DEF GhostJoins
  <2> QED BY <2>1, <2>2, <2>3
<1>10. ASSUME NEW t \in GThread, Ghost!Signal(t), UNCHANGED Ghost!testVars
     PROVE  GhostType' /\ GhostControl' /\ GhostJoins'
  <2> USE <1>10 DEF Ghost!Signal, Ghost!Signalled
  <2>1. GhostType'
    BY DEF GhostControl
  <2>2. GhostControl'
    BY DEF GhostControl, InCS
  <2>3. GhostJoins'
    BY DEF GhostJoins
  <2> QED BY <2>1, <2>2, <2>3
<1>11. ASSUME NEW t \in GThread, Ghost!Release(t), UNCHANGED Ghost!testVars
     PROVE  GhostType' /\ GhostControl' /\ GhostJoins'
  <2> USE <1>11 DEF Ghost!Release, Ghost!NoOp
  <2>1. GhostType'
    BY DEF GhostControl
  <2>2. GhostControl'
    BY DEF GhostControl, InCS
  <2>3. GhostJoins'
    BY DEF GhostJoins
  <2> QED BY <2>1, <2>2, <2>3
<1>12. CASE Ghost!Spawn
  <2>0. Ghost!NThreads = 2*NProducers /\ NProducers \in Nat \ {0} /\ qmi \in 0 .. 2*NProducers-1
    BY GhostFacts DEF GThread
  <2> USE <1>12 DEF Ghost!Spawn
  <2>1. stage[qmi] = "new"
    BY <1>n DEF GhostJoins
  <2>2. qmi' \in GThread
    BY <2>0 DEF GThread
  <2>3. GhostType'
    BY <2>2
  <2>4. GhostControl'
    BY <2>1 DEF GhostControl, InCS
  <2>5. CASE qmi + 1 < 2*NProducers
    <3>1. qmi' = qmi + 1 /\ qmain' = qmain
      BY <2>0, <2>5
    <3> QED BY <2>3, <2>4, <3>1, <1>n DEF GhostJoins
  <2>6. CASE ~(qmi + 1 < 2*NProducers)
    <3>1. qmi' = 0 /\ qmain' = "join"
      BY <2>0, <2>6
    <3>2. \A t \in GThread : t >= 0 /\ ~(t > qmi)
      BY <2>0, <2>6 DEF GThread
    <3>3. \A t \in GThread : t = qmi \/ ~(t >= qmi)
      BY <3>2, <1>n
    <3> QED BY <2>3, <2>4, <3>1, <3>2, <3>3, <1>n DEF GhostJoins
  <2> QED BY <2>5, <2>6
<1>13. CASE Ghost!Join
  <2>0. Ghost!NThreads = 2*NProducers /\ NProducers \in Nat \ {0} /\ qmi \in 0 .. 2*NProducers-1
    BY GhostFacts DEF GThread
  <2> USE <1>13 DEF Ghost!Join, Ghost!Acquirable
  <2>1. stage[qmi] = "done"
    BY DEF GhostJoins
  <2>2. qmi' \in GThread
    BY <2>0 DEF GThread
  <2>3. GhostType'
    BY <2>2
  <2>4. GhostControl'
    BY DEF GhostControl, InCS
  <2>5. CASE qmi + 1 < 2*NProducers
    <3>1. qmi' = qmi + 1 /\ qmain' = qmain
      BY <2>0, <2>5
    <3>2. \A t \in GThread : t < qmi + 1 <=> t < qmi \/ t = qmi
      BY <1>n
    <3> QED BY <2>1, <2>3, <2>4, <3>1, <3>2 DEF GhostJoins
  <2>6. CASE ~(qmi + 1 < 2*NProducers)
    <3>1. qmi' = qmi /\ qmain' = "delete"
      BY <2>0, <2>6
    <3>2. \A t \in GThread : t < qmi \/ t = qmi
      BY <2>0, <2>6 DEF GThread
    <3> QED BY <2>1, <2>3, <2>4, <3>1, <3>2 DEF GhostJoins
  <2> QED BY <2>5, <2>6
<1>14. CASE Ghost!DeleteQueue
  BY <1>14 DEF Ghost!DeleteQueue, GhostControl, InCS, GhostJoins
<1>15. CASE UNCHANGED ghostVars
  BY <1>15 DEF ghostVars, GhostControl, InCS, GhostJoins
<1> QED
  BY <1>1, <1>2, <1>3, <1>4, <1>5, <1>6, <1>7, <1>8, <1>9, <1>10, <1>11, <1>12, <1>13, <1>14, <1>15
  DEF Ghost!TestNext, Ghost!ThreadStep, Ghost!MainStep, Ghost!InQueue, Ghost!InLock, GThread

LEMMA Ring ==
  ASSUME NEW h \in Buffer
  PROVE  /\ SlotFrom(h, 0) = h
         /\ Ghost!NextSlot(h) \in Buffer
         /\ \A k \in 0 .. SIZE : SlotFrom(h, k) \in Buffer
         /\ \A j, k \in 0 .. SIZE-1 : SlotFrom(h, j) = SlotFrom(h, k) => j = k
         /\ \A k \in 0 .. SIZE-1 : /\ Ghost!NextSlot(SlotFrom(h, k)) = SlotFrom(h, k + 1)
                                   /\ SlotFrom(Ghost!NextSlot(h), k) = SlotFrom(h, k + 1)
BY GhostFacts DEF Buffer, SlotFrom, Ghost!NextSlot

(* Only one thread is in the critical section, in the call that is its own. *)
LEMMA OneInside ==
  ASSUME GhostControl, NEW t \in GThread, qpc[t] = "transfer"
  PROVE  /\ stage[t] = "call" /\ (qop[t].kind = "add" <=> t \in Producers)
         /\ \A s \in GThread : InCS(s) => s = t
         /\ \A s \in GThread : qpc[s] = "transfer" => s = t
<1>1. InCS(t) /\ qlock = {t}
  BY DEF GhostControl, InCS
<1>2. \A s \in GThread : InCS(s) => s = t
  BY <1>1 DEF GhostControl
<1>3. \A s \in GThread : qpc[s] = "transfer" => InCS(s)
  BY DEF InCS
<1>4. stage[t] = "call" /\ qop[t].kind = IF t \in Producers THEN "add" ELSE "remove"
  BY DEF GhostControl
<1> QED BY <1>2, <1>3, <1>4

LEMMA GhostBufferNext ==
  ASSUME GhostType, GhostControl, GhostBuffer, [Ghost!TestNext]_ghostVars
  PROVE  GhostBuffer'
<1> USE DEF Ghost!queue, Ghost!conds, Ghost!Goto, Ghost!vars, Ghost!testVars
<1>s. SIZE \in Nat \ {0}
  BY GhostFacts
(* Steps outside the buffer, after which nobody new is about to use it.    *)
<1>q. ASSUME UNCHANGED <<qbuf, qlength, head, tail, next, len>>,
             \A t \in GThread : qpc'[t] = "transfer" => qpc[t] = "transfer"
      PROVE  GhostBuffer'
  BY <1>q DEF GhostBuffer
<1>1. ASSUME NEW t \in GThread, Ghost!StampAndPut(t) PROVE GhostBuffer'
  <2> USE <1>1 DEF Ghost!StampAndPut, Ghost!Put, Ghost!Stamp
  <2>a. /\ qpc[t] = "transfer" /\ qop[t].kind = "add" /\ qpc' = [qpc EXCEPT ![t] = "signal"]
    OBVIOUS
  <2>b. t \in Producers /\ \A s \in GThread : qpc[s] = "transfer" => s = t
    BY <2>a, OneInside
  <2>1. /\ qpc[t] = "transfer" /\ t \in Producers
        /\ \A s \in GThread : qpc'[s] # "transfer"
    BY <2>a, <2>b DEF GhostType
  <2>2. len[t] = qlength /\ qlength < SIZE
    BY <2>1 DEF GhostBuffer
  <2>3. /\ qlength' = qlength + 1 /\ next' = next + 1 /\ head' = head /\ len' = len
        /\ tail' = Ghost!NextSlot(tail) /\ qbuf' = [qbuf EXCEPT ![tail] = next]
    BY <2>2
  <2>4. /\ qbuf \in [Buffer -> Int \cup {NULL}] /\ qlength \in 0 .. SIZE /\ qlength \in 0 .. SIZE-1
        /\ head \in Buffer /\ tail \in Buffer /\ next \in Int /\ tail = SlotFrom(head, qlength)
    BY <2>2, <1>s DEF GhostBuffer
  <2> DEFINE slot(k) == SlotFrom(head, k)
  <2>5. /\ Ghost!NextSlot(tail) \in Buffer
        /\ Ghost!NextSlot(tail) = slot(qlength + 1)
        /\ \A j, k \in 0 .. SIZE-1 : slot(j) = slot(k) => j = k
        /\ \A k \in 0 .. SIZE-1 : slot(k) \in Buffer
    <3> HIDE <1>1
    <3>1. Ghost!NextSlot(tail) \in Buffer
      BY <2>4, Ring
    <3>2. /\ Ghost!NextSlot(SlotFrom(head, qlength)) = slot(qlength + 1)
          /\ \A j, k \in 0 .. SIZE-1 : slot(j) = slot(k) => j = k
          /\ \A k \in 0 .. SIZE : slot(k) \in Buffer
      BY <2>4, Ring
    <3>3. \A k \in 0 .. SIZE-1 : k \in 0 .. SIZE
      BY <1>s
    <3> QED BY <2>4, <3>1, <3>2, <3>3
  <2>6. \A k \in 0 .. qlength-1 : qbuf[slot(k)] = next - qlength + k
    BY DEF GhostBuffer
  <2> HIDE DEF slot
  <2>7. ASSUME NEW k \in 0 .. qlength'-1 PROVE qbuf'[slot(k)] = next' - qlength' + k
    <3> HIDE <1>1
    <3>0. k \in 0 .. (qlength + 1) - 1
      BY <2>3
    <3>1. k \in 0 .. SIZE-1 /\ (k = qlength \/ k \in 0 .. qlength-1)
      BY <2>4, <3>0, <1>s
    <3>2. tail = slot(qlength) /\ slot(k) \in Buffer
      BY <2>4, <2>5, <3>1 DEF slot
    <3>3. CASE k = qlength
      <4>1. qbuf'[slot(k)] = next
        BY <2>3, <2>4, <3>2, <3>3
      <4> QED BY <4>1, <3>3, <2>3, <2>4
    <3>4. CASE k \in 0 .. qlength-1
      <4>1. slot(k) # tail
        BY <2>4, <2>5, <3>1, <3>2, <3>4
      <4>2. qbuf'[slot(k)] = qbuf[slot(k)]
        BY <2>3, <2>4, <3>2, <4>1
      <4>3. next - qlength + k = next' - qlength' + k
        BY <2>3, <2>4, <3>4
      <4> QED BY <2>6, <3>4, <4>2, <4>3
    <3> QED BY <3>1, <3>3, <3>4
  <2>8. /\ qlength' \in 0 .. SIZE /\ next' \in Int /\ tail' \in Buffer
        /\ qbuf' \in [Buffer -> Int \cup {NULL}]
        /\ tail' = SlotFrom(head', qlength')
    BY <2>3, <2>4, <2>5, <1>s DEF slot
  <2>9. \A k \in 0 .. qlength'-1 : qbuf'[SlotFrom(head', k)] = next' - qlength' + k
    BY <2>3, <2>7 DEF slot
  <2>10. len' \in [GThread -> Int] /\ head' \in Buffer
    BY <2>3, <2>4 DEF GhostBuffer
  <2> QED BY <2>1, <2>8, <2>9, <2>10 DEF GhostBuffer
<1>2. ASSUME NEW t \in GThread, Ghost!Take(t), UNCHANGED Ghost!testVars PROVE GhostBuffer'
  <2> USE <1>2 DEF Ghost!Take
  <2>a. /\ qpc[t] = "transfer" /\ qop[t].kind # "add" /\ qpc' = [qpc EXCEPT ![t] = "signal"]
    OBVIOUS
  <2>b. t \notin Producers /\ \A s \in GThread : qpc[s] = "transfer" => s = t
    BY <2>a, OneInside
  <2>1. /\ qpc[t] = "transfer" /\ t \notin Producers
        /\ \A s \in GThread : qpc'[s] # "transfer"
    BY <2>a, <2>b DEF GhostType
  <2>2. len[t] = qlength /\ qlength > 0
    BY <2>1 DEF GhostBuffer
  <2>3. /\ qlength' = qlength - 1 /\ next' = next /\ tail' = tail /\ len' = len
        /\ head' = Ghost!NextSlot(head) /\ qbuf' = [qbuf EXCEPT ![head] = NULL]
    BY <2>2
  <2>4. /\ qbuf \in [Buffer -> Int \cup {NULL}] /\ qlength \in 1 .. SIZE
        /\ head \in Buffer /\ tail \in Buffer /\ next \in Int /\ tail = SlotFrom(head, qlength)
        /\ len \in [GThread -> Int]
    BY <2>2, <1>s DEF GhostBuffer
  <2> DEFINE slot(k) == SlotFrom(head, k)
  <2>5. /\ head' \in Buffer /\ slot(0) = head
        /\ \A j, k \in 0 .. SIZE-1 : slot(j) = slot(k) => j = k
        /\ \A k \in 0 .. SIZE-1 : slot(k) \in Buffer /\ SlotFrom(head', k) = slot(k + 1)
    <3> HIDE <1>2
    <3>1. /\ Ghost!NextSlot(head) \in Buffer /\ slot(0) = head
          /\ \A j, k \in 0 .. SIZE-1 : slot(j) = slot(k) => j = k
          /\ \A k \in 0 .. SIZE : slot(k) \in Buffer
          /\ \A k \in 0 .. SIZE-1 : SlotFrom(Ghost!NextSlot(head), k) = slot(k + 1)
      BY <2>4, Ring
    <3>2. \A k \in 0 .. SIZE-1 : k \in 0 .. SIZE
      BY <1>s
    <3> QED BY <2>3, <3>1, <3>2
  <2>6. \A k \in 0 .. qlength-1 : qbuf[slot(k)] = next - qlength + k
    BY DEF GhostBuffer
  <2>7. tail = slot(qlength)
    BY <2>4
  <2> HIDE DEF slot
  <2>8. ASSUME NEW k \in 0 .. qlength'-1 PROVE qbuf'[SlotFrom(head', k)] = next' - qlength' + k
    <3> HIDE <1>2
    <3>0. k \in 0 .. (qlength - 1) - 1
      BY <2>3
    <3>1. k \in 0 .. SIZE-1 /\ k + 1 \in 0 .. SIZE-1 /\ k + 1 # 0 /\ k + 1 \in 0 .. qlength-1 /\ 0 \in 0 .. SIZE-1
      BY <2>4, <3>0, <1>s
    <3>2. SlotFrom(head', k) = slot(k + 1) /\ slot(k + 1) # head /\ slot(k + 1) \in Buffer
      BY <2>5, <3>1
    <3>3. qbuf'[slot(k + 1)] = qbuf[slot(k + 1)]
      BY <2>3, <2>4, <3>2
    <3>4. qbuf[slot(k + 1)] = next - qlength + (k + 1)
      BY <2>6, <3>1
    <3>5. next - qlength + (k + 1) = next' - qlength' + k
      BY <2>3, <2>4
    <3> QED BY <3>2, <3>3, <3>4, <3>5
  <2>9. tail' = SlotFrom(head', qlength')
    <3>1. qlength' \in 0 .. SIZE-1 /\ qlength' + 1 = qlength
      BY <2>3, <2>4, <1>s
    <3> QED BY <2>3, <2>5, <2>7, <3>1
  <2>10. qlength' \in 0 .. SIZE /\ qbuf' \in [Buffer -> Int \cup {NULL}] /\ tail' \in Buffer /\ next' \in Int
         /\ len' \in [GThread -> Int]
    BY <2>3, <2>4, <1>s
  <2> QED BY <2>1, <2>5, <2>8, <2>9, <2>10 DEF GhostBuffer
<1>3. ASSUME NEW t \in GThread, Ghost!Proceed(t), UNCHANGED Ghost!testVars PROVE GhostBuffer'
  <2> USE <1>3 DEF Ghost!Proceed, Ghost!MustWait
  <2>1. /\ qlock = {t} /\ qop[t].kind = IF t \in Producers THEN "add" ELSE "remove"
        /\ \A s \in GThread \ {t} : qpc[s] # "transfer"
    BY DEF GhostControl, InCS
  <2>2. /\ UNCHANGED <<qbuf, qlength, head, tail, next>> /\ len' = [len EXCEPT ![t] = qlength]
        /\ \A s \in GThread \ {t} : qpc'[s] # "transfer"
    BY <2>1 DEF GhostType
  <2>3. qlength \in Int /\ SIZE \in Int /\ qlength \in 0 .. SIZE /\ len \in [GThread -> Int]
    BY <1>s DEF GhostBuffer
  <2>4. /\ t \in Producers => qlength < SIZE
        /\ t \notin Producers => qlength > 0
    BY <2>1, <2>3
  <2>5. len' \in [GThread -> Int] /\ len'[t] = qlength
    BY <2>2, <2>3
  <2> QED BY <2>2, <2>4, <2>5 DEF GhostBuffer
<1>4. ASSUME NEW t \in GThread, Ghost!Wait(t), UNCHANGED Ghost!testVars PROVE GhostBuffer'
  <2> USE <1>4 DEF Ghost!Wait
  <2>1. /\ UNCHANGED <<qbuf, qlength, head, tail, next>> /\ len' = [len EXCEPT ![t] = qlength]
        /\ \A s \in GThread : qpc'[s] # "transfer"
    BY DEF GhostType, GhostControl, InCS
  <2> QED BY <2>1 DEF GhostBuffer
<1>5. ASSUME NEW t \in GThread, Ghost!Release(t), UNCHANGED Ghost!testVars PROVE GhostBuffer'
  <2> USE <1>5 DEF Ghost!Release
  <2>1. /\ UNCHANGED <<qbuf, qlength, head, tail, next>> /\ len' = [len EXCEPT ![t] = 0]
        /\ \A s \in GThread : qpc'[s] # "transfer"
    BY DEF GhostType, GhostControl, InCS
  <2> QED BY <2>1 DEF GhostBuffer
<1>6. ASSUME NEW t \in GThread, Ghost!Signal(t), UNCHANGED Ghost!testVars PROVE GhostBuffer'
  BY <1>6, <1>q DEF Ghost!Signal, GhostType
<1>7. ASSUME NEW t \in GThread, Ghost!Acquire(t), UNCHANGED Ghost!testVars PROVE GhostBuffer'
  BY <1>7, <1>q DEF Ghost!Acquire, GhostType
<1>8. ASSUME NEW t \in GThread, Ghost!CallQueue(t) PROVE GhostBuffer'
  BY <1>8, <1>q DEF Ghost!CallQueue, Ghost!Call, GhostType
<1>9. ASSUME NEW t \in GThread, Ghost!SpuriousWakeup(t) PROVE GhostBuffer'
  BY <1>9, <1>q DEF Ghost!SpuriousWakeup, Ghost!WakeSpuriously, GhostType
<1>10. ASSUME NEW t \in GThread, Ghost!CallReturned(t) \/ Ghost!ReleaseJoin(t) PROVE GhostBuffer'
  BY <1>10, <1>q DEF Ghost!CallReturned, Ghost!ReleaseJoin
<1>11. CASE Ghost!MainStep
  BY <1>11, <1>q DEF Ghost!MainStep, Ghost!Spawn, Ghost!Join, Ghost!DeleteQueue
<1>12. CASE UNCHANGED ghostVars
  BY <1>12, <1>q DEF ghostVars
<1> QED
  BY <1>1, <1>2, <1>3, <1>4, <1>5, <1>6, <1>7, <1>8, <1>9, <1>10, <1>11, <1>12
  DEF Ghost!TestNext, Ghost!ThreadStep, Ghost!InQueue, Ghost!InLock, GThread

(* A step that moves no request and makes no call return.                  *)
Quiet ==
  /\ UNCHANGED <<res, qret, qi, next, qlength>>
  /\ \A s \in GThread : Moved(s)' <=> Moved(s)

LEMMA GhostMoves ==
  ASSUME GhostType, GhostControl, GhostJoins, [Ghost!TestNext]_ghostVars
  PROVE  \/ \E t \in GThread : Ghost!StampAndPut(t)
         \/ \E t \in GThread : Ghost!Take(t) /\ UNCHANGED Ghost!testVars
         \/ \E t \in GThread : Ghost!CallReturned(t)
         \/ Quiet
<1> USE DEF GhostType, Ghost!queue, Ghost!conds, Ghost!Goto, Ghost!vars, Ghost!testVars
<1>1. ASSUME NEW t \in GThread, Ghost!CallQueue(t) PROVE Quiet
  BY <1>1 DEF Ghost!CallQueue, Ghost!Call, Quiet, Moved
<1>2. ASSUME NEW t \in GThread, Ghost!Acquire(t), UNCHANGED Ghost!testVars PROVE Quiet
  BY <1>2 DEF Ghost!Acquire, Quiet, Moved
<1>3. ASSUME NEW t \in GThread, Ghost!Wait(t), UNCHANGED Ghost!testVars PROVE Quiet
  BY <1>3 DEF Ghost!Wait, Quiet, Moved
<1>4. ASSUME NEW t \in GThread, Ghost!Proceed(t), UNCHANGED Ghost!testVars PROVE Quiet
  BY <1>4 DEF Ghost!Proceed, Quiet, Moved
<1>5. ASSUME NEW t \in GThread, Ghost!Signal(t), UNCHANGED Ghost!testVars PROVE Quiet
  <2>1. \A w \in addc \cup remc : qpc[w] = "wait"
    BY DEF GhostControl
  <2> QED BY <1>5, <2>1 DEF Ghost!Signal, Ghost!Signalled, Quiet, Moved
<1>6. ASSUME NEW t \in GThread, Ghost!Release(t), UNCHANGED Ghost!testVars PROVE Quiet
  BY <1>6 DEF Ghost!Release, Quiet, Moved
<1>7. ASSUME NEW t \in GThread, Ghost!SpuriousWakeup(t) PROVE Quiet
  <2>1. \A w \in addc \cup remc : qpc[w] = "wait"
    BY DEF GhostControl
  <2> QED BY <1>7, <2>1 DEF Ghost!SpuriousWakeup, Ghost!WakeSpuriously, Quiet, Moved
<1>8. ASSUME NEW t \in GThread, Ghost!ReleaseJoin(t) PROVE Quiet
  BY <1>8 DEF Ghost!ReleaseJoin, Quiet, Moved
<1>9. CASE Ghost!Spawn
  <2>1. stage[qmi] = "new"
    <3>1. qmi \in Int /\ qmi >= qmi
      BY GhostFacts
    <3> QED BY <1>9, <3>1 DEF Ghost!Spawn, GhostJoins
  <2> QED BY <1>9, <2>1 DEF Ghost!Spawn, Quiet, Moved
<1>10. CASE Ghost!Join \/ Ghost!DeleteQueue
  BY <1>10 DEF Ghost!Join, Ghost!DeleteQueue, Quiet, Moved
<1>11. CASE UNCHANGED ghostVars
  BY <1>11 DEF ghostVars, Quiet, Moved
<1> QED
  BY <1>1, <1>2, <1>3, <1>4, <1>5, <1>6, <1>7, <1>8, <1>9, <1>10, <1>11
  DEF Ghost!TestNext, Ghost!ThreadStep, Ghost!MainStep, Ghost!InQueue, Ghost!InLock, GThread

LEMMA GhostResultsNext ==
  ASSUME GhostType, GhostControl, GhostJoins, GhostBuffer, GhostResults, [Ghost!TestNext]_ghostVars
  PROVE  GhostResults'
<1> USE DEF Ghost!queue, Ghost!conds, Ghost!Goto, Ghost!vars, Ghost!testVars
<1>n. next \in Int /\ qlength \in Int
  BY GhostFacts DEF GhostBuffer
<1>q. ASSUME UNCHANGED <<res, qret>>, next' - qlength' = next - qlength,
             \A s \in GThread : Holds(s)' => Holds(s)
      PROVE  GhostResults'
  BY <1>q DEF GhostResults
<1>1. CASE Quiet
  <2>1. \A s \in GThread : Holds(s)' => Holds(s)
    BY <1>1 DEF Quiet, Holds
  <2> QED BY <1>1, <1>q, <2>1 DEF Quiet
<1>2. ASSUME NEW t \in GThread, Ghost!StampAndPut(t) PROVE GhostResults'
  <2>1. /\ qpc[t] = "transfer" /\ qop[t].kind = "add" /\ qpc' = [qpc EXCEPT ![t] = "signal"]
        /\ next' = next + 1 /\ qlength' = len[t] + 1
        /\ UNCHANGED <<res, qret, stage>>
    BY <1>2 DEF Ghost!StampAndPut, Ghost!Put
  <2>2. len[t] = qlength /\ t \in Producers
    BY <2>1, OneInside DEF GhostBuffer
  <2>3. next' - qlength' = next - qlength
    BY <2>1, <2>2, <1>n
  <2>4. \A s \in GThread : Holds(s)' => Holds(s)
    BY <2>1, <2>2 DEF Holds, Moved, GhostType
  <2> QED BY <2>1, <2>3, <2>4, <1>q
<1>3. ASSUME NEW t \in GThread, Ghost!Take(t), UNCHANGED Ghost!testVars PROVE GhostResults'
  <2>1. /\ qpc[t] = "transfer" /\ qop[t].kind # "add" /\ qpc' = [qpc EXCEPT ![t] = "signal"]
        /\ qlength' = len[t] - 1 /\ qret' = [qret EXCEPT ![t] = qbuf[head]]
        /\ UNCHANGED <<res, next, stage>>
    BY <1>3 DEF Ghost!Take, Ghost!Taken
  <2>2. len[t] = qlength /\ t \notin Producers /\ qlength > 0
    BY <2>1, OneInside DEF GhostBuffer
  <2> DEFINE oldest == next - qlength
  <2>3. qbuf[head] = oldest
    <3>1. head \in Buffer /\ 0 \in 0 .. qlength-1 /\ oldest + 0 = oldest
      BY <2>2, <1>n DEF GhostBuffer
    <3>2. SlotFrom(head, 0) = head
      BY <3>1, Ring
    <3>3. qbuf[SlotFrom(head, 0)] = oldest + 0
      BY <3>1 DEF GhostBuffer
    <3> QED BY <3>1, <3>2, <3>3
  <2>a. oldest \in Int /\ next' - qlength' = oldest + 1 /\ qret' = [qret EXCEPT ![t] = oldest]
    <3>1. next' = next /\ qlength' = qlength - 1
      BY <2>1, <2>2
    <3>2. next - (qlength - 1) = oldest + 1 /\ oldest \in Int
      BY <1>n
    <3> QED BY <3>1, <3>2, <2>1, <2>3
  <2>4. PICK m \in Int : m = oldest /\ next' - qlength' = m + 1 /\ qret' = [qret EXCEPT ![t] = m]
    BY <2>a
  <2>5. \A s \in GThread : Holds(s)' => s = t \/ Holds(s)
    BY <2>1 DEF Holds, Moved, GhostType
  <2>6. /\ qret'[t] = m
        /\ \A s \in GThread \ {t} : qret'[s] = qret[s]
        /\ qret' \in [GThread -> Int \cup {NULL}]
    BY <2>4 DEF GhostResults
  <2>7. \A s \in GThread :
          /\ \A j \in DOMAIN res[s] : res[s][j] \in Int /\ res[s][j] < m
          /\ Holds(s) => qret[s] \in Int /\ qret[s] < m
    BY <2>4 DEF GhostResults
  <2>8. \A a \in Int : a < m => a < m + 1 /\ a # m
    OBVIOUS
  <2>9. m < m + 1
    OBVIOUS
  <2>10. \A s \in GThread :
           /\ \A j \in DOMAIN res'[s] : res'[s][j] < next' - qlength'
           /\ \A j, k \in DOMAIN res'[s] : j < k => res'[s][j] < res'[s][k]
           /\ Holds(s)' => /\ qret'[s] \in Int /\ qret'[s] < next' - qlength'
                           /\ \A j \in DOMAIN res'[s] : res'[s][j] < qret'[s]
    <3> TAKE s \in GThread
    <3>1. \A j \in DOMAIN res'[s] : res'[s][j] < next' - qlength'
      BY <2>1, <2>4, <2>7, <2>8
    <3>2. \A j, k \in DOMAIN res'[s] : j < k => res'[s][j] < res'[s][k]
      BY <2>1 DEF GhostResults
    <3>3. ASSUME Holds(s)'
          PROVE  /\ qret'[s] \in Int /\ qret'[s] < next' - qlength'
                 /\ \A j \in DOMAIN res'[s] : res'[s][j] < qret'[s]
      <4>1. CASE s = t
        BY <4>1, <2>1, <2>4, <2>6, <2>7, <2>9
      <4>2. CASE s # t
        <5>1. Holds(s) /\ qret'[s] = qret[s]
          BY <4>2, <3>3, <2>5, <2>6
        <5>2. \A j \in DOMAIN res[s] : res[s][j] < qret[s]
          BY <5>1 DEF GhostResults
        <5> QED BY <5>1, <5>2, <2>1, <2>4, <2>7, <2>8
      <4> QED BY <4>1, <4>2
    <3> QED BY <3>1, <3>2, <3>3
  <2>11. \A r, s \in GThread : r # s =>
           /\ \A j \in DOMAIN res'[r], k \in DOMAIN res'[s] : res'[r][j] # res'[s][k]
           /\ Holds(s)' => \A j \in DOMAIN res'[r] : res'[r][j] # qret'[s]
           /\ Holds(r)' /\ Holds(s)' => qret'[r] # qret'[s]
    <3> SUFFICES ASSUME NEW r \in GThread, NEW s \in GThread, r # s
                 PROVE  /\ \A j \in DOMAIN res'[r], k \in DOMAIN res'[s] : res'[r][j] # res'[s][k]
                        /\ Holds(s)' => \A j \in DOMAIN res'[r] : res'[r][j] # qret'[s]
                        /\ Holds(r)' /\ Holds(s)' => qret'[r] # qret'[s]
      OBVIOUS
    <3>1. \A j \in DOMAIN res'[r], k \in DOMAIN res'[s] : res'[r][j] # res'[s][k]
      BY <2>1 DEF GhostResults
    <3>2. ASSUME Holds(s)' PROVE \A j \in DOMAIN res'[r] : res'[r][j] # qret'[s]
      <4>1. CASE s = t
        BY <4>1, <2>1, <2>6, <2>7, <2>8
      <4>2. CASE s # t
        <5>1. Holds(s) /\ qret'[s] = qret[s]
          BY <4>2, <3>2, <2>5, <2>6
        <5>2. \A j \in DOMAIN res[r] : res[r][j] # qret[s]
          BY <5>1 DEF GhostResults
        <5> QED BY <5>1, <5>2, <2>1
      <4> QED BY <4>1, <4>2
    <3>3. ASSUME Holds(r)', Holds(s)' PROVE qret'[r] # qret'[s]
      <4>1. CASE s = t
        <5>1. Holds(r) /\ qret'[r] = qret[r]
          BY <4>1, <3>3, <2>5, <2>6
        <5> QED BY <5>1, <4>1, <2>6, <2>7, <2>8
      <4>2. CASE r = t
        <5>1. Holds(s) /\ qret'[s] = qret[s]
          BY <4>2, <3>3, <2>5, <2>6
        <5> QED BY <5>1, <4>2, <2>6, <2>7, <2>8
      <4>3. CASE r # t /\ s # t
        <5>1. Holds(r) /\ Holds(s) /\ qret'[r] = qret[r] /\ qret'[s] = qret[s]
          BY <4>3, <3>3, <2>5, <2>6
        <5> QED BY <5>1 DEF GhostResults
      <4> QED BY <4>1, <4>2, <4>3
    <3> QED BY <3>1, <3>2, <3>3
  <2>12. res' \in [GThread -> Seq(Int)]
    BY <2>1 DEF GhostResults
  <2> QED BY <2>6, <2>10, <2>11, <2>12 DEF GhostResults
<1>4. ASSUME NEW t \in GThread, Ghost!CallReturned(t) PROVE GhostResults'
  <2>1. /\ stage[t] = "call" /\ qpc[t] = "out"
        /\ stage' = [stage EXCEPT ![t] = "loop"]
        /\ res' = [res EXCEPT ![t] = IF Ghost!IsProducer(t) THEN <<>> ELSE Append(res[t], qret[t])]
        /\ UNCHANGED <<qret, next, qlength, qpc>>
    BY <1>4 DEF Ghost!CallReturned
  <2>2. \A s \in GThread : Holds(s)' => s # t /\ Holds(s)
    BY <2>1 DEF Holds, Moved, GhostType
  <2>3. \A s \in GThread \ {t} : res'[s] = res[s]
    BY <2>1 DEF GhostResults
  (* What t has recorded, it had recorded before, or it is what it holds.  *)
  <2>4. /\ res'[t] \in Seq(Int)
        /\ \A j \in DOMAIN res'[t] :
             \/ j \in DOMAIN res[t] /\ res'[t][j] = res[t][j]
             \/ /\ Holds(t) /\ res'[t][j] = qret[t]
                /\ \A k \in DOMAIN res'[t] :
                     k # j => (k < j /\ k \in DOMAIN res[t] /\ res'[t][k] = res[t][k])
    <3>1. CASE t \in Producers
      <4>1. res'[t] = <<>>
        BY <2>1, <3>1, GhostFacts DEF GhostResults
      <4> QED BY <4>1
    <3>2. CASE t \notin Producers
      <4>1. Holds(t) /\ qret[t] \in Int /\ res[t] \in Seq(Int)
        BY <2>1, <3>2 DEF Holds, Moved, GhostResults
      <4>2. res'[t] = Append(res[t], qret[t])
        BY <2>1, <3>2, GhostFacts DEF GhostResults
      <4>3. /\ res'[t] \in Seq(Int) /\ Len(res'[t]) = Len(res[t]) + 1
            /\ \A k \in 1 .. Len(res[t]) : res'[t][k] = res[t][k]
            /\ res'[t][Len(res[t]) + 1] = qret[t]
        BY <4>1, <4>2, AppendProperties
      <4>4. Len(res[t]) \in Nat /\ DOMAIN res[t] = 1 .. Len(res[t]) /\ DOMAIN res'[t] = 1 .. Len(res[t]) + 1
        BY <4>1, <4>3
      <4> PICK n \in Nat : n = Len(res[t])
        BY <4>4
      <4>5. \A j \in DOMAIN res'[t] : j \in DOMAIN res[t] \/ j = n + 1
        BY <4>4
      <4>6. \A k \in DOMAIN res'[t] : k # n + 1 => k < n + 1 /\ k \in DOMAIN res[t]
        BY <4>4
      <4>7. /\ \A k \in DOMAIN res[t] : res'[t][k] = res[t][k]
            /\ res'[t][n + 1] = qret[t]
        BY <4>3, <4>4
      <4> QED BY <4>1, <4>3, <4>5, <4>6, <4>7
    <3> QED BY <3>1, <3>2
  <2>5. res' \in [GThread -> Seq(Int)] /\ qret' \in [GThread -> Int \cup {NULL}] /\ qret' = qret
    BY <2>1, <2>4 DEF GhostResults
  <2>6. next' - qlength' = next - qlength
    BY <2>1
  <2>7. \A s \in GThread :
           /\ \A j \in DOMAIN res'[s] : res'[s][j] < next' - qlength'
           /\ \A j, k \in DOMAIN res'[s] : j < k => res'[s][j] < res'[s][k]
           /\ Holds(s)' => /\ qret'[s] \in Int /\ qret'[s] < next' - qlength'
                           /\ \A j \in DOMAIN res'[s] : res'[s][j] < qret'[s]
    <3> TAKE s \in GThread
    <3>1. CASE s # t
      <4>1. res'[s] = res[s] /\ (Holds(s)' => Holds(s))
        BY <3>1, <2>2, <2>3
      <4> QED BY <4>1, <2>5, <2>6 DEF GhostResults
    <3>2. CASE s = t
      <4>1. ~Holds(t)'
        BY <2>2
      <4>2. \A j \in DOMAIN res'[t] : res'[t][j] < next' - qlength'
        BY <2>4, <2>6 DEF GhostResults
      <4>3. ASSUME NEW j \in DOMAIN res'[t], NEW k \in DOMAIN res'[t], j < k PROVE res'[t][j] < res'[t][k]
        <5>1. j \in Int /\ k \in Int /\ j # k /\ ~(k < j)
          BY <4>3, <2>4
        <5>2. j \in DOMAIN res[t] /\ res'[t][j] = res[t][j]
          BY <5>1, <2>4
        <5>3. CASE k \in DOMAIN res[t] /\ res'[t][k] = res[t][k]
          BY <4>3, <5>2, <5>3 DEF GhostResults
        <5>4. CASE Holds(t) /\ res'[t][k] = qret[t]
          BY <5>2, <5>4 DEF GhostResults
        <5> QED BY <5>3, <5>4, <2>4
      <4> QED BY <3>2, <4>1, <4>2, <4>3
    <3> QED BY <3>1, <3>2
  (* A stamp that t has recorded is not one of another thread.             *)
  <2>8. ASSUME NEW s \in GThread, s # t, NEW j \in DOMAIN res'[t]
        PROVE  /\ \A k \in DOMAIN res[s] : res'[t][j] # res[s][k]
               /\ Holds(s) => res'[t][j] # qret[s]
    <3>1. CASE j \in DOMAIN res[t] /\ res'[t][j] = res[t][j]
      BY <2>8, <3>1 DEF GhostResults
    <3>2. CASE Holds(t) /\ res'[t][j] = qret[t]
      BY <2>8, <3>2 DEF GhostResults
    <3> QED BY <3>1, <3>2, <2>4, <2>8
  <2>9. \A r, s \in GThread : r # s =>
           /\ \A j \in DOMAIN res'[r], k \in DOMAIN res'[s] : res'[r][j] # res'[s][k]
           /\ Holds(s)' => \A j \in DOMAIN res'[r] : res'[r][j] # qret'[s]
           /\ Holds(r)' /\ Holds(s)' => qret'[r] # qret'[s]
    <3> SUFFICES ASSUME NEW r \in GThread, NEW s \in GThread, r # s
                 PROVE  /\ \A j \in DOMAIN res'[r], k \in DOMAIN res'[s] : res'[r][j] # res'[s][k]
                        /\ Holds(s)' => \A j \in DOMAIN res'[r] : res'[r][j] # qret'[s]
                        /\ Holds(r)' /\ Holds(s)' => qret'[r] # qret'[s]
      OBVIOUS
    <3>1. CASE r # t /\ s # t
      <4>1. res'[r] = res[r] /\ res'[s] = res[s]
        BY <3>1, <2>3
      <4> QED BY <4>1, <2>2, <2>5 DEF GhostResults
    <3>2. CASE r = t
      <4>1. s # t /\ res'[s] = res[s] /\ ~Holds(r)'
        BY <3>2, <2>2, <2>3
      <4> QED BY <3>2, <4>1, <2>2, <2>5, <2>8
    <3>3. CASE s = t
      <4>1. r # t /\ res'[r] = res[r] /\ ~Holds(s)'
        BY <3>3, <2>2, <2>3
      <4>2. \A j \in DOMAIN res'[r], k \in DOMAIN res'[s] : res'[r][j] # res'[s][k]
        BY <3>3, <4>1, <2>8
      <4> QED BY <4>1, <4>2
    <3> QED BY <3>1, <3>2, <3>3
  <2> QED BY <2>5, <2>7, <2>9 DEF GhostResults
<1> QED BY <1>1, <1>2, <1>3, <1>4, GhostMoves

LEMMA MovedByFinite ==
  ASSUME NEW T \in SUBSET GThread
  PROVE  IsFiniteSet(MovedBy(T)) /\ Cardinality(MovedBy(T)) \in Nat
<1>1. IsFiniteSet(GThread) /\ IsFiniteSet(CallNumber)
  BY GhostFacts, FS_Interval DEF GThread, CallNumber
<1>2. IsFiniteSet(T)
  BY <1>1, FS_Subset
<1>3. IsFiniteSet(T \X CallNumber)
  BY <1>1, <1>2, FS_Product
<1>4. IsFiniteSet(MovedBy(T))
  BY <1>3, FS_Subset DEF MovedBy
<1> QED BY <1>4, FS_CardinalityType

LEMMA MovedByKept ==
  ASSUME NEW T \in SUBSET GThread, \A s \in T : Requests(s)' = Requests(s)
  PROVE  MovedBy(T)' = MovedBy(T)
BY DEF MovedBy

LEMMA MovedByOne ==
  ASSUME NEW T \in SUBSET GThread, NEW t \in T, Requests(t)' = qi[t] + 1, Requests(t) = qi[t],
         qi[t] \in CallNumber, \A s \in T \ {t} : Requests(s)' = Requests(s)
  PROVE  Cardinality(MovedBy(T)') = Cardinality(MovedBy(T)) + 1
<1> DEFINE new == <<t, qi[t]>>
<1>1. qi[t] \in Int /\ \A n \in CallNumber : n \in Int
  BY DEF CallNumber
<1>2. \A x \in T \X CallNumber : x = <<x[1], x[2]>> /\ x[1] \in T /\ x[2] \in CallNumber
  OBVIOUS
<1>3. \A x \in T \X CallNumber : x[2] < Requests(x[1])' <=> x[2] < Requests(x[1]) \/ x = new
  <2> SUFFICES ASSUME NEW x \in T \X CallNumber
               PROVE  x[2] < Requests(x[1])' <=> x[2] < Requests(x[1]) \/ x = new
    OBVIOUS
  <2>1. CASE x[1] # t
    <3>1. x # new /\ Requests(x[1])' = Requests(x[1])
      BY <2>1, <1>2
    <3> QED BY <3>1
  <2>2. CASE x[1] = t
    <3>1. x = new <=> x[2] = qi[t]
      BY <2>2, <1>2
    <3>2. x[2] < qi[t] + 1 <=> x[2] < qi[t] \/ x[2] = qi[t]
      BY <1>1, <1>2
    <3> QED BY <2>2, <3>1, <3>2
  <2> QED BY <2>1, <2>2
<1>4. new \in T \X CallNumber /\ new[1] = t /\ new[2] = qi[t] /\ ~(new[2] < Requests(new[1]))
  BY <1>1
<1>5. MovedBy(T)' = MovedBy(T) \cup {new} /\ new \notin MovedBy(T)
  <2> HIDE DEF new
  <2>1. MovedBy(T)' = {x \in T \X CallNumber : x[2] < Requests(x[1])'}
    BY DEF MovedBy
  <2>2. MovedBy(T) = {x \in T \X CallNumber : x[2] < Requests(x[1])}
    BY DEF MovedBy
  <2>3. \A x : x \in MovedBy(T)' <=> x \in MovedBy(T) \cup {new}
    BY <2>1, <2>2, <1>3, <1>4
  <2>4. new \notin MovedBy(T)
    BY <2>2, <1>4
  <2> QED BY <2>3, <2>4
<1>6. IsFiniteSet(MovedBy(T))
  BY MovedByFinite
<1> HIDE DEF new
<1> QED BY <1>5, <1>6, FS_AddElement

LEMMA GhostCountNext ==
  ASSUME GhostType, GhostControl, GhostJoins, GhostBuffer, GhostCount, [Ghost!TestNext]_ghostVars
  PROVE  GhostCount'
<1> USE DEF Ghost!queue, Ghost!conds, Ghost!Goto, Ghost!vars, Ghost!testVars
<1>p. /\ Producers \in SUBSET GThread /\ Consumers \in SUBSET GThread
      /\ \A t \in GThread : t \notin Producers <=> t \in Consumers
  BY GhostFacts DEF GThread, Producers, Consumers
<1>n. /\ Cardinality(MovedBy(Producers)) \in Nat /\ Cardinality(MovedBy(Consumers)) \in Nat
      /\ qlength \in Int
  BY <1>p, MovedByFinite, GhostFacts DEF GhostBuffer
<1>1. ASSUME \A s \in GThread : Requests(s)' = Requests(s), qlength' = qlength
      PROVE  GhostCount'
  <2>1. MovedBy(Producers)' = MovedBy(Producers) /\ MovedBy(Consumers)' = MovedBy(Consumers)
    BY <1>1, <1>p, MovedByKept
  <2> QED BY <1>1, <2>1 DEF GhostCount
<1>2. CASE Quiet
  BY <1>2, <1>1 DEF Quiet, Requests
<1>3. ASSUME NEW t \in GThread, Ghost!CallReturned(t) PROVE GhostCount'
  <2>1. /\ stage[t] = "call" /\ qpc[t] = "out" /\ stage' = [stage EXCEPT ![t] = "loop"]
        /\ qi' = [qi EXCEPT ![t] = qi[t] + 1]
        /\ UNCHANGED <<qlength, qpc>>
    BY <1>3 DEF Ghost!CallReturned
  <2>2. Requests(t)' = Requests(t)
    BY <2>1 DEF Requests, Moved, GhostType
  <2>3. \A s \in GThread \ {t} : Requests(s)' = Requests(s)
    BY <2>1 DEF Requests, Moved, GhostType
  <2> QED BY <2>1, <2>2, <2>3, <1>1
(* The thread t moves a request, which is a new one.                       *)
<1>4. ASSUME NEW t \in GThread, qpc[t] = "transfer", qpc' = [qpc EXCEPT ![t] = "signal"],
             UNCHANGED <<stage, qi>>
      PROVE  /\ Requests(t)' = qi[t] + 1 /\ Requests(t) = qi[t] /\ qi[t] \in CallNumber
             /\ \A s \in GThread \ {t} : Requests(s)' = Requests(s)
  <2>1. stage[t] = "call"
    BY <1>4, OneInside
  <2>2. qi[t] \in CallNumber
    BY <2>1, GhostFacts DEF GhostType, GhostControl, CallNumber
  <2>3. Requests(t)' = qi[t] + 1 /\ Requests(t) = qi[t]
    BY <2>1, <1>4 DEF Requests, Moved, GhostType
  <2>4. \A s \in GThread \ {t} : Requests(s)' = Requests(s)
    BY <1>4 DEF Requests, Moved, GhostType
  <2> QED BY <2>2, <2>3, <2>4
<1>5. ASSUME NEW t \in GThread, Ghost!StampAndPut(t) PROVE GhostCount'
  <2>1. /\ qpc[t] = "transfer" /\ qop[t].kind = "add" /\ qpc' = [qpc EXCEPT ![t] = "signal"]
        /\ qlength' = len[t] + 1 /\ UNCHANGED <<stage, qi>>
    BY <1>5 DEF Ghost!StampAndPut, Ghost!Put
  <2>2. t \in Producers /\ t \notin Consumers /\ len[t] = qlength
    BY <2>1, <1>p, OneInside DEF GhostBuffer
  <2>3. /\ Requests(t)' = qi[t] + 1 /\ Requests(t) = qi[t] /\ qi[t] \in CallNumber
        /\ \A s \in GThread \ {t} : Requests(s)' = Requests(s)
    BY <2>1, <1>4
  <2>4. Cardinality(MovedBy(Producers)') = Cardinality(MovedBy(Producers)) + 1
    BY <2>2, <2>3, <1>p, MovedByOne
  <2>5. MovedBy(Consumers)' = MovedBy(Consumers)
    BY <2>2, <2>3, <1>p, MovedByKept
  <2> QED BY <2>1, <2>2, <2>4, <2>5, <1>n DEF GhostCount
<1>6. ASSUME NEW t \in GThread, Ghost!Take(t), UNCHANGED Ghost!testVars PROVE GhostCount'
  <2>1. /\ qpc[t] = "transfer" /\ qop[t].kind # "add" /\ qpc' = [qpc EXCEPT ![t] = "signal"]
        /\ qlength' = len[t] - 1 /\ UNCHANGED <<stage, qi>>
    BY <1>6 DEF Ghost!Take
  <2>2. t \notin Producers /\ t \in Consumers /\ len[t] = qlength
    BY <2>1, <1>p, OneInside DEF GhostBuffer
  <2>3. /\ Requests(t)' = qi[t] + 1 /\ Requests(t) = qi[t] /\ qi[t] \in CallNumber
        /\ \A s \in GThread \ {t} : Requests(s)' = Requests(s)
    BY <2>1, <1>4
  <2>4. Cardinality(MovedBy(Consumers)') = Cardinality(MovedBy(Consumers)) + 1
    BY <2>2, <2>3, <1>p, MovedByOne
  <2>5. MovedBy(Producers)' = MovedBy(Producers)
    BY <2>2, <2>3, <1>p, MovedByKept
  <2> QED BY <2>1, <2>2, <2>4, <2>5, <1>n DEF GhostCount
<1> QED BY <1>2, <1>3, <1>5, <1>6, GhostMoves

LEMMA GhostInitInv == Ghost!TestInit => GhostInv
<1> SUFFICES ASSUME Ghost!TestInit PROVE GhostInv
  OBVIOUS
<1> USE DEF Ghost!TestInit, Ghost!Init
<1>1. GhostType /\ GhostControl /\ GhostJoins
  BY GhostFacts DEF GhostType, GhostControl, GhostJoins, InCS, Ghost!NoOp, GThread
<1>2. GhostBuffer
  <2>1. /\ SIZE \in Nat \ {0} /\ qlength = 0 /\ head = 0 /\ tail = 0 /\ next = 0
        /\ qbuf = [s \in Buffer |-> NULL] /\ len = [t \in GThread |-> 0]
        /\ \A t \in GThread : qpc[t] # "transfer"
    BY GhostFacts DEF Ghost!Slot, Buffer, GThread
  <2>2. 0 \in Buffer /\ 0 \in 0 .. SIZE /\ SlotFrom(0, 0) = 0 /\ 0 .. 0-1 = {}
    BY <2>1 DEF Buffer, SlotFrom
  <2> HIDE DEF Ghost!TestInit, Ghost!Init
  <2>3. qbuf \in [Buffer -> Int \cup {NULL}] /\ len \in [GThread -> Int]
    BY <2>1
  <2>4. \A k \in 0 .. qlength-1 : qbuf[SlotFrom(head, k)] = next - qlength + k
    BY <2>1, <2>2
  <2>5. tail = SlotFrom(head, qlength)
    BY <2>1, <2>2
  <2> QED BY <2>1, <2>2, <2>3, <2>4, <2>5 DEF GhostBuffer
<1>3. GhostResults
  <2>1. /\ res = [t \in GThread |-> <<>>] /\ qret = [t \in GThread |-> NULL]
        /\ \A t \in GThread : stage[t] # "call"
    BY DEF GThread
  <2> HIDE DEF Ghost!TestInit, Ghost!Init
  <2>2. \A t \in GThread : ~Holds(t)
    BY <2>1 DEF Holds, Moved
  <2>a. <<>> \in Seq(Int) /\ DOMAIN <<>> = {}
    OBVIOUS
  <2>b. \A t \in GThread : res[t] = <<>>
    BY <2>1
  <2>3. \A t \in GThread : DOMAIN res[t] = {}
    BY <2>a, <2>b
  <2>4. res \in [GThread -> Seq(Int)] /\ qret \in [GThread -> Int \cup {NULL}]
    BY <2>1, <2>a
  <2> QED BY <2>2, <2>3, <2>4 DEF GhostResults
<1>4. GhostCount
  <2>1. \A t \in GThread : Requests(t) = 0
    BY DEF Requests, Moved, GThread
  <2>2. \A T \in SUBSET GThread : MovedBy(T) = {}
    BY <2>1, GhostFacts DEF MovedBy, CallNumber
  <2>3. Producers \in SUBSET GThread /\ Consumers \in SUBSET GThread
    BY GhostFacts DEF GThread, Producers, Consumers
  <2>4. MovedBy(Producers) = {} /\ MovedBy(Consumers) = {} /\ qlength = 0
    BY <2>2, <2>3
  <2> QED BY <2>4, FS_EmptySet DEF GhostCount
<1> QED BY <1>1, <1>2, <1>3, <1>4 DEF GhostInv

LEMMA GhostNextInv == GhostInv /\ [Ghost!TestNext]_ghostVars => GhostInv'
BY GhostControlNext, GhostBufferNext, GhostResultsNext, GhostCountNext DEF GhostInv

(* When main deletes the queue, every thread has made all its calls.       *)
LEMMA GhostCorrect == GhostInv => Ghost!StampsInOrder /\ Ghost!DeletedWhenUnused
<1> SUFFICES ASSUME GhostInv PROVE Ghost!StampsInOrder /\ Ghost!DeletedWhenUnused
  OBVIOUS
<1> USE DEF GhostInv
<1>1. \A t \in GThread : \A j, k \in DOMAIN res[t] : j < k => res[t][j] < res[t][k]
  BY DEF GhostResults
<1>2. \A s, t \in GThread : s # t => Ghost!ToSet(res[s]) \cap Ghost!ToSet(res[t]) = {}
  BY DEF GhostResults, Ghost!ToSet
<1>3. \A j \in DOMAIN Ghost!Content : Ghost!Content[j] = next - qlength + j - 1
  <2>n. SIZE \in Nat \ {0} /\ qlength \in 0 .. SIZE /\ head \in 0 .. SIZE-1 /\ next \in Int
    BY GhostFacts DEF GhostBuffer, Buffer
  <2>1. \A k \in 0 .. qlength-1 : qbuf[SlotFrom(head, k)] = next - qlength + k
    BY DEF GhostBuffer
  <2>2. ASSUME NEW j \in 1 .. qlength PROVE qbuf[Ghost!SlotAt(j)] = next - qlength + j - 1
    <3>1. j - 1 \in 0 .. qlength-1 /\ head + j - 1 = head + (j - 1) /\ next - qlength + j - 1 = next - qlength + (j - 1)
      BY <2>n
    <3>2. Ghost!SlotAt(j) = SlotFrom(head, j - 1)
      BY <3>1, <2>n DEF Ghost!SlotAt, SlotFrom
    <3> QED BY <3>1, <3>2, <2>1
  <2> QED BY <2>2 DEF Ghost!Content
<1>4. ASSUME qmain = "deleted"
      PROVE  /\ qlength = 0 /\ qlock = {}
             /\ \A t \in GThread : stage[t] = "done" /\ qpc[t] = "out"
  <2>1. \A t \in GThread : stage[t] = "done" /\ qpc[t] = "out" /\ qi[t] = Calls
    BY <1>4 DEF GhostJoins, GhostControl
  <2>2. qlock = {}
    BY <2>1 DEF GhostType, GhostControl, InCS
  <2>3. \A t \in GThread : Requests(t) = Calls
    BY <2>1 DEF Requests, Moved
  <2>4. \A T \in SUBSET GThread : MovedBy(T) = T \X CallNumber
    BY <2>3, GhostFacts DEF MovedBy, CallNumber
  <2>5. /\ Producers \in SUBSET GThread /\ Consumers \in SUBSET GThread
        /\ IsFiniteSet(Producers) /\ Cardinality(Producers) = NProducers
        /\ IsFiniteSet(Consumers) /\ Cardinality(Consumers) = NProducers
    <3>1. Producers \in SUBSET GThread /\ Consumers \in SUBSET GThread
      BY GhostFacts DEF GThread, Producers, Consumers
    <3>2. IsFiniteSet(Producers) /\ Cardinality(Producers) = NProducers
      <4>1. 0 \in Int /\ NProducers-1 \in Int /\ ~(0 > NProducers-1) /\ NProducers-1 - 0 + 1 = NProducers
        BY GhostFacts
      <4> QED BY <4>1, FS_Interval DEF Producers
    <3>3. IsFiniteSet(Consumers) /\ Cardinality(Consumers) = NProducers
      <4>1. NProducers \in Int /\ 2*NProducers-1 \in Int /\ ~(NProducers > 2*NProducers-1)
            /\ 2*NProducers-1 - NProducers + 1 = NProducers
        BY GhostFacts
      <4> QED BY <4>1, FS_Interval DEF Consumers
    <3> QED BY <3>1, <3>2, <3>3
  <2>6. IsFiniteSet(CallNumber)
    BY GhostFacts, FS_Interval DEF CallNumber
  <2>7. /\ Cardinality(Producers \X CallNumber) = NProducers * Cardinality(CallNumber)
        /\ Cardinality(Consumers \X CallNumber) = NProducers * Cardinality(CallNumber)
    BY <2>5, <2>6, FS_Product
  <2>8. Cardinality(MovedBy(Producers)) = Cardinality(MovedBy(Consumers))
    BY <2>4, <2>5, <2>7
  <2>9. qlength = 0
    BY <2>5, <2>8, MovedByFinite, GhostFacts DEF GhostCount, GhostBuffer
  <2> QED BY <2>1, <2>2, <2>9
<1>5. Ghost!StampsInOrder
  BY <1>1, <1>2, <1>3 DEF Ghost!StampsInOrder, GThread
<1>6. Ghost!DeletedWhenUnused
  BY <1>4 DEF Ghost!DeletedWhenUnused, GThread
<1> QED BY <1>5, <1>6

-----------------------------------------------------------------------------
(* cond_queue.c.                                                           *)

RequestType ==
  /\ rlength \in 0 .. SIZE
  /\ rbuf \in [Cond!Slot -> Request \cup {NULL}]
  /\ request \in [Cond!Role -> Request \cup {NULL}]
  /\ rlock \in Cond!Role \cup {"none"}
  /\ rpc \in [Cond!Role -> {"new", "get", "acquire", "asleep", "test", "signal", "process", "loop"}]

(* Who has the lock; and who has a request in its hands.                   *)
RequestControl ==
  /\ \A t \in Cond!Role : rlock = t <=> rpc[t] = "test"
  /\ \A t \in Cond!Role : request[t] # NULL <=>
       \/ t = "producer" /\ rpc[t] \in {"acquire", "asleep", "test"}
       \/ t = "consumer" /\ rpc[t] \in {"signal", "process"}
  /\ rpc["main"] \in {"acquire", "asleep", "test", "loop"}
  /\ rpc["main"] # "loop" => rpc["producer"] = "new"
  /\ rpc["producer"] # "process" /\ rpc["consumer"] # "new"

(* The buffer is a stack; no request is in two places.                     *)
Places ==
  /\ \A s \in Cond!Slot : rbuf[s] = NULL <=> s >= rlength
  /\ \A s, u \in Cond!Slot : s # u /\ rbuf[s] # NULL => rbuf[s] # rbuf[u]
  /\ \A s \in Cond!Slot, t \in Cond!Role : rbuf[s] # NULL => rbuf[s] # request[t]
  /\ \A t, u \in Cond!Role : t # u /\ request[t] # NULL => request[t] # request[u]

AllocatedIs ==
  \A r : r \in allocated <=> /\ r # NULL
                            /\ \/ \E s \in Cond!Slot : r = rbuf[s]
                               \/ \E t \in Cond!Role : r = request[t]

Holders == {t \in Cond!Role : request[t] # NULL}
HowMany == Cardinality(allocated) = rlength + Cardinality(Holders)

RequestInv == RequestType /\ RequestControl /\ Places /\ AllocatedIs /\ HowMany

LEMMA RequestFacts ==
  /\ SIZE \in Nat \ {0} /\ IsFiniteSet(Request) /\ NULL \notin Request
  /\ \A s \in Cond!Slot : s \in Int /\ s >= 0 /\ s < SIZE
  /\ \A s \in Int : s >= 0 /\ s < SIZE => s \in Cond!Slot
BY GhostAssumption, RequestAssumption DEF Cond!Slot

LEMMA RequestSets ==
  ASSUME RequestType, AllocatedIs
  PROVE  /\ allocated \in SUBSET Request /\ IsFiniteSet(allocated)
         /\ Cardinality(allocated) \in Nat
         /\ IsFiniteSet(Holders) /\ Cardinality(Holders) \in Nat
         /\ rlength \in Int
<1>1. allocated \in SUBSET Request
  <2>1. \A r \in allocated : r # NULL /\ r \in Request \cup {NULL}
    BY DEF AllocatedIs, RequestType
  <2> QED BY <2>1
<1>2. IsFiniteSet(allocated)
  BY <1>1, RequestFacts, FS_Subset
<1>3. IsFiniteSet(Cond!Role)
  <2>1. IsFiniteSet({"main"})
    BY FS_Singleton
  <2>2. IsFiniteSet({"main"} \cup {"producer"})
    BY <2>1, FS_AddElement
  <2>3. IsFiniteSet(({"main"} \cup {"producer"}) \cup {"consumer"})
    BY <2>2, FS_AddElement
  <2>4. Cond!Role = ({"main"} \cup {"producer"}) \cup {"consumer"}
    BY DEF Cond!Role
  <2> QED BY <2>3, <2>4
<1>4. IsFiniteSet(Holders)
  BY <1>3, FS_Subset DEF Holders
<1> QED BY <1>1, <1>2, <1>4, FS_CardinalityType, RequestFacts DEF RequestType

LEMMA RequestInitInv == Cond!RequestInit => RequestInv
<1> SUFFICES ASSUME Cond!RequestInit PROVE RequestInv
  OBVIOUS
<1>1. /\ rlength = 0 /\ allocated = {} /\ rlock = "none"
      /\ rbuf = [s \in Cond!Slot |-> NULL] /\ request = [t \in Cond!Role |-> NULL]
      /\ rpc = [t \in Cond!Role |-> IF t = "producer" THEN "new" ELSE "acquire"]
  BY DEF Cond!RequestInit
<1>2. RequestType /\ RequestControl
  BY <1>1, RequestFacts DEF RequestType, RequestControl, Cond!Role
<1>3. Places /\ AllocatedIs
  BY <1>1, RequestFacts DEF Places, AllocatedIs
<1>4. Holders = {}
  BY <1>1 DEF Holders
<1>5. HowMany
  BY <1>1, <1>4, FS_EmptySet DEF HowMany
<1> QED BY <1>2, <1>3, <1>5 DEF RequestInv

(* Steps that move no request.                                             *)
LEMMA RequestsStay ==
  ASSUME RequestInv, UNCHANGED <<rlength, rbuf, request, allocated>>
  PROVE  Places' /\ AllocatedIs' /\ HowMany'
BY DEF RequestInv, Places, AllocatedIs, HowMany, Holders

LEMMA RequestNextInv == RequestInv /\ [Cond!RequestNext]_requestVars => RequestInv'
<1> SUFFICES ASSUME RequestInv, [Cond!RequestNext]_requestVars PROVE RequestInv'
  OBVIOUS
<1>r. "main" \in Cond!Role /\ "producer" \in Cond!Role /\ "consumer" \in Cond!Role
      /\ \A t \in Cond!Role : t = "main" \/ t = "producer" \/ t = "consumer"
  BY DEF Cond!Role
<1>i. RequestType /\ RequestControl /\ Places /\ AllocatedIs /\ HowMany
  BY DEF RequestInv
<1>s. /\ allocated \in SUBSET Request /\ IsFiniteSet(allocated)
      /\ Cardinality(allocated) \in Nat
      /\ IsFiniteSet(Holders) /\ Cardinality(Holders) \in Nat
      /\ rlength \in Int
  BY <1>i, RequestSets
<1> USE DEF Cond!Goto
<1>1. ASSUME NEW t \in Cond!Role, Cond!Acquire(t) PROVE RequestInv'
  <2>1. /\ rpc[t] \in {"acquire", "asleep"} /\ rlock = "none" /\ rlock' = t
        /\ rpc' = [rpc EXCEPT ![t] = "test"] /\ UNCHANGED <<rlength, rbuf, request, allocated>>
    BY <1>1 DEF Cond!Acquire
  <2>2. RequestType'
    BY <2>1, <1>i DEF RequestType
  <2>3. RequestControl'
    BY <2>1, <1>i, <1>r DEF RequestType, RequestControl
  <2> QED BY <2>1, <2>2, <2>3, RequestsStay DEF RequestInv
<1>2. ASSUME NEW t \in Cond!Role, Cond!Wait(t) PROVE RequestInv'
  <2>1. /\ rpc[t] = "test" /\ rlock' = "none"
        /\ rpc' = [rpc EXCEPT ![t] = "asleep"] /\ UNCHANGED <<rlength, rbuf, request, allocated>>
    BY <1>2 DEF Cond!Wait
  <2>2. RequestType'
    BY <2>1, <1>i DEF RequestType
  <2>3. RequestControl'
    BY <2>1, <1>i, <1>r DEF RequestType, RequestControl
  <2> QED BY <2>1, <2>2, <2>3, RequestsStay DEF RequestInv
<1>3. ASSUME NEW t \in Cond!Role, Cond!Signal(t) PROVE RequestInv'
  <2>1. /\ rpc[t] = "signal" /\ UNCHANGED <<rlock, rlength, rbuf, request, allocated>>
        /\ rpc' = [rpc EXCEPT ![t] = IF t = "producer" THEN "get" ELSE "process"]
    BY <1>3 DEF Cond!Signal
  <2>2. RequestType'
    BY <2>1, <1>i DEF RequestType
  <2>3. RequestControl'
    BY <2>1, <1>i, <1>r DEF RequestType, RequestControl
  <2> QED BY <2>1, <2>2, <2>3, RequestsStay DEF RequestInv
<1>4. CASE Cond!StartProducer
  <2>1. /\ rpc["main"] = "test" /\ rlock' = "none" /\ UNCHANGED <<rlength, rbuf, request, allocated>>
        /\ rpc' = [rpc EXCEPT !["main"] = "loop", !["producer"] = "get"]
    BY <1>4 DEF Cond!StartProducer
  <2>2. RequestType'
    BY <2>1, <1>i DEF RequestType
  <2>3. RequestControl'
    BY <2>1, <1>i, <1>r DEF RequestType, RequestControl
  <2> QED BY <2>1, <2>2, <2>3, RequestsStay DEF RequestInv
<1>5. CASE Cond!GetRequest
  <2>1. PICK r \in Request \ allocated :
          /\ allocated' = allocated \cup {r} /\ request' = [request EXCEPT !["producer"] = r]
          /\ rpc["producer"] = "get" /\ rpc' = [rpc EXCEPT !["producer"] = "acquire"]
          /\ UNCHANGED <<rlock, rlength, rbuf>>
    BY <1>5 DEF Cond!GetRequest
  <2>2. RequestType'
    BY <2>1, <1>i DEF RequestType
  <2>n. r # NULL
    BY RequestFacts
  <2>3. RequestControl'
    BY <2>1, <2>n, <1>i, <1>r DEF RequestType, RequestControl
  <2>4. /\ request["producer"] = NULL /\ request'["producer"] = r
        /\ \A t \in Cond!Role : t # "producer" => request'[t] = request[t]
    BY <2>1, <1>i, <1>r DEF RequestControl, RequestType
  (* r is nowhere yet.                                                     *)
  <2>5. (\A s \in Cond!Slot : rbuf[s] # r) /\ (\A t \in Cond!Role : request[t] # r)
    BY <2>1, <2>n, <1>i DEF AllocatedIs
  <2>6. Places'
    <3>1. \A s \in Cond!Slot, t \in Cond!Role : rbuf[s] # NULL => rbuf[s] # request'[t]
      BY <2>4, <2>5, <1>i DEF Places
    <3>2. \A t, u \in Cond!Role : t # u /\ request'[t] # NULL => request'[t] # request'[u]
      BY <2>4, <2>5, <1>i DEF Places
    <3> QED BY <2>1, <3>1, <3>2, <1>i DEF Places
  <2>7. AllocatedIs'
    <3>1. \A q : (\E t \in Cond!Role : q = request'[t]) <=>
                 q = r \/ \E t \in Cond!Role : t # "producer" /\ q = request[t]
      BY <2>4, <1>r
    <3>2. \A q : q # NULL => ((\E t \in Cond!Role : q = request'[t]) <=>
                             q = r \/ \E t \in Cond!Role : q = request[t])
      BY <3>1, <2>4
    <3> QED BY <2>1, <2>n, <3>2, <1>i DEF AllocatedIs
  <2>8. HowMany'
    <3>1. Holders' = Holders \cup {"producer"} /\ "producer" \notin Holders
      BY <2>4, <2>n, <1>r DEF Holders
    <3>2. Cardinality(Holders') = Cardinality(Holders) + 1
      BY <3>1, <1>s, FS_AddElement
    <3>3. Cardinality(allocated') = Cardinality(allocated) + 1
      BY <2>1, <1>s, FS_AddElement
    <3>4. Cardinality(allocated) = rlength + Cardinality(Holders) /\ rlength' = rlength
      BY <2>1, <1>i DEF HowMany
    <3> QED BY <3>2, <3>3, <3>4, <1>s DEF HowMany
  <2> QED BY <2>2, <2>3, <2>6, <2>7, <2>8 DEF RequestInv
<1>6. CASE Cond!Add
  <2>1. /\ rpc["producer"] = "test" /\ ~(rlength >= SIZE)
        /\ rbuf' = [s \in Cond!Slot \cup {rlength} |-> IF s = rlength THEN request["producer"] ELSE rbuf[s]]
        /\ rlength' = rlength + 1 /\ request' = [request EXCEPT !["producer"] = NULL]
        /\ rlock' = "none" /\ rpc' = [rpc EXCEPT !["producer"] = "signal"] /\ allocated' = allocated
    BY <1>6 DEF Cond!Add, Cond!MustWait
  <2>2. /\ rlength \in Cond!Slot /\ Cond!Slot \cup {rlength} = Cond!Slot
        /\ rlength >= 0 /\ rlength < SIZE
    BY <2>1, <1>i, <1>s, RequestFacts DEF RequestType
  <2> PICK r \in Request : r = request["producer"]
    BY <2>1, <1>i, <1>r DEF RequestType, RequestControl
  <2>n. r # NULL
    BY RequestFacts
  <2>3. /\ rbuf' \in [Cond!Slot -> Request \cup {NULL}] /\ rbuf'[rlength] = r
        /\ \A s \in Cond!Slot : s # rlength => rbuf'[s] = rbuf[s]
    BY <2>1, <2>2, <1>i DEF RequestType
  <2>4. /\ request'["producer"] = NULL
        /\ \A t \in Cond!Role : t # "producer" => request'[t] = request[t]
        /\ request' \in [Cond!Role -> Request \cup {NULL}]
    BY <2>1, <1>i, <1>r DEF RequestType
  <2>5. RequestType'
    <3>1. rlength + 1 \in 0 .. SIZE
      BY <2>2, <1>s, RequestFacts
    <3> QED BY <2>1, <2>3, <2>4, <3>1, <1>i DEF RequestType
  <2>6. RequestControl'
    BY <2>1, <2>4, <1>i, <1>r DEF RequestType, RequestControl
  <2>7. rbuf[rlength] = NULL
    BY <2>2, <1>i, <1>s DEF Places
  <2>8. Places'
    <3>1. \A s \in Cond!Slot : rbuf'[s] = NULL <=> s >= rlength'
      <4> SUFFICES ASSUME NEW s \in Cond!Slot PROVE rbuf'[s] = NULL <=> s >= rlength'
        OBVIOUS
      <4>1. CASE s = rlength
        BY <4>1, <2>1, <2>n, <2>3, <1>s
      <4>2. CASE s # rlength
        <5>1. s >= rlength <=> s >= rlength + 1
          BY <4>2, <1>s, RequestFacts
        <5>2. rbuf[s] = NULL <=> s >= rlength
          BY <1>i DEF Places
        <5> QED BY <4>2, <5>1, <5>2, <2>1, <2>3
      <4> QED BY <4>1, <4>2
    <3>2. \A s \in Cond!Slot : rbuf[s] # r
      BY <2>n, <1>i, <1>r DEF Places
    <3>3. \A s, u \in Cond!Slot : s # u /\ rbuf'[s] # NULL => rbuf'[s] # rbuf'[u]
      BY <3>2, <2>3, <1>i DEF Places
    <3>4. \A t \in Cond!Role : t # "producer" => request[t] # r
      BY <2>n, <1>i, <1>r DEF Places
    <3>5. \A s \in Cond!Slot, t \in Cond!Role : rbuf'[s] # NULL => rbuf'[s] # request'[t]
      BY <3>4, <2>3, <2>4, <2>n, <1>i DEF Places
    <3>6. \A t, u \in Cond!Role : t # u /\ request'[t] # NULL => request'[t] # request'[u]
      BY <2>4, <1>i DEF Places
    <3> QED BY <3>1, <3>3, <3>5, <3>6 DEF Places
  <2>9. AllocatedIs'
    <3>1. \A q : q # NULL => ((\E s \in Cond!Slot : q = rbuf'[s]) <=>
                             q = r \/ \E s \in Cond!Slot : q = rbuf[s])
      BY <2>2, <2>3, <2>7
    <3>2. \A q : q # NULL => ((\E t \in Cond!Role : q = request[t]) <=>
                             q = r \/ \E t \in Cond!Role : q = request'[t])
      BY <2>4, <1>r
    <3> QED BY <2>1, <3>1, <3>2, <1>i DEF AllocatedIs
  <2>10. HowMany'
    <3>1. Holders' = Holders \ {"producer"} /\ "producer" \in Holders
      BY <2>4, <2>n, <1>r DEF Holders
    <3>2. Cardinality(Holders') = Cardinality(Holders) - 1
      BY <3>1, <1>s, FS_RemoveElement
    <3> QED BY <2>1, <3>2, <1>i, <1>s DEF HowMany
  <2> QED BY <2>5, <2>6, <2>8, <2>9, <2>10 DEF RequestInv
<1>7. CASE Cond!Remove
  <2>1. /\ rpc["consumer"] = "test" /\ rlength # 0
        /\ request' = [request EXCEPT !["consumer"] = rbuf[rlength - 1]]
        /\ rbuf' = [rbuf EXCEPT ![rlength - 1] = NULL] /\ rlength' = rlength - 1
        /\ rlock' = "none" /\ rpc' = [rpc EXCEPT !["consumer"] = "signal"] /\ allocated' = allocated
    BY <1>7 DEF Cond!Remove, Cond!MustWait
  <2> PICK top \in Int : top = rlength - 1
    BY <1>s
  <2>2. top \in Cond!Slot /\ ~(top >= rlength) /\ rlength \in Int /\ rlength = top + 1
    BY <2>1, <1>i, <1>s, RequestFacts DEF RequestType
  <2> PICK r \in Request : r = rbuf[top]
    BY <2>2, <1>i DEF RequestType, Places
  <2>n. r # NULL
    BY RequestFacts
  <2>3. /\ rbuf' \in [Cond!Slot -> Request \cup {NULL}] /\ rbuf'[top] = NULL
        /\ \A s \in Cond!Slot : s # top => rbuf'[s] = rbuf[s]
    BY <2>1, <2>2, <1>i DEF RequestType
  <2>4. /\ request["consumer"] = NULL /\ request'["consumer"] = r
        /\ \A t \in Cond!Role : t # "consumer" => request'[t] = request[t]
        /\ request' \in [Cond!Role -> Request \cup {NULL}]
    BY <2>1, <1>i, <1>r DEF RequestType, RequestControl
  <2>5. RequestType'
    <3>1. rlength - 1 \in 0 .. SIZE
      BY <2>1, <1>i, RequestFacts DEF RequestType
    <3> QED BY <2>1, <2>3, <2>4, <3>1, <1>i DEF RequestType
  <2>6. RequestControl'
    BY <2>1, <2>4, <2>n, <1>i, <1>r DEF RequestType, RequestControl
  <2>7. /\ \A s \in Cond!Slot : s # top => rbuf[s] # r
        /\ \A t \in Cond!Role : request[t] # r
    BY <2>2, <2>n, <1>i DEF Places
  <2>8. Places'
    <3>1. \A s \in Cond!Slot : rbuf'[s] = NULL <=> s >= rlength'
      <4> SUFFICES ASSUME NEW s \in Cond!Slot PROVE rbuf'[s] = NULL <=> s >= rlength'
        OBVIOUS
      <4>0. rlength' = top
        BY <2>1
      <4>1. CASE s = top
        BY <4>0, <4>1, <2>3
      <4>2. CASE s # top
        <5>1. s >= rlength <=> s >= top
          BY <4>2, <2>2, RequestFacts
        <5>2. rbuf[s] = NULL <=> s >= rlength
          BY <1>i DEF Places
        <5> QED BY <4>0, <4>2, <5>1, <5>2, <2>3
      <4> QED BY <4>1, <4>2
    <3>2. \A s, u \in Cond!Slot : s # u /\ rbuf'[s] # NULL => rbuf'[s] # rbuf'[u]
      BY <2>3, <1>i DEF Places
    <3>3. \A s \in Cond!Slot, t \in Cond!Role : rbuf'[s] # NULL => rbuf'[s] # request'[t]
      BY <2>3, <2>4, <2>7, <1>i DEF Places
    <3>4. \A t, u \in Cond!Role : t # u /\ request'[t] # NULL => request'[t] # request'[u]
      BY <2>4, <2>7, <1>i DEF Places
    <3> QED BY <3>1, <3>2, <3>3, <3>4 DEF Places
  <2>9. AllocatedIs'
    <3>1. \A q : q # NULL => ((\E s \in Cond!Slot : q = rbuf[s]) <=>
                             q = r \/ \E s \in Cond!Slot : q = rbuf'[s])
      BY <2>2, <2>3
    <3>2. \A q : q # NULL => ((\E t \in Cond!Role : q = request'[t]) <=>
                             q = r \/ \E t \in Cond!Role : q = request[t])
      BY <2>4, <1>r
    <3>3. ASSUME NEW q
          PROVE  q \in allocated' <=> /\ q # NULL
                                      /\ \/ \E s \in Cond!Slot : q = rbuf'[s]
                                         \/ \E t \in Cond!Role : q = request'[t]
      <4>1. q \in allocated <=> /\ q # NULL
                                /\ \/ \E s \in Cond!Slot : q = rbuf[s]
                                   \/ \E t \in Cond!Role : q = request[t]
        BY <1>i DEF AllocatedIs
      <4>2. q \in allocated' <=> q \in allocated
        BY <2>1
      <4> QED BY <3>1, <3>2, <4>1, <4>2
    <3> QED BY <3>3 DEF AllocatedIs
  <2>10. HowMany'
    <3>1. Holders' = Holders \cup {"consumer"} /\ "consumer" \notin Holders
      BY <2>4, <2>n, <1>r DEF Holders
    <3>2. Cardinality(Holders') = Cardinality(Holders) + 1
      BY <3>1, <1>s, FS_AddElement
    <3> QED BY <2>1, <3>2, <1>i, <1>s DEF HowMany
  <2> QED BY <2>5, <2>6, <2>8, <2>9, <2>10 DEF RequestInv
<1>8. CASE Cond!Process
  <2>1. /\ rpc["consumer"] = "process" /\ allocated' = allocated \ {request["consumer"]}
        /\ request' = [request EXCEPT !["consumer"] = NULL]
        /\ rpc' = [rpc EXCEPT !["consumer"] = "acquire"] /\ UNCHANGED <<rlock, rlength, rbuf>>
    BY <1>8 DEF Cond!Process
  <2> PICK r \in Request : r = request["consumer"]
    BY <2>1, <1>i, <1>r DEF RequestType, RequestControl
  <2>n. r # NULL
    BY RequestFacts
  <2>2. RequestType'
    BY <2>1, <1>i DEF RequestType
  <2>4. /\ request'["consumer"] = NULL
        /\ \A t \in Cond!Role : t # "consumer" => request'[t] = request[t]
    BY <2>1, <1>i, <1>r DEF RequestType
  <2>3. RequestControl'
    BY <2>1, <2>4, <1>i, <1>r DEF RequestType, RequestControl
  <2>5. /\ \A s \in Cond!Slot : rbuf[s] # r
        /\ \A t \in Cond!Role : t # "consumer" => request[t] # r
    BY <2>n, <1>i, <1>r DEF Places
  <2>6. Places'
    BY <2>1, <2>4, <1>i DEF Places
  <2>7. AllocatedIs'
    <3>1. \A q : q # NULL => ((\E t \in Cond!Role : q = request'[t]) <=>
                             q # r /\ \E t \in Cond!Role : q = request[t])
      BY <2>4, <2>5, <1>r
    <3> QED BY <2>1, <2>5, <3>1, <1>i DEF AllocatedIs
  <2>8. HowMany'
    <3>1. Holders' = Holders \ {"consumer"} /\ "consumer" \in Holders
      BY <2>4, <2>n, <1>r DEF Holders
    <3>2. Cardinality(Holders') = Cardinality(Holders) - 1
      BY <3>1, <1>s, FS_RemoveElement
    <3>3. r \in allocated
      BY <2>n, <1>i, <1>r DEF AllocatedIs
    <3>4. Cardinality(allocated') = Cardinality(allocated) - 1
      BY <2>1, <3>3, <1>s, FS_RemoveElement
    <3> QED BY <2>1, <3>2, <3>4, <1>i, <1>s DEF HowMany
  <2> QED BY <2>2, <2>3, <2>6, <2>7, <2>8 DEF RequestInv
<1>9. CASE UNCHANGED requestVars
  <2>1. UNCHANGED <<rlock, rpc, rlength, rbuf, request, allocated>>
    BY <1>9 DEF requestVars
  <2>2. RequestType' /\ RequestControl'
    BY <2>1, <1>i DEF RequestType, RequestControl
  <2> QED BY <2>1, <2>2, RequestsStay DEF RequestInv
<1> QED
  BY <1>1, <1>2, <1>3, <1>4, <1>5, <1>6, <1>7, <1>8, <1>9
  DEF Cond!RequestNext, Cond!RequestStep, Cond!ProducerStep, Cond!ConsumerStep

LEMMA RequestCorrect == RequestInv => Cond!RequestsAccounted
<1> SUFFICES ASSUME RequestInv PROVE Cond!RequestsAccounted
  OBVIOUS
<1>1. allocated = ({rbuf[s] : s \in Cond!Slot} \cup {request[t] : t \in Cond!Role}) \ {NULL}
  BY DEF RequestInv, AllocatedIs
<1>2. DOMAIN rbuf = Cond!Slot /\ rlength \in 0 .. SIZE
  BY DEF RequestInv, RequestType
<1>3. Cardinality(allocated) = rlength + Cardinality({t \in Cond!Role : request[t] # NULL})
  BY DEF RequestInv, HowMany, Holders
<1>4. \A S : Cond!Cardinality(S) = Cardinality(S)
  BY DEF Cond!Cardinality, Cardinality
<1>5. /\ \A s \in Cond!Slot : rbuf[s] = NULL <=> s >= rlength
      /\ \A s, u \in Cond!Slot : s # u /\ rbuf[s] # NULL => rbuf[s] # rbuf[u]
  BY DEF RequestInv, Places
<1> QED BY <1>1, <1>2, <1>3, <1>4, <1>5 DEF Cond!RequestsAccounted

-----------------------------------------------------------------------------
(* The programs together: each keeps its invariant when another one works. *)

ProgramsInv == IncrInv /\ PairInv /\ TestInv /\ GhostInv /\ CondInv /\ RequestInv

LEMMA ProgramSteps ==
  ASSUME [ProgramsNext]_allVars
  PROVE  /\ [Cond!IncrNNext]_incrVars /\ [Cond!PairNext]_pairVars /\ [TestNext]_tableVars
         /\ [Ghost!TestNext]_ghostVars /\ [Cond!CondNext]_condVars
         /\ [Cond!RequestNext]_requestVars
<1>1. CASE InIncrN /\ Cond!IncrNNext
  BY <1>1 DEF InIncrN
<1>2. CASE InPair /\ Cond!PairNext
  BY <1>2 DEF InPair
<1>3. CASE InTest /\ TestNext
  BY <1>3 DEF InTest
<1>4. CASE InGhost /\ Ghost!TestNext
  BY <1>4 DEF InGhost
<1>5. CASE InCond /\ Cond!CondNext
  BY <1>5 DEF InCond
<1>6. CASE InRequests /\ Cond!RequestNext
  BY <1>6 DEF InRequests
<1>7. CASE UNCHANGED allVars
  BY <1>7 DEF allVars
<1> QED BY <1>1, <1>2, <1>3, <1>4, <1>5, <1>6, <1>7 DEF ProgramsNext

LEMMA ProgramsSafety == ProgramsSpec => ProgramsInit /\ [][ProgramsNext]_allVars
BY PTL DEF ProgramsSpec

THEOREM ProgramsInvariance == ProgramsSpec => []ProgramsInv
<1>1. ProgramsInit => ProgramsInv
  BY IncrInitInv, PairInitInv, TestInitInv, GhostInitInv, CondInitInv, RequestInitInv
  DEF ProgramsInit, ProgramsInv
<1>2. ProgramsInv /\ [ProgramsNext]_allVars => ProgramsInv'
  BY ProgramSteps, IncrNextInv, PairNextInv, TestNextInv, GhostNextInv, CondNextInv, RequestNextInv
  DEF ProgramsInv
<1> QED BY <1>1, <1>2, ProgramsSafety, PTL

(* incrN.c: no thread touches a lock that main has freed.                  *)
THEOREM LocksOutliveThreads == ProgramsSpec => []NoUseAfterFree
<1>1. ProgramsInv => NoUseAfterFree
  BY IncrCorrect DEF ProgramsInv
<1> QED BY <1>1, ProgramsInvariance, PTL

(* incrN.c: whatever the number of threads, main returns it.               *)
THEOREM TotalCorrect == ProgramsSpec => []TotalIsN
<1>1. ProgramsInv => TotalIsN
  BY IncrCorrect DEF ProgramsInv
<1> QED BY <1>1, ProgramsInvariance, PTL

(* main of incr.c and of incr2.c returns 2, and the threads of the hash    *)
(* table's test add as many keys between them as there are.                *)
THEOREM CountsRight == ProgramsSpec => []CountsAreRight
<1>1. ProgramsInv => CountsAreRight
  BY PairCorrect, TestCorrect DEF ProgramsInv, CountsAreRight
<1> QED BY <1>1, ProgramsInvariance, PTL

(* In each program, what main frees nobody uses any more, and what main has*)
(* waited for has happened; the queue of ghost_queue.c is empty then.      *)
THEOREM FreedLast == ProgramsSpec => []FreedWhenUnused
<1>1. ProgramsInv => FreedWhenUnused
  BY PairCorrect, TestCorrect, GhostCorrect, CondCorrect DEF ProgramsInv, FreedWhenUnused
<1> QED BY <1>1, ProgramsInvariance, PTL

(* ghost_queue.c: each consumer gets its requests in the order of their    *)
(* stamps, and no two consumers get the same one.                          *)
THEOREM StampsAscend == ProgramsSpec => []StampsInOrder
<1>1. ProgramsInv => StampsInOrder
  BY GhostCorrect DEF ProgramsInv, StampsInOrder
<1> QED BY <1>1, ProgramsInvariance, PTL

(* cond_queue.c: the buffer does not overflow, and each request that is    *)
(* allocated and not freed is in one place, whatever the size of the buffer*)
(* and the addresses that malloc returns.  It is the first half of         *)
(* RequestsServed.                                                         *)
THEOREM RequestsKept == ProgramsSpec => []Cond!RequestsAccounted
<1>1. ProgramsInv => Cond!RequestsAccounted
  BY RequestCorrect DEF ProgramsInv
<1> QED BY <1>1, ProgramsInvariance, PTL

(* A search in the hash table's test does not go round the table.          *)
THEOREM TestSearchesEnd == ProgramsSpec => NoWrapAround
<1>1. ProgramsInv /\ [ProgramsNext]_allVars => [Onward]_vars
  <2> SUFFICES ASSUME ProgramsInv, [ProgramsNext]_allVars PROVE [Onward]_vars
    OBVIOUS
  <2>1. IInv /\ [TestNext]_tableVars
    BY ProgramSteps DEF ProgramsInv, TestInv
  <2>2. [Next]_vars
    BY <2>1, TestCallsTable DEF ProgramsInv, TestInv
  <2> QED BY <2>1, <2>2, SearchesGoOn
<1>2. NoWrapAround <=> [][Onward]_vars
  BY DEF NoWrapAround, Onward
<1> QED BY <1>1, <1>2, ProgramsSafety, ProgramsInvariance, PTL
=============================================================================
