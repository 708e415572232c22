------------------------- MODULE ReleaseAcquire -----------------------------
(***************************************************************************)
(* The programs on release/acquire atomics, and the memory they run on:    *)
(* the node of atomics/kvnode_atomic_ra.c, the versioned vector of Kvnode; *)
(* the hash table of atomics/hashtable_atomic_ra.c and, with sequentially  *)
(* consistent operations on the same memory, that of atomics/hashtable1.c. *)
(* An execution is that of one file.                                       *)
(***************************************************************************)
EXTENDS Integers, FiniteSets, SequencesExt

CONSTANTS
  Reader,
  Size,         \* number of words in a node (8 in the code)
  Writes,       \* how often the writer writes (3 in the code)
  NThreads,     \* threads that use the table, 3 in the code
  Calls,        \* for each of them its calls: [kind, key]; in the code, add of 1, 2 and 3; the items are 1
  ARRAY_SIZE    \* number of entries (16384 in the code)

VARIABLE file   \* the program, one of Programs
Programs == {"kvnode_atomic_ra", "hashtable_atomic_ra", "hashtable1"}
-----------------------------------------------------------------------------
(* The memory behind gen_atomics.h, as the programs use it: load_acq,      *)
(* store_rel and CAS_RA of C11.  A location keeps all its messages, in     *)
(* modification order; a view says how far a thread, or the writer of a    *)
(* message, has seen each location.  A load takes any message that is not  *)
(* older than the view, a store goes anywhere after it (but not between a  *)
(* CAS and the message that this one read).                                *)
First(Loc) == [l \in Loc |-> 1]
FreshMemory(Loc, value) == [l \in Loc |-> <<[val |-> value, view |-> First(Loc), cas |-> FALSE]>>]

Joined(v, w) == [l \in DOMAIN v |-> IF v[l] < w[l] THEN w[l] ELSE v[l]]
Readable(m, v, l) == v[l] .. Len(m[l])

(* The view after a load_acq of message i.                                 *)
Acquired(m, v, l, i) == Joined(v, m[l][i].view)

(* Where a store may go, and what it does to views: the message that was at*)
(* p, and those after it, move on.                                         *)
Places(m, v, l) == {p \in v[l] + 1 .. Len(m[l]) + 1 : p <= Len(m[l]) => ~m[l][p].cas}
Moved(v, l, p) == [v EXCEPT ![l] = IF @ >= p THEN @ + 1 ELSE @]

(* The memory after a thread with view v has stored val at p, where its    *)
(* view will be v with p.                                                  *)
Stored(m, v, l, p, val, cas) ==
  [k \in DOMAIN m |->
     LET moved == [i \in DOMAIN m[k] |-> [m[k][i] EXCEPT !.view = Moved(@, l, p)]]
     IN  IF k = l THEN InsertAt(moved, p, [val |-> val, view |-> [v EXCEPT ![l] = p], cas |-> cas]) ELSE moved]

Newest(m, l) == m[l][Len(m[l])].val
-----------------------------------------------------------------------------
(* The node of atomics/kvnode_atomic_ra.c: the versioned vector of Kvnode, *)
(* with loads that acquire and stores that release instead of sequentially *)
(* consistent ones, so that a reader may see old words and old versions.   *)
Word == 0 .. Size-1
Ver == Size   \* the location of the version, after those of the words

VARIABLES
  cells,    \* the memory that holds *n->version and the *n->data[i]
  seen,     \* the view of the writer and of each reader
  wpc,      \* control point of the writer
  number,   \* its i in writer: the words of write number k are all k
  wi,       \* its i in write
  rpc, snap, out, ri,   \* control point, snap, out and i of each reader
  got       \* what its last read returned

kvWriter == <<wpc, number, wi>>
kvReader == <<rpc, snap, out, ri, got>>
NodeLoc == Word \cup {Ver}
kvVars == <<cells, seen, kvWriter, kvReader>>

NoVector == [j \in Word |-> 0]

(* make_node.                                                              *)
KvInit ==
  /\ cells = FreshMemory(NodeLoc, 0)
  /\ seen = [t \in Reader \cup {"writer"} |-> First(NodeLoc)]
  /\ wpc = "idle" /\ number = 0 /\ wi = 0
  /\ rpc = [r \in Reader |-> "snap"]
  /\ snap = [r \in Reader |-> 0]
  /\ out = [r \in Reader |-> NoVector]
  /\ ri = [r \in Reader |-> 0]
  /\ got = [r \in Reader |-> NoVector]

(* store_rel by the one writer, whose view holds all that is stored.       *)
StoreRel(l, val) ==
  LET v == seen["writer"]
      p == v[l] + 1
  IN  cells' = Stored(cells, v, l, p, val, FALSE) /\ seen' = [seen EXCEPT !["writer"][l] = p]

(* write: the load of the version and its first store.                     *)
StartWrite ==
  /\ wpc = "idle" /\ number < Writes
  /\ number' = number + 1
  /\ StoreRel(Ver, Newest(cells, Ver) + 1)
  /\ wi' = 0 /\ wpc' = "store"
  /\ UNCHANGED kvReader

StoreWord ==
  /\ wpc = "store" /\ wi < Size
  /\ StoreRel(wi, number)
  /\ wi' = wi + 1
  /\ UNCHANGED <<wpc, number, kvReader>>

MarkClean ==
  /\ wpc = "store" /\ wi = Size
  /\ StoreRel(Ver, 2 * number)
  /\ wpc' = "idle"
  /\ UNCHANGED <<number, wi, kvReader>>

(* read: a load_acq of any message in the reader's reach, per step.        *)
Reach(r, l) == Readable(cells, seen[r], l)
Content(l, i) == cells[l][i].val
LoadAcq_Relaxed(r, l, i) == [seen[r] EXCEPT ![l] = i]
LoadAcq(r, l, i) == Acquired(cells, seen[r], l, i)

TakeSnap(r) ==
  /\ rpc[r] = "snap"
  /\ \E i \in Reach(r, Ver) :
       /\ seen' = [seen EXCEPT ![r] = LoadAcq(r, Ver, i)]
       /\ snap' = [snap EXCEPT ![r] = Content(Ver, i)]
       /\ rpc' = [rpc EXCEPT ![r] = IF Content(Ver, i) % 2 = 1 THEN "snap" ELSE "copy"]
  /\ ri' = [ri EXCEPT ![r] = 0]
  /\ UNCHANGED <<cells, kvWriter, out, got>>

CopyWord(r) ==
  /\ rpc[r] = "copy" /\ ri[r] < Size
  /\ \E i \in Reach(r, ri[r]) :
       /\ seen' = [seen EXCEPT ![r] = LoadAcq(r, ri[r], i)]
       /\ out' = [out EXCEPT ![r][ri[r]] = Content(ri[r], i)]
  /\ ri' = [ri EXCEPT ![r] = @ + 1]
  /\ UNCHANGED <<cells, kvWriter, rpc, snap, got>>

(* The second load of the version: return, for the next call of read, or   *)
(* start over.                                                             *)
Recheck(r) ==
  /\ rpc[r] = "copy" /\ ri[r] = Size
  /\ \E i \in Reach(r, Ver) :
       /\ seen' = [seen EXCEPT ![r] = LoadAcq(r, Ver, i)]
       /\ got' = IF Content(Ver, i) = snap[r] THEN [got EXCEPT ![r] = out[r]] ELSE got
  /\ rpc' = [rpc EXCEPT ![r] = "snap"]
  /\ UNCHANGED <<cells, kvWriter, snap, out, ri>>

KvNext == StartWrite \/ StoreWord \/ MarkClean \/ \E r \in Reader : TakeSnap(r) \/ CopyWord(r) \/ Recheck(r)

-----------------------------------------------------------------------------
(* Although a reader may see words and versions in another order than they *)
(* were stored, it returns the whole vector of one write, never an older   *)
(* one than before (read).                                                 *)
ReadsAdvance ==
  [][\A r \in Reader, j \in Word : got'[r][j] = got'[r][0] /\ got'[r][0] >= got[r][0]]_kvVars
-----------------------------------------------------------------------------
(* The hash tables of atomics/hashtable_atomic_ra.c, with release/acquire  *)
(* atomics, and of atomics/hashtable1.c, with sequentially consistent ones *)
(* and an add_item that stores the value without looking at it, and their  *)
(* test program: main makes the table, the locks and the threads, each     *)
(* thread makes its calls and counts the adds that succeed, main joins the *)
(* threads and adds up.  Threads that set and get run besides.             *)

Threads == 0 .. NThreads-1
Entry == 0 .. ARRAY_SIZE-1
KeyOf(e) == 2 * e          \* the locations m_entries[e].key and .value
ValueOf(e) == 2 * e + 1
TableLoc == 0 .. 2 * ARRAY_SIZE - 1
Main == NThreads

VARIABLES
  mem, view, \* the memory of the table, and what each thread and main have seen of it
  pc,        \* control point of each thread, in f or in a call
  called,    \* the number of calls it has begun
  idx,       \* its idx, masked
  rets,      \* what its calls have returned
  joinLock,  \* thread_locks[t]: [held, view]; the view is that of its release
  mpc, nth,  \* control point of main and its i
  total      \* its total

threadVars == <<pc, called, idx, rets>>
mainVars == <<mpc, nth, total>>
htVars == <<mem, view, threadVars, joinLock, mainVars>>

(* init_table, and the locks, all held; *results[t] is passed with the lock*)
(* and is the number of successes.                                         *)
HtInit ==
  /\ mem = FreshMemory(TableLoc, 0)
  /\ view = [t \in Threads \cup {Main} |-> First(TableLoc)]
  /\ pc = [t \in Threads |-> "new"]
  /\ called = [t \in Threads |-> 0]
  /\ idx = [t \in Threads |-> 0]
  /\ rets = [t \in Threads |-> <<>>]
  /\ joinLock = [t \in Threads |-> [held |-> TRUE, view |-> First(TableLoc)]]
  /\ mpc = "spawn" /\ nth = 0 /\ total = 0

Op(t) == Calls[t + 1][called[t]]
Goto(t, l) == pc' = [pc EXCEPT ![t] = l]

(* The messages that a load may take and the places where a store may go:  *)
(* load_SC, store_SC and CAS_SC work on the newest message.                *)
Choice(t, l) == IF file = "hashtable1" THEN {Len(mem[l])} ELSE Readable(mem, view[t], l)
Place(t, l) == IF file = "hashtable1" THEN {Len(mem[l]) + 1} ELSE Places(mem, view[t], l)
ValueAt(l, i) == mem[l][i].val

Loaded_Relaxed(t, l, i) == view' = [view EXCEPT ![t][l] = i]
Loaded(t, l, i) == view' = [view EXCEPT ![t] = Acquired(mem, @, l, i)]

Written(t, v, l, p, val, cas) ==
  /\ mem' = Stored(mem, v, l, p, val, cas)
  /\ view' = [s \in DOMAIN view |-> IF s = t THEN [v EXCEPT ![l] = p] ELSE Moved(view[s], l, p)]
  /\ joinLock' = [s \in Threads |-> [joinLock[s] EXCEPT !.view = Moved(@, l, p)]]

(* A CAS from 0 to val: it succeeds on a message 0 that has no CAS yet.    *)
CasWins(t, l, i, val) ==
  LET v == Acquired(mem, view[t], l, i) IN
  /\ ValueAt(l, i) = 0 /\ i + 1 \in Places(mem, v, l)
  /\ Written(t, v, l, i + 1, val, TRUE)
CasFails(t, l, i) == ValueAt(l, i) # 0 /\ Loaded(t, l, i) /\ UNCHANGED <<mem, joinLock>>

Home(key) == ((key % ARRAY_SIZE) * (654435761 % ARRAY_SIZE)) % ARRAY_SIZE

-----------------------------------------------------------------------------
(* set_item, get_item and add_item, one atomic operation per step.         *)
Begin(t) ==
  /\ pc[t] = "loop" /\ called[t] < Len(Calls[t + 1])
  /\ called' = [called EXCEPT ![t] = @ + 1]
  /\ idx' = [idx EXCEPT ![t] = Home(Calls[t + 1][called[t] + 1].key)]
  /\ Goto(t, "probe")
  /\ UNCHANGED <<mem, view, rets, joinLock, mainVars>>

Return(t, r) ==
  /\ rets' = [rets EXCEPT ![t] = Append(@, r)]
  /\ Goto(t, "loop")
  /\ UNCHANGED <<called, idx>>

TryNext(t) ==
  /\ idx' = [idx EXCEPT ![t] = (@ + 1) % ARRAY_SIZE]
  /\ Goto(t, "probe")
  /\ UNCHANGED <<called, rets>>

Went(t, l) == Goto(t, l) /\ UNCHANGED <<called, idx, rets>>

(* The entry has the key: hashtable1's add_item has nothing to add.        *)
HasKey(t) ==
  IF file = "hashtable1" /\ Op(t).kind = "add" THEN Return(t, 0) ELSE Went(t, "value")

(* probed_key = load_acq(i), at first and after a CAS that failed.         *)
Probe(t) ==
  /\ pc[t] \in {"probe", "recheck"}
  /\ LET l == KeyOf(idx[t]) IN
     \E i \in Choice(t, l) :
       /\ Loaded(t, l, i)
       /\ CASE ValueAt(l, i) = Op(t).key -> HasKey(t)
            [] ValueAt(l, i) \notin {0, Op(t).key} -> TryNext(t)
            [] ValueAt(l, i) = 0 /\ pc[t] = "recheck" -> TryNext(t)
            [] ValueAt(l, i) = 0 /\ pc[t] = "probe" -> IF Op(t).kind = "get" THEN Return(t, 0) ELSE Went(t, "claim")
  /\ UNCHANGED <<mem, joinLock, mainVars>>

Claim(t) ==
  /\ pc[t] = "claim"
  /\ LET l == KeyOf(idx[t]) IN
     \E i \in Choice(t, l) :
       \/ CasWins(t, l, i, Op(t).key) /\ Went(t, "value")
       \/ CasFails(t, l, i) /\ Went(t, "recheck")
  /\ UNCHANGED mainVars

SetValue(t) ==
  /\ pc[t] = "value" /\ Op(t).kind = "set"
  /\ LET l == ValueOf(idx[t]) IN \E p \in Place(t, l) : Written(t, view[t], l, p, 1, FALSE)
  /\ Return(t, 0)
  /\ UNCHANGED mainVars

GetValue(t) ==
  /\ pc[t] = "value" /\ Op(t).kind = "get"
  /\ LET l == ValueOf(idx[t]) IN \E i \in Choice(t, l) : Loaded(t, l, i) /\ Return(t, ValueAt(l, i))
  /\ UNCHANGED <<mem, joinLock, mainVars>>

(* CAS_RA(i, 0, value).                                                    *)
AddValueRA(t) ==
  /\ pc[t] = "value" /\ Op(t).kind = "add" /\ file = "hashtable_atomic_ra"
  /\ LET l == ValueOf(idx[t]) IN
     \E i \in Choice(t, l) :
       \/ CasWins(t, l, i, 1) /\ Return(t, 1)
       \/ CasFails(t, l, i) /\ Return(t, 0)
  /\ UNCHANGED mainVars

(* store_SC(i, value), over whatever is there.                             *)
AddValueSC(t) ==
  /\ pc[t] = "value" /\ Op(t).kind = "add" /\ file = "hashtable1"
  /\ LET l == ValueOf(idx[t]) IN \E p \in Place(t, l) : Written(t, view[t], l, p, 1, FALSE)
  /\ Return(t, 1)
  /\ UNCHANGED mainVars

-----------------------------------------------------------------------------
(* f ends: *res = total; release2(l).                                      *)
Passed_Nothing(t) == First(TableLoc)
Passed(t) == view[t]
ReleaseJoin(t) ==
  /\ pc[t] = "loop" /\ called[t] = Len(Calls[t + 1])
  /\ joinLock' = [joinLock EXCEPT ![t] = [held |-> FALSE, view |-> Passed(t)]]
  /\ Goto(t, "done")
  /\ UNCHANGED <<mem, view, called, idx, rets, mainVars>>

Spawn ==
  /\ mpc = "spawn"
  /\ pc' = [pc EXCEPT ![nth] = "loop"]
  /\ view' = [view EXCEPT ![nth] = view[Main]]
  /\ IF nth + 1 < NThreads THEN nth' = nth + 1 /\ UNCHANGED mpc ELSE nth' = 0 /\ mpc' = "join"
  /\ UNCHANGED <<mem, called, idx, rets, joinLock, total>>

(* How many adds of the thread have returned 1.                            *)
Successes(t) == Cardinality({c \in DOMAIN rets[t] : Calls[t + 1][c].kind = "add" /\ rets[t][c] = 1})

(* acquire(l), and the result of the thread.                               *)
Join ==
  /\ mpc = "join" /\ ~joinLock[nth].held
  /\ view' = [view EXCEPT ![Main] = Joined(@, joinLock[nth].view)]
  /\ total' = total + Successes(nth)
  /\ IF nth + 1 < NThreads THEN nth' = nth + 1 /\ UNCHANGED mpc ELSE mpc' = "done" /\ UNCHANGED nth
  /\ UNCHANGED <<mem, threadVars, joinLock>>

ThreadStep(t) ==
  \/ Begin(t) \/ Probe(t) \/ Claim(t) \/ SetValue(t) \/ GetValue(t) \/ AddValueRA(t) \/ AddValueSC(t) \/ ReleaseJoin(t)
HtNext == Spawn \/ Join \/ \E t \in Threads : ThreadStep(t)

(* One of the three programs runs.                                         *)
RaInit == file \in Programs /\ KvInit /\ HtInit
RaNext ==
  \/ file = "kvnode_atomic_ra" /\ KvNext /\ UNCHANGED <<file, htVars>>
  \/ file # "kvnode_atomic_ra" /\ HtNext /\ UNCHANGED <<file, kvVars>>

-----------------------------------------------------------------------------
AllCalls == UNION {{Calls[t + 1][c] : c \in DOMAIN Calls[t + 1]} : t \in Threads}

(* "total should be equal to 3" (hashtable_atomic_ra.c:150,                *)
(* hashtable1.c:135): of the threads that race to add a key one succeeds,  *)
(* and when all are joined main sees every key, once, with its value,      *)
(* although its loads need not be of the newest messages.                  *)
TotalIsNumberOfAdds ==
  mpc = "done" =>
    /\ total = Cardinality({c.key : c \in {d \in AllCalls : d.kind = "add"}})
    /\ \A k \in {c.key : c \in {d \in AllCalls : d.kind # "get"}} :
         \E e \in Entry : /\ \A i \in Choice(Main, KeyOf(e)) : ValueAt(KeyOf(e), i) = k
                          /\ \A i \in Choice(Main, ValueOf(e)) : ValueAt(ValueOf(e), i) = 1
                          /\ \A d \in Entry : Newest(mem, KeyOf(d)) = k => d = e

(* A thread that has found or stored a value does not lose it again: a get *)
(* after a get, or after a set of its own, returns no older value, whatever*)
(* the memory offers to its loads.                                         *)
NothingUnseen ==
  \A t \in Threads : \A b, c \in DOMAIN rets[t] :
    /\ b < c /\ Calls[t + 1][b].key = Calls[t + 1][c].key /\ Calls[t + 1][c].kind = "get"
    /\ Calls[t + 1][b].kind = "set" \/ rets[t][b] # 0
    => rets[t][c] # 0
=============================================================================
