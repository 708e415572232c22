------------------------------ MODULE Mailbox ------------------------------
(***************************************************************************)
(* The mailbox of mailbox/mailbox.c: one writer hands frames to N readers  *)
(* through N one-slot channels and N + 2 shared buffers, without copying.  *)
(* A channel holds the number of the buffer given last, or Empty once its  *)
(* reader took it.  Buffers are plain memory: the protocol alone keeps the *)
(* writer away from a buffer a reader uses.                                *)
(*                                                                         *)
(* An exchange on a channel is one step here: SimAtomics has the steps of  *)
(* simulate_atomic_exchange, under the spin lock of the channel, and       *)
(* implements an atomic cell.  What a thread may lose by waiting for that  *)
(* lock is in Fairness.  Every other step is one access to a buffer with   *)
(* the thread-private bookkeeping that surrounds it.                       *)
(*                                                                         *)
(* A definition Name_Suffix is a faulty variant of Name, for the mutation  *)
(* runs; nothing uses it.                                                  *)
(***************************************************************************)
EXTENDS Integers

CONSTANTS
  N,     \* number of readers (3 in the code)
  VMod   \* the frame counter v wraps at VMod (2^32 in the code)

ASSUME NAssumption    == N \in Nat
ASSUME VModAssumption == VMod \in Nat \ {0}

B_OneShort == N + 1
B     == N + 2
Empty == -1
First == 0

Reader == 0 .. N-1
Buf    == 0 .. B-1
Value  == 0 .. VMod-1

VARIABLES
  spawned,    \* number of threads main has started: the writer, then the readers
  comm,       \* comm[r]: the channel to reader r
  data,       \* data[b]: bufs[b]->data
  rpc,        \* control point of each reader
  lastRead,   \* *last_read[r]
  reading,    \* *reading[r]
  got,        \* the local v of each reader, what it last read
  wpc,        \* control point of the writer
  lastGiven, lastTaken, writing,  \* the writer's globals
  i,          \* the loop counter of finish_write
  v           \* the writer's frame counter

readerVars == <<rpc, lastRead, reading, got>>
writerVars == <<wpc, lastGiven, lastTaken, writing, i, v>>
vars == <<spawned, comm, data, readerVars, writerVars>>

(* main has run initialize_channels; what malloc and the loader left in    *)
(* the private variables is overwritten by the two initialize functions.   *)
Init ==
  /\ spawned = 0
  /\ comm = [r \in Reader |-> First]
  /\ data = [b \in Buf |-> 0]
  /\ rpc = [r \in Reader |-> "init"]
  /\ lastRead = [r \in Reader |-> 0]
  /\ reading = [r \in Reader |-> 0]
  /\ got = [r \in Reader |-> 0]
  /\ wpc = "init"
  /\ lastGiven = 0
  /\ lastTaken = [r \in Reader |-> 0]
  /\ writing = 0
  /\ i = 0
  /\ v = 0

(* start_write's exit(1) ends the process, with every thread in it.        *)
Running == wpc # "exited"

(* main starts the writer and then reader after reader, then spins.        *)
Spawn ==
  /\ Running
  /\ spawned < N + 1
  /\ spawned' = spawned + 1
  /\ UNCHANGED <<comm, data, readerVars, writerVars>>

-----------------------------------------------------------------------------
(* A reader.                                                               *)

InitializeReader(r) ==
  /\ Running
  /\ rpc[r] = "init"
  /\ spawned > r + 1
  /\ reading' = [reading EXCEPT ![r] = Empty]
  /\ lastRead' = [lastRead EXCEPT ![r] = 1]
  /\ rpc' = [rpc EXCEPT ![r] = "start"]
  /\ UNCHANGED <<spawned, comm, data, got, writerVars>>

(* The store half of an atomic exchange on a channel.                      *)
Exchange_LoadOnly(r, x) == comm' = comm
Exchange(r, x) == comm' = [comm EXCEPT ![r] = x]

(* The buffer start_read settles on when the exchange returns b.           *)
Chosen_Unchecked(r, b) == b
Chosen_Stale(r, b) == lastRead[r]
Chosen(r, b) == IF b \in Buf THEN b ELSE lastRead[r]

StartRead(r) ==
  /\ Running
  /\ rpc[r] = "start"
  /\ Exchange(r, Empty)
  /\ lastRead' = [lastRead EXCEPT ![r] = Chosen(r, comm[r])]
  /\ reading' = [reading EXCEPT ![r] = Chosen(r, comm[r])]
  /\ rpc' = [rpc EXCEPT ![r] = "read"]
  /\ UNCHANGED <<spawned, data, got, writerVars>>

(* The unprotected load of buf->data.                                      *)
ReadData(r) ==
  /\ Running
  /\ rpc[r] = "read"
  /\ got' = [got EXCEPT ![r] = data[reading[r]]]
  /\ rpc' = [rpc EXCEPT ![r] = "finish"]
  /\ UNCHANGED <<spawned, comm, data, lastRead, reading, writerVars>>

FinishRead(r) ==
  /\ Running
  /\ rpc[r] = "finish"
  /\ reading' = [reading EXCEPT ![r] = Empty]
  /\ rpc' = [rpc EXCEPT ![r] = "start"]
  /\ UNCHANGED <<spawned, comm, data, lastRead, got, writerVars>>

-----------------------------------------------------------------------------
(* The writer.                                                             *)

InitializeWriter ==
  /\ wpc = "init"
  /\ spawned > 0
  /\ lastGiven' = First
  /\ writing' = Empty
  /\ lastTaken' = [r \in Reader |-> 1]
  /\ wpc' = "start"
  /\ UNCHANGED <<spawned, comm, data, readerVars, i, v>>

(* The buffers whose entry in start_write's array is still 1.              *)
Available_NotGiven == {b \in Buf : b # lastGiven}
Available == {b \in Buf : b # lastGiven /\ \A r \in Reader : lastTaken[r] # b}

(* start_write takes the first available buffer; the exit(1) it ends in    *)
(* when there is none is commented "should be impossible".                 *)
StartWrite ==
  /\ wpc = "start"
  /\ IF Available = {}
     THEN wpc' = "exited" /\ UNCHANGED writing
     ELSE /\ wpc' = "write"
          /\ \E b \in Available : /\ \A c \in Available : b <= c
                                 /\ writing' = b
  /\ UNCHANGED <<spawned, comm, data, readerVars, lastGiven, lastTaken, i, v>>

(* The unprotected store to buf->data.                                     *)
WriteData ==
  /\ wpc = "write"
  /\ data' = [data EXCEPT ![writing] = v]
  /\ i' = 0
  /\ wpc' = "publish"
  /\ UNCHANGED <<spawned, comm, readerVars, lastGiven, lastTaken, writing, v>>

(* What the exchange returned says the reader took the previous buffer.    *)
Took_Inverted(b) == b # Empty
Took(b) == b = Empty

(* One round of finish_write's loop, for reader i.                         *)
Publish ==
  /\ wpc = "publish"
  /\ i < N
  /\ Exchange(i, writing)
  /\ lastTaken' = IF Took(comm[i])
                  THEN [lastTaken EXCEPT ![i] = lastGiven]
                  ELSE lastTaken
  /\ i' = i + 1
  /\ UNCHANGED <<spawned, data, readerVars, wpc, lastGiven, writing, v>>

(* The rest of finish_write, and the writer's v++.                         *)
FinishWrite ==
  /\ wpc = "publish"
  /\ i = N
  /\ lastGiven' = writing
  /\ writing' = Empty
  /\ v' = (v + 1) % VMod
  /\ wpc' = "start"
  /\ UNCHANGED <<spawned, comm, data, readerVars, lastTaken, i>>

-----------------------------------------------------------------------------
ReaderStep(r) ==
  InitializeReader(r) \/ StartRead(r) \/ ReadData(r) \/ FinishRead(r)

WriterStep ==
  InitializeWriter \/ StartWrite \/ WriteData \/ Publish \/ FinishWrite

Next == Spawn \/ WriterStep \/ \E r \in Reader : ReaderStep(r)

Spec == Init /\ [][Next]_vars

(* An exchange on channel r waits for lock[r].  The lock is an unfair spin *)
(* lock, and reader r and the writer loop on it: each of them may lose it  *)
(* to the other for ever.  All that the scheduler gives is that somebody   *)
(* who waits for it gets it (SomeReturns of MCAtomics), and that threads   *)
(* that need no lock run.                                                  *)
ExchangeOn(r) == StartRead(r) \/ (i = r /\ Publish)

Fairness ==
  /\ WF_vars(Spawn)
  /\ WF_vars(InitializeWriter \/ StartWrite \/ WriteData \/ FinishWrite)
  /\ \A r \in Reader : /\ WF_vars(InitializeReader(r) \/ ReadData(r) \/ FinishRead(r))
                       /\ WF_vars(ExchangeOn(r))

FairSpec == Spec /\ Fairness

-----------------------------------------------------------------------------
TypeOK ==
  /\ spawned \in 0 .. N+1
  /\ comm \in [Reader -> Buf \cup {Empty}]
  /\ data \in [Buf -> Value]
  /\ rpc \in [Reader -> {"init", "start", "read", "finish"}]
  /\ lastRead \in [Reader -> Buf]
  /\ reading \in [Reader -> Buf \cup {Empty}]
  /\ got \in [Reader -> Value]
  /\ wpc \in {"init", "start", "write", "publish", "exited"}
  /\ lastGiven \in Buf
  /\ lastTaken \in [Reader -> Buf]
  /\ writing \in Buf \cup {Empty}
  /\ i \in 0 .. N
  /\ v \in Value

(* While a reader is between start_read and finish_read, the writer never  *)
(* stores to the buffer it reads: bufs[b]->data has no data race.          *)
NoRace ==
  \A r \in Reader :
    rpc[r] \in {"read", "finish"} /\ wpc = "write" => reading[r] # writing

(* The exit(1) at the end of start_write is never reached: with N + 2      *)
(* buffers one is free, whatever the readers hold and have yet to take.    *)
NeverOutOfBuffers == wpc # "exited"

(* The writer has already exchanged with r in the current finish_write.    *)
PublishedTo(r) == wpc = "publish" /\ r < i

(* The buffer reader r has, as the writer must account for it: buffer 1    *)
(* until initialize_reader has said so.                                    *)
Held(r) == IF rpc[r] = "init" THEN 1 ELSE lastRead[r]

(* What start_read of reader r would return now is the buffer of the last  *)
(* complete finish_write, or the newer one once finish_write has passed r. *)
Fresh ==
  \A r \in Reader :
    (IF comm[r] # Empty THEN comm[r] ELSE Held(r)) =
      IF PublishedTo(r) THEN writing
      ELSE IF wpc = "init" THEN First ELSE lastGiven

(* The abstract view of the mailbox: the register of r is the buffer its   *)
(* next start_read returns, its view the buffer it is reading.             *)
Register == [r \in Reader |-> data[IF comm[r] # Empty THEN comm[r] ELSE Held(r)]]
View == [r \in Reader |->
          IF rpc[r] \in {"read", "finish"} THEN data[reading[r]] ELSE -1]

Abs == INSTANCE Broadcast WITH
         frame <- v, next <- IF wpc = "publish" THEN i ELSE 0,
         reg <- Register, view <- View

(* The mailbox is a broadcast of whole frames, newest first: no step that  *)
(* the writer takes changes what a reader is reading or has still to take  *)
(* (start_read_spec and finish_write_spec of verif_mailbox_specs.v).       *)
ImplementsBroadcast == Abs!Spec

(* The unfair lock of a channel can starve the writer, or the reader, but  *)
(* never both of them.                                                     *)
SomebodyWorks == \A r \in Reader : []<>(rpc[r] = "read") \/ []<>(wpc = "write")

(* Where it starves neither, frames pass: the reader does not read one     *)
(* buffer for ever (start_read takes what finish_write put there).         *)
FramesPass ==
  /\ SomebodyWorks
  /\ \A r \in Reader :
       []<>(rpc[r] = "read") /\ []<>(wpc = "write") => []<><<lastRead'[r] # lastRead[r]>>_vars
=============================================================================
