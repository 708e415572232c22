--------------------------- MODULE MailboxProofs ---------------------------
(***************************************************************************)
(* Proofs about Mailbox for every number of readers: the types, the        *)
(* exclusion of the writer from the buffers readers use, that a free       *)
(* buffer is always left, and freshness.                                   *)
(***************************************************************************)
EXTENDS Mailbox, FiniteSetTheorems, TLAPS

-----------------------------------------------------------------------------
(* The inductive invariant.                                                *)

(* What the writer believes about the last buffer given, and taken by r;   *)
(* before initialize_writer, what main has set up.                         *)
Given    == IF wpc = "init" THEN First ELSE lastGiven
Taken(r) == IF wpc = "init" THEN 1 ELSE lastTaken[r]

(* Either the newest buffer given to r is in the channel and r holds the   *)
(* one the writer knows r took before, or the channel is empty and r holds *)
(* the newest one.                                                         *)
ChannelInv ==
  \A r \in Reader :
    LET newest == IF PublishedTo(r) THEN writing ELSE Given IN
      \/ comm[r] = newest /\ Held(r) = Taken(r)
      \/ comm[r] = Empty /\ Held(r) = newest

(* The buffer being written is none the writer has given away.             *)
WritingInv ==
  wpc \in {"write", "publish"} =>
    /\ writing \in Buf
    /\ writing # lastGiven
    /\ \A r \in Reader : lastTaken[r] # writing

(* A reader reads the buffer it holds.                                     *)
ReadingInv ==
  \A r \in Reader : rpc[r] \in {"read", "finish"} => reading[r] = lastRead[r]

IInv == TypeOK /\ ChannelInv /\ WritingInv /\ ReadingInv /\ NeverOutOfBuffers

-----------------------------------------------------------------------------
(* N + 2 buffers cannot all be among the N + 1 the writer must avoid: the  *)
(* last one given and the last one taken by each reader.                   *)
LEMMA SomeAvailable ==
  ASSUME lastTaken \in [Reader -> Buf], lastGiven \in Buf
  PROVE  Available # {}
<1> DEFINE used == [r \in 0..N |-> IF r = N THEN lastGiven ELSE lastTaken[r]]
<1>1. IsFiniteSet(0..N) /\ Cardinality(0..N) = N + 1
  BY FS_Interval, NAssumption
<1>2. IsFiniteSet(Buf) /\ Cardinality(Buf) = N + 2
  BY FS_Interval, NAssumption DEF Buf, B
<1> SUFFICES ASSUME Available = {} PROVE FALSE
  OBVIOUS
<1>3. used \in Surjection(0..N, Buf)
  <2>1. used \in [0..N -> Buf]
    BY NAssumption DEF Reader
  <2>2. ASSUME NEW b \in Buf PROVE \E r \in 0..N : used[r] = b
    <3>1. b = lastGiven \/ \E r \in Reader : lastTaken[r] = b
      BY DEF Available
    <3>2. CASE b = lastGiven
      BY <3>2, NAssumption
    <3>3. CASE \E r \in Reader : lastTaken[r] = b
      BY <3>3, NAssumption DEF Reader
    <3> QED BY <3>1, <3>2, <3>3
  <2> QED BY <2>1, <2>2 DEF Surjection
<1>4. Cardinality(Buf) <= Cardinality(0..N)
  BY <1>1, <1>3, FS_Surjection
<1> QED BY <1>1, <1>2, <1>4, NAssumption

LEMMA InitInv == Init => IInv
BY NAssumption, VModAssumption
   DEF Init, IInv, TypeOK, ChannelInv, WritingInv, ReadingInv, NeverOutOfBuffers,
       Given, Taken, Held, PublishedTo, Reader, Buf, B, Value, Empty, First

LEMMA NextInv == IInv /\ [Next]_vars => IInv'
<1> SUFFICES ASSUME IInv, [Next]_vars PROVE IInv'
  OBVIOUS
<1> USE NAssumption, VModAssumption
<1>0. Empty \notin Buf /\ First \in Buf /\ 1 \in Buf
  BY DEF Empty, Buf, First, B
<1> USE DEF IInv
<1>1. CASE Spawn
  BY <1>1 DEF Spawn, readerVars, writerVars, TypeOK, ChannelInv, WritingInv,
              ReadingInv, NeverOutOfBuffers, Given, Taken, Held, PublishedTo
<1>2. ASSUME NEW r \in Reader, InitializeReader(r) PROVE IInv'
  <2> USE <1>2 DEF InitializeReader, writerVars
  <2>1. TypeOK'
    BY <1>0 DEF TypeOK
  <2>2. ChannelInv'
    BY DEF TypeOK, ChannelInv, Given, Taken, Held, PublishedTo
  <2>3. WritingInv' /\ ReadingInv' /\ NeverOutOfBuffers'
    BY DEF TypeOK, WritingInv, ReadingInv, NeverOutOfBuffers
  <2> QED BY <2>1, <2>2, <2>3
<1>3. ASSUME NEW r \in Reader, StartRead(r) PROVE IInv'
  <2> USE <1>3 DEF StartRead, writerVars, Exchange
  <2>1. Chosen(r, comm[r]) \in Buf
    BY DEF Chosen, TypeOK
  <2>2. TypeOK'
    BY <1>0, <2>1 DEF TypeOK
  <2>3. Chosen(r, comm[r]) = IF comm[r] = Empty THEN Held(r) ELSE comm[r]
    BY <1>0 DEF Chosen, TypeOK, Held
  <2>4. ChannelInv'
    BY <1>0, <2>3 DEF TypeOK, ChannelInv, WritingInv, Given, Taken, Held, PublishedTo
  <2>5. WritingInv' /\ ReadingInv' /\ NeverOutOfBuffers'
    BY DEF TypeOK, WritingInv, ReadingInv, NeverOutOfBuffers
  <2> QED BY <2>2, <2>4, <2>5
<1>4. ASSUME NEW r \in Reader, ReadData(r) PROVE IInv'
  <2> USE <1>4 DEF ReadData, writerVars
  <2>1. TypeOK'
    BY DEF TypeOK, ReadingInv
  <2>2. ChannelInv'
    BY DEF TypeOK, ChannelInv, Given, Taken, Held, PublishedTo
  <2>3. WritingInv' /\ ReadingInv' /\ NeverOutOfBuffers'
    BY DEF TypeOK, WritingInv, ReadingInv, NeverOutOfBuffers
  <2> QED BY <2>1, <2>2, <2>3
<1>5. ASSUME NEW r \in Reader, FinishRead(r) PROVE IInv'
  <2> USE <1>5 DEF FinishRead, writerVars
  <2>1. TypeOK'
    BY DEF TypeOK
  <2>2. ChannelInv'
    BY DEF TypeOK, ChannelInv, Given, Taken, Held, PublishedTo
  <2>3. WritingInv' /\ ReadingInv' /\ NeverOutOfBuffers'
    BY DEF TypeOK, WritingInv, ReadingInv, NeverOutOfBuffers
  <2> QED BY <2>1, <2>2, <2>3
<1>6. CASE InitializeWriter
  <2> USE <1>6 DEF InitializeWriter, readerVars
  <2>1. TypeOK'
    BY <1>0 DEF TypeOK
  <2>2. ChannelInv'
    BY DEF TypeOK, ChannelInv, Given, Taken, Held, PublishedTo
  <2>3. WritingInv' /\ ReadingInv' /\ NeverOutOfBuffers'
    BY DEF TypeOK, WritingInv, ReadingInv, NeverOutOfBuffers
  <2> QED BY <2>1, <2>2, <2>3
<1>7. CASE StartWrite
  <2> USE <1>7 DEF StartWrite, readerVars
  <2>1. Available # {}
    BY SomeAvailable DEF TypeOK
  <2>2. wpc' = "write" /\ writing' \in Available
    BY <2>1
  <2>3. TypeOK'
    BY <2>2 DEF TypeOK, Available
  <2>4. ChannelInv'
    BY <2>2 DEF TypeOK, ChannelInv, Given, Taken, Held, PublishedTo
  <2>5. WritingInv' /\ ReadingInv' /\ NeverOutOfBuffers'
    BY <2>2 DEF TypeOK, WritingInv, ReadingInv, NeverOutOfBuffers, Available
  <2> QED BY <2>3, <2>4, <2>5
<1>8. CASE WriteData
  <2> USE <1>8 DEF WriteData, readerVars
  <2>1. TypeOK'
    BY DEF TypeOK, WritingInv
  <2>2. ChannelInv'
    BY DEF TypeOK, ChannelInv, Given, Taken, Held, PublishedTo, Reader
  <2>3. WritingInv' /\ ReadingInv' /\ NeverOutOfBuffers'
    BY DEF TypeOK, WritingInv, ReadingInv, NeverOutOfBuffers
  <2> QED BY <2>1, <2>2, <2>3
<1>9. CASE Publish
  <2> USE <1>9 DEF Publish, readerVars, Exchange, Took
  <2>1. i \in Reader /\ i' \in 0..N
    BY DEF TypeOK, Reader
  <2>2. TypeOK'
    BY <2>1 DEF TypeOK, WritingInv
  <2>3. ChannelInv'
    <3> SUFFICES ASSUME NEW r \in Reader
                 PROVE  \/ comm'[r] = (IF PublishedTo(r) THEN writing ELSE Given)'
                           /\ Held(r)' = Taken(r)'
                        \/ comm'[r] = Empty
                           /\ Held(r)' = (IF PublishedTo(r) THEN writing ELSE Given)'
      BY DEF ChannelInv
    <3>1. Held(r)' = Held(r) /\ Given' = Given
      BY DEF Held, Given
    <3>2. CASE r = i
      <4>1. PublishedTo(r)' /\ ~PublishedTo(r)
        BY <3>2, <2>1 DEF PublishedTo, Reader
      <4>2. comm'[r] = writing /\ writing' = writing
        BY <3>2, <2>1 DEF TypeOK
      <4>3. Taken(r)' = IF comm[r] = Empty THEN lastGiven ELSE lastTaken[r]
        BY <3>2, <2>1 DEF TypeOK, Taken
      <4>4. Held(r) = IF comm[r] = Empty THEN lastGiven ELSE lastTaken[r]
        BY <4>1, <1>0 DEF ChannelInv, Given, Taken, TypeOK
      <4> QED BY <3>1, <4>1, <4>2, <4>3, <4>4
    <3>3. CASE r # i
      <4>1. PublishedTo(r)' = PublishedTo(r)
        BY <3>3, <2>1 DEF PublishedTo, Reader
      <4>2. comm'[r] = comm[r] /\ Taken(r)' = Taken(r) /\ writing' = writing
        BY <3>3, <2>1 DEF TypeOK, Taken
      <4> QED BY <3>1, <4>1, <4>2 DEF ChannelInv
    <3> QED BY <3>2, <3>3
  <2>4. WritingInv' /\ ReadingInv' /\ NeverOutOfBuffers'
    BY <2>1 DEF TypeOK, WritingInv, ReadingInv, NeverOutOfBuffers
  <2> QED BY <2>2, <2>3, <2>4
<1>10. CASE FinishWrite
  <2> USE <1>10 DEF FinishWrite, readerVars
  <2>1. TypeOK'
    BY DEF TypeOK, WritingInv, Value
  <2>2. ChannelInv'
    BY DEF TypeOK, ChannelInv, Given, Taken, Held, PublishedTo, Reader
  <2>3. WritingInv' /\ ReadingInv' /\ NeverOutOfBuffers'
    BY DEF TypeOK, WritingInv, ReadingInv, NeverOutOfBuffers
  <2> QED BY <2>1, <2>2, <2>3
<1>11. CASE UNCHANGED vars
  BY <1>11 DEF vars, readerVars, writerVars, TypeOK, ChannelInv, WritingInv,
               ReadingInv, NeverOutOfBuffers, Given, Taken, Held, PublishedTo
<1> QED
  BY <1>1, <1>2, <1>3, <1>4, <1>5, <1>6, <1>7, <1>8, <1>9, <1>10, <1>11
     DEF Next, WriterStep, ReaderStep

THEOREM Invariance == Spec => []IInv
  BY InitInv, NextInv, PTL DEF Spec

(* The types hold.                                                         *)
THEOREM TypeCorrect == Spec => []TypeOK
  BY Invariance, PTL DEF IInv

(* For every number of readers, the writer and a reader never use one      *)
(* buffer at the same time.                                                *)
THEOREM DataRaceFree == Spec => []NoRace
<1>1. IInv => NoRace
  <2> SUFFICES ASSUME IInv, NEW r \in Reader, rpc[r] \in {"read", "finish"},
                      wpc = "write", reading[r] = writing
               PROVE  FALSE
    BY DEF NoRace
  <2>1. Held(r) = writing
    BY DEF IInv, ReadingInv, Held
  <2>2. Held(r) = lastTaken[r] \/ Held(r) = lastGiven
    BY DEF IInv, ChannelInv, PublishedTo, Given, Taken
  <2> QED BY <2>1, <2>2 DEF IInv, WritingInv
<1> QED BY <1>1, Invariance, PTL

(* For every number N of readers, N + 2 buffers are enough: start_write    *)
(* never runs into its exit(1).                                            *)
THEOREM BuffersSuffice == Spec => []NeverOutOfBuffers
  BY Invariance, PTL DEF IInv

(* start_read returns the newest buffer its reader has been given.         *)
THEOREM Freshness == Spec => []Fresh
<1>1. IInv => Fresh
  <2> SUFFICES ASSUME IInv, NEW r \in Reader
               PROVE  (IF comm[r] # Empty THEN comm[r] ELSE Held(r)) =
                        IF PublishedTo(r) THEN writing ELSE Given
    BY DEF Fresh, Given
  <2>1. Empty \notin Buf
    BY DEF Empty, Buf
  <2>2. (IF PublishedTo(r) THEN writing ELSE Given) \in Buf
    BY NAssumption DEF IInv, TypeOK, WritingInv, PublishedTo, Given, First, Buf, B
  <2> QED BY <2>1, <2>2 DEF IInv, ChannelInv
<1> QED BY <1>1, Invariance, PTL
-----------------------------------------------------------------------------
(* The refinement of Broadcast.                                            *)

(* What finish_write publishes is the current frame.                       *)
FrameInv == wpc = "publish" => data[writing] = v

LEMMA FrameInvariance == Spec => []FrameInv
<1>1. Init => FrameInv
  BY DEF Init, FrameInv
<1>2. IInv /\ FrameInv /\ [Next]_vars => FrameInv'
  <2> SUFFICES ASSUME IInv, FrameInv, [Next]_vars PROVE FrameInv'
    OBVIOUS
  <2> USE DEF FrameInv
  <2>1. CASE Spawn \/ \E r \in Reader : ReaderStep(r)
    BY <2>1 DEF Spawn, ReaderStep, InitializeReader, StartRead, ReadData,
                FinishRead, writerVars
  <2>2. CASE WriteData
    BY <2>2 DEF WriteData, IInv, TypeOK, WritingInv
  <2>3. CASE InitializeWriter \/ StartWrite \/ Publish \/ FinishWrite
    BY <2>3 DEF InitializeWriter, StartWrite, Publish, FinishWrite
  <2>4. CASE UNCHANGED vars
    BY <2>4 DEF vars, writerVars
  <2> QED BY <2>1, <2>2, <2>3, <2>4 DEF Next, WriterStep
<1> QED BY <1>1, <1>2, Invariance, PTL DEF Spec

(* The buffer that stands for the register of reader r.                    *)
RegisterBuf(r) == IF comm[r] # Empty THEN comm[r] ELSE Held(r)

LEMMA RegisterBufIs ==
  ASSUME IInv, NEW r \in Reader
  PROVE  /\ RegisterBuf(r) = IF PublishedTo(r) THEN writing ELSE Given
         /\ RegisterBuf(r) \in Buf
<1>1. Empty \notin Buf
  BY DEF Empty, Buf
<1>2. (IF PublishedTo(r) THEN writing ELSE Given) \in Buf
  BY NAssumption DEF IInv, TypeOK, WritingInv, PublishedTo, Given, First, Buf, B
<1> QED BY <1>1, <1>2 DEF IInv, ChannelInv, RegisterBuf

LEMMA InitRefines == Init => Abs!Init
<1> SUFFICES ASSUME Init PROVE Abs!Init
  OBVIOUS
<1>1. \A r \in Reader : RegisterBuf(r) \in Buf
  BY NAssumption DEF Init, RegisterBuf, Empty, First, Buf, B
<1>2. Register = [r \in Reader |-> 0] /\ View = [r \in Reader |-> -1]
  BY <1>1 DEF Init, Register, RegisterBuf, View
<1> QED BY <1>2 DEF Init, Abs!Init, Abs!NoFrame, Abs!Reader, Reader

LEMMA NextRefines == IInv /\ IInv' /\ FrameInv /\ [Next]_vars => [Abs!Next]_Abs!vars
<1> SUFFICES ASSUME IInv, IInv', FrameInv, [Next]_vars PROVE [Abs!Next]_Abs!vars
  OBVIOUS
<1> DEFINE next == IF wpc = "publish" THEN i ELSE 0
<1> USE NAssumption, VModAssumption
<1>a. Empty \notin Buf /\ Abs!Reader = Reader /\ Abs!NoFrame = -1
  BY DEF Empty, Buf, Abs!Reader, Reader, Abs!NoFrame
<1>b. Register = [r \in Reader |-> data[RegisterBuf(r)]]
  BY DEF Register, RegisterBuf
<1>c. Register' = [r \in Reader |-> data'[RegisterBuf(r)']]
  BY DEF Register, RegisterBuf
<1>d. View = [r \in Reader |-> IF rpc[r] \in {"read", "finish"} THEN data[reading[r]] ELSE -1]
  BY DEF View
<1>e. View' = [r \in Reader |-> IF rpc'[r] \in {"read", "finish"} THEN data'[reading'[r]] ELSE -1]
  BY DEF View
<1>f. \A r \in Reader : rpc[r] \in {"read", "finish"} => View[r] \in Value
  BY <1>d DEF IInv, TypeOK, ReadingInv
<1>g. -1 \notin Value
  BY DEF Value
<1>h. ASSUME v' = v, next' = next, Register' = Register, View' = View, got' = got
      PROVE  [Abs!Next]_Abs!vars
  BY <1>h DEF Abs!vars
<1>1. CASE Spawn
  <2> USE <1>1 DEF Spawn, readerVars, writerVars
  <2>1. Register' = Register /\ View' = View
    BY <1>b, <1>c, <1>d, <1>e DEF RegisterBuf, Held
  <2> QED BY <2>1, <1>h
<1>2. ASSUME NEW r \in Reader, InitializeReader(r) PROVE [Abs!Next]_Abs!vars
  <2> USE <1>2 DEF InitializeReader, writerVars
  <2>1. \A s \in Reader : Held(s)' = Held(s)
    BY DEF IInv, TypeOK, Held
  <2>2. Register' = Register
    BY <2>1, <1>b, <1>c DEF RegisterBuf
  <2>3. View' = View
    BY <1>d, <1>e DEF IInv, TypeOK
  <2> QED BY <2>2, <2>3, <1>h
<1>3. ASSUME NEW r \in Reader, StartRead(r) PROVE [Abs!Next]_Abs!vars
  <2> USE <1>3 DEF StartRead, Exchange, writerVars
  <2>1. Chosen(r, comm[r]) = RegisterBuf(r)
    BY <1>a DEF Chosen, RegisterBuf, Held, IInv, TypeOK
  <2>2. \A s \in Reader : RegisterBuf(s)' = RegisterBuf(s)
    BY <2>1 DEF RegisterBuf, Held, IInv, TypeOK
  <2>3. Register' = Register
    BY <2>2, <1>b, <1>c
  <2>4. View[r] = -1
    BY <1>d
  <2>5. View' = [View EXCEPT ![r] = Register[r]]
    BY <2>1, <1>b, <1>d, <1>e DEF IInv, TypeOK
  <2>6. Abs!Begin(r)
    BY <2>3, <2>4, <2>5, <1>a DEF Abs!Begin
  <2> QED BY <2>6, <1>a DEF Abs!Next
<1>4. ASSUME NEW r \in Reader, ReadData(r) PROVE [Abs!Next]_Abs!vars
  <2> USE <1>4 DEF ReadData, writerVars
  <2>1. Register' = Register
    BY <1>b, <1>c DEF RegisterBuf, Held, IInv, TypeOK
  <2>2. View' = View
    BY <1>d, <1>e DEF IInv, TypeOK
  <2>3. View[r] = data[reading[r]] /\ View[r] # -1
    BY <1>d, <1>f, <1>g
  <2>4. Abs!Use(r)
    BY <2>1, <2>2, <2>3, <1>a DEF Abs!Use
  <2> QED BY <2>4, <1>a DEF Abs!Next
<1>5. ASSUME NEW r \in Reader, FinishRead(r) PROVE [Abs!Next]_Abs!vars
  <2> USE <1>5 DEF FinishRead, writerVars
  <2>1. Register' = Register
    BY <1>b, <1>c DEF RegisterBuf, Held, IInv, TypeOK
  <2>2. View' = [View EXCEPT ![r] = -1]
    BY <1>d, <1>e DEF IInv, TypeOK
  <2>3. View[r] # -1
    BY <1>f, <1>g
  <2>4. Abs!Done(r)
    BY <2>1, <2>2, <2>3, <1>a DEF Abs!Done
  <2> QED BY <2>4, <1>a DEF Abs!Next
<1>6. CASE InitializeWriter \/ StartWrite
  <2> USE <1>6 DEF InitializeWriter, StartWrite, readerVars
  <2>1. comm' = comm /\ data' = data /\ UNCHANGED readerVars
    OBVIOUS
  <2>2. Register' = Register /\ View' = View
    BY <2>1, <1>b, <1>c, <1>d, <1>e DEF RegisterBuf, Held
  <2> QED BY <2>1, <2>2, <1>h
<1>7. CASE WriteData
  <2> USE <1>7 DEF WriteData, readerVars
  <2>1. ASSUME NEW r \in Reader PROVE RegisterBuf(r)' = RegisterBuf(r) /\ RegisterBuf(r) # writing
    BY RegisterBufIs DEF RegisterBuf, Held, PublishedTo, Given, IInv, WritingInv
  <2>2. Register' = Register
    BY <2>1, RegisterBufIs, <1>b, <1>c DEF IInv, TypeOK
  <2>3. ASSUME NEW r \in Reader, rpc[r] \in {"read", "finish"}
        PROVE  data'[reading[r]] = data[reading[r]]
    <3>1. reading[r] = Held(r) /\ reading[r] \in Buf
      BY <2>3 DEF IInv, ReadingInv, TypeOK, Held
    <3>2. Held(r) = Taken(r) \/ Held(r) = Given
      BY DEF IInv, ChannelInv, PublishedTo
    <3>3. reading[r] # writing
      BY <3>1, <3>2 DEF IInv, WritingInv, Taken, Given
    <3> QED BY <3>1, <3>3 DEF IInv, TypeOK
  <2>4. View' = View
    BY <2>3, <1>d, <1>e
  <2> QED BY <2>2, <2>4, <1>h
<1>8. CASE Publish
  <2> USE <1>8 DEF Publish, Exchange, readerVars
  <2>1. PICK k \in Reader : k = i
    BY DEF IInv, TypeOK, Reader
  <2>2. View' = View
    BY <1>d, <1>e
  <2>3. RegisterBuf(k)' = writing
    BY <2>1, <1>a DEF RegisterBuf, IInv, TypeOK, WritingInv
  <2>4. \A r \in Reader \ {k} : RegisterBuf(r)' = RegisterBuf(r)
    BY <2>1 DEF RegisterBuf, Held, IInv, TypeOK
  <2>5. Register' = [Register EXCEPT ![i] = v]
    BY <2>1, <2>3, <2>4, <1>b, <1>c DEF FrameInv
  <2>6. Abs!Publish
    BY <2>1, <2>2, <2>5 DEF Abs!Publish
  <2> QED BY <2>6 DEF Abs!Next
<1>9. CASE FinishWrite
  <2> USE <1>9 DEF FinishWrite, readerVars
  <2>1. \A r \in Reader : RegisterBuf(r)' = RegisterBuf(r)
    BY DEF RegisterBuf, Held
  <2>2. Register' = Register /\ View' = View
    BY <2>1, <1>b, <1>c, <1>d, <1>e
  <2>3. Abs!NextFrame
    BY <2>2 DEF Abs!NextFrame
  <2> QED BY <2>3 DEF Abs!Next
<1>10. CASE UNCHANGED vars
  <2> USE <1>10 DEF vars, readerVars, writerVars
  <2>1. Register' = Register /\ View' = View
    BY <1>b, <1>c, <1>d, <1>e DEF RegisterBuf, Held
  <2> QED BY <2>1, <1>h
<1> QED
  BY <1>1, <1>2, <1>3, <1>4, <1>5, <1>6, <1>7, <1>8, <1>9, <1>10
     DEF Next, WriterStep, ReaderStep

(* The mailbox implements the broadcast of whole frames, for every number  *)
(* of readers and every width of the frame counter.                        *)
THEOREM Refinement == Spec => ImplementsBroadcast
<1> USE DEF ImplementsBroadcast, Abs!Spec, Spec
<1>1. Spec => []IInv /\ []FrameInv
  BY Invariance, FrameInvariance, PTL
<1> QED BY <1>1, InitRefines, NextRefines, PTL
=============================================================================
