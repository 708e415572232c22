------------------------------- MODULE Kvnode -------------------------------
(***************************************************************************)
(* The node of atomics/kvnode_atomic.c: a vector of words with a version,  *)
(* each an SC atomic.  The one writer makes the version odd, stores word   *)
(* after word, and makes it even again; readers copy the words between two *)
(* loads of the version and start over unless both give the same even      *)
(* number.  Nobody takes a lock.                                           *)
(*                                                                         *)
(* A definition Name_Suffix is a faulty variant of Name, for the mutation  *)
(* runs; nothing uses it.                                                  *)
(***************************************************************************)
EXTENDS Integers

CONSTANTS
  Reader,
  Size,         \* number of words in a node (8 in the code)
  Val,          \* what a word holds
  Zero,         \* what a fresh word holds
  MaxVersion    \* the code's int has no room for a version beyond this

ASSUME SizeAssumption    == Size \in Nat \ {0}
ASSUME ZeroAssumption    == Zero \in Val
ASSUME VersionAssumption == MaxVersion \in Nat

Word   == 0 .. Size-1
Vector == [Word -> Val]

VARIABLES
  version,   \* *n->version
  data,      \* data[i]: *n->data[i]
  wpc,       \* control point of the writer
  in,        \* the vector it writes
  v,         \* the version it started from
  wi,        \* its i
  rpc,       \* control point of each reader
  snap,      \* its snap
  out,       \* the vector it copies into
  ri,        \* its i
  got        \* the vector its last read returned

writerVars == <<version, data, wpc, in, v, wi>>
readerVars == <<rpc, snap, out, ri, got>>
vars == <<writerVars, readerVars>>

(* make_node: version and words are 0.                                     *)
ZeroVector == [j \in Word |-> Zero]

Init ==
  /\ version = 0
  /\ data = ZeroVector
  /\ wpc = "idle"
  /\ in = ZeroVector
  /\ v = 0
  /\ wi = 0
  /\ rpc = [r \in Reader |-> "idle"]
  /\ snap = [r \in Reader |-> 0]
  /\ out = [r \in Reader |-> ZeroVector]
  /\ ri = [r \in Reader |-> 0]
  /\ got = [r \in Reader |-> ZeroVector]

-----------------------------------------------------------------------------
(* write.                                                                  *)

(* The load of the version, by a caller that has room for one more.        *)
StartWrite(vec) ==
  /\ wpc = "idle"
  /\ version + 2 <= MaxVersion
  /\ v' = version
  /\ in' = vec
  /\ wpc' = "dirty"
  /\ UNCHANGED <<version, data, wi, readerVars>>

Dirty_Even == v
Dirty == v + 1

MarkDirty ==
  /\ wpc = "dirty"
  /\ version' = Dirty
  /\ wi' = 0
  /\ wpc' = "store"
  /\ UNCHANGED <<data, in, v, readerVars>>

StoreWord ==
  /\ wpc = "store"
  /\ wi < Size
  /\ data' = [data EXCEPT ![wi] = in[wi]]
  /\ wi' = wi + 1
  /\ UNCHANGED <<version, wpc, in, v, readerVars>>

Clean_Odd  == v + 3
Clean == v + 2

Written == wi = Size

MarkClean ==
  /\ wpc = "store"
  /\ Written
  /\ version' = Clean
  /\ wpc' = "idle"
  /\ UNCHANGED <<data, in, v, wi, readerVars>>

WriterStep == MarkDirty \/ StoreWord \/ MarkClean

-----------------------------------------------------------------------------
(* read.                                                                   *)

StartRead(r) ==
  /\ rpc[r] = "idle"
  /\ rpc' = [rpc EXCEPT ![r] = "snap"]
  /\ UNCHANGED <<snap, out, ri, got, writerVars>>

(* An odd version: already dirty, try again.                               *)
Usable(n) == n % 2 = 0

TakeSnap(r) ==
  /\ rpc[r] = "snap"
  /\ snap' = [snap EXCEPT ![r] = version]
  /\ ri' = [ri EXCEPT ![r] = 0]
  /\ rpc' = [rpc EXCEPT ![r] = IF Usable(version) THEN "copy" ELSE "snap"]
  /\ UNCHANGED <<out, got, writerVars>>

CopyWord(r) ==
  /\ rpc[r] = "copy"
  /\ ri[r] < Size
  /\ out' = [out EXCEPT ![r] = [out[r] EXCEPT ![ri[r]] = data[ri[r]]]]
  /\ ri' = [ri EXCEPT ![r] = ri[r] + 1]
  /\ UNCHANGED <<rpc, snap, got, writerVars>>

(* The second load of the version: return, or start over.                  *)
Unchanged_AtLeast(r) == version >= snap[r]
Unchanged(r) == version = snap[r]

Recheck(r) ==
  /\ rpc[r] = "copy"
  /\ ri[r] = Size
  /\ IF Unchanged(r)
     THEN /\ got' = [got EXCEPT ![r] = out[r]]
          /\ rpc' = [rpc EXCEPT ![r] = "idle"]
     ELSE /\ rpc' = [rpc EXCEPT ![r] = "snap"]
          /\ UNCHANGED got
  /\ UNCHANGED <<snap, out, ri, writerVars>>

ReaderStep(r) == TakeSnap(r) \/ CopyWord(r) \/ Recheck(r)

-----------------------------------------------------------------------------
Next ==
  \/ WriterStep
  \/ \E vec \in Vector : StartWrite(vec)
  \/ \E r \in Reader : StartRead(r) \/ ReaderStep(r)

Spec == Init /\ [][Next]_vars

(* The scheduler runs every thread that is inside a call.                  *)
FairSpec ==
  /\ Spec
  /\ WF_vars(WriterStep)
  /\ \A r \in Reader : WF_vars(ReaderStep(r))

-----------------------------------------------------------------------------
TypeOK ==
  /\ version \in 0 .. MaxVersion
  /\ data \in Vector
  /\ wpc \in {"idle", "dirty", "store"}
  /\ in \in Vector
  /\ v \in 0 .. MaxVersion
  /\ wi \in 0 .. Size
  /\ rpc \in [Reader -> {"idle", "snap", "copy"}]
  /\ snap \in [Reader -> 0 .. MaxVersion]
  /\ out \in [Reader -> Vector]
  /\ ri \in [Reader -> 0 .. Size]
  /\ got \in [Reader -> Vector]

(* What a reader has copied while the version stands still is what the     *)
(* node holds: a copy that mixes two writes never passes the second check. *)
CopiesHold ==
  \A r \in Reader : rpc[r] = "copy" /\ version = snap[r] =>
    \A j \in Word : j < ri[r] => out[r][j] = data[j]

(* A write takes effect when it makes the version odd, though its words    *)
(* come later.                                                             *)
Register == INSTANCE AtomicRegister
              WITH Initial <- ZeroVector, value <- IF wpc = "store" THEN in ELSE data

(* The node is an atomic register: every read returns, whole, the vector   *)
(* of the newest write at a moment during the read.                        *)
ImplementsRegister == Register!Spec

(* A reader is held up by writes alone: when the writer pauses for good,   *)
(* every read returns.                                                     *)
ReadsReturn ==
  <>[](wpc = "idle") => \A r \in Reader : rpc[r] # "idle" ~> rpc[r] = "idle"
=============================================================================
