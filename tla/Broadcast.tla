----------------------------- MODULE Broadcast -----------------------------
(***************************************************************************)
(* What the mailbox promises: every reader has a register that holds the   *)
(* newest frame published to it.  The writer sets the registers one after  *)
(* the other, with one frame, before it goes on to the next frame; a read  *)
(* copies the register, and the copy does not change while the reader is   *)
(* at work on it.  Frames are written and read whole, and no reader goes   *)
(* back to an older frame.                                                 *)
(***************************************************************************)
EXTENDS Integers

CONSTANTS N, VMod

Reader == 0 .. N-1

NoFrame == -1

VARIABLES
  frame,   \* the frame the writer publishes
  next,    \* the reader it publishes it to next
  reg,     \* reg[r]: the newest frame published to r
  view,    \* view[r]: the frame r is reading, or NoFrame
  got      \* got[r]: the frame r read last

vars == <<frame, next, reg, view, got>>

Init ==
  /\ frame = 0
  /\ next = 0
  /\ reg = [r \in Reader |-> 0]
  /\ view = [r \in Reader |-> NoFrame]
  /\ got = [r \in Reader |-> 0]

Publish ==
  /\ next < N
  /\ reg' = [reg EXCEPT ![next] = frame]
  /\ next' = next + 1
  /\ UNCHANGED <<frame, view, got>>

NextFrame ==
  /\ next = N
  /\ next' = 0
  /\ frame' = (frame + 1) % VMod
  /\ UNCHANGED <<reg, view, got>>

Begin(r) ==
  /\ view[r] = NoFrame
  /\ view' = [view EXCEPT ![r] = reg[r]]
  /\ UNCHANGED <<frame, next, reg, got>>

Use(r) ==
  /\ view[r] # NoFrame
  /\ got' = [got EXCEPT ![r] = view[r]]
  /\ UNCHANGED <<frame, next, reg, view>>

Done(r) ==
  /\ view[r] # NoFrame
  /\ view' = [view EXCEPT ![r] = NoFrame]
  /\ UNCHANGED <<frame, next, reg, got>>

Next ==
  \/ Publish
  \/ NextFrame
  \/ \E r \in Reader : Begin(r) \/ Use(r) \/ Done(r)

Spec == Init /\ [][Next]_vars
=============================================================================
