----------------------------- MODULE MCAtomics ------------------------------
(***************************************************************************)
(* The run of the programs on atomic operations: the simulated atomics of  *)
(* SimAtomics, and the node and the hash tables of ReleaseAcquire.  One of *)
(* the two works, the other stays as it was initialized.                   *)
(***************************************************************************)
EXTENDS SimAtomics, Sequences

CONSTANTS Reader, Size, Writes, NThreads, Calls, ARRAY_SIZE   \* of ReleaseAcquire

ASSUME NodeAssumption  == Size \in Nat \ {0} /\ "writer" \notin Reader
ASSUME TableAssumption == ARRAY_SIZE \in Nat \ {0} /\ NThreads \in Nat \ {0}
(* Nobody sets a key that another adds: its adds would not be the only ones*)
(* to store its value.                                                     *)
ASSUME CallsAssumption ==
  /\ \A t \in 1..NThreads : Calls[t] \in Seq([kind : {"set", "get", "add"}, key : Nat \ {0}])
  /\ \A s, t \in 1..NThreads : \A b \in DOMAIN Calls[s], c \in DOMAIN Calls[t] :
       Calls[s][b].kind = "set" /\ Calls[t][c].kind = "add" => Calls[s][b].key # Calls[t][c].key

VARIABLES
  program,   \* which one works
  file,      \* ReleaseAcquire
  cells, seen, wpc, number, wi, rpc, snap, out, ri, got,       \* its node
  mem, view, tpc, called, idx, rets, joinLock, mpc, nth, total \* its tables

Relaxed == INSTANCE ReleaseAcquire WITH pc <- tpc
relaxedVars == <<file, cells, seen, wpc, number, wi, rpc, snap, out, ri, got,
                 mem, view, tpc, called, idx, rets, joinLock, mpc, nth, total>>

AtomicsInit ==
  /\ program \in {"sim_atomics", "release_acquire"}
  /\ Init /\ Relaxed!RaInit
  /\ program = "release_acquire" \/ file = "hashtable1"
  /\ program = "sim_atomics" \/ val = CHOOSE v \in Val : TRUE

AtomicsNext ==
  \/ program = "sim_atomics" /\ Next /\ UNCHANGED <<program, relaxedVars>>
  \/ program = "release_acquire" /\ Relaxed!RaNext /\ UNCHANGED <<program, vars>>

AtomicsSpec ==
  /\ AtomicsInit /\ [][AtomicsNext]_<<program, vars, relaxedVars>>
  /\ \A t \in Thread : WF_vars(Step(t))

(* With release/acquire, a read of the node returns the whole vector of    *)
(* one write, and never an older one than before.                          *)
ReadsAdvance == Relaxed!ReadsAdvance

(* total is right in both tables, and main and the threads see what they   *)
(* must (the comments hashtable_atomic_ra.c:150 and hashtable1.c:135).     *)
TotalIsNumberOfAdds == Relaxed!TotalIsNumberOfAdds /\ Relaxed!NothingUnseen
-----------------------------------------------------------------------------
\* The instance that TLC checks.
\* Two threads that add the same two keys (the code has three), one that sets and gets.
MCCalls == LET call(kind, k) == [kind |-> kind, key |-> k] IN
  << <<call("add", 2), call("add", 4)>>, <<call("add", 2), call("add", 4)>>,
     <<call("set", 6), call("get", 2), call("get", 2)>> >>
=============================================================================
