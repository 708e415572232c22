---------------------------- MODULE Collections ----------------------------
(***************************************************************************)
(* The run of the concurrent maps and sets: the hash table of              *)
(* hashtable_atomic.c (HashTable), the linear search of                    *)
(* faster_lockfree_linsearch.c on the same kind of table (LinSearch), and  *)
(* the lists of lock_coupling.c (LockCoupling) and oplistset.c             *)
(* (OptListSet).  One of them is used, the others stay as they were        *)
(* initialized.                                                            *)
(***************************************************************************)
EXTENDS HashTable

CONSTANTS
  Node, Head, Last,       \* of both lists
  AddElem, RemoveElem,    \* of LockCoupling
  AddElem2, RemoveElem2   \* of OptListSet

(* The sentinels are two nodes; the elements are ints between their values.*)
ASSUME SentinelAssumption == Head \in Node /\ Last \in Node /\ Head # Last
ASSUME ElemAssumption ==
  \A S \in {AddElem \cup RemoveElem, AddElem2 \cup RemoveElem2} :
    S # {} /\ S \subseteq Int /\ IsFiniteSet(S)
ASSUME FiniteAssumption == IsFiniteSet(Thread) /\ IsFiniteSet(Node)

VARIABLES
  program,   \* which one is used
  val, next, lock, alive, lpc, lop, pred, curr, lret,                  \* LockCoupling
  oval, onext, olock, oalive, opc, oop, opred, ocurr, succ, oret       \* OptListSet

coupledVars == <<val, next, lock, alive, lpc, lop, pred, curr, lret>>
optimisticVars == <<oval, onext, olock, oalive, opc, oop, opred, ocurr, succ, oret>>
allVars == <<program, vars, coupledVars, optimisticVars>>

Search == INSTANCE LinSearch WITH Faster <- TRUE
Coupled == INSTANCE LockCoupling WITH pc <- lpc, op <- lop, ret <- lret
Optimistic == INSTANCE OptListSet
                WITH AddElem <- AddElem2, RemoveElem <- RemoveElem2, val <- oval, next <- onext, lock <- olock,
                     alive <- oalive, pc <- opc, op <- oop, pred <- opred, curr <- ocurr, ret <- oret

CollectionsInit ==
  /\ program \in {"hashtable", "linsearch", "lock_coupling", "oplistset"}
  /\ Init /\ Coupled!Init /\ Optimistic!Init

InTable(name) == program = name /\ UNCHANGED <<program, coupledVars, optimisticVars>>
InCoupled     == program = "lock_coupling" /\ UNCHANGED <<program, vars, optimisticVars>>
InOptimistic  == program = "oplistset" /\ UNCHANGED <<program, vars, coupledVars>>

CollectionsNext ==
  \/ InTable("hashtable") /\ Next
  \/ InTable("linsearch") /\ Search!Next
  \/ InCoupled /\ Coupled!Next
  \/ InOptimistic /\ Optimistic!Next

(* The steps of a call in progress.                                        *)
Runs(t) ==
  \/ InTable("hashtable") /\ Step(t)
  \/ InTable("linsearch") /\ Search!Step(t)
  \/ InCoupled /\ Coupled!Step(t)
  \/ InOptimistic /\ Optimistic!Step(t)

CollectionsSpec == CollectionsInit /\ [][CollectionsNext]_allVars /\ \A t \in Thread : WF_allVars(Runs(t))

-----------------------------------------------------------------------------
(* add and remove of both lists are linearizable: of lock_coupling.c as it *)
(* stands, of oplistset.c while nothing is removed but the greatest element*)
(* (OptListSet says why).                                                  *)
ImplementsSet == Coupled!ImplementsSet /\ Optimistic!ImplementsSet

(* locate's postcondition in both, and the tables it and the search in     *)
(* the linear table depend on: sorted lists, and no free entry before one  *)
(* in use.                                                                 *)
SearchesAreRight ==
  /\ Coupled!ListSorted /\ Coupled!LocateCorrect /\ Optimistic!LocateCorrect
  /\ program = "linsearch" => Search!EntriesWellFormed

(* The threads that lock two nodes never wait for each other in a circle,  *)
(* and a try fails only because another call has taken effect: of the calls*)
(* in progress some returns.                                               *)
SomeReturns == Coupled!SomeReturns /\ Optimistic!SomeReturns
=============================================================================
