---------------------------- MODULE Structures -----------------------------
(***************************************************************************)
(* The run of the data structures: the versioned nodes of kvnode_atomic.c  *)
(* (Kvnode), the search trees of bst_conc.c (BstConc), the trees and linked*)
(* lists of Heaps, the objects, piles, globals and sums of Units.  One of  *)
(* them is used, the others stay as they were initialized.                 *)
(***************************************************************************)
EXTENDS Kvnode, BstConc

CONSTANTS
  Client, Cell, Key2, Item2, Value, MaxCells,  \* of Heaps
  Arg, MaxObjects, MaxCalls,  \* of Units: objects
  Number, INT_MAX, Addr, NTimes, ARENA, MaxTurns,   \* piles, globals, arena
  Byte, LIMIT, PRINTLEN, MaxInput, MaxTries         \* sums

VARIABLES
  program,   \* which one is used
  source, sroot, heap, sop, sret,                              \* Heaps: trees
  function, memory, x, y, result,                              \* lists
  file, client, objs, calls, step, value, exitcode,            \* Units: objects
  unit, blocks, thePile, added, lg, bumps, arena, roots, reply, turns,   \* piles, globals, arena
  sumMain, mainAt, total, buf, pending, input, output, tries    \* sums

treeVars    == <<source, sroot, heap, sop, sret>>
listVars    == <<function, memory, x, y, result>>
objVars     == <<file, client, objs, calls, step, value, exitcode>>
unitVars    == <<unit, blocks, thePile, added, lg, bumps, arena, roots, reply, turns>>
ioVars      == <<sumMain, mainAt, total, buf, pending, input, output, tries>>

Heap    == INSTANCE Heaps
             WITH Thread <- Client, Node <- Cell, Key <- Key2, Item <- Item2, top <- sroot, op <- sop, ret <- sret
Unit    == INSTANCE Units WITH reader <- sumMain, at <- mainAt, n <- total

ASSUME TreeAssumption == ConstantsFit

StructuresInit ==
  /\ program \in {"kvnode_atomic", "bst_conc", "bst", "lists", "objects", "units", "io"}
  /\ Init /\ BstInit /\ Heap!TreeInit /\ Heap!ListInit /\ Unit!ObjInit /\ Unit!UnitsInit /\ Unit!IoInit
  /\ program = "bst" \/ source = "bst"
  /\ program = "objects" \/ (file = "object" /\ ~client)
  /\ program = "units" \/ unit = "pile"
  /\ program = "io" \/ sumMain = "io"

InSC      == program = "kvnode_atomic" /\ UNCHANGED <<program, bstVars, treeVars, listVars, objVars, unitVars, ioVars>>
InConc    == program = "bst_conc" /\ UNCHANGED <<program, vars, treeVars, listVars, objVars, unitVars, ioVars>>
InTree    == program = "bst" /\ UNCHANGED <<program, vars, bstVars, listVars, objVars, unitVars, ioVars>>
InLists   == program = "lists" /\ UNCHANGED <<program, vars, bstVars, treeVars, objVars, unitVars, ioVars>>
InObjects == program = "objects" /\ UNCHANGED <<program, vars, bstVars, treeVars, listVars, unitVars, ioVars>>
InUnits   == program = "units" /\ UNCHANGED <<program, vars, bstVars, treeVars, listVars, objVars, ioVars>>
InIo      == program = "io" /\ UNCHANGED <<program, vars, bstVars, treeVars, listVars, objVars, unitVars>>

StructuresNext ==
  \/ InSC /\ Next
  \/ InConc /\ BstNext
  \/ InTree /\ Heap!TreeNext
  \/ InLists /\ Heap!ListNext
  \/ InObjects /\ Unit!ObjNext
  \/ InUnits /\ Unit!UnitsNext
  \/ InIo /\ Unit!IoNext

allVars == <<program, vars, bstVars, treeVars, listVars, objVars, unitVars, ioVars>>

(* The writer and the readers of kvnode_atomic run while they are in a     *)
(* call.                                                                   *)
StructuresSpec ==
  /\ StructuresInit /\ [][StructuresNext]_allVars
  /\ WF_allVars(InSC /\ WriterStep)
  /\ \A r \in Reader : WF_allVars(InSC /\ ReaderStep(r))

-----------------------------------------------------------------------------
(* A method does what the class of its object says, whoever calls it; a    *)
(* pile, the globals of libglob and the trees of the arena are what was    *)
(* done with them; the sums of io.c and io_mem.c are printed, once each.   *)
ObjectsMeetSpecs == Unit!ObjectsMeetSpecs /\ Unit!UnitsMeetSpecs /\ Unit!SumsPrinted

(* The trees of Heaps are dictionaries and search trees of the nodes that  *)
(* are allocated, none of which hangs from two places; the functions on    *)
(* lists keep every cell and put them in the right order.                  *)
HeapsMeetSpecs == Heap!ImplementsDict /\ []Heap!TreeIsWhole /\ Heap!ListsMeetSpecs
=============================================================================
