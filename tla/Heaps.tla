------------------------------- MODULE Heaps --------------------------------
(***************************************************************************)
(* Sequential programs on linked cells: search trees, and lists.  Each of  *)
(* the two has variables and actions of its own.                           *)
(***************************************************************************)
EXTENDS Integers, FiniteSets, Sequences

CONSTANTS
  Thread,      \* the one client of the tree
  Node,        \* bound: what mallocN returns
  Key, Item,   \* of the tree; 0 is no item
  Value,       \* the heads of lists
  MaxCells     \* bound: the cells of both lists

-----------------------------------------------------------------------------
(* The sequential search trees: progs/bst.c, progs/bst_oo.c (set and get,  *)
(* through subscr, which makes the key it does not find) and the copy in   *)
(* wand_demo/wand_demo/bst.c.  A treebox is the address of a pointer to a  *)
(* tree: of the caller's variable, or of a field of a node.  Memory that   *)
(* is freed is not in the heap any more: to touch it is an error.          *)
NULL == 0   \* neither a Node nor a cell
Root == [node |-> NULL]
NoOp == [kind |-> "none"]
Operation == [kind : {"insert"}, key : Key, item : Item] \cup [kind : {"lookup", "delete"}, key : Key]

VARIABLES
  source,   \* the file: "bst", "bst_oo" or "wand_demo"
  top,      \* *t of the treebox
  heap,     \* the nodes that are allocated
  op,       \* for the client, the call it executes
  ret       \* what its last lookup or get returned
treeVars == <<source, top, heap, op, ret>>

(* Memory as the functions pass it on: the variable of the caller, and the *)
(* heap.  *b and *b = p for a treebox b.                                   *)
Memory == [top |-> top, heap |-> heap]
Deref(m, b) == IF b = Root THEN m.top ELSE m.heap[b.node][b.side]
Assign(m, b, p) ==
  IF b = Root THEN [m EXCEPT !.top = p] ELSE [m EXCEPT !.heap[b.node][b.side] = p]
Field(p, side) == [node |-> p, side |-> side]
Free(m, p) == [m EXCEPT !.heap = [n \in DOMAIN m.heap \ {p} |-> m.heap[n]]]

(* The loop that insert, lookup, delete and subscr have in common: from b  *)
(* to the box where the key is or would be.                                *)
Side(x, y) == IF x < y THEN "left" ELSE "right"
RECURSIVE Walk(_, _, _)
Walk(m, b, x) ==
  LET p == Deref(m, b) IN
    IF p = NULL \/ m.heap[p].key = x THEN b
    ELSE Walk(m, Field(p, Side(x, m.heap[p].key)), x)

(* *b = mallocN(sizeof *p), with the key and the value.                    *)
NewNode(m, b, x, v) ==
  LET p == CHOOSE n \in Node : n \notin DOMAIN m.heap
      leaf == [key |-> x, value |-> v, left |-> NULL, right |-> NULL]
  IN  Assign([m EXCEPT !.heap = [n \in DOMAIN m.heap \cup {p} |-> IF n = p THEN leaf ELSE m.heap[n]]], b, p)

insert(m, t, x, v) ==
  LET b == Walk(m, t, x)  p == Deref(m, b)
  IN  IF p = NULL THEN NewNode(m, b, x, v) ELSE [m EXCEPT !.heap[p].value = v]
wand_insert(m, t, x, v) == insert(m, t, x, v)   \* the same statements

lookup(m, t, x) ==
  LET p == Deref(m, Walk(m, t, x)) IN IF p = NULL THEN 0 ELSE m.heap[p].value
wand_lookup(m, t, x) == lookup(m, t, x)

(* subscr: the node of the key, made with NULL for its value; set and get. *)
subscr(m, t, x) ==
  LET b == Walk(m, t, x) IN IF Deref(m, b) = NULL THEN NewNode(m, b, x, 0) ELSE m
set(m, t, x, v) ==
  LET n == subscr(m, t, x) IN [n EXCEPT !.heap[Deref(n, Walk(n, t, x))].value = v]
get(m, t, x) == lookup(subscr(m, t, x), t, x)

(* turn_left(_l, l, r), and pushdown_left: the node goes down to the left, *)
(* until nothing is to its right.                                          *)
turn_left(m, _l, l, r) ==
  LET mid == m.heap[r].left
  IN  Assign(Assign(Assign(m, Field(l, "right"), mid), Field(r, "left"), l), _l, r)

RECURSIVE pushdown_left(_, _)
pushdown_left(m, t) ==
  LET p == Deref(m, t)  q == m.heap[p].right
  IN  IF q = NULL THEN Free(Assign(m, t, m.heap[p].left), p)
      ELSE pushdown_left(turn_left(m, t, p, q), Field(q, "left"))
oo_pushdown_left(m, t) == pushdown_left(m, t)
wand_pushdown_left(m, t) == pushdown_left(m, t)

delete(m, t, x) ==
  LET b == Walk(m, t, x) IN IF Deref(m, b) = NULL THEN m ELSE pushdown_left(m, b)
oo_delete(m, t, x) == delete(m, t, x)
wand_delete(m, t, x) == delete(m, t, x)

(* tree_free: a node's fields are read before it is freed, then its        *)
(* subtrees are.                                                           *)
RECURSIVE tree_free(_, _)
tree_free(m, p) ==
  IF p = NULL THEN m
  ELSE LET pa == m.heap[p].left  pb == m.heap[p].right
       IN  tree_free(tree_free(Free(m, p), pa), pb)
oo_tree_free(m, p) == tree_free(m, p)

-----------------------------------------------------------------------------
TreeInit ==
  /\ source \in {"bst", "bst_oo", "wand_demo"}
  /\ top = NULL /\ heap = [n \in {} |-> 0]
  /\ op = [t \in Thread |-> NoOp] /\ ret = [t \in Thread |-> 0]

Call(t, o) ==
  /\ op[t] = NoOp
  /\ op' = [op EXCEPT ![t] = o] /\ ret' = [ret EXCEPT ![t] = 0]
  /\ UNCHANGED <<source, top, heap>>

After(t, o) ==
  CASE o.kind = "insert" /\ source = "bst" -> insert(Memory, Root, o.key, o.item)
    [] o.kind = "insert" /\ source = "bst_oo" -> set(Memory, Root, o.key, o.item)
    [] o.kind = "insert" /\ source = "wand_demo" -> wand_insert(Memory, Root, o.key, o.item)
    [] o.kind = "lookup" -> IF source = "bst_oo" THEN subscr(Memory, Root, o.key) ELSE Memory
    [] o.kind = "delete" /\ source = "bst" -> delete(Memory, Root, o.key)
    [] o.kind = "delete" /\ source = "bst_oo" -> oo_delete(Memory, Root, o.key)
    [] o.kind = "delete" /\ source = "wand_demo" -> wand_delete(Memory, Root, o.key)

Execute(t) ==
  /\ op[t] # NoOp
  /\ LET o == op[t]  m == After(t, o) IN
       /\ top' = m.top /\ heap' = m.heap
       /\ ret' = IF o.kind # "lookup" THEN ret
                 ELSE [ret EXCEPT ![t] = CASE source = "bst" -> lookup(Memory, Root, o.key)
                                           [] source = "bst_oo" -> get(Memory, Root, o.key)
                                           [] source = "wand_demo" -> wand_lookup(Memory, Root, o.key)]
  /\ op' = [op EXCEPT ![t] = NoOp]
  /\ UNCHANGED source

(* treebox_free and treebox_new, which the copy does not have.             *)
TreeboxFree ==
  /\ \A t \in Thread : op[t] = NoOp
  /\ source # "wand_demo" /\ top # NULL
  /\ heap' = (IF source = "bst" THEN tree_free(Memory, top) ELSE oo_tree_free(Memory, top)).heap
  /\ top' = NULL
  /\ UNCHANGED <<source, op, ret>>

TreeNext == TreeboxFree \/ \E t \in Thread : (\E o \in Operation : Call(t, o)) \/ Execute(t)

-----------------------------------------------------------------------------
RECURSIVE Nodes(_)
Nodes(p) == IF p = NULL THEN {} ELSE {p} \cup Nodes(heap[p].left) \cup Nodes(heap[p].right)
RECURSIVE Count(_)
Count(p) == IF p = NULL THEN 0 ELSE 1 + Count(heap[p].left) + Count(heap[p].right)

(* Between calls every node that is allocated hangs in the tree, from one  *)
(* place (nothing leaks, and nothing is freed that is still in use), and   *)
(* the keys are in order.                                                  *)
TreeIsWhole ==
  /\ Nodes(top) = DOMAIN heap /\ Count(top) = Cardinality(DOMAIN heap)
  /\ \A p \in DOMAIN heap : /\ \A q \in Nodes(heap[p].left) : heap[q].key < heap[p].key
                            /\ \A q \in Nodes(heap[p].right) : heap[q].key > heap[p].key

(* The map that the tree stands for, and the calls in progress.            *)
ItemOf(k) == LET at == {p \in DOMAIN heap : heap[p].key = k}
             IN  IF at = {} THEN 0 ELSE heap[CHOOSE p \in at : TRUE].value
Abstract == INSTANCE AtomicDict
              WITH Kinds <- {"insert", "lookup", "delete"}, MayClear <- TRUE,
                   map <- [k \in Key |-> ItemOf(k)], pending <- op
ImplementsDict == Abstract!Spec

-----------------------------------------------------------------------------
(* The programs that rearrange linked lists in place: progs/insertionsort.c*)
(* progs/merge.c, progs/reverse.c, progs/append.c and the functions of     *)
(* wand_demo/wand_demo/list.c.  A cell is a record [head, tail] of the     *)
(* memory m; a function returns the memory as it leaves it, and a pointer. *)
Result(m, p) == [mem |-> m, ptr |-> p]
SetTail(m, p, q) == IF p = NULL THEN m ELSE [m EXCEPT ![p].tail = q]

(* The last cell of the list p that satisfies the loop's test.             *)
RECURSIVE Last(_, _)
Last(m, p) == IF m[p].tail = NULL THEN p ELSE Last(m, m[p].tail)

-----------------------------------------------------------------------------
(* insertionsort.c.  insert: index and previous go down the sorted list    *)
(* while insert_value > sortedvalue.                                       *)
Guard(m, node, index) == index # NULL /\ m[node].head > m[index].head
RECURSIVE Place(_, _, _, _)
Place(m, node, previous, index) ==
  IF Guard(m, node, index) THEN Place(m, node, index, m[index].tail) ELSE [previous |-> previous, index |-> index]
list_insert(m, node, sorted) ==
  LET at == Place(m, node, NULL, sorted)
      linked == SetTail(m, node, at.index)
  IN  IF at.previous # NULL THEN Result(SetTail(linked, at.previous, node), sorted) ELSE Result(linked, node)

RECURSIVE SortFrom(_, _, _)
SortFrom(m, index, sorted) ==
  IF index = NULL THEN Result(m, sorted)
  ELSE LET next == m[index].tail  r == list_insert(SetTail(m, index, NULL), index, sorted)
       IN  SortFrom(r.mem, next, r.ptr)
insertionsort(m, p) == SortFrom(m, p, NULL)

(* merge.c: x is the address of a tail, or of ret (cell NULL stands for    *)
(* list).                                                                   *)
Taken_Strict(m, a, b) == m[a].head < m[b].head
Taken(m, a, b) == m[a].head <= m[b].head
RECURSIVE MergeFrom(_, _, _, _, _)
MergeFrom(m, list, x, a, b) ==
  LET store(p) == SetTail(m, x, p)
      first(p) == IF x = NULL THEN p ELSE list
  IN  IF a # NULL /\ b # NULL
      THEN IF Taken(m, a, b) THEN MergeFrom(store(a), first(a), a, m[a].tail, b)
           ELSE MergeFrom(store(b), first(b), b, a, m[b].tail)
      ELSE LET p == IF a # NULL THEN a ELSE b IN Result(store(p), first(p))
merge(m, a, b) == MergeFrom(m, NULL, NULL, a, b)

(* reverse.c.                                                              *)
RECURSIVE ReverseFrom(_, _, _)
ReverseFrom(m, w, v) == IF v = NULL THEN Result(m, w) ELSE ReverseFrom(SetTail(m, v, w), v, m[v].tail)
reverse(m, p) == ReverseFrom(m, NULL, p)

(* append.c; append1, append2 and append3 of list.c.                       *)
append(m, x, y) == IF x = NULL THEN Result(m, y) ELSE Result(SetTail(m, Last(m, x), y), x)
append1(m, x, y) == append(m, x, y)
(* curp ends as the address of the last tail, or of head.                  *)
append2(m, x, y) ==
  LET curp[p \in 0..Len(m)] == IF p = NULL \/ m[p].tail = NULL THEN p ELSE curp[m[p].tail]
  IN  IF curp[x] = NULL THEN Result(m, y) ELSE Result(SetTail(m, curp[x], y), x)
RECURSIVE append3(_, _, _)
append3(m, x, y) ==
  IF x = NULL THEN Result(m, y)
  ELSE LET t == append3(m, m[x].tail, y) IN Result(SetTail(t.mem, x, t.ptr), x)

(* head_head_switch, and head_pointer_switch of a head and a variable.     *)
head_head_switch(m, l1, l2) == [m EXCEPT ![l1].head = m[l2].head, ![l2].head = m[l1].head]
head_pointer_switch(m, l, i) == [mem |-> [m EXCEPT ![l].head = i], i |-> m[l].head]

-----------------------------------------------------------------------------
VARIABLES
  function,   \* the function that is called
  memory,     \* the cells of the lists x and y
  x, y,       \* its arguments
  result      \* the pointer it has returned, -1 before
listVars == <<function, memory, x, y, result>>

Function == {"insertionsort", "merge", "reverse", "append", "append1", "append2", "append3", "switch"}
ListInit == function = "none" /\ memory = <<>> /\ x = NULL /\ y = NULL /\ result = -1

(* Two lists in n cells, one after the other: x has the first k.           *)
CellsOf(vs, k) ==
  [i \in DOMAIN vs |-> [head |-> vs[i], tail |-> IF i \in {k, Len(vs)} THEN NULL ELSE i + 1]]
Sorted(s) == \A i \in 1 .. Len(s) - 1 : s[i] <= s[i + 1]

(* A caller has the lists: merge is for sorted ones, the switches for ones *)
(* that are not empty.                                                     *)
PassLists ==
  /\ function = "none"
  /\ function' \in Function
  /\ \E n \in 0..MaxCells : \E vs \in [1..n -> Value], k \in 0..n :
       /\ function' \in {"insertionsort", "reverse"} => k = n
       /\ function' = "merge" => Sorted(SubSeq(vs, 1, k)) /\ Sorted(SubSeq(vs, k + 1, n))
       /\ function' = "switch" => k \in 1 .. n - 1
       /\ memory' = CellsOf(vs, k)
       /\ x' = IF k = 0 THEN NULL ELSE 1
       /\ y' = IF k = n THEN NULL ELSE k + 1
  /\ UNCHANGED result

Returned ==
  CASE function = "insertionsort" -> insertionsort(memory, x)
    [] function = "merge" -> merge(memory, x, y)
    [] function = "reverse" -> reverse(memory, x)
    [] function = "append" -> append(memory, x, y)
    [] function = "append1" -> append1(memory, x, y)
    [] function = "append2" -> append2(memory, x, y)
    [] function = "append3" -> append3(memory, x, y)
    [] function = "switch" -> LET r == head_pointer_switch(memory, x, memory[y].head)
                              IN  Result([r.mem EXCEPT ![y].head = r.i], x)

(* The call.  head_head_switch does to two lists what head_pointer_switch  *)
(* does to a list and a variable, here the other head.                     *)
CallFunction ==
  /\ function # "none" /\ result = -1
  /\ memory' = Returned.mem /\ result' = Returned.ptr
  /\ function = "switch" => memory' = head_head_switch(memory, x, y)
  /\ UNCHANGED <<function, x, y>>

ListNext == PassLists \/ CallFunction

-----------------------------------------------------------------------------
RECURSIVE Cells(_, _)
Cells(m, p) == IF p = NULL THEN <<>> ELSE <<p>> \o Cells(m, m[p].tail)
Heads(m, p) == [i \in DOMAIN Cells(m, p) |-> m[Cells(m, p)[i]].head]

(* What each function says of the lists it was given and the list that it  *)
(* returns: it has exactly their cells, in the order that the function is  *)
(* for, and no cell has changed its value.  The two sorts put equal values *)
(* in the reverse order of the input and in that of a before b.            *)
ListsMeetSpecs ==
  [][LET before == Cells(memory, x) \o (IF function \in {"insertionsort", "reverse"} THEN <<>> ELSE Cells(memory, y))
         after == Cells(memory', result')
         n == Len(before)
         value(c) == memory[c].head
         pos(c) == CHOOSE i \in 1..n : before[i] = c
     IN  function # "none" =>
         IF function = "switch"
         THEN /\ after = Cells(memory, x) /\ Cells(memory', y) = Cells(memory, y)
              /\ Heads(memory', x) = [Heads(memory, x) EXCEPT ![1] = memory[y].head]
              /\ Heads(memory', y) = [Heads(memory, y) EXCEPT ![1] = memory[x].head]
         ELSE /\ \A c \in DOMAIN memory : memory'[c].head = value(c)
              /\ Len(after) = n /\ {after[i] : i \in 1..n} = {before[i] : i \in 1..n}
              /\ CASE function = "reverse" -> after = [i \in 1..n |-> before[n + 1 - i]]
                   [] function \in {"append", "append1", "append2", "append3"} -> after = before
                   [] function = "insertionsort" ->
                        \A i, j \in 1..n : i < j => \/ value(after[i]) < value(after[j])
                                                    \/ value(after[i]) = value(after[j]) /\ pos(after[i]) > pos(after[j])
                   [] function = "merge" ->
                        \A i, j \in 1..n : i < j => \/ value(after[i]) < value(after[j])
                                                    \/ value(after[i]) = value(after[j]) /\ pos(after[i]) < pos(after[j])
  ]_listVars
=============================================================================
