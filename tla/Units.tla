------------------------------- MODULE Units --------------------------------
(***************************************************************************)
(* Sequential programs of several units: objects that are called through   *)
(* tables of functions, piles and globals with a state of their own, and   *)
(* sums that are read and printed.  Each of the three kinds has variables  *)
(* and actions of its own.                                                 *)
(***************************************************************************)
EXTENDS Integers, Sequences

CONSTANTS
  Arg,        \* the arguments of twiddle, twiddleR and setcolor that clients use
  MaxObjects, MaxCalls,   \* bounds: the calls of a client of the objects
  Number,     \* the numbers that clients of the piles add and the depths they ask for
  INT_MAX,
  Addr,       \* what malloc returns, positive
  NTimes,     \* the loop of main in progs/pile/main.c, 10 in the code
  ARENA,      \* the length of arena, 1000 in the code
  MaxTurns,   \* bound: the calls of a client of the piles, the globals and the arena
  Byte,       \* the characters that may be read
  LIMIT,      \* the sum at which main of io.c stops, 1000 in the code
  PRINTLEN,   \* the bytes that print_int of io_mem.c allocates, 5 in the code
  MaxInput,   \* bound: the characters that are read
  MaxTries    \* bound: the calls in a row that fail

-----------------------------------------------------------------------------
(* Method calls through tables of function pointers: progs/object.c,       *)
(* objectSelf.c (twiddleR calls a method of its own object),               *)
(* objectSelfFancy.c (a subclass with a color) and                         *)
(* objectSelfFancyOverriding.c (the subclass has a reset of its own).  An  *)
(* execution is that of one file: of its main, or of a client that makes   *)
(* objects and calls their methods as it likes.                            *)
VARIABLES
  file,      \* the program
  client,    \* TRUE: a client; FALSE: its main
  objs,      \* the objects, in the order in which they were made
  calls,     \* the methods called on each of them so far
  step,      \* calls made in all
  value,     \* the result of the last call
  exitcode   \* the sum of the results that main keeps; -1 after exit(1)
objVars == <<file, client, objs, calls, step, value, exitcode>>

-----------------------------------------------------------------------------
(* The methods, as functions of the memory h.                              *)
foo_reset(h, self) == [h EXCEPT ![self].data = 0]
fancy_reset(h, self) == [h EXCEPT ![self].data = 0, ![self].color = 0]
Reset(h, self) ==
  IF h[self].mtable.reset = "foo_reset" THEN foo_reset(h, self) ELSE fancy_reset(h, self)

foo_twiddle(h, self, i) == [h EXCEPT ![self].data = @ + 2 * i]

foo_twiddleR_LateRead(h, self, i) ==
  LET r == Reset(h, self) IN [r EXCEPT ![self].data = r[self].data + 2 * i]
foo_twiddleR(h, self, i) ==
  LET d == h[self].data  r == Reset(h, self) IN [r EXCEPT ![self].data = d + 2 * i]

setcolor(h, self, c) == [h EXCEPT ![self].color = c]
getcolor(h, self) == h[self].color

(* The method tables.                                                      *)
object_methods == [reset |-> "foo_reset", twiddle |-> "foo_twiddle"]
foo_methods == [reset |-> "foo_reset", twiddle |-> "foo_twiddle", twiddleR |-> "foo_twiddleR"]
fancyfoo_methods ==
  [reset |-> "foo_reset", twiddle |-> "foo_twiddle", twiddleR |-> "foo_twiddleR",
   setcolor |-> "setcolor", getcolor |-> "getcolor"]
overriding_methods == [fancyfoo_methods EXCEPT !.reset = "fancy_reset"]

Foo == [mtable |-> IF file = "object" THEN object_methods ELSE foo_methods, data |-> 0]
FancyFoo(c) ==
  [mtable |-> IF file = "objectSelfFancy" THEN fancyfoo_methods ELSE overriding_methods, data |-> 0, color |-> c]
HasFancy == file \in {"objectSelfFancy", "objectSelfFancyOverriding"}

-----------------------------------------------------------------------------
(* The mains: what they make and call, on which object, and the results    *)
(* that their result adds up.                                              *)
make_foo == [m |-> "make_foo"]
make_fancyfoo(c) == [m |-> "make_fancyfoo", c |-> c]
call(m, o, i) == [m |-> m, o |-> o, i |-> i, kept |-> FALSE]
kept(m, o, i) == [m |-> m, o |-> o, i |-> i, kept |-> TRUE]

object_main == <<make_foo, call("reset", 1, 0), kept("twiddle", 1, 3)>>
objectSelf_main == <<make_foo, call("reset", 1, 0), kept("twiddle", 1, 3)>>
objectSelfFancy_main ==
  <<make_foo, make_fancyfoo(4), call("reset", 1, 0), call("reset", 2, 0), kept("getcolor", 2, 0),
    kept("twiddleR", 1, 3), make_fancyfoo(9), call("reset", 3, 0), kept("getcolor", 3, 0)>>
objectSelfFancyOverriding_main ==
  <<make_foo, make_fancyfoo(4), call("reset", 1, 0), call("reset", 2, 0), kept("getcolor", 2, 0),
    kept("twiddleR", 1, 3), make_fancyfoo(9), call("reset", 3, 0), kept("getcolor", 3, 0)>>

Script == CASE file = "object" -> object_main
          [] file = "objectSelf" -> objectSelf_main
          [] file = "objectSelfFancy" -> objectSelfFancy_main
          [] file = "objectSelfFancyOverriding" -> objectSelfFancyOverriding_main

ObjInit ==
  /\ file \in {"object", "objectSelf", "objectSelfFancy", "objectSelfFancyOverriding"}
  /\ client \in BOOLEAN
  /\ objs = <<>> /\ calls = <<>>
  /\ step = 0 /\ value = 0 /\ exitcode = 0

(* What may come next: the statement of main, or anything.                 *)
Offered ==
  IF ~client THEN IF step < Len(Script) THEN {Script[step + 1]} ELSE {}
  ELSE IF step = MaxCalls THEN {}
  ELSE (IF Len(objs) = MaxObjects THEN {}
        ELSE {make_foo} \cup IF HasFancy THEN {make_fancyfoo(c) : c \in Arg} ELSE {})
       \cup {call(m, o, i) : m \in {"reset", "twiddle", "twiddleR", "setcolor", "getcolor"}, o \in DOMAIN objs, i \in Arg}

(* malloc returns an object, or the program ends with exit(1).             *)
MakeFoo(s) ==
  /\ s = make_foo
  /\ objs' = Append(objs, Foo) /\ calls' = Append(calls, <<>>)
  /\ UNCHANGED <<value, exitcode>>
MakeFancyFoo(s) ==
  /\ s.m = "make_fancyfoo"
  /\ objs' = Append(objs, FancyFoo(s.c)) /\ calls' = Append(calls, <<[m |-> "setcolor", i |-> s.c]>>)
  /\ UNCHANGED <<value, exitcode>>
MakeFails(s) ==
  /\ s.m \in {"make_foo", "make_fancyfoo"}
  /\ exitcode' = -1 /\ UNCHANGED <<objs, calls, value>>

(* A dynamic call: the object's table says what runs.                      *)
CallMethod(s) ==
  /\ s.m \notin {"make_foo", "make_fancyfoo"} /\ s.m \in DOMAIN objs[s.o].mtable
  /\ LET f == objs[s.o].mtable[s.m] IN
       /\ objs' = CASE f \in {"foo_reset", "fancy_reset"} -> Reset(objs, s.o)
                    [] f = "foo_twiddle" -> foo_twiddle(objs, s.o, s.i)
                    [] f = "foo_twiddleR" -> foo_twiddleR(objs, s.o, s.i)
                    [] f = "setcolor" -> setcolor(objs, s.o, s.i)
                    [] f = "getcolor" -> objs
       /\ value' = CASE f \in {"foo_twiddle", "foo_twiddleR"} -> objs[s.o].data + s.i
                     [] f = "getcolor" -> getcolor(objs, s.o)
                     [] OTHER -> 0
  /\ calls' = [calls EXCEPT ![s.o] = Append(@, [m |-> s.m, i |-> s.i])]
  /\ exitcode' = IF s.kept THEN exitcode + value' ELSE exitcode

ObjNext ==
  /\ exitcode # -1
  /\ step' = step + 1 /\ UNCHANGED <<file, client>>
  /\ \E s \in Offered : MakeFoo(s) \/ MakeFancyFoo(s) \/ MakeFails(s) \/ CallMethod(s)

-----------------------------------------------------------------------------
(* The history of verif_object.v: the arguments of the twiddles since the  *)
(* last reset.  The reset inside twiddleR does not show in it.             *)
SumOfHistory(cs) ==
  LET sum[k \in 0..Len(cs)] ==
        IF k = 0 \/ cs[k].m = "reset" THEN 0
        ELSE sum[k - 1] + IF cs[k].m \in {"twiddle", "twiddleR"} THEN cs[k].i ELSE 0
  IN  sum[Len(cs)]

(* The color since the last call that touches it: with the subclass's own  *)
(* reset, "resetting also resets the color" and twiddleR, that calls it,   *)
(* does so too, "but not twiddle" (objectSelfFancyOverriding.c:80).        *)
ColorOf(cs) ==
  LET zeroes == IF file = "objectSelfFancyOverriding" THEN {"reset", "twiddleR"} ELSE {}
      color[k \in 1..Len(cs)] ==
        IF cs[k].m = "setcolor" THEN cs[k].i ELSE IF cs[k].m \in zeroes THEN 0 ELSE color[k - 1]
  IN  color[Len(cs)]

(* Every object is in the state that the calls made on it say, whichever   *)
(* class it is of and whatever is called on the others; a call returns     *)
(* what twiddle_spec allows; main returns what its specification says      *)
(* (0..6, plus 13 in objectSelfFancy).                                     *)
ObjectsMeetSpecs ==
  /\ \A o \in DOMAIN objs :
       /\ objs[o].data = 2 * SumOfHistory(calls[o])
       /\ "color" \in DOMAIN objs[o] => objs[o].color = ColorOf(calls[o])
  /\ \A o \in DOMAIN objs : (Len(objs) = 1 /\ calls[o] # <<>>) =>
       LET c == calls[o][Len(calls[o])] IN
         c.m \in {"twiddle", "twiddleR"} =>
           2 * (SumOfHistory(calls[o]) - c.i) < value /\ value <= 2 * SumOfHistory(calls[o])
  /\ (~client /\ exitcode # -1 /\ step = Len(Script)) =>
       exitcode - (IF file = "objectSelfFancy" THEN 13 ELSE 0) \in 0..6

-----------------------------------------------------------------------------
(* Units with a state of their own: the piles of progs/pile (pile.c,       *)
(* onepile.c, apile.c, triang.c, main.c) and their faster replacement      *)
(* (fast/fastpile.c, fast/fastapile.c), the globals of libglob.c and the   *)
(* arena of int_or_ptr.c.  An execution is that of one of these programs:  *)
(* its main, or a client that calls what the headers offer.                *)
VARIABLES
  unit,       \* the program, one of Program
  blocks,     \* the piles and list cells that exist
  thePile,    \* the_pile of onepile.c
  added,      \* what has been added to each pile, in order
  lg,         \* LG_n and LG_foo
  bumps,      \* the calls of LG_bump
  arena,      \* the nodes in use, the next leaf, and whether exit(1) was called
  roots,      \* the trees the client has, in the order in which it got them
  reply,      \* the last call, its argument and its result
  turns       \* the calls so far
unitVars == <<unit, blocks, thePile, added, lg, bumps, arena, roots, reply, turns>>

Program == {"pile", "fastpile", "libglob", "int_or_ptr"}
Null == 0
a_pile == -1      \* the address of the static pile of apile.c
Sum(s) == LET sum[i \in 0..Len(s)] == IF i = 0 THEN 0 ELSE sum[i - 1] + s[i] IN sum[Len(s)]

-----------------------------------------------------------------------------
(* The piles: functions of the blocks m.                                   *)
Stored(m, p, block) == [a \in DOMAIN m \cup {p} |-> IF a = p THEN block ELSE m[a]]
Allocated(m, block) ==
  LET p == CHOOSE a \in Addr : a \notin DOMAIN m IN [mem |-> Stored(m, p, block), ptr |-> p]
Freed(m, p) == [a \in DOMAIN m \ {p} |-> m[a]]

(* pile.c: a list, the last number first.                                  *)
Pile_add(m, p, n) ==
  LET cell == Allocated(m, [n |-> n, next |-> m[p].head]) IN Stored(cell.mem, p, [head |-> cell.ptr])
RECURSIVE Pile_count(_, _)
Pile_count(m, q) == IF q = Null THEN 0 ELSE m[q].n + Pile_count(m, m[q].next)
RECURSIVE Pile_free(_, _)
Pile_free(m, q) == IF q = Null THEN m ELSE Pile_free(Freed(m, q), m[q].next)

(* fastpile.c: the sum, unless it has no room for the number.              *)
fast_Pile_add(m, p, n) ==
  LET s == m[p].sum IN IF 0 <= n /\ n <= INT_MAX - s THEN Stored(m, p, [sum |-> s + n]) ELSE m
fast_Pile_count(m, p) == m[p].sum
fast_Pile_free(m, p) == Freed(m, p)

(* The two behind pile.h.                                                  *)
Empty == IF unit = "pile" THEN [head |-> Null] ELSE [sum |-> 0]
New(m) == Allocated(m, Empty)
Add(m, p, n) == IF unit = "pile" THEN Pile_add(m, p, n) ELSE fast_Pile_add(m, p, n)
Count(m, p) == IF unit = "pile" THEN Pile_count(m, m[p].head) ELSE fast_Pile_count(m, p)
Free(m, p) == IF unit = "pile" THEN Freed(Pile_free(m, m[p].head), p) ELSE fast_Pile_free(m, p)

(* 1 to n are added to p, the loop of Triang_nth.                          *)
RECURSIVE AddUpTo(_, _, _)
AddUpTo(m, p, n) == IF n = 0 THEN m ELSE Add(AddUpTo(m, p, n - 1), p, n)
Triang_nth(m, n) ==
  LET p == New(m)  full == AddUpTo(p.mem, p.ptr, n) IN [mem |-> Free(full, p.ptr), ret |-> Count(full, p.ptr)]

-----------------------------------------------------------------------------
(* libglob.c: LG_init, which bump and get call too, LG_bump and LG_get.    *)
LG_init(g) == IF g.initialized = 0 THEN [g EXCEPT !.m = 3, !.initialized = 1] ELSE g
LG_bump(g) == [LG_init(g) EXCEPT !.n = @ + 1, !.m = @ + 1]
LG_get(g) == LET h == LG_init(g) IN IF h.n % 2 = 1 THEN h.n ELSE h.m

(* int_or_ptr.c: an odd value is a number, an even one the node it is      *)
(* twice the position of.                                                  *)
test_int_or_ptr(v) == v % 2
Tree(a, v) == [arena |-> a, tree |-> v]
makenode(a, left, right) ==
  IF Len(a.nodes) < ARENA - 1
  THEN Tree([a EXCEPT !.nodes = Append(@, [left |-> left, right |-> right])], 2 * (Len(a.nodes) + 1))
  ELSE Tree([a EXCEPT !.exited = TRUE], 0)
RECURSIVE maketree(_, _)
maketree(a, depth) ==
  IF a.exited THEN Tree(a, 0)
  ELSE IF depth = 0 THEN Tree([a EXCEPT !.leaf = @ + 1], 2 * a.leaf + 1)
  ELSE LET p == maketree(a, depth - 1)  q == maketree(p.arena, depth - 1) IN makenode(q.arena, p.tree, q.tree)
RECURSIVE copytree(_, _)
copytree(a, t) ==
  IF a.exited \/ test_int_or_ptr(t) = 1 THEN Tree(a, t)
  ELSE LET s == a.nodes[t \div 2]
           p == copytree(a, s.left)
           q == copytree(p.arena, s.right)
       IN  makenode(q.arena, p.tree, q.tree)

RECURSIVE print_intx(_)
print_intx(i) == IF i > 0 THEN Append(print_intx(i \div 10), i % 10) ELSE <<>>
print_int(i) == IF i = 0 THEN <<0>> ELSE print_intx(i)
RECURSIVE print(_, _)
print(a, p) ==
  IF test_int_or_ptr(p) = 1 THEN print_int(p \div 2)
  ELSE LET q == a.nodes[p \div 2] IN <<"(">> \o print(a, q.left) \o <<",">> \o print(a, q.right) \o <<")">>

-----------------------------------------------------------------------------
(* What is called, with what, and what it returns.  A client calls what the *)
(* headers offer, within the preconditions of spec_pile.v: numbers are not  *)
(* negative, and pile.c has no sum above INT_MAX.                           *)
UnitsInit ==
  /\ unit \in Program
  /\ blocks = [a \in {a_pile} |-> Empty] /\ thePile = Null /\ added = [a \in {a_pile} |-> <<>>]
  /\ lg = [n |-> 3, initialized |-> 0, m |-> 0] /\ bumps = 0
  /\ arena = [nodes |-> <<>>, leaf |-> 0, exited |-> FALSE] /\ roots = <<>>
  /\ reply = [call |-> "none"] /\ turns = 0

Calls(u, c, arg, ret) ==
  /\ unit \in u /\ reply.call # "exit" /\ turns < MaxTurns
  /\ turns' = turns + 1 /\ reply' = [call |-> c, arg |-> arg, ret |-> ret] /\ UNCHANGED unit
Piles == {"pile", "fastpile"}
OnlyPiles == UNCHANGED <<lg, bumps, arena, roots>>
OnlyGlobals == UNCHANGED <<blocks, thePile, added, arena, roots>>
OnlyArena == UNCHANGED <<blocks, thePile, added, lg, bumps>>

(* Pile_new, or Onepile_init, whose pile is the_pile.                      *)
NewPile(one) ==
  LET p == New(blocks) IN
    /\ Calls(Piles, "new", one, p.ptr) /\ OnlyPiles
    /\ one => thePile = Null
    /\ blocks' = p.mem /\ added' = Stored(added, p.ptr, <<>>)
    /\ thePile' = IF one THEN p.ptr ELSE thePile

(* Pile_add; Onepile_add and Apile_add are those of their pile.            *)
AddTo(p, n) ==
  /\ Calls(Piles, "add", p, n) /\ OnlyPiles /\ UNCHANGED thePile
  /\ blocks' = Add(blocks, p, n) /\ added' = [added EXCEPT ![p] = Append(@, n)]

CountOf(p) ==
  /\ unit = "fastpile" \/ Sum(added[p]) <= INT_MAX
  /\ Calls(Piles, "count", p, Count(blocks, p)) /\ OnlyPiles /\ UNCHANGED <<blocks, thePile, added>>

FreePile(p) ==
  /\ p \notin {a_pile, thePile}
  /\ Calls(Piles, "free", p, 0) /\ OnlyPiles /\ UNCHANGED thePile
  /\ blocks' = Free(blocks, p) /\ added' = Freed(added, p)

Triang(n) ==
  LET t == Triang_nth(blocks, n) IN
    /\ Calls(Piles, "triang", n, t.ret) /\ OnlyPiles
    /\ blocks' = t.mem /\ UNCHANGED <<thePile, added>>

(* main: both piles get 1 to NTimes, and NTimes is given to Triang_nth.    *)
PileMain ==
  LET one == New(blocks)
      m   == AddUpTo(AddUpTo(one.mem, one.ptr, NTimes), a_pile, NTimes)
      t   == Triang_nth(m, NTimes)
      upTo(n) == [i \in 1..n |-> i]
  IN  /\ turns = 0
      /\ Calls(Piles, "main", NTimes, Count(m, one.ptr) + Count(m, a_pile) - 2 * t.ret) /\ OnlyPiles
      /\ blocks' = t.mem /\ thePile' = one.ptr
      /\ added' = Stored(Stored(added, one.ptr, upTo(NTimes)), a_pile, upTo(NTimes))

Bump == Calls({"libglob"}, "bump", 0, 0) /\ OnlyGlobals /\ lg' = LG_bump(lg) /\ bumps' = bumps + 1
Get  == Calls({"libglob"}, "get", 0, LG_get(lg)) /\ OnlyGlobals /\ lg' = LG_init(lg) /\ UNCHANGED bumps
GlobalClient ==
  LET g == LG_bump(LG_bump(lg)) IN
    Calls({"libglob"}, "client", 0, LG_get(g)) /\ OnlyGlobals /\ lg' = LG_init(g) /\ bumps' = bumps + 2

(* A tree that does not fit into the arena ends the program.               *)
Grown(c, arg, t) ==
  /\ Calls({"int_or_ptr"}, IF t.arena.exited THEN "exit" ELSE c, arg, t.tree) /\ OnlyArena
  /\ arena' = t.arena
  /\ roots' = IF t.arena.exited THEN roots ELSE Append(roots, t.tree)
Make(depth) == Grown("make", depth, maketree(arena, depth))
Copy(i) == Grown("copy", roots[i], copytree(arena, roots[i]))

(* main: a tree of depth 3, its copy, and the characters of the copy.      *)
TreeMain ==
  LET made == maketree(arena, 3)  copy == copytree(made.arena, made.tree) IN
    /\ turns = 0
    /\ Calls({"int_or_ptr"}, IF copy.arena.exited THEN "exit" ELSE "main", 3,
             IF copy.arena.exited THEN <<>> ELSE print(copy.arena, copy.tree)) /\ OnlyArena
    /\ arena' = copy.arena
    /\ roots' = IF copy.arena.exited THEN roots ELSE <<made.tree, copy.tree>>

(* malloc has no memory: surely_malloc ends the program.                   *)
MallocFails == Calls(Piles, "exit", 0, 1) /\ OnlyPiles /\ UNCHANGED <<blocks, thePile, added>>

UnitsNext ==
  \/ \E one \in BOOLEAN : NewPile(one)
  \/ \E p \in DOMAIN added : (\E n \in Number : AddTo(p, n)) \/ CountOf(p) \/ FreePile(p)
  \/ \E n \in Number : Triang(n) \/ Make(n)
  \/ \E i \in DOMAIN roots : Copy(i)
  \/ PileMain \/ Bump \/ Get \/ GlobalClient \/ TreeMain \/ MallocFails

-----------------------------------------------------------------------------
(* The numbers in the list from q on, and the cells they are in.           *)
Numbers[q \in DOMAIN blocks \cup {Null}] ==
  IF q = Null THEN <<>> ELSE Append(Numbers[blocks[q].next], blocks[q].n)
RECURSIVE Cells(_)
Cells(q) == IF q = Null THEN <<>> ELSE <<q>> \o Cells(blocks[q].next)

(* A pile has what was added to it, and nothing else is on the heap: every *)
(* block is a pile or the cell of one pile.  The fast pile has the sum     *)
(* while it is at most INT_MAX, and goes on below INT_MAX afterwards.      *)
PilesHold ==
  /\ unit = "pile" =>
       /\ \A p \in DOMAIN added : Numbers[blocks[p].head] = added[p]
       /\ \A a \in DOMAIN blocks \ DOMAIN added :
            \E p \in DOMAIN added : a \in {Cells(blocks[p].head)[i] : i \in DOMAIN Cells(blocks[p].head)}
       /\ \A p, q \in DOMAIN added :
            p = q \/ \A i \in DOMAIN Cells(blocks[p].head) : \A j \in DOMAIN Cells(blocks[q].head) :
                       Cells(blocks[p].head)[i] # Cells(blocks[q].head)[j]
  /\ unit = "fastpile" =>
       /\ DOMAIN blocks = DOMAIN added
       /\ \A p \in DOMAIN added :
            IF Sum(added[p]) <= INT_MAX THEN blocks[p].sum = Sum(added[p]) ELSE blocks[p].sum \in 0..INT_MAX

(* A node of a tree, and the nodes below it.                               *)
RECURSIVE Below(_)
Below(t) ==
  IF t % 2 = 1 THEN {} ELSE {t} \cup Below(arena.nodes[t \div 2].left) \cup Below(arena.nodes[t \div 2].right)
RECURSIVE Leaves(_)
Leaves(t) ==
  IF t % 2 = 1 THEN <<t \div 2>> ELSE Leaves(arena.nodes[t \div 2].left) \o Leaves(arena.nodes[t \div 2].right)

(* Trees share no node; together they have all of the arena, unless the    *)
(* program ended inside a call; the leaves of each are consecutive numbers.*)
TreesApart ==
  /\ \A i, j \in DOMAIN roots : i # j => Below(roots[i]) \cap Below(roots[j]) = {}
  /\ ~arena.exited => UNION {Below(roots[i]) : i \in DOMAIN roots} = {2 * a : a \in 1..Len(arena.nodes)}
  /\ Len(arena.nodes) < ARENA
  /\ \A i \in DOMAIN roots : \A a, b \in DOMAIN Leaves(roots[i]) :
       Leaves(roots[i])[b] - Leaves(roots[i])[a] = b - a

(* A call returns what its specification says: the sum that was added, the *)
(* triangular number, 3 and the calls of LG_bump, a copy that reads as the *)
(* tree it is of; both mains of progs/pile return 0.                       *)
RepliesRight ==
  CASE reply.call = "count" ->
         Sum(added[reply.arg]) <= INT_MAX => reply.ret = Sum(added[reply.arg])
    [] reply.call = "triang" -> reply.ret = (reply.arg * (reply.arg + 1)) \div 2
    [] reply.call = "main" /\ unit \in Piles -> reply.ret = 0
    [] reply.call \in {"get", "client"} -> reply.ret = 3 + bumps
    [] reply.call = "copy" -> Leaves(reply.ret) = Leaves(reply.arg)
    [] reply.call = "main" /\ unit = "int_or_ptr" ->
         reply.ret = <<"(","(","(",0,",",1,")",",","(",2,",",3,")",")",",","(","(",4,",",5,")",",","(",6,",",7,")",")",")">>
    [] OTHER -> TRUE

UnitsMeetSpecs == PilesHold /\ TreesApart /\ RepliesRight

-----------------------------------------------------------------------------
(* The sums of progs/io.c and progs/io_mem.c: both read digits and print   *)
(* the sum so far after each.  io.c does so a character at a time, with a  *)
(* getchar and a putchar that may fail and are called again; io_mem.c      *)
(* reads four characters at a time and prints from a buffer.  The calls to *)
(* the system are as io_specs.v and io_mem_specs.v state them.             *)
VARIABLES
  reader,     \* the program, "io" or "io_mem"
  at,         \* the call that main is in: "read", "write", "sum", "done" or "exit"
  n,          \* the sum
  buf,        \* the characters that were read and not yet looked at
  pending,    \* the characters that are still to be written
  input, output,   \* what was read and written
  tries       \* the calls that have failed since the last that did not
ioVars == <<reader, at, n, buf, pending, input, output, tries>>

char0 == 48
newline == 10
Digit(c) == c - char0 \in 0..9     \* d < 10 with the unsigned d = c - '0'

-----------------------------------------------------------------------------
(* io.c: the characters of i, in the order in which they are put.          *)
RECURSIVE print_intr(_)
print_intr(i) == IF i = 0 THEN <<>> ELSE Append(print_intr(i \div 10), (i % 10) + char0)
put_int(i) == IF i = 0 THEN <<char0>> ELSE print_intr(i)

(* io_mem.c: the same into a buffer b, and how many there are.             *)
RECURSIVE mem_print_intr(_, _)
mem_print_intr(i, b) ==
  IF i = 0 THEN [buf |-> b, ret |-> 0]
  ELSE LET r == mem_print_intr(i \div 10, b)
       IN  [buf |-> [k \in DOMAIN r.buf \cup {r.ret} |-> IF k = r.ret THEN (i % 10) + char0 ELSE r.buf[k]],
            ret |-> r.ret + 1]
mem_print_int(i) ==
  LET b == [k \in 0..PRINTLEN - 1 |-> 0]
      r == IF i = 0 THEN [buf |-> [b EXCEPT ![0] = char0], ret |-> 1] ELSE mem_print_intr(i, b)
  IN  [buf |-> [k \in DOMAIN r.buf \cup {r.ret} |-> IF k = r.ret THEN newline ELSE r.buf[k]], ret |-> r.ret + 1]
Put(b) == [k \in 1..b.ret |-> b.buf[k - 1]]

-----------------------------------------------------------------------------
IoInit ==
  /\ reader \in {"io", "io_mem"} /\ at = "read" /\ n = 0
  /\ buf = <<>> /\ pending = <<>> /\ input = <<>> /\ output = <<>> /\ tries = 0

(* getchar_blocking asks again after -1, and putchar_blocking puts the     *)
(* character again.                                                        *)
Again == tries < MaxTries /\ tries' = tries + 1 /\ UNCHANGED <<reader, at, n, buf, pending, input, output>>
GetFails == reader = "io" /\ at = "read" /\ Again
PutFails == reader = "io" /\ at = "write" /\ Again

(* The loop of main: with the next character, it ends or prints the sum.   *)
Getchar(c) ==
  /\ reader = "io" /\ at = "read" /\ Len(input) < MaxInput
  /\ input' = Append(input, c) /\ tries' = 0 /\ UNCHANGED <<reader, buf, output>>
  /\ IF n < LIMIT /\ Digit(c)
     THEN n' = n + (c - char0) /\ pending' = Append(put_int(n'), newline) /\ at' = "write"
     ELSE at' = "done" /\ UNCHANGED <<n, pending>>
Putchar ==
  /\ reader = "io" /\ at = "write"
  /\ output' = Append(output, Head(pending)) /\ pending' = Tail(pending) /\ tries' = 0
  /\ at' = IF pending' = <<>> THEN "read" ELSE "write"
  /\ UNCHANGED <<reader, n, buf, input>>

(* io_mem.c: getchars fills the four characters of buf; the sum is looked  *)
(* at before they are, not between them.                                   *)
Getchars(block) ==
  /\ reader = "io_mem" /\ at = "read" /\ Len(input) + 4 <= MaxInput
  /\ input' = input \o block /\ buf' = block
  /\ at' = IF n < LIMIT THEN "sum" ELSE "done"
  /\ UNCHANGED <<reader, n, pending, output, tries>>
SumNext ==
  /\ reader = "io_mem" /\ at = "sum"
  /\ LET c == Head(buf) IN
       IF Digit(c)
       THEN /\ n' = n + (c - char0) /\ output' = output \o Put(mem_print_int(n')) /\ buf' = Tail(buf)
            /\ at' = IF buf' = <<>> THEN "read" ELSE "sum"
       ELSE at' = "done" /\ UNCHANGED <<n, buf, output>>
  /\ UNCHANGED <<reader, pending, input, tries>>

(* malloc returns NULL: for buf at the start, or when a sum is printed.    *)
BufferFails ==
  /\ reader = "io_mem" /\ at \in {"read", "sum"} /\ (at = "read" => input = <<>>)
  /\ at' = "exit" /\ UNCHANGED <<reader, n, buf, pending, input, output, tries>>

IoNext ==
  \/ GetFails \/ PutFails \/ \E c \in Byte : Getchar(c)
  \/ Putchar
  \/ \E block \in [1..4 -> Byte] : Getchars(block)
  \/ SumNext \/ BufferFails

-----------------------------------------------------------------------------
(* The sum of the first j characters; whether main looks at the j-th: all  *)
(* of them are digits, and the sum was below the limit when it was last    *)
(* looked at, at the character (io.c) or at its block (io_mem.c).          *)
SumOf[j \in 0..MaxInput] == IF j = 0 THEN 0 ELSE SumOf[j - 1] + (input[j] - char0)
Counted(j) ==
  /\ \A k \in 1..j : Digit(input[k])
  /\ SumOf[IF reader = "io" THEN j - 1 ELSE ((j - 1) \div 4) * 4] < LIMIT
RECURSIVE chars_of_Z(_)
chars_of_Z(i) == IF i < 10 THEN <<i + char0>> ELSE Append(chars_of_Z(i \div 10), (i % 10) + char0)
Trace[j \in 0..MaxInput] ==
  IF j = 0 THEN <<>>
  ELSE IF Counted(j) THEN Trace[j - 1] \o Append(chars_of_Z(SumOf[j]), newline) ELSE Trace[j - 1]

(* "After each one (and before the next one) prints a decimal              *)
(* representation of their cumulative sum" (io.c:38): whatever fails and   *)
(* is tried again, what has been written and what is about to be are the   *)
(* sums of the characters that have been looked at, each once, and no      *)
(* further character is read before they are out.  The buffer of io_mem.c  *)
(* has room for the last sums, which go beyond the limit.                  *)
SumsPrinted ==
  /\ output \o pending = Trace[Len(input) - Len(buf)]
  /\ at = "read" => pending = <<>> /\ buf = <<>> /\ n = SumOf[Len(input)]
  /\ (reader = "io_mem" /\ at = "sum" /\ Digit(Head(buf))) => mem_print_int(n + Head(buf) - char0).ret <= PRINTLEN
=============================================================================
