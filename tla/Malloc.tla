------------------------------- MODULE Malloc -------------------------------
(***************************************************************************)
(* The memory manager progs/memmgr/malloc.c over mmap0.c: free lists of    *)
(* small blocks, one for each size class, cut from big blocks that the     *)
(* operating system gives or refuses; large blocks are its own.            *)
(***************************************************************************)
EXTENDS Integers, Sequences, FiniteSets

CONSTANTS WORD,        \* sizeof(size_t)
          ALIGN,       \* 2
          BINS,        \* 50
          BIGBLOCK,    \* (2 << 16) * WORD
          INT_MAX,
          Page,        \* the addresses at which mmap may map, multiples of ALIGN * WORD
          Size,        \* the sizes that callers ask for
          Count        \* the numbers of chunks they ask try_pre_fill for

WASTE == WORD * ALIGN - WORD
Null == 0
bin2size(b) == ((b + 1) * ALIGN - 1) * WORD
size2bin(s) == IF s > bin2size(BINS - 1) THEN -1 ELSE (s + (WORD * (ALIGN - 1) - 1)) \div (WORD * ALIGN)

\* The constants of malloc.c, a big block with room for one chunk of each size at least; what mmap may map is
\* aligned and apart.
ASSUME MemoryAssumption ==
  /\ WORD \in Nat \ {0} /\ ALIGN = 2 /\ BINS \in Nat \ {0}
  /\ BIGBLOCK \in Nat /\ BIGBLOCK >= WASTE + bin2size(BINS - 1) + WORD
  /\ Size \subseteq Nat
  /\ IsFiniteSet(Page) /\ Page \subseteq Nat \ {0} /\ \A a \in Page : a % (ALIGN * WORD) = 0
  /\ \A a, c \in Page : a < c => \A len \in {BIGBLOCK} \cup {n + WASTE + WORD : n \in Size} : a + len <= c

VARIABLES bin,         \* bin[b]: the first block of list b, or NULL
          sz,          \* sz[p]: the word before the block p
          lnk,         \* lnk[p]: the first word of a free block p; a block in use has nothing the code reads there
          mapped,      \* mapped[a]: the number of bytes mapped at a
          used,        \* used[p]: what was asked for of the block p that a caller has
          result       \* the last call: its name, argument and result
mmVars == <<bin, sz, lnk, mapped, used, result>>

Restricted(f, S) == [a \in DOMAIN f \cap S |-> f[a]]
Updated(f, g) == [a \in DOMAIN f \cup DOMAIN g |-> IF a \in DOMAIN g THEN g[a] ELSE f[a]]
At(a, e) == [p \in {a} |-> e]

\* A faulty variant: the block is taken to hold chunks only, no waste at its start.
Chunks_NoWaste(b) == BIGBLOCK \div (bin2size(b) + WORD)
Chunks(b) == (BIGBLOCK - WASTE) \div (bin2size(b) + WORD)

\* list_from_block: the lists' words after the block at p is cut into blocks of size s that lead to tl.
Nth(p, s, j) == p + WASTE + WORD + j * (s + WORD)
list_from_block(s, p, tl) ==
  LET Nblocks == (BIGBLOCK - WASTE) \div (s + WORD)
      at == [j \in 0..Nblocks - 1 |-> Nth(p, s, j)]
      index(a) == CHOOSE j \in DOMAIN at : at[j] = a
      cut == {at[j] : j \in DOMAIN at}
  IN  [sz |-> [a \in cut |-> s],
       lnk |-> [a \in cut |-> IF index(a) = Nblocks - 1 THEN tl ELSE at[index(a) + 1]],
       first |-> p + WASTE + WORD]

\* mmap0: a page that is not mapped, or NULL.
Mappable == {a \in Page : a \notin DOMAIN mapped}
Answers == Mappable \cup {Null}

Called(name, arg, ret) == [call |-> name, arg |-> arg, ret |-> ret]

MmInit ==
  /\ bin = [b \in 0..BINS - 1 |-> Null]
  /\ sz = [p \in {} |-> 0] /\ lnk = [p \in {} |-> 0]
  /\ mapped = [p \in {} |-> 0] /\ used = [p \in {} |-> 0]
  /\ result = Called("free", Null, 0)

Gives(p, nbytes) == result' = Called("malloc", nbytes, p) /\ used' = Updated(used, At(p, nbytes))

Refused(nbytes) == result' = Called("malloc", nbytes, Null) /\ UNCHANGED <<bin, sz, lnk, mapped, used>>

malloc_small(nbytes) ==
  LET b == size2bin(nbytes)
  IN  IF bin[b] # Null
      THEN /\ bin' = [bin EXCEPT ![b] = lnk[bin[b]]]
           /\ lnk' = Restricted(lnk, DOMAIN lnk \ {bin[b]})
           /\ Gives(bin[b], nbytes)
           /\ UNCHANGED <<sz, mapped>>
      ELSE \E a \in Answers :
             IF a = Null THEN Refused(nbytes)
             ELSE LET l == list_from_block(bin2size(b), a, Null)   \* fill_bin
                  IN  /\ bin' = [bin EXCEPT ![b] = l.lnk[l.first]]
                      /\ sz' = Updated(sz, l.sz)
                      /\ lnk' = Restricted(Updated(lnk, l.lnk), DOMAIN lnk \cup (DOMAIN l.lnk \ {l.first}))
                      /\ mapped' = Updated(mapped, At(a, BIGBLOCK))
                      /\ Gives(l.first, nbytes)

malloc_large(nbytes) ==
  \E a \in Answers :
    IF a = Null THEN Refused(nbytes)
    ELSE /\ mapped' = Updated(mapped, At(a, nbytes + WASTE + WORD))
         /\ sz' = Updated(sz, At(a + WASTE + WORD, nbytes))
         /\ Gives(a + WASTE + WORD, nbytes)
         /\ UNCHANGED <<bin, lnk>>

malloc(nbytes) == IF nbytes > bin2size(BINS - 1) THEN malloc_large(nbytes) ELSE malloc_small(nbytes)

free_small(p, s) ==
  LET b == size2bin(s)
  IN  /\ lnk' = Updated(lnk, At(p, bin[b]))
      /\ bin' = [bin EXCEPT ![b] = p]
      /\ UNCHANGED <<sz, mapped>>

\* munmap; the bytes unmapped must be what was mapped.
free_large(p, s) ==
  LET a == p - (WASTE + WORD)
  IN  /\ mapped' = IF a \in DOMAIN mapped /\ mapped[a] = s + WASTE + WORD
                   THEN Restricted(mapped, DOMAIN mapped \ {a}) ELSE mapped
      /\ sz' = Restricted(sz, DOMAIN sz \ {p})
      /\ UNCHANGED <<bin, lnk>>

free(p) ==
  /\ result' = Called("free", p, 0)
  /\ IF p = Null THEN UNCHANGED <<bin, sz, lnk, mapped, used>>
     ELSE /\ used' = Restricted(used, DOMAIN used \ {p})
          /\ IF sz[p] <= bin2size(BINS - 1) THEN free_small(p, sz[p]) ELSE free_large(p, sz[p])

\* Lists with the blocks of the pages ps cut for bin b in front, one page after the other.
Filled(b, ps) ==
  LET after[i \in 0..Len(ps)] ==
        IF i = 0 THEN [bin |-> bin, sz |-> sz, lnk |-> lnk]
        ELSE LET m == after[i - 1]
                 l == list_from_block(bin2size(b), ps[i], m.bin[b])
             IN  [bin |-> [m.bin EXCEPT ![b] = l.first], sz |-> Updated(m.sz, l.sz), lnk |-> Updated(m.lnk, l.lnk)]
      m == after[Len(ps)]
  IN  bin' = m.bin /\ sz' = m.sz /\ lnk' = m.lnk

\* pre_fill, with a big block that the caller has from mmap itself.
pre_fill(n, p) ==
  /\ Filled(size2bin(n), <<p>>)
  /\ mapped' = Updated(mapped, At(p, BIGBLOCK))
  /\ result' = Called("fill", n, Chunks(size2bin(n))) /\ UNCHANGED used

\* How many times try_pre_fill asks mmap0 if that never refuses: until req chunks are there or int has no room.
Turns(b, req) ==
  LET turns[ful \in 0..INT_MAX] ==
        IF req - ful <= 0 \/ INT_MAX - ful < Chunks(b) THEN 0 ELSE 1 + turns[ful + Chunks(b)]
  IN  turns[0]

\* try_pre_fill: ps are the pages that mmap0 gives, fewer than asked for if it refuses.
try_pre_fill(n, req, ps) ==
  IF bin2size(BINS - 1) < n THEN ps = <<>> /\ result' = Called("fill", n, 0) /\ UNCHANGED <<bin, sz, lnk, mapped, used>>
  ELSE /\ Len(ps) <= Turns(size2bin(n), req)
       /\ Filled(size2bin(n), ps)
       /\ mapped' = Updated(mapped, [a \in {ps[i] : i \in DOMAIN ps} |-> BIGBLOCK])
       /\ result' = Called("fill", n, Len(ps) * Chunks(size2bin(n)))
       /\ UNCHANGED used

\* Sequences of different pages.
Pages == UNION {{s \in [1..k -> Mappable] : \A i, j \in 1..k : s[i] = s[j] => i = j} : k \in 0..Cardinality(Mappable)}

MmNext ==
  \/ \E n \in Size : malloc(n)
  \/ \E p \in DOMAIN used \cup {Null} : free(p)
  \/ \E n \in Size, p \in Mappable : size2bin(n) # -1 /\ pre_fill(n, p)
  \/ \E n \in Size, req \in Count, ps \in Pages : try_pre_fill(n, req, ps)

-----------------------------------------------------------------------------
\* The blocks of the list that starts at p, as long as it is one.
ListFrom(p) ==
  LET l[k \in 0..Cardinality(DOMAIN lnk) + 1] ==
        IF k = 0 THEN <<p>>
        ELSE LET s == l[k - 1]  q == s[Len(s)]
             IN  IF q \in DOMAIN lnk THEN Append(s, lnk[q]) ELSE s
      s == l[Cardinality(DOMAIN lnk) + 1]
  IN  SubSeq(s, 1, Len(s) - 1)

\* Every free block is in one list, once, and in the list of its size; a list ends with NULL; a block in use
\* is in none (bin, and the words sz and lnk that malloc_small, free_small, list_from_block maintain).
ListsAreLists ==
  /\ \A b \in DOMAIN bin : bin[b] \in DOMAIN lnk \cup {Null}
  /\ \A p \in DOMAIN lnk : lnk[p] \in DOMAIN lnk \cup {Null} /\ p \notin DOMAIN used
  /\ \A p \in DOMAIN lnk :
       Cardinality({at \in (0..BINS - 1) \X (1..Cardinality(DOMAIN lnk)) :
                      LET l == ListFrom(bin[at[1]])
                      IN  at[2] <= Len(l) /\ l[at[2]] = p /\ sz[p] = bin2size(at[1])}) = 1

\* No two blocks, free or in use, share a byte, headers included; all are aligned, inside memory that is mapped,
\* and at least as large as was asked for.
BlocksApart ==
  LET all == DOMAIN lnk \cup DOMAIN used
  IN  /\ \A p, q \in all : p < q => p + sz[p] + WORD <= q
      /\ \A p \in all : /\ p % (ALIGN * WORD) = 0
                        /\ \E a \in DOMAIN mapped : a <= p - WORD /\ p + sz[p] <= a + mapped[a]
      /\ \A p \in DOMAIN used : used[p] <= sz[p]

\* Memory that is mapped belongs to a block: the first of a page is free or in use (list_from_block keeps it,
\* free_large unmaps the page of the block that it takes back).
NothingLeaks == \A a \in DOMAIN mapped : a + WASTE + WORD \in DOMAIN lnk \cup DOMAIN used

\* malloc gives blocks that are aligned, as long as asked for and apart from one another and from the free ones,
\* and free takes them back, also when the operating system refuses memory: a call for which a list has a block
\* succeeds, and the count that try_pre_fill returns is how many more of them will; the lists of free blocks hold
\* each block once, in the list of its size, and no mapped page is lost (malloc_small, fill_bin, list_from_block,
\* try_pre_fill, free_small, free_large).
Promise == INSTANCE Allocator WITH Class <- 0..BINS - 1, ClassOf <- size2bin, Align <- ALIGN * WORD, Header <- WORD,
                                   held <- used, certain <- [b \in 0..BINS - 1 |-> Len(ListFrom(bin[b]))],
                                   answer <- result
ImplementsAllocator == Promise!AllocatorSpec /\ [](ListsAreLists /\ BlocksApart /\ NothingLeaks)
=============================================================================
