# A TLA+ verification project for the programs of VST

VST, the Verified Software Toolchain, is a program logic for C (in Coq) together
with the C programs it has been applied to.  The Coq side consists of definitions and proofs.
The C side contains about 12,000 lines of code: concurrent programs and
data structures, simulated atomics, a memory manager, cryptography and small
sequential examples.  This project models those C programs in TLA+.  Concurrent programs
are modelled step by step, one access to shared memory at a time; the cryptography
computes what the code computes, and the sequential programs are functions of the
memory, called in every order.  TLC explores small instances, and TLAPS proves the
central properties of the concurrent programs, of the memory manager and of the random
generator for every value of the constants.

Paths below are relative to the root of the repository (`src/` in `PROJECT.json`).

## 1. Inventory

For each component: its state, its operations, how it interacts with others, what
is hard about it, and what makes it correct.  "Status" is that of this project.

### Mailbox: `mailbox/mailbox.c`, `mailbox/mailbox1.c` (modelled)
* State: `bufs` (N + 2 shared frames), `comm` (one atomic cell per reader, which holds the
  number of the frame given last, or `Empty`); the reader's private `reading`, `last_read`;
  the writer's private `writing`, `last_given`, `last_taken`.
* Operations: `initialize_reader`, `start_read`, `finish_read`,
  `initialize_writer`, `start_write`, `finish_write`; `reader`, `writer`, `main`.
* Interaction: through `simulate_atomic_exchange` only; the frames are plain memory.
* Hard: the writer must never choose a frame that a reader reads, from
  information that is one exchange old; a reader may see some of a
  `finish_write` and not the rest; each exchange takes an unfair spin lock for which a reader and the writer compete.
* Correct if: no frame is read and written at once; `start_write` always finds a
  frame; a read gets the newest frame published to its reader; the two sides of a channel never both stop.

### Simulated atomics and the spin lock: `atomics/sim_atomics.c`, `atomics/sim_ptr_atomics.c`, `mailbox/atomic_exchange.c`, `concurrency/threads.c`, `mailbox/lock.c` (modelled)
* State: `atomic_loc` = value and lock; the lock is a word that is 0 or 1.
* Operations: `make_atomic`, `free_atomic`, `load_SC`, `store_SC`, `CAS_SC`,
  `atomic_exchange_SC`, their relaxed versions (the same code); `makelock`, `freelock`, `acquire`,
  `release`, `spawn`.
* Interaction: every lock-free client below relies on each operation being one atomic step.
* Hard: `x = tgt->val; if (x == c) tgt->val = v` is two plain accesses;
  `acquire` spins and is not fair; `free_atomic` frees a lock while it holds it.
* Correct if: the operations are atomic, and some operation under way always returns.

### Shared counter: `progs/incrN.c`, `progs/incr.c`, `progs/incr2.c` (modelled)
* State: `c.ctr`, `c.lock`, one join lock per thread (in `incr.c` and `incr2.c` one thread beside `main`).
* Operations: `init_ctr`, `incr`, `dest_ctr`, `thread_func`, `main`.
* Hard: `main` frees a thread's lock and then the counter's, and reads the
  counter without it.
* Correct if: no increment is lost, no freed lock is used, the result is N.

### Lock-free hash table: `atomics/hashtable_atomic.c` (modelled)
* State: `m_entries`, an atomic key and an atomic value each.
* Operations: `integer_hash`, `set_item`, `get_item`, `add_item`, `init_table`; the test (`f`, `main`).
* Hard: an entry is read as free long before the CAS that claims it; two threads
  race for a key; a search wraps around and no search counts its probes.
* Correct if: calls are linearizable (a map); no key has two entries; searches end.

### Lock-free linear-search map: `mailbox/lockfree_linsearch.c`, `mailbox/faster_lockfree_linsearch.c` (modelled)
* State and operations like the hash table's, from entry 0 on, without `add_item`.
* Hard: what a failed CAS says about the key.
* Correct if: as above; in addition, the entries in use have no gap.

### Versioned node (seqlock): `atomics/kvnode_atomic.c` (modelled)
* State: `version`, `data[8]`, all atomic.  Operations: `read`, `write`.
* Hard: a reader copies words while the writer replaces them.
* Correct if: each read returns one write's vector, never a mix; writes never
  wait, reads wait for nothing but writes.

### Concurrent queue: `progs/conc_queue.c`, `progs/ghost_queue.c`, `progs/queue_ex.c`, with `mailbox/threads.c` (modelled)
* State: circular buffer (`buf`, `length`, `head`, `tail`), lock, condition variables `addc`
  and `remc`; in `ghost_queue.c` also `next`, the timestamp counter.
* Operations: `q_new`, `q_del`, `q_add`, `q_tryremove`, `q_remove`; producers `f`, consumers `g`, `main`.
* Hard: one signal per item, wakeups that come too late or for no reason,
  `q_del` right after the last join.
* Correct if: it is a bounded FIFO queue; nobody sleeps beside an item or a free
  slot; each consumer sees increasing timestamps; the program terminates.

### Lock-coupling list set: `progs/lock_coupling.c` (modelled)
* State: a sorted list of nodes with a lock each, between two sentinels.
* Operations: `locate`, `add`, `remove`, `del_node`.
* Hard: hand-over-hand locking; a node is freed while others may wait for its lock.
* Correct if: the list stays sorted, `locate` ends between two neighbours, the calls are
  linearizable and return.

### Release/acquire clients: `atomics/kvnode_atomic_ra.c`, `atomics/hashtable_atomic_ra.c`; and `atomics/hashtable1.c` (modelled)
* State: as in the programs above, in a memory that keeps the history of every location; each thread
  has a view of it, and each message carries the view of its writer.
* Operations: `read`, `write`, `reader`, `writer`; `set_item`, `get_item`, `add_item`, `f`, `main`.
* Hard: a load may return an old value, and not equally old ones of two locations.
* Correct if: a read returns one write's vector and never an older one than the
  read before; each key is counted once; what a thread was told before it started, it sees.

### Optimistic list set: `mailbox/oplistset.c` (partly)
* State: a sorted list with a lock in each node and atomic links; removed nodes keep theirs.
* Operations: `locate`, `validate`, `add`, `remove` (`del_node` has no caller and is left out).
* Hard: both nodes are locked after a search without locks, so they may be gone by then.
* Correct if: calls are linearizable, and some call always returns.

### Concurrent search tree: `progs/bst_conc.c` (modelled)
* State: a tree with a lock per subtree.  Operations: `treebox_new`, `insert`, `lookup`, `delete` with
  `pushdown_left` and `turn_left`.
* Hard: the next pointer is read after its lock was released; rotations; locks on the way down.
* Correct if: a search tree at all times, calls are linearizable, a call ends with the locks it took released.

### Condition-variable programs: `progs/cond.c`, `progs/cond_queue.c` (modelled)
* State: a buffer of requests or one datum, a lock, a condition variable.  Operations: `get_request`,
  `process_request`, `add`, `remove_request`, `producer`, `consumer`, the `main` functions.
* Hard: a signal that comes before the wait; one condition variable for both directions.
* Correct if: no request is lost or served twice, no wait lasts for ever, nothing in use is freed.

### Memory manager: `progs/memmgr/malloc.c`, `mmap0.c` (modelled)
* State: a free list per size class, the size in the word before each block, large blocks.
* Operations: `malloc`, `free`, `try_pre_fill`, `pre_fill`, `fill_bin`, `list_from_block`, `bin2size`, `size2bin`.
* Hard: arithmetic at the ends of a big block; `mmap0` may refuse.
* Correct if: blocks are aligned, long enough and disjoint, a freed block can be given again, and no mapped page is lost.

### SHA-256, HMAC, HKDF: `sha/` (modelled)
* State: `SHA256state_st` (hash, bit count in two words, up to 63 bytes of data), the HMAC context of three such states.
* Operations: `SHA256_Init`, `_Update`, `_Final`, `addlength`, `sha256_block_data_order`, `SHA256`;
  `HMAC_Init` (with a key or without), `_Update`, `_Final`, `_cleanup`, `HMAC`; `HKDF_extract`, `HKDF_expand`, `HKDF`.
* Hard: pieces of any length in any order; padding at 55, 56 and 64 bytes; the carry of the bit count; reuse of a key.
* Correct if: the result is the hash (RFC 2104, RFC 5869) of the bytes, however they were cut.

### HMAC-DRBG: `hmacdrbg/hmac_drbg.c` (modelled; seed files and self test left out)
* State: V, the key (in an HMAC context on the heap), reseed counter, policy.
* Operations: `init`, `seed`, `seed_buf`, `reseed`, `update`, `random`, `random_with_add`, three setters, `free`.
* Hard: the entropy source or `malloc` fails in the middle; lengths at their limits.
* Correct if: every output and state is that of SP 800-90A, under the policy that a seed sets and the setters change; a reseed or
  a draw that fails changes nothing; a seed that fails leaves a context that the client can only free; no HMAC context is lost.

### AES: `aes/mbedtls/library/aes.c` (modelled; self test left out)
* State: round keys; per mode the IV, the position and the kept block of key stream.
* Operations: `aes_gen_tables`, `setkey_enc`, `setkey_dec`, `encrypt`, `decrypt`, `crypt_ecb`, `_cbc`, `_cfb128`, `_cfb8`, `_ctr`.
* Hard: data cut at any offset; the counter's carry; the inverse key schedule.
* Correct if: FIPS 197 and SP 800-38A for the whole text; decryption gives it back; the tables that are generated are those
  written out for ROM (`MBEDTLS_AES_ROM_TABLES`), entry by entry.

### TweetNaCl: `tweetnacl20140427/tweetnacl.c` (partly)
* Operations: Salsa20, HSalsa20, Poly1305, secretbox, SHA-512, the Montgomery ladder, box, Ed25519 keys and signatures.
* Hard: signed limbs and their carries, reduction to one representative, reduction modulo the group order.
* Correct if: arithmetic is that of the field; both sides get one key; an opened box is what was sent.
* Partly, because field, curve and group are parameters, and the run's are small: TLC's
  integers have 32 bits, too few for the products of 16-bit limbs that the source forms in 64.

### Sequential programs with a state (partly)
* `progs/queue.c`, `queue2.c`; `progs/bst.c`, `bst_oo.c` and `wand_demo`'s copy; `reverse.c`, `append.c`, `merge.c`,
  `insertionsort.c` and other list functions; `object.c` and its three descendants; `progs/pile` with its fast variant;
  `libglob.c`; `int_or_ptr.c`; `io.c` and `io_mem.c`.
* Hard: memory that one unit frees and another holds, calls through tables of functions, sums at
  the edge of `int`, calls to the outside that fail and are repeated.
* Correct if: each does what its specification in `verif_*.v` says, after any sequence of calls.

### Not modelled
* HybridMachine (`concurrency/common/*.v`), juicy machine, compiler correctness (`concurrency/juicy`,
  `concurrency/compiler`, `concurrency/sc_drf`): the semantics in which the programs are verified and proofs
  about it.  It is parameterised by a core semantics and by a type of resources, both of which are mathematical
  objects without a finite instance that stands for them.  What it licenses (threads interleave at
  synchronisation, there is no data race) is what the modules of the programs check or assume.
* MSL, Veric, Floyd: mathematics, a logic, and tactics; no transition system.
* CompCert and `sepcomp`: vendored compiler semantics.
* VeriStar, zlist, mc_reify, examples: pure functions and proof experiments.
* `mailbox/mailbox_bad.c`: a discarded version of the mailbox that no file uses.
* `tweetnaclVerifiableC.c`: the code of `tweetnacl.c` in the subset of C that the logic accepts.
* `progs64/` and `progs/VSUpile`: copies of modelled programs.
* Example programs that keep no state and show one construct of C (`dotprod.c`, `sumarray.c`, `union.c`, ...),
  and `tree.c`, `strlib.c`, `message.c`, `strcspn_kmp`: functions of their arguments.
* `atomics/gen_atomics.c`, `real_atomics.c`, `SC_atomics.c`, `lib/src/*.c`: wrappers without logic; the self tests and
  the seed file functions; build files, documentation.

`PROJECT.json` lists the components with their files, and the hazards with their lines.

## 2. Modules

A definition `Name_Suffix` in a module is a faulty variant of `Name`: the mutation
runs listed in `PROJECT.json` put it in place of `Name` and TLC must then find the property violated.
No specification uses one.

| Component | Concrete module | Abstract module | Proofs | Run |
|---|---|---|---|---|
| mailbox | `Mailbox` | `Broadcast` | `MailboxProofs` | `mailbox` |
| simulated atomics, spin lock | `SimAtomics` | `AtomicCell` | `AtomicsProofs` | `atomics` |
| release/acquire clients, hashtable1 | `ReleaseAcquire` | (one write's vector, the number of adds) | `AtomicsProofs` | `atomics` |
| shared counter, condition variables | `CondVars` | (the value N) | `ProgramsProofs` | `programs` |
| hash table | `HashTable` | `AtomicMap` | `HashTableProofs` | `collections` |
| its test program | `MCPrograms` (extends `HashTable`) | (the number of keys) | `ProgramsProofs` | `programs` |
| linear-search maps | `LinSearch` | `AtomicMap` | `CollectionsProofs` | `collections` |
| lock-coupling, optimistic sets | `LockCoupling`, `OptListSet` | `AtomicDict` | `CollectionsProofs` | `collections` |
| versioned node | `Kvnode` | `AtomicRegister` | `StructuresProofs` | `structures` |
| concurrent search tree | `BstConc` | `AtomicDict` | `StructuresProofs` | `structures` |
| sequential trees and lists | `Heaps` | `AtomicDict` | | `structures` |
| objects, piles, globals, sums | `Units` | | | `structures` |
| concurrent queue | `ConcQueue` | `BoundedFifo` | `QueuesProofs` | `queues` |
| producer/consumer program | `GhostQueue` (extends `ConcQueue`) | | `ProgramsProofs` | `programs` |
| queue_ex, linked queues | `QueueClients` (on `BoundedFifo`) | | `QueuesProofs` | `queues` |
| memory manager | `Malloc` | `Allocator` | `QueuesProofs` | `queues` |
| SHA-256, HMAC, HKDF | `Sha` | (RFC definitions in it) | | `hashing` |
| HMAC-DRBG | `HmacDrbg` | `Sp80090a` | `DrbgProofs` | `hashing` |
| AES | `Aes` | `CipherReference` | | `primitives` |
| TweetNaCl | `NaCl` on `Gf25519` | `CipherReference` | | `primitives` |

`Bytes` has words as byte sequences and the loop that the cryptographic modules share.

How they fit together: `SimAtomics` shows that an operation on an
`atomic_loc` is one step, which is what `Mailbox`, `HashTable`, `LinSearch`, `Kvnode` and
`OptListSet` assume of theirs; `ReleaseAcquire` replaces that assumption by a weak memory.
`MCPrograms` (its first half) and `GhostQueue` run `main` and the thread functions on top of the operations
of `HashTable` and `ConcQueue`, step by step; `QueueClients` runs `queue_ex.c` on `BoundedFifo`,
which `ConcQueue` implements.  `HmacDrbg` uses HMAC as a function, which is what `Sha` shows it to be.

The modules `MCAtomics`, `MCPrograms`, `MCQueues`, `MCPrimitives`, `MCHashing`, `Structures` and
`Collections` put programs that share no state side by side for one run of TLC: an initial state chooses one of
them, that one works, and the others stay as they were initialized.  A property of such a module is the
conjunction of what its parts say.  Their parts are instances, or extended modules, with disjoint variables, so that
a behaviour of the run is a behaviour of one part, and every behaviour of each part is one of the run.

**The granularity of a step** is one access to shared memory together with the
thread-private code up to the next one: one atomic operation (`HashTable`,
`LinSearch`, `Kvnode`, `ReleaseAcquire`, the links of `OptListSet`), one plain access to a frame (`Mailbox`), one acquire or
release (`LockCoupling`, `ConcQueue`, `BstConc`, `CondVars`).  In sequential programs a step is a call.  Code between an acquire and a
release that only the lock's holder can touch is cut where properties need to see
the middle (`ConcQueue`: test, transfer, signal).

**Variables** carry the names of the C variables; a thread's control point is `pc` (`rpc`,
`wpc`, `tpc`, `mpc` where threads of different kinds have different code), its
call and arguments are `op`.  The comment at each variable names the field it stands for.

What each module makes of the code:

* `Mailbox`.  `StartRead(r)`: exchange `comm[r]` with `Empty`, then `last_read`.
  `ReadData(r)`/`FinishRead(r)`: the read of the frame begins and ends, so that an
  overlap with a write is visible.  `StartWrite`: the search for an available
  buffer, from `last_given` and `last_taken`.  `Publish`: one round of the loop of
  `finish_write`, i.e. one exchange.  `Spawn`: `main` starts the writer, then reader after reader.
* `SimAtomics`.  `Call`, `Acquire`, `ReadVal`, `WriteVal`, `Release`: the five
  control points of all operations; `FirstAccess` sends `store_SC` straight to its store.
  `FreeAtomic` is `free_atomic` under its precondition, that its caller owns the whole cell.
* `HashTable`.  `Probe` reads the key of the entry and decides (found, free, next);
  `Claim` is the CAS on the key; `UseValue` is the load, the store, or the CAS of the value.
  All three calls are these steps; `op[t].kind` tells where they differ.
* `LinSearch`.  `Recheck` is the load after a failed CAS.  The constant
  `Faster` tells the two files apart.
* `Kvnode`.  `MarkDirty`, `StoreWord` (once per word), `MarkClean`; `TakeSnap`,
  `CopyWord` (once per word), `Recheck`.
* `ConcQueue`.  `Wait` lets go of the lock and joins the waiters in one step, as
  `pthread_cond_wait` does.  `Signal` moves one waiter, any, to `acquire`; with
  no waiter it does nothing.  `WakeSpuriously` moves one for no reason.  Lock and
  condition variables are the pthreads of `mailbox/threads.c`, outside the repository.
* `GhostQueue`.  `StampAndPut` replaces `Put`: the timestamp is taken in the
  critical section.  `DeleteQueue` is `q_del`.
* `LockCoupling`.  `AcquireFirst`, `AcquireCurr`, `Advance` are `locate`;
  `Insert`, `Unlink`, `Nothing` are where it leads; `AcquireCurr` also is the
  acquire of `del_node`, on the lock of the same node.
* `ReleaseAcquire`.  A location keeps all its messages in modification order; a view says how far a
  thread, or the writer of a message, has seen each location.  `load_acq` takes any message that is not older than the view and joins
  the message's view to it; `store_rel` goes anywhere after the view; a CAS reads the newest message and nothing
  comes between the two.  `file` tells which of the three programs runs on it; those of `hashtable1.c` are
  sequentially consistent, so they use only the newest messages.
* `OptListSet`.  The search and `validate` read one link per step; the two locks are taken in list order.
* `BstConc`.  One step per acquire or release, and one for the unlocked read of a next pointer.
  `pushdown_left` and `turn_left` work under the locks that `delete` holds or takes again.
* `CondVars`.  `incrN.c` is the actions `IncrN...`: a thread acquires, loads, stores, releases and releases its
  join lock; `main` spawns, joins (acquire, free), destroys and reads without the lock.  The other programs keep
  their control points in `at`.  As in `ConcQueue`, `pthread_cond_wait` releases and sleeps in one step.  `CondUnsignalled` and
  `RequestUnsignalled` are wakeups for no reason.
* `Malloc`.  `bin`, `sz` and `lnk` are the words that the code reads and writes; a refill cuts a big block into
  its chunks in one step (`fill_bin`, `list_from_block`), unless `mmap0` refuses.  The lists are not in the state: `ListFrom`
  follows the words `lnk` from `bin[b]`, as the code does.
* `Heaps`, `Units`.  The C functions are operators on the memory, written like the code; an action is a call, or `main`.
  What is freed is no longer in the memory, so that TLC stops at an access to it.
* `Sha`, `Aes`, `NaCl`, `HmacDrbg`.  The C functions are operators on contexts and byte sequences (words are sequences of
  bytes, `Bytes`).  Each module ends with a client that uses one context
  in every order the header allows: pieces of a message, keys, failures, boxes changed on the way.

## 3. What the runs check

| Run | Instance | Shows |
|---|---|---|
| `mailbox` | 2 readers, 4 buffers, frames modulo 3 | no race on a frame, the writer always finds a buffer, freshness, refinement of `Broadcast`; the lock of a channel starves the writer or its reader but not both, and where it starves neither new frames pass |
| `atomics` | cell: 2 threads, 3 values; node: 2 readers, 2 words, 2 writes; tables: 3 threads, 4 entries, calls on 3 keys | refinement of `AtomicCell`, some operation always returns; reads under release/acquire are whole and never go back; each key is counted once |
| `programs` | `incrN.c` with 5 threads (the code's number); hash table test with 3 threads, 3 keys that collide, 4 entries; `ghost_queue.c` with 2 + 2 threads, 2 calls each, 2 slots; 4 requests in 2 slots | counts, stamps, no use of what is freed, no lost request, termination |
| `collections` | 2 threads; maps with 2 colliding keys, 2 entries, 2 values; lists of up to 2 elements (and 3 nodes to allocate) | no duplicate keys, searches end where they must, refinement of `AtomicMap` and `AtomicDict`, calls return |
| `structures` | node with 2 readers and 2 words; concurrent tree with 2 threads, 3 keys; trees with 4 keys, lists of 4 cells; 2 objects and 4 calls; numbers at the edge of a small `int`; sums that are read and printed with a failure at every place | copies and reads, refinement of `AtomicRegister` and `AtomicDict`, the specifications of the sequential programs |
| `queues` | 3 threads, 2 items, 2 slots, 1 spurious wakeup; `queue_ex.c` with 2 threads; 8 calls on the linked queues; 2 size classes, 2 big blocks of 12 words or a refusal | no lost wakeup, refinement of `BoundedFifo` and `Allocator`, contents in order; blocks are disjoint and each free one is in the list of its size |
| `primitives` | AES-256, a message of 34 bytes cut into pieces of 1, 15, 16, 17, a counter that carries through 15 bytes; a field of 2^15 - 19, texts of 0, 3 and 97 bytes, one byte changed or cut | each mode is that of its definition; keys agree, boxes and signatures are those of the definition, forged ones are refused |
| `hashing` | SHA-256 in full, keys of 5 and 65 bytes, pieces of 7, 56, 64, HKDF up to 8161 bytes, bit counts around 2^32 and 2^64; the generator with a hash of 4 bytes, limits of 3, 9 and 26 bytes, 4 calls | the digest is that of the bytes; HMAC and HKDF are those of the RFCs; refinement of `Sp80090a` through every failure |
| `linsearch_slow` | 1 thread, 1 key, 3 entries | **violated**: a key gets several entries (finding 1) |
| `lock_coupling_remove` | 1 thread, 1 element | **violated**: `remove` does not return (finding 2) |
| `oplistset_remove` | 2 threads, 2 elements, one of them removed | **violated**: an element added is not in the set (finding 3) |
| `bst_lookup` | 2 threads, 3 keys | **violated**: locks stay held after the last call (finding 4) |

**Bounds, and why they are enough.**
* Two readers are the fewest that make `finish_write` more than one exchange
  and let them be at different points of it; N + 2 buffers scale with them, and the proofs cover all N.
  The frame counter wraps at 3 (at 2^32 in C); three values tell the last frame, the current one and the next apart.
* Two colliding keys on two entries make a full table, where each search depends
  on the keys of the others; keys 3, 7 and 11 start at the last entry, so the second one wraps around.
* Two words are the fewest of which a copy can be torn; the version is capped
  at `MaxVersion` = 4, two writes, so that a read can overlap one write, the next one, or both.
  A wrap-around of the version within one read needs 2^31 writes and is not modelled: the property would fail there.
* Under release/acquire, two writes leave three messages per location, so a reader can be one write late and two; the third
  thread of the tables sets a key the others do not use and reads one that they add.
* A queue of two slots is empty, half full and full, and its indices wrap; with three threads two can sleep
  while the third works.  `MaxSpurious` bounds wakeups without a signal; one is enough to wake any
  waiter at any time.
* Two elements of a list let a search be before, at and behind those of the other thread; the bound on
  `Node` is a bound on the calls to `add`, since the optimistic list does not free.
* Three keys of the concurrent tree make every shape in which `turn_left` moves a subtree; seven `tree_t` are what they need.
* The big block of `Malloc` (12 words in place of 2^17) does not divide into chunks of either class, so that the waste at both ends is seen.
* AES and SHA-256 are computed as they are.  Pieces of 15, 16 and 17 bytes leave, fill and cross a block; lengths
  7, 56 and 64 reach every case of `Update` and both paddings of `Final`.
* The generator only passes HMAC values on, so a keyed hash of 4 bytes (which depends on every byte of key and message)
  shows what a hash of 32 does, and lets outputs of 6 and 10 bytes cross one and two blocks and the limit of 9.
* Of Curve25519, the run has a field of 15 bits with limbs of 8, a curve over it with a base point of prime order, and the
  formulas of the source with these numbers: carries, the factor 38 and packing work as with 16 limbs of 16 bits. A field of
  four limbs (2^19 - 19) has inner limbs too, for the arithmetic alone. Salsa20, Poly1305 and SHA-512 have their full size.

**Deadlock** is checked for the mailbox, which should never stop.  It is off in the other runs, in which some
programs end or reach a bound: the programs of `programs` end, which a liveness property demands instead; the writer of a node stops at its
cap, the cell is freed, all threads may be consumers of an empty queue, and clients of
sequential programs have a bounded number of calls.  The maps have `CallsReturn`, and the lists `SomeReturns`, which a deadlock violates.

**Fairness.**  All specifications with liveness assume weak fairness of each thread's steps
*within* a call and none of the calls themselves: the operating system runs every thread, but
no client need call.  A lock is given to any of its contenders: weak fairness does not
stop a thread from losing the race for ever.  This is why the simulated atomics and the list sets only claim that
*some* call returns (`SomeReturns`).  The programs of `MCPrograms` make
finitely many calls, so there weak fairness gives termination (`ProgramsEnd`); the two of `CondVars` assume besides that wakeups
for no reason do not go on for ever, and `cond_queue.c`, whose threads are loops, only claims that its consumer
goes on while there are requests.  In `Mailbox`, readers and writer are loops
too, and an exchange takes the spin lock of its channel: `Fairness` is weak fairness of the steps that need no lock, and of
*somebody's* exchange on each channel (`ExchangeOn`), so that either side may lose the lock to the other for ever.  That
every frame is taken, or that the writer always gets on, does therefore not follow, and is not claimed; `FramesPass` is what does.

## 4. Findings

1. `mailbox/lockfree_linsearch.c:19`: the loop of `set_item` has no exit after
   the store.  It claims the next entry for the same key, and so on past the end of the table.  The
   specification in `verif_lockfree_linsearch.v:324` says that the entries after `i` do not
   change.  `faster_lockfree_linsearch.c:27` has the missing `return`.
2. `progs/lock_coupling.c:93`: `remove` calls `del_node` while it holds the
   lock that `del_node` acquires: it waits for itself.  `verif_lock_coupling.v:189`
   specifies a result.  Run `collections`, whose `SomeReturns` lets a call that waits
   for itself count for nothing, shows that this is the only deadlock.
3. `mailbox/oplistset.c:41`: `validate` searches from the head again and compares what it finds with `curr` and
   `pred->next` with `curr`, but not whether it came through `pred`.  After another thread has removed `pred`
   both comparisons still hold, since a removed node keeps its link.  `add` then links its node behind the removed
   one and returns 1 for an element that no search finds.  While only the greatest element is
   removed, nothing has a removed `pred`, and run `collections` shows that the set is linearizable.
4. `progs/bst_conc.c:109`: `lookup` takes the lock of each subtree on its way down and releases the lock of the
   *root* each time.  The others stay held, and the next call that comes by waits for ever.
   `verif_bst_conc.v:293` gives the caller the tree back as it was.

Smaller things met while modelling, which no run is about:
* `hmacdrbg/hmac_drbg.h:141` says of `seed_buf` "(never reseeds)", but the interval stays 0 after it and the counter
  is 0: the second `random` reseeds from an entropy source that such a context need not have.  With `Reuse = "buffer"` TLC finds
  `SeedBufNeverReseeds` of `HmacDrbg` violated.
* `sha/hkdf.c:38` says "If salt is not given, HashLength zeros are used. However, HMAC does that internally already"; but
  `HMAC_Init` with a NULL key (`hmac.c:92`) leaves the `i_ctx` of the context that `HMAC` has on its stack uninitialised, so
  what `HKDF_extract` gives then is undefined.  `Sha` passes only salts that are given.
* `mbedtls_aes_setkey_enc` ignores `keybits` and always makes 14 rounds, where `aes.h` offers 128, 192 and 256.
* `crypto_secretbox_open` does not look at the first 16 bytes of the box, which should be zero.
* `insertionsort.c` puts equal values in reverse order.
* `objectSelfFancyOverriding.c` says in its head that it repeats functions; it shares them.
* `io.c:40` says that `main` stops at the end of the input; `getchar_blocking` retries for ever on -1.
  It also reads one more character after the sum has reached 1000; `io_mem.c` tests the sum only between blocks of four.
* `bst_conc.c:188`: `delete` lets go of the node it has found before `pushdown_left` takes it again.  `delete_spec` is
  sequential, so `BstConc` lets clients delete only when no other call is in progress.

## 5. What is proved

TLAPS proves these for every value of the constants (under the assumptions named
`...Assumption` in the modules).

* **Mailbox**: `TypeCorrect`, `DataRaceFree`, `BuffersSuffice`, `Freshness`,
  `Refinement`.  `NoRace` is not inductive: that the writer's choice is safe depends on what
  `last_taken` says about a reader, which in turn depends on what the channel holds.  The
  inductive invariant says, for each reader, what buffer the writer must assume it holds in each
  state of the channel (the reader has taken `last_given`, or has not and still holds
  `last_taken`), before and after the writer's loop has passed it.  `BuffersSuffice` is a
  pigeonhole argument: N + 2 buffers, of which at most N + 1 are unavailable.
  `Refinement` maps each step of the writer to a step that changes one register
  and leaves each view alone.
* **Atomics** (`AtomicsProofs`).
  *The simulated cell*: `TypeCorrect`, `MutualExclusion`, `Refinement`, `AtomicsAlone`.  `CellInv` is mutual
  exclusion, plus: a compare-and-swap on its way to its write has compared with the value that is still there,
  and an exchange returns it.
  *The node on release/acquire*: `NodeReads` (`ReadsAdvance`), for every number of words, writes and readers.
  `NodeInv` says of every view, that of a thread as that of a message: who has seen message v of the version
  and message w of a word has 2w - 2 <= v <= 2w.  So a reader that has seen version 2k sees no word older than
  the k-th, and one that has seen a newer word sees a newer version at its second load.
  *The two tables*: `TotalsAreRight`, for every number of threads and entries and all calls.  `TableInv` says that
  the keys on the path to an entry are other keys (`PathInv`, as in the hash table), that a search has *seen* the keys it
  has passed (`SearchInv`), that somebody has stored or will store the value of each claimed entry (`ClaimInv`), what
  a thread has seen after each of its calls (`ReturnInv`, `GetInv`), that a join lock passes that on (`LockInv`), that of
  the calls that add one key exactly one has won (`WonInv`), and that `main` has counted the keys won by those
  it has joined (`MainInv`).  `CallsAssumption` says that nobody sets a key that somebody
  adds: the set might be first, and then no add of that key returns 1.
* **Programs** (`ProgramsProofs`): `LocksOutliveThreads`, `TotalCorrect`, `CountsRight`, `FreedLast`, `StampsAscend`,
  `RequestsKept`, `TestSearchesEnd`.  `ProgramsInv` has one part per program.
  `IncrInv` counts: the counter is the number of threads past their store, a thread in the critical
  section is alone there and has loaded the counter's value, `main` has joined only threads that are done.
  `PairInv` is the same for `incr.c` and `incr2.c`, where the lock's state follows from the two control points.
  `TestInv` adds to the hash table's invariant that each key whose item is set has exactly one winner, that a thread's count is
  the number of keys it has won, that what it has gone through is won, and that `total` counts the winners
  joined so far (`WonInv`); so with all joined it is the number of keys.
  `GhostInv` says that the buffer holds the newest stamps in order, that those of consumers are older, ascending and
  different, and that puts are takes plus `length` (`GhostCount`): after the last join the two
  are the same number and `q_del` finds the queue empty.
  `CondInv` and `RequestInv` say who holds the lock in each state, and that a request is in one slot
  or in one pair of hands.  `RequestsKept` is the first half of `RequestsServed`.
* **HashTable**: `TypeCorrect`, `KeysUnique`, `KeysPermanent`, `SearchesEnd`, `Linearizable`.  The invariant has
  three parts: along the path from a key's home to its entry there is no free entry
  (`PathInv`); a search has passed only entries with other keys (`SearchInv`), which is what lets `get_item`
  return 0 and a claim be the first; a free entry still has the initial value (`FreshInv`).  `SearchesEnd` needs
  `EnoughEntries`, at most as many keys as entries: a search that had come back would have seen
  `ARRAY_SIZE` different other keys.
* **Collections** (`CollectionsProofs`): `SearchesStayRight`, `CollectionsUnique`, `MapsLinearizable`, `SetsLinearizable`.
  `LinearInv`: the entries in use are the first ones with different keys, and a search knows those it has passed.
  `CoupledInv`: the lock of a node is held by the thread whose control point says so, the links of the
  list ascend to `Last`, and behind a locked node nothing changes (`CursorInv`).
  `OptimisticInv`: the links of *all* nodes ascend, removed ones too, and a thread that has validated two
  neighbours holds their locks (`HeldInv`, `KnowsInv`).
  The set is linearizable only under `OnlyGreatestRemoved`, which finding 3 shows to be needed: then a removed
  node has no successor but `Last`, so nobody validates one (`ListedInv`).  What is in a list is defined as
  what every set of nodes closed under the links contains; where an induction along the list would be used, the proofs
  take the node with the least or the greatest value of a finite set.
* **Kvnode** (`StructuresProofs`): `CopiesAreWhole`, `NodeIsRegister`.  The invariant: the version is odd exactly while words are
  stored, the words before `wi` are the new ones, and a reader copies under an
  even version that is not newer than the node's.  Hence an equal version at the second
  load is the same even version, and nothing was stored in between.
* **Search tree** (`StructuresProofs`): `TreeInvariant`, `SearchTreeAlways`, `TreeIsDict`.  `TreeInv` says where things are by searches and not by shape: `OnPath` is the
  set of nodes that a search for a key comes to.  Each node with a key is on the path to it, and no node hangs
  from two boxes.  That keys are in order, that there is no loop and that no key occurs twice follow from it.
  A thread on its way is on the path to its key (`CursorInv`), also between the release of one lock and the acquire of
  the next, when it holds none: an insert only makes paths longer.  A delete rotates and so changes
  paths, but it is alone (`AloneInv`).  For each insert under way two nodes are left to make (`SupplyInv`).
* **Queues** (`QueuesProofs`).  *`conc_queue.c`*: `TypeCorrect`, `WakeupsArrive`, `Refinement`, `QueueAlone`.
  `NoLostWakeup` counts: for each item, a
  thread that will come for one or signal one.  A call to `q_add` adds one of each; a signal hands
  its task to the thread it wakes; a thread goes to sleep only when there is no
  item (or no room).  It is inductive together with the lock's mutual
  exclusion and the fact that a thread past its test still knows the length.  `Refinement` shows that
  `Put` appends to, and `Take` removes the head of, the sequence in the slots from `head` to `tail`.
  *Its clients*: `ClientsRight` (`QueuesHold`).  `LinkedInv`: the links go through the contents in order, no element is in
  the queue twice or in the client's hands too, and `main` knows the element that it made first.
  `ExInv`, for `queue_ex.c`: the queue holds the numbers from those removed to those added, and each
  lower one was got once (`QueueInv`, `GotInv`); at the end the results are a bijection onto 0 .. N - 1.
  *`malloc.c`*: `BlocksAreAllocated` (`ImplementsAllocator`), for every word size, number of bins, size of a big block, set of pages
  and of requests.  The code keeps links and no lists, so the invariant `MmInv` says that there *are* sequences `ls`, one for each
  bin, with `Kept(bin, sz, lnk, mapped, used, ls)`: the links go through them in order and end with `NULL`, no block occurs twice or in
  two of them, each has its bin's size, and the blocks, free or in use, are apart and inside what is mapped.  The
  sequences determine what `ListFrom` computes, and their lengths what `Allocator` calls `certain`.  A refill in the middle
  of `try_pre_fill` puts the chunks of a page before the list and drops none (`FillStep`); that the chunks of a page lie inside it, for
  any `BIGBLOCK`, is the arithmetic of `list_from_block` with its waste at both ends.
  `LeakInv` is beside it: the first block of each mapped page is free or in use, and a large block is alone in a page of the
  length that `free_large` unmaps, so that none is left mapped when its block is gone.

* **HMAC-DRBG** (`DrbgProofs`): `GeneratorImplements` (`GeneratorIsStandard`), for any digest size, lengths, inputs and
  policies, and for any entropy: `EntropyOf` is a constant operator, of which `GeneratorAssumption` says no more than that it
  gives bytes.  The policy is part of what is refined: a seed sets the default one, a setter changes its own field to its
  argument.  Two hypotheses: HMAC gives digests of the size it is said to give (`HmacGivesBlocks`; the run's
  HMAC does), and the program draws only from a context it has seeded (`Reuse = "none"`; the first of the smaller things in section 4 is the other case).  The
  standard says which bytes a call gives, the code copies blocks until there are enough.  Both compute V again and
  again, the code once for each turn of its loop, the standard as far as it needs at most (`ValuesAre`, `ValuesAgree`); after
  `i` turns the output is the first `i * MD_SIZE` bytes of those blocks, or the `n` that were asked for (`OutputIs`), and there are
  as many turns as `n` bytes need (`TurnsAre`).  The induction is up to a number, that of the turns, and
  `Recursion` and `UpTo` do it from the library's well-founded minimum.  On that rest the lemmas that say what `update`, `reseed`, `seed` and
  `random_with_add` make of the working state (`UpdateIs`, `ReseedIs`, `SeedIs`, `DrawIs`).  `DrbgInv`: a context has a key exactly
  from the `malloc` of a seed, also one that then fails, to its `free`; a seeded one asks for as much entropy as
  its strength or the setter said.

`AtomicsAlone` and `QueueAlone` say that a behaviour of the composed run is one of `SimAtomics` or `ConcQueue`,
so that the theorems about these two carry over.  Those about `Mailbox`, `HashTable`, `Kvnode` and `BstConc` are stated for
the module's own specification, the others for that of the composed run.

What the assumptions on the constants say: there are finitely many threads (`ThreadAssumption`, `FiniteAssumption`); sizes and
numbers of threads and calls are naturals, and positive where the code divides by them or declares an array
(`GeneratorAssumption`, `NAssumption`, `SizeAssumption`, `TableAssumption`, `ExampleAssumption`, `GhostAssumption`, `NodeAssumption`); keys are not 0,
which marks a free entry (`KeyAssumption`); `NULL` is not the address of an item or a request (`NullAssumption`,
`RequestAssumption`, `ElemAssumption` of `MCQueues`); elements of the lists are ints, and finitely many, so that the sentinels' values
lie beyond them as `INT_MIN` and `INT_MAX` do (`ElemAssumption` of `Collections`);
`MemoryAssumption` has the constants of `malloc.c` (`ALIGN` is 2, a big block has room for a chunk of each size), says of
`mmap` that it gives aligned pages with room for what is asked for before the next one, and that numbers of bytes are naturals: that
`nbytes + WASTE + WORD` does not wrap around in `malloc_large` is a precondition, and so is, for the generator, that the
`size_t` sums of lengths (`entropy_len + len`) do not; `GeneratorAssumption` also says of the entropy source that what it gives are bytes;
the search tree's nodes are finitely many, and its keys are not 0, which the model keeps for a node without a key: the
code only compares keys, so any finite set of them can be renumbered in order (`ConstantsFit`, a hypothesis of the
theorems about it, which `Structures` assumes as `TreeAssumption`).  `EnoughEntries` and `CallsAssumption` are
the two that clients have to keep to.

**Only model-checked:** all liveness (TLAPS does not reason about fairness and ENABLED here), with it the second half of
`RequestsServed`; the sequential programs of `Heaps` and `Units`, the hash functions with HMAC and HKDF, the
ciphers and TweetNaCl: their properties are about recursive functions of data and so out of reach of the provers.

## 6. Plan

What is left, in this order:

1. `BstConc` with concurrent deletes, once the code at line 188 has a specification for them.
2. The hybrid machine, over an instance of its parameters that is finite and still means something.

## 7. Running the checks

    tlc -config Mailbox.cfg Mailbox          # and so on, as PROJECT.json lists them
    tlc -config Collections.cfg Collections
    tlapm MailboxProofs.tla
