# A verification project for liballo

TLA+ models of the allocators in `src/src/`, TLC configurations that check them
on small instances, and TLAPS proofs of their safety properties and refinements
for every value of their parameters.

## 1. The system

liballo gives many allocation strategies one interface, `allo_t`: five function
pointers and a block of private state. Allocators nest: most take their memory
from a *child* allocator, and two of them route calls to other allocators.

| Component | State | Operations | Interacts with | What is hard |
|---|---|---|---|---|
| interface (`allo.h`, `allo.c`) | none | `allo_alloc`, `allo_free`, `allo_realloc`, `allo_calloc`, `allo_destroy`, `allo_contains` | dispatches to every allocator | the client passes the size back; a failed realloc must change nothing |
| buddy (`allo_buddy.c`) | free list per level, links inside the free blocks, bitset of free nodes, `block_orders` (written only) | alloc, free, realloc, contains, make, destroy | child for the buffer and three tables | long sequences of splits and merges; two records of what is free; unlinking from the middle of a list; level found from the size; partial failure in make |
| pool (`allo_pool.c`) | singly linked free list inside the free blocks | same | child for the buffer | order of frees; ends of the list; rounding of the block size |
| fixed buffer (`allo_buffer.c`) | offset | same | a caller's buffer | in-place realloc of the last block; wrapping sums |
| arena (`allo_arena.c`) | chain of blocks, offset in each | same | child for the blocks | in-place realloc across neighbouring blocks; the chain with large blocks; destroy while walking; wrapping sums |
| page (`allo_page.c`, `allo_page_posix.h`) | registry of mappings, itself in mapped pages | same | the kernel | failures of mmap and mremap half-way; registry at its limit; swap on removal |
| fallback (`allo_fallback.c`) | two allocators | alloc, realloc, free, contains | primary and fallback | routing by the tristate answer; spill-over on a failing realloc |
| locking wrapper (`allo_mtx.c`) | mutex | all, under the mutex | the target, threads | interleavings; a path that keeps the mutex; no fairness |
| general purpose (`allo_gen.c`) | pools over a buddy over pages, state in a page | all | pool, buddy, page | tier found from the size; order of make and destroy; failing make |
| C allocator (`allo_libc.c`) | none | alloc, realloc, free | malloc | no `_contains` |
| helpers (`allo_mem.*`, `allo_asan.h`, `allo_assert.h`) | ASan shadow | align, copy, poison | all | the shadow must follow every split, merge, grow and shrink |

Correctness, per component: blocks handed out lie in the allocator's memory, are
aligned and share no byte (all); no memory is lost and everything comes back to
the child at destroy (buddy, pool, arena, page); the internal records agree with
what clients hold (buddy lists and bitset, pool list, page registry, fallback
routing); a refused call changes nothing and is refused only when it must be;
calls end, and release the mutex; the shadow lets clients touch what they hold
and nothing else. `PROJECT.json` lists the hazards line by line, with the
properties aimed at each.

## 2. Modules

| Module | Models | Checked by |
|---|---|---|
| `Heap` | the contract of `allo.h`, an abstract specification over one variable, `live` | implemented by Buddy, Buffer, Pool, Arena, Page; the child in Arena |
| `Buddy`, `MCBuddy` | `allo_buddy.c` after a successful make | `Buddy.cfg` |
| `BuddyLife` | `make_buddy_allocator`, `buddy_destroy_fn`, `get_order`, `allo_calloc` | `Gen.cfg` |
| `Gen` | `allo_gen.c`; extends `BuddyLife`, whose allocator is one of its parts | `Gen.cfg`, `GenMakeFails.cfg` |
| `Lists` | linked lists: the walk from a head along links | with the modules that extend it |
| `ListProofs` | lemmas on lists, for `Buddy`, `Pool`, `Mtx` and `Arena` | tlapm |
| `BuddyProofs`, `PoolProofs`, `MtxProofs`, `BufferProofs`, `PageProofs`, `ArenaProofs` | theorems about the module of that name | tlapm |
| `CompositeProofs` | theorems about `Gen`, `BuddyLife` and `Fallback` | tlapm |
| `Buffer` | `allo_buffer.c` | `Buffer.cfg`, `BufferWrap.cfg` |
| `Pool` | `allo_pool.c` | `Pool.cfg` |
| `Mtx` | `allo_mtx.c` with threads, around the pool's code | `Mtx.cfg` |
| `Fallback` | `allo_fallback.c` over any two allocators | `Fallback.cfg`, `FallbackUntracked.cfg` |
| `Arena` | `allo_arena.c` over any child | `Arena.cfg`, `ArenaWrap.cfg` |
| `Page` | `allo_page.c` over the kernel's map of pages | `Page.cfg` |

Conventions. Names follow the source. `live` (`held` in Fallback) is what the clients hold: the size
they will pass to `allo_free`, 0 where they hold nothing. `unpoisoned`
is the ASan shadow, the set of bytes one may access. Contents of blocks are abstracted; that
`allo_memcpy` copies between blocks that do not overlap is part of `Heap`.
Calls with NULL pointers, equal sizes and other calls that change nothing are
stuttering steps; `allo_realloc` to size 0 is `Free`. A call with a pointer or a
size that `allo.h` calls undefined is not made. Operators under a comment
"Mutant:" are wrong variants of the definition after them; `PROJECT.json` pairs
each with the property that notices it.

### Buddy
A block is a node `<<level, index>>` of the buddy tree, pointers within a level's
list are indices. A call runs in steps: entry, one step per iteration of its
loop, return (`Alloc`, `Split`, `AllocReturn`; `Free`, `Merge`, `FreeReturn`;
`Realloc`, `Split`, `ReallocMove`, `Merge`, `FreeReturn`), so that properties
hold inside the loops and termination is something to check. `pc`, `level`,
`index`, `size` and `old` are the locals of the call. Links of blocks outside the
lists are dead in the code and are kept at NULL. `block_orders` is omitted: no
code reads it.

### BuddyLife
The factory is a sequence of requests to the child: `pc` names the one to come.
`Grant` answers it, `Refuse` is the child's NULL with the code's clean-up for that
request. The rounding loop takes one step per iteration. `child` is the record of
the child allocator; giving back a part it does not have on record with that size
makes the entry `Corrupt`. `bytes` is what the factory asks for and `destroy_bytes`
what `buddy_destroy_fn` computes again. Sizes below 32 are interesting: the number
of levels is 0 or negative, its conversion to `size_t` wraps, and it is
`allo_calloc`'s overflow test or a request of 0 bytes that makes the factory fail.
Both branches of `get_order` are there; the portable one's step of 32 bits is taken
in words wider than that, which TLC's numbers do not reach and the proofs do.
The module has no specification of its own: `Gen` uses its actions both for a
client's buddy allocator and for its own.

### Gen
Its parts are the pools 0..7, `BUDDY`, `PAGE` and the block `STATE_S` they live in.
`make_gen_allocator` runs `BuddyLife`'s factory for 16 MiB and then makes the
pools one by one; a failure leaves the clean-up calls in `todo`, as `Destroy` does
for `gen_destroy_fn`, and `Teardown` makes one call per step. A call that needs
memory already given back (`survives`) ends the process: `Crash`. The client's
calls are routed by the real limits and the real pool table; the parts themselves
are any allocators, with `granted` for their record, since each is modelled in
detail elsewhere. That a pool cannot be made is possible in the model, as the code
handles it, although a new 16 MiB buddy has room for all eight.

### Buffer and Arena
`size_t` has `WordBits` bits and sums wrap where the code adds. In Arena
addresses are absolute and the child may place blocks at any of `Bases`, next to
each other too, because `is_last_alloc` compares addresses of any block with the
end of the current one. The child is a `Heap`. Giving a block back that was not
granted, or with another size, makes its entry `Corrupt`. What the child grants is
accessible (`granted`), as every allocator of the library leaves it, so that the
poisoning in `new_arena_block` (`fresh`) is needed. What it gets back it may write
over, where the header was, and poisons (pool, buddy, buffer, arena) or leaves
accessible (page): `child_reuses`. `arena_destroy_fn` itself has no poisoning. Its
loop takes two steps per block, the read of `next` into a local (`DestroyNext`) and
the free with the move to that local (`DestroyBlock`): a link read after the free
would be the child's.

### Pool and Mtx
Pool is made, used, destroyed and made again. Mtx runs the pool's code one
memory access per step under `mtx_lock` and `mtx_unlock`; a block may be freed by
another thread than the one that got it. Destroying the wrapper while calls run
is undefined and is not done.

### Fallback
`recorded` is what the sub-allocators have on record, `held` what the client
holds; the names differ from those of the other modules as `CompositeProofs` extends
both this one and `Gen`. Each sub-allocator may refuse or grant at will, and may lack `_contains`
(`Untracked`).

### Page
`os` is the kernel's map. mmap and mremap may fail at every call, and mremap may
move a mapping where there is room beside the old one. The shadow is one of bytes
and belongs to addresses: it stays when a mapping goes and is what it was when
another comes, and only the code's `ALLOC_POISON` and `ALLOC_UNPOISON` change it
(`opened`, `released`, `resized`, `restored` have them in the code's order).
`ShadowExact` therefore says two things: what a block lets through, and that pages
given up are left accessible. `page_destroy_fn` is the exception: it unmaps leaked
blocks without an `ALLOC_UNPOISON`, and their poison stays behind. Whether a later
mapping at such an address meets it depends on the ASan runtime, which may clear the
shadow in its own mmap; no doc of the repository speaks of it.

## 3. Runs

| Run | Bounds | Shows |
|---|---|---|
| `buddy` | 256 bytes, 4 levels, 15 nodes; sizes 0, 1, 33, 100, 256, 257 | the partition of memory, lists against bitset, complete merging, no false refusal, exact shadow, in every loop iteration; every call returns; implements `Heap` |
| `buffer` | 44 bytes in a 7-bit word; eight sizes from 0 to 45 | bump order, shadow, implements `Heap` |
| `buffer_wrap` | sizes 8, 12, 120 | **violated**: finding 1 |
| `pool` | five blocks of 24 bytes; sizes 0, 1, 24, 25 | the list is exact, shadow, child balanced, implements `Heap` |
| `mtx` | three threads, three blocks | each block is in one place in every interleaving; some call always returns |
| `fallback` | two blocks on each side, sizes 0 to 3; the fallback has no `_contains` | routing and records agree |
| `fallback_untracked` | the primary has no `_contains` | **violated**: finding 3 |
| `arena` | three places for blocks, block_size 16; sizes 0, 5, 16, 24 | the chain is complete, destroy ends and leaks nothing, shadow of every granted block over any old one, implements `Heap` |
| `arena_wrap` | sizes 5, 16, 240 in an 8-bit word | **violated**: finding 2 |
| `page` | five pages of 4 bytes, two entries per registry page; sizes 0, 3, 4, 5 | registry and mappings exact, shadow of blocks and of pages given up, implements `Heap` |
| `gen` | a 28-bit word; buffers of 1, 4, 8, 16, 17, 32, 33, 1000, 4096 and 2^27 bytes, the client's or the child's; both sides of every limit between tiers and pools; two blocks held | the child's record after every failure and destroy, the size of the tables, both `get_order`, the tier of every block, the order of the teardown, calls return |
| `gen_make_fails` | the same | **violated**: finding 4 |

Why the bounds are enough to be interesting. Four levels of the buddy tree have
merges that cascade over two levels and stop, lists of four blocks (so removal
from the head, the middle and the end), and requests of every kind: none, one
byte, one byte more than a block, no power of two, the buffer, more than it. Five pool blocks
allow every permutation of a list with a middle. Three arena blocks are the
smallest chain in which a block is linked in between two others, and the places
40 bytes apart make blocks of 24 + 16 bytes adjacent in memory. The registry of two entries per page fills
up with two blocks and grows, in place or by a move around them, which five pages
have room for, with a third block mapped after it; sizes of a byte less than a page, a page
and a byte more make every kind of tail and of realloc. Three threads give a waiter, an owner
and a third that arrives late. In `gen` the limits of the tiers, the pool table and the 16 MiB are the
code's own, which a word of 28 bits holds; two held blocks are enough for a move
between any two parts beside a block that stays and for a part that is full.

Fairness. `Buddy!FairSpec` says a running call goes on; `Arena!FairSpec` the same
for the loop of destroy, and `Gen!Spec` for factories and teardowns: sequential
code. `Mtx!FairSpec` says that a thread
inside a call is scheduled and that a mutex that stays free is given to somebody;
it does not say to whom, as C11 promises nothing of the kind, so there is no
property that every thread gets the mutex. Deadlock is checked everywhere but in
`Buffer`, whose allocator really stops at destroy, and `Gen`, where the process
ends with a crash.

Findings.
1. `allo_buffer.c:56`: the sum wraps for a new size near `SIZE_MAX`; the realloc
   "succeeds" and moves the offset back. `allo.h:193` promises NULL.
2. `allo_arena.c:50`: the sum wraps; the child grants a few bytes for a huge
   block. `allo.h:135` promises NULL.
3. `allo_fallback.c:30,59`: a primary that cannot tell (`UNKNOWN`) is given the
   fallback's pointers. `README.md:63` says ownership checks prevent "pointer
   mixing".
4. `allo_gen.c:179-180` and `193-194`: a failing `make_gen_allocator` unmaps `s`
   and then reads `s->page` to destroy it. `gen_destroy_fn` copies the page
   allocator first ("Save page allocator to free the state itself", line 135).

One boundary is not a run of its own: `allo.h:126-127` gives objects "< 2KB" to the
pools and "2KB - 1MB" to the buddy, while `allo_gen.c:60` (`size <= SMALL_OBJ_LIMIT`)
puts exactly 2048 bytes into the last pool. `Home`, and with it `TierFromSize`, has
the limits of the code: what it checks is that all paths agree on the part, not
which side of the limit the doc names.

Two limits of `make_buddy_allocator` are not findings, as no doc speaks of them: a
size above half of the address space makes the rounding loop run for ever
(`LifeAssumption` excludes it), and a caller's buffer whose size is not a power of
two is used as if it had `total_size` bytes.

## 4. Proofs

Every safety invariant of every passing run is a theorem, and so is each
refinement of `Heap`; `PROJECT.json` lists them by name. They hold for every
value of the constants that satisfies the module's `ASSUME`s, which TLC evaluates
on each run. Three theorems (`OnlyWrapEscapes`, `OnlyWrapLeavesChild`, `OwnersOnly`)
are about properties that runs show *violated*: they name the condition under which
these hold.

| Module | Theorems | Inductive invariant |
|---|---|---|
| `BuddyProofs` | `TypeCorrect`, `NoByteShared`, `NoByteLost`, `ListsSound`, `SizeFindsBlock`, `EagerMerging`, `ListsAreTheBitset`, `RefusesOnlyWhenFull`, `ShadowIsExact`, `BuddyIsHeap` | `IInv`, then `Chains` and `Shadowed` on top of it |
| `PoolProofs` | `FreeListSound`, `NoBlockLost`, `ChildGetsAllBack`, `PoolShadowExact`, `PoolIsHeap` | `ListInv`, `ShadowInv` |
| `MtxProofs` | `EveryBlockOneOwner`, `MutualExclusion` | `IInv` |
| `BufferProofs` | `BlocksInOrder`, `BufferShadow`, `OnlyWrapEscapes`, `BufferIsHeap` | `IInv`, given `NoWrap` |
| `PageProofs` | `RegistryHasRoom`, `NoPageLost`, `RegistryTrue`, `PageShadowExact`, `PageIsHeap` | `IInv` |
| `ArenaProofs` | `ArenaTypes`, `ChainHoldsAll`, `LiveFound`, `OnlyWrapLeavesChild`, `ArenaGivesAllBack`, `ArenaShadow`, `ArenaIsHeap` | `IInv`, given `NoWrap` |
| `CompositeProofs` | `SpillKeepsRecords`, `OwnersOnly`; `SizeFindsTier`, `TeardownSafe`; `ChildGetsExactly`, `TablesLargeEnough`, `PortableOrder`, `PortableAgrees` | `FallbackInv`; `TierInv`, `LifeInv`; `TableInv` |

Assumptions and hypotheses.
- `OrderAssumption` (Buddy): the orders are naturals, `min_order` is at most
  `max_order`, and a smallest block holds a list node. `SizesAssumption`:
  `get_order(s)` is a natural n with s <= 2^n, which is what the compiler's
  count-leading-zeros gives.
- `PowAssumption` (Buddy, BuddyLife): laws of 2^n, which the provers have no theory
  of, for the exponents that fit a word.
- `LifeAssumption`, `GenAssumption`: buffers of at most half of the address space
  (above it the rounding loop does not end) and a word of at least 25 bits, for the
  16 MiB of `make_gen_allocator`.
- `NoWrap` (hypothesis of the theorems of `BufferProofs` and `ArenaProofs`): no
  request is so near `SIZE_MAX` that its sum with an offset, or with a block's
  header, wraps. The runs `buffer_wrap` and `arena_wrap` show what happens without
  it; `OnlyWrapEscapes` and `OnlyWrapLeavesChild` say that nothing else takes a
  block out of its memory.
- `"primary" \notin Untracked` (hypothesis for `Fallback`): the primary has a
  `_contains`. The run `fallback_untracked` shows that it is needed.
- `WordBits <= 64` (hypothesis of the `get_order` theorems): the code has a step for
  32 bits and none for 64.

Lists. What the runs say of a list is said of the walk from its head, a recursive
function, and the provers have no induction. `ListProofs` puts `Chain(head, link, S)`
in its place: there is an n and an enumeration of S without repetition, in which
the first is the head, each links to the next and the last to NULL. Pushing,
popping, inserting and removing give a new enumeration from the old one, without
induction (`ChainPush`, `ChainRemove` and others). Once, `WalkInOrder` shows that
the walk follows the enumeration: the least k at which it would not is a
contradiction, and a least one exists as the naturals are well-founded
(`LeastNumber`).

Buddy. None of the six conjuncts of `IInv` is inductive on its own. That a merge
swallows exactly the buddy needs the lists to be proper (unlinking otherwise changes
other blocks) and the buddy's bit to mean that the block is free and disjoint from
all others; that a free finds the block it was given needs `LevelFromSize`; that
the parent's bytes are the two halves' and no others needs `NoOverlap` and `NoLeak`
together; that a block put back has no free buddy needs `Coalesced` and the guard
of the merge loop. The proof has one lemma per action (`AllocStep`, `SplitStep`,
`AllocReturnStep`, `FreeStep`, `ReallocMoveStep`, `MergeStep`, `FreeReturnStep`), on
top of the geometry of the tree (`Halves`, `Family`, `SplitDisjoint`),
`NodeIndexInjective` (no two nodes share a bit), and what the list operations do to
links. `LinksConsistent`, a local condition on neighbours, still allows a ring of
free blocks that the head does not lead to: `Chains` excludes it and is what
`ListsAreTheBitset` needs. `RefusesOnlyWhenFull` needs no step of its own: if the
bytes of a node are clear of all held blocks, then by `NoLeak` free blocks cover it,
and if none of them is at its level or above they all lie inside it; the buddy of
the smallest one is covered too, and can only be free itself, against `Coalesced`
(`ClearMeansFree`). `ShadowIsExact` follows the headers through splits and merges in
granules of 16 bytes, a list node.

Pool and Mtx. `ListComplete`, which implies `ListSound`, is said of the walk; `Chain`
over the free blocks says the same without recursion, is inductive and gives both
(`ListSound` alone would allow a ring beside the list). In
Mtx the chain ranges over the blocks that are neither held nor in a call's hands, and
the invariant adds who may be where with the mutex (`Exclusion`) and that what a
call has read of the list is still true where it uses it (`ReadsFresh`), which is
where mutual exclusion enters.

Buffer and Arena. The order of blocks below the offset, or their place in a block of
the chain, and the shadow. The arena's invariant also keeps the child's blocks apart
(`OwnedApart`), the held ones apart (`HeldApart`), the headers of the granted blocks
accessible (`Readable`) and everything past their offsets poisoned (`Sealed`), until
they are given back. A block may come with any shadow: only the poisoning in
`new_arena_block` makes `Sealed` true of it (`FreshFacts`). `ArenaGivesAllBack`
is about each step of the loop of destroy, with the rest of the chain still there
and, between its two steps, the local `next` at the block after the current one.

Page. What munmap and mremap are given comes from the registry or from the client,
and it is the length of the mapping only because the registry has each held block
once (`Registered`) and its own home is neither (`Homed`); a new mapping is clear of
the old ones because mappings do not overlap (`Laid`). `RegistryTrue` counts entries
with a bijection. `Exact` says of each byte of a block's pages when it is accessible.
A new block is exact whatever lay there (`Opened`), giving one up leaves its pages
open (`Released`) and a move is the one after the other; a resize in place comes to
the same set as a move to where it is (`ResizedIsMoved`), and restoring after a failed
mremap to the set before (`RestoredIsBefore`), both only because of `Exact`. The
second half of `ShadowExact` is an action property: in the same lemmas the poison
outside the blocks (`Outside`) only gets less.

Fallback. `OwnerGetsPointer`: routing sends every pointer to its owner.

Gen. `TierInv` has the routing through the pool table, `route`, where `TierFromSize`
has the smallest pool that fits, `Home`: with it a free and a realloc are followed step by step. `RouteHome` shows the two
equal for every size, the pool table included (`SmallRoute`). `LifeInv` says which of
its ten calls gen_destroy_fn has still to make (`Rest(k)`), that the buddy is there
until its turn and that s is mapped to the end.

BuddyLife. `TableInv`: the rounded size is a power of two below twice the size, so
that the loop never wraps (`TableRound`), and the child's record is what the requests
before `pc` asked for, none of them 0. With a size of 2^k the levels are k - 4
(`OrderOfPower`), also where that is negative; a factory that returns got
`block_orders`, which has bytes only for k >= 5, and then every table fits.
`buddy_destroy_fn` computes the same sizes wherever `allo_calloc` did not see an
overflow (`BytesFacts`). `PortableOrder` follows the ifs of the portable get_order:
each leaves a value of half the width whose significant bits are those of the whole
less what the order gained (`HalveFacts`).

Refinements. For each of the five, initial states map to an empty heap and every
step to a step of `Heap` or a stutter: that a block handed out is aligned, in range
and clear of the others is what the invariants above say.

Only model-checked: liveness (`CallsReturn`, `DestroyEnds`, `SomeCallReturns`,
`Returns`), which is out of the prover's reach.

## 5. Not modelled

- `allo_libc.c`: stateless calls of malloc; it appears as the sub-allocator
  without `_contains` in `Fallback`.
- `_contains` of buddy, pool, page, fallback and gen: queries that change nothing.
  Where another function's result depends on them (arena's free, the routing of
  fallback) the answer is modelled.
- `block_orders`' contents: written, never read.
- The byte loops of `allo_mem.c`, as contents are abstracted.
- ASan's rounding to its 8-byte granules: the shadow here is exact.
- Argument checks of the factories (`ALLO_ERR_INVAL`): they leave no allocator.
- Tests, benchmarks, examples, scripts.

## 6. Plan

1. Done: all allocators modelled and checked; every safety invariant of a passing
   run and every refinement of `Heap` proved.
2. Composition: an arena over a pool or a buddy as its child instead of `Heap`, and
   the parts of `Gen` as heaps, from the refinements that are proved.
3. Action properties of the calls (a refused call changes nothing; blocks a call is
   not about stay as they are), which follow from `ImplementsHeap` for a client and
   could be stated on the internal state too.
