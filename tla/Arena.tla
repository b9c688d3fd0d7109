------------------------------- MODULE Arena -------------------------------
(***************************************************************************)
(* The arena allocator, src/src/allo_arena.c: a chain of blocks taken from *)
(* a child allocator, a bump offset in each, in-place realloc at the end   *)
(* of the current block.                                                   *)
(*                                                                         *)
(* Addresses are absolute.  The child is any allocator that keeps the      *)
(* contract of Heap; an arena block is named by the address the child gave *)
(* it.  What the child grants it has made accessible; what it takes back   *)
(* it writes over, and poisons or not.  size_t is a word of WordBits bits: *)
(* sums wrap.                                                              *)
(***************************************************************************)
EXTENDS Lists, FiniteSets

CONSTANTS
  WordBits,    \* width of size_t
  block_size,  \* ctx->block_size
  Sizes,       \* sizes the client asks for
  Bases,       \* addresses the child may place a block at
  Extent       \* the child's memory

WordMax == 2^WordBits - 1
Alignment == 8
sizeof_arena_block == 24

ASSUME ArenaAssumption ==
  /\ WordBits \in Nat /\ WordMax \in Nat
  /\ block_size \in 1..WordMax
  /\ Sizes \subseteq 0..WordMax
  /\ Extent \in Nat
  /\ IsFiniteSet(Bases)
  /\ \A b \in Bases : b \in 0..Extent /\ b % Alignment = 0

wrap(x) == x % (WordMax + 1)

\* allo_align_up(x, 8)
align_up(x) == Alignment * (wrap(x + Alignment - 1) \div Alignment)

Ptrs == {p \in 0..Extent : p % Alignment = 0}

VARIABLES
  phase,           \* "none", "ready"; in arena_destroy_fn "destroy", "release"
  first, current,  \* ctx->first, ctx->current
  next, bsize, offset,  \* the headers of the blocks
  child,           \* size of each block the child has granted, 0: none
  curr, saved,     \* curr and next, the locals of arena_destroy_fn
  unpoisoned,      \* ASan shadow: bytes of the child's memory one may access
  live             \* size held at each address, 0: none

chain == <<first, current, next, bsize, offset>>
vars == <<phase, chain, child, curr, saved, unpoisoned, live>>

Bytes(a, n) == a..(a + n - 1)

\* Where a block's memory starts.
block_start(b) == b + sizeof_arena_block

ChildHeap == INSTANCE Heap WITH Addr <- Bases, Request <- 0..WordMax,
                                Align <- Alignment, live <- child

\* allo_alloc(child, sizeof(arena_block_t) + n) answers b; no child grants 0 bytes.
child_grants(b, n) ==
  /\ child[b] = 0
  /\ wrap(sizeof_arena_block + n) # 0
  /\ ChildHeap!Vacant(b, wrap(sizeof_arena_block + n), {})

\* allo_free(child, b, n): undefined unless b was granted with that size.
Corrupt == -1
child_takes(b, n) == IF child[b] = n /\ n # 0 THEN 0 ELSE Corrupt

\* The bytes of b are the child's again.  It may put a link of its own where the
\* header was (pool, buddy), and leaves them poisoned (pool, buddy, buffer,
\* arena) or accessible (page).
child_reuses(b) ==
  /\ \E x \in Bases \cup {NULL} : next' = [next EXCEPT ![b] = x]
  /\ bsize' = [bsize EXCEPT ![b] = 0]
  /\ offset' = [offset EXCEPT ![b] = 0]
  /\ \/ unpoisoned' = unpoisoned \ Bytes(b, child[b])
     \/ unpoisoned' = unpoisoned \cup Bytes(b, child[b])

Init ==
  /\ phase = "none"
  /\ first = NULL /\ current = NULL /\ curr = NULL /\ saved = NULL
  /\ next = [b \in Bases |-> NULL]
  /\ bsize = [b \in Bases |-> 0]
  /\ offset = [b \in Bases |-> 0]
  /\ child = [b \in Bases |-> 0]
  /\ unpoisoned = {}
  /\ live = [p \in Ptrs |-> 0]

\* The shadow as the child's alloc leaves it: all that was asked for is accessible.
granted(b, n) == unpoisoned \cup Bytes(b, wrap(sizeof_arena_block + n))

\* Mutant: the block's memory is left accessible.
fresh_open(b, n) == granted(b, n)

\* The shadow after new_arena_block has poisoned the memory behind the header.
fresh(b, n) == granted(b, n) \ Bytes(block_start(b), n)

-----------------------------------------------------------------------------
(* make_arena_allocator *)

Make(b) ==
  /\ phase = "none"
  /\ child_grants(b, block_size)
  /\ phase' = "ready"
  /\ first' = b /\ current' = b
  /\ next' = [next EXCEPT ![b] = NULL]
  /\ bsize' = [bsize EXCEPT ![b] = block_size]
  /\ offset' = [offset EXCEPT ![b] = 0]
  /\ child' = [child EXCEPT ![b] = wrap(sizeof_arena_block + block_size)]
  /\ unpoisoned' = fresh(b, block_size)
  /\ UNCHANGED <<curr, saved, live>>

\* The child refuses: ALLO_ERR_NOMEM.
MakeFails ==
  /\ phase = "none"
  /\ UNCHANGED vars

-----------------------------------------------------------------------------
(* arena_alloc_fn; drop holds the block a realloc moves away from *)

\* The client holds n bytes at p, and what drop names no longer.
hand_out(shadow, p, n, drop) ==
  /\ unpoisoned' = shadow \cup Bytes(p, n)
  /\ live' = [q \in Ptrs |-> IF q = p THEN n ELSE IF q \in drop THEN 0 ELSE live[q]]

\* Mutant: the new block becomes the end of the chain.
link_after_lost(b) == [next EXCEPT ![current] = b, ![b] = NULL]

\* The new block is linked in after the current one.
link_after(b) == [next EXCEPT ![current] = b, ![b] = next[current]]

\* A request larger than block_size gets a block of its own, which does not
\* become the current one.
alloc_large(b, n, drop) ==
  /\ n > block_size
  /\ child_grants(b, n)
  /\ next' = link_after(b)
  /\ bsize' = [bsize EXCEPT ![b] = n]
  /\ offset' = [offset EXCEPT ![b] = n]
  /\ child' = [child EXCEPT ![b] = wrap(sizeof_arena_block + n)]
  /\ hand_out(fresh(b, n), block_start(b), n, drop)
  /\ UNCHANGED <<phase, first, current, curr, saved>>

\* Mutant: the header is counted as usable space.
fits_header(n) ==
  align_up(offset[current]) + n <= bsize[current] + sizeof_arena_block

\* There is room in the current block.
fits(n) == wrap(align_up(offset[current]) + n) <= bsize[current]

alloc_bump(n, drop) ==
  /\ n # 0 /\ n <= block_size
  /\ fits(n)
  /\ offset' = [offset EXCEPT ![current] = wrap(align_up(offset[current]) + n)]
  /\ hand_out(unpoisoned, block_start(current) + align_up(offset[current]), n, drop)
  /\ UNCHANGED <<phase, first, current, next, bsize, child, curr, saved>>

\* The current block is full: a new one takes its place.
alloc_new_block(b, n, drop) ==
  /\ n # 0 /\ n <= block_size
  /\ ~fits(n)
  /\ child_grants(b, block_size)
  /\ next' = link_after(b)
  /\ current' = b
  /\ bsize' = [bsize EXCEPT ![b] = block_size]
  /\ offset' = [offset EXCEPT ![b] = n]
  /\ child' = [child EXCEPT ![b] = wrap(sizeof_arena_block + block_size)]
  /\ hand_out(fresh(b, block_size), block_start(b), n, drop)
  /\ UNCHANGED <<phase, first, curr, saved>>

arena_alloc(n, drop) ==
  \/ \E b \in Bases : alloc_large(b, n, drop)
  \/ alloc_bump(n, drop)
  \/ \E b \in Bases : alloc_new_block(b, n, drop)

Alloc(n) ==
  /\ phase = "ready"
  /\ arena_alloc(n, {})

\* NULL: nothing asked for, or the child refuses the block that is needed.
AllocNull(n) ==
  /\ phase = "ready"
  /\ n = 0 \/ n > block_size \/ ~fits(n)
  /\ UNCHANGED vars

-----------------------------------------------------------------------------
(* arena_free_fn, also allo_realloc to size 0: poisons, reclaims nothing *)

\* arena_contains_fn: the blocks its loop from ctx->first meets.
Reach == Walked(first, next, Cardinality(Bases))

contains(p) ==
  \E b \in Reach : block_start(b) <= p /\ p < block_start(b) + bsize[b]

Free(p) ==
  /\ phase = "ready"
  /\ live[p] # 0
  /\ unpoisoned' = IF contains(p) THEN unpoisoned \ Bytes(p, live[p])
                                  ELSE unpoisoned
  /\ live' = [live EXCEPT ![p] = 0]
  /\ UNCHANGED <<phase, chain, child, curr, saved>>

-----------------------------------------------------------------------------
(* arena_realloc_fn *)

\* Mutant: only the order of the addresses is looked at.
is_last_alloc_any(p) == p >= block_start(current)

\* p is the last block of the current arena block.
is_last_alloc(p) ==
  /\ p + live[p] = block_start(current) + offset[current]
  /\ p >= block_start(current)

InPlace(p, n) ==
  /\ is_last_alloc(p)
  /\ wrap(p - block_start(current) + n) <= bsize[current]

\* The part gained is unpoisoned, the part given back is poisoned.
resize_shadow(p, n) ==
  IF n > live[p] THEN unpoisoned \cup Bytes(p + live[p], n - live[p])
                 ELSE unpoisoned \ Bytes(p + n, live[p] - n)

ReallocInPlace(p, n) ==
  /\ phase = "ready"
  /\ live[p] # 0 /\ n # 0 /\ n # live[p]
  /\ InPlace(p, n)
  /\ offset' = [offset EXCEPT ![current] = wrap(p - block_start(current) + n)]
  /\ unpoisoned' = resize_shadow(p, n)
  /\ live' = [live EXCEPT ![p] = n]
  /\ UNCHANGED <<phase, first, current, next, bsize, child, curr, saved>>

\* Another block shrinks: nothing changes but what its holder may use.
ReallocShrink(p, n) ==
  /\ phase = "ready"
  /\ live[p] # 0 /\ n # 0 /\ n < live[p]
  /\ ~InPlace(p, n)
  /\ live' = [live EXCEPT ![p] = n]
  /\ UNCHANGED <<phase, chain, child, curr, saved, unpoisoned>>

\* It grows: its contents are copied to a new block, the old one is left.
ReallocMove(p, n) ==
  /\ phase = "ready"
  /\ live[p] # 0 /\ n > live[p]
  /\ ~InPlace(p, n)
  /\ arena_alloc(n, {p})

-----------------------------------------------------------------------------
(* arena_destroy_fn: two steps per block of the chain *)

Destroy ==
  /\ phase = "ready"
  /\ phase' = "destroy"
  /\ curr' = first
  /\ live' = [p \in Ptrs |-> 0]
  /\ UNCHANGED <<chain, child, saved, unpoisoned>>

\* next = curr->next
DestroyNext ==
  /\ phase = "destroy"
  /\ curr # NULL
  /\ phase' = "release"
  /\ saved' = next[curr]
  /\ UNCHANGED <<chain, child, curr, unpoisoned, live>>

\* Mutant: the cursor stays where it is.
advance_none == curr

\* Mutant: the link is read from the block that was given back.
advance_stale == next'[curr]

\* curr = next
advance == saved

\* The child takes the block back, and the cursor moves on.
DestroyBlock ==
  /\ phase = "release"
  /\ phase' = "destroy"
  /\ child' = [child EXCEPT
                 ![curr] = child_takes(curr, wrap(sizeof_arena_block + bsize[curr]))]
  /\ child_reuses(curr)
  /\ curr' = advance
  /\ saved' = NULL
  /\ UNCHANGED <<first, current, live>>

DestroyReturn ==
  /\ phase = "destroy"
  /\ curr = NULL
  /\ phase' = "none"
  /\ first' = NULL /\ current' = NULL
  /\ next' = [b \in Bases |-> NULL]
  /\ bsize' = [b \in Bases |-> 0]
  /\ offset' = [b \in Bases |-> 0]
  /\ UNCHANGED <<child, curr, saved, unpoisoned, live>>

Next ==
  \/ \E b \in Bases : Make(b)
  \/ MakeFails
  \/ \E n \in Sizes : Alloc(n) \/ AllocNull(n)
  \/ \E p \in Ptrs : Free(p)
  \/ \E p \in Ptrs, n \in Sizes :
       ReallocInPlace(p, n) \/ ReallocShrink(p, n) \/ ReallocMove(p, n)
  \/ Destroy \/ DestroyNext \/ DestroyBlock \/ DestroyReturn

Spec == Init /\ [][Next]_vars

\* The loop of arena_destroy_fn goes on.
FairSpec == Spec /\ WF_vars(DestroyNext \/ DestroyBlock \/ DestroyReturn)

-----------------------------------------------------------------------------
(* Properties *)

Held == {p \in Ptrs : live[p] # 0}

\* Type invariant; the current block is one of the chain, and no block was given
\* back twice or with another size (Corrupt).
TypeOK ==
  /\ phase \in {"none", "ready", "destroy", "release"}
  /\ phase = "ready" => first \in Bases /\ current \in Reach
  /\ next \in [Bases -> Bases \cup {NULL}]
  /\ bsize \in [Bases -> 0..WordMax]
  /\ \A b \in Bases : offset[b] \in 0..bsize[b]
  /\ child \in [Bases -> 0..WordMax]
  /\ curr \in Bases \cup {NULL} /\ saved \in Bases \cup {NULL}
  /\ live \in [Ptrs -> Sizes \cup {0}]

(***************************************************************************)
(* Every live block lies below the offset of a block of the chain: what    *)
(* arena_contains_fn answers for it is YES, and no later bump reaches it.  *)
(***************************************************************************)
LiveInChain ==
  \A p \in Held : \E b \in Reach :
    block_start(b) <= p /\ p + live[p] <= block_start(b) + offset[b]

\* ... and lies in memory that the child granted.
InsideChild ==
  \A p \in Held : \E b \in Bases : b <= p /\ p + live[p] <= b + child[b]

(***************************************************************************)
(* The chain holds every block the child granted, with its size, so that   *)
(* arena_destroy_fn gives back all of them as they were taken.             *)
(***************************************************************************)
ChainComplete ==
  phase = "ready" =>
    /\ Reach = {b \in Bases : child[b] # 0}
    /\ \A b \in Reach : child[b] = sizeof_arena_block + bsize[b]

\* After arena_destroy_fn the child has everything back.
NothingLeaked == phase = "none" => \A b \in Bases : child[b] = 0

(***************************************************************************)
(* In every block the child has granted, whatever the bytes were before:   *)
(* the header can be read, at any time until the block is given back; the  *)
(* clients can use what they hold, after any grow or move; and an access   *)
(* past the offset is caught.                                              *)
(***************************************************************************)
ShadowSound ==
  /\ \A p \in Held : Bytes(p, live[p]) \subseteq unpoisoned
  /\ \A b \in {c \in Bases : child[c] # 0} :
       /\ Bytes(b, sizeof_arena_block) \subseteq unpoisoned
       /\ unpoisoned \cap Bytes(block_start(b) + offset[b], bsize[b] - offset[b]) = {}

\* arena_destroy_fn ends.
DestroyEnds == (phase = "destroy") ~> (phase = "none")

\* The client sees a heap as allo.h promises it.
Contract == INSTANCE Heap WITH Addr <- Ptrs, Request <- Sizes, Align <- Alignment

ImplementsHeap == Contract!Spec
=============================================================================
