-------------------------------- MODULE Pool --------------------------------
(***************************************************************************)
(* The pool allocator, src/src/allo_pool.c: blocks of one size on a singly *)
(* linked free list whose links live in the free blocks themselves.        *)
(*                                                                         *)
(* A block is named by its number in the buffer.  The shadow is kept in    *)
(* granules of sizeof(pool_free_node_t) bytes.                             *)
(***************************************************************************)
EXTENDS Lists

CONSTANTS
  requested,     \* the block_size passed to make_pool_allocator
  total_blocks,  \* ctx->total_blocks
  Sizes          \* sizes the client asks for

ASSUME PoolAssumption ==
  /\ requested \in Nat \ {0}
  /\ total_blocks \in Nat \ {0}
  /\ Sizes \subseteq Nat

sizeof_pool_free_node == 8

align_up(x) ==
  sizeof_pool_free_node * ((x + sizeof_pool_free_node - 1) \div sizeof_pool_free_node)

\* ctx->block_size
block_size ==
  align_up(IF requested < sizeof_pool_free_node THEN sizeof_pool_free_node
                                                ELSE requested)

Block == 0..(total_blocks - 1)

VARIABLES
  phase,       \* "none": not made, or destroyed; "ready"
  own_buffer,  \* the buffer came from the child allocator
  child,       \* bytes the pool holds of the child
  free_list,   \* first free block
  next,        \* the link in the header of each free block
  unpoisoned,  \* ASan shadow: granules that may be accessed
  live         \* size held in each block, 0: none

vars == <<phase, own_buffer, child, free_list, next, unpoisoned, live>>

Granules == block_size \div sizeof_pool_free_node
Header(i) == {i * Granules}
Body(i) == (i * Granules)..((i + 1) * Granules - 1)

Init ==
  /\ phase = "none"
  /\ own_buffer = FALSE
  /\ child = 0
  /\ free_list = NULL
  /\ next = [i \in Block |-> NULL]
  /\ unpoisoned = {}
  /\ live = [i \in Block |-> 0]

-----------------------------------------------------------------------------
(* make_pool_allocator and pool_destroy_fn *)

\* Mutant: the last block is linked back to the first.
initial_link_ring(i) == (i + 1) % total_blocks

\* The list that make_pool_allocator threads through the buffer.
initial_link(i) == IF i < total_blocks - 1 THEN i + 1 ELSE NULL

\* With a buffer of the caller's (own = FALSE) or one from the child.
Make(own) ==
  /\ phase = "none"
  /\ phase' = "ready"
  /\ own_buffer' = own
  /\ child' = IF own THEN block_size * total_blocks ELSE 0
  /\ free_list' = 0
  /\ next' = [i \in Block |-> initial_link(i)]
  /\ unpoisoned' = UNION {Header(i) : i \in Block}
  /\ live' = [i \in Block |-> 0]

\* The child has no memory: ALLO_ERR_NOMEM, nothing is kept.
MakeFails ==
  /\ phase = "none"
  /\ UNCHANGED vars

\* Mutant: returns the size the pool was asked for, before it was rounded.
returned_requested == requested * total_blocks

\* The size pool_destroy_fn passes to the child's allo_free.
returned == block_size * total_blocks

\* The blocks still live go with the buffer, and the list with them.  The
\* shadow is left as it is.
Destroy ==
  /\ phase = "ready"
  /\ phase' = "none"
  /\ child' = IF own_buffer THEN child - returned ELSE child
  /\ own_buffer' = FALSE
  /\ free_list' = NULL
  /\ next' = [i \in Block |-> NULL]
  /\ live' = [i \in Block |-> 0]
  /\ UNCHANGED unpoisoned

-----------------------------------------------------------------------------
(* pool_alloc_fn, pool_free_fn, pool_realloc_fn *)

\* Mutant: the head stays on the list.
pop_none == free_list

\* The head of the list leaves it.
pop == next[free_list]

\* The link of a block handed out is the client's memory now; it is kept at
\* NULL.
Alloc(n) ==
  /\ phase = "ready"
  /\ n # 0 /\ n <= block_size
  /\ free_list # NULL
  /\ free_list' = pop
  /\ next' = [next EXCEPT ![free_list] = NULL]
  /\ unpoisoned' = unpoisoned \cup Body(free_list)
  /\ live' = [live EXCEPT ![free_list] = n]
  /\ UNCHANGED <<phase, own_buffer, child>>

\* allo_alloc, or allo_realloc to a size no block has, returns NULL.
AllocNull(n) ==
  /\ phase = "ready"
  /\ n = 0 \/ n > block_size \/ free_list = NULL
  /\ UNCHANGED vars

\* Mutant: a header the list still needs is poisoned with its block.
free_shadow_all(i) == unpoisoned \ Body(i)

\* The block is poisoned but for the header that links it.
free_shadow(i) == (unpoisoned \ Body(i)) \cup Header(i)

Free(i) ==
  /\ phase = "ready"
  /\ live[i] # 0
  /\ unpoisoned' = free_shadow(i)
  /\ next' = [next EXCEPT ![i] = free_list]
  /\ free_list' = i
  /\ live' = [live EXCEPT ![i] = 0]
  /\ UNCHANGED <<phase, own_buffer, child>>

\* Mutant: any size is granted in place.
realloc_fits_any(n) == TRUE

realloc_fits(n) == n <= block_size

\* A size that fits leaves the block where it is; a larger one is refused as in
\* AllocNull.
Realloc(i, n) ==
  /\ phase = "ready"
  /\ live[i] # 0 /\ n # 0 /\ n # live[i]
  /\ realloc_fits(n)
  /\ live' = [live EXCEPT ![i] = n]
  /\ UNCHANGED <<phase, own_buffer, child, free_list, next, unpoisoned>>

Next ==
  \/ \E own \in BOOLEAN : Make(own)
  \/ MakeFails
  \/ Destroy
  \/ \E n \in Sizes : Alloc(n) \/ AllocNull(n)
  \/ \E i \in Block : Free(i)
  \/ \E i \in Block, n \in Sizes : Realloc(i, n)

Spec == Init /\ [][Next]_vars

-----------------------------------------------------------------------------
(* Properties *)

FreeBlocks == {i \in Block : phase = "ready" /\ live[i] = 0}

(***************************************************************************)
(* The free list leads only through free blocks, and no block has two      *)
(* predecessors: popping the head never hands out a block that a client    *)
(* holds or that is still on the list.                                     *)
(***************************************************************************)
ListSound ==
  /\ free_list # NULL => free_list \in FreeBlocks
  /\ \A i \in FreeBlocks :
       next[i] # NULL => next[i] \in FreeBlocks /\ next[i] # free_list
  /\ \A i, j \in FreeBlocks : next[i] # NULL /\ next[i] = next[j] => i = j

(***************************************************************************)
(* No block is lost: the walk from the head ends, and meets every block no *)
(* client holds, whatever the order of allocations and frees.              *)
(***************************************************************************)
ListComplete ==
  /\ WalkEnds(free_list, next, total_blocks)
  /\ Walked(free_list, next, total_blocks) = FreeBlocks

\* The shadow is exact: the blocks held and the headers of the others, also in
\* a pool made again over a buffer another one has used.
ShadowExact ==
  phase = "ready" =>
  unpoisoned = UNION ({Body(i) : i \in {j \in Block : live[j] # 0}}
                      \cup {Header(i) : i \in FreeBlocks})

(***************************************************************************)
(* The pool holds the child's memory exactly while it exists with a buffer *)
(* of its own: pool_destroy_fn returns what make_pool_allocator took.      *)
(***************************************************************************)
ChildBalanced ==
  child = IF phase = "ready" /\ own_buffer THEN block_size * total_blocks ELSE 0

\* The client sees a heap as allo.h promises it.
Addrs == {i * block_size : i \in Block}

Contract == INSTANCE Heap WITH
              Addr <- Addrs, Request <- Sizes, Align <- 8,
              Extent <- block_size * total_blocks,
              live <- [a \in Addrs |-> live[a \div block_size]]

ImplementsHeap == Contract!Spec
=============================================================================
