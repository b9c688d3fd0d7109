------------------------------- MODULE Buddy -------------------------------
(***************************************************************************)
(* The binary buddy allocator, src/src/allo_buddy.c, once                  *)
(* make_buddy_allocator has returned ALLO_OK.                              *)
(*                                                                         *)
(* A block is a node <<level, index>> of the buddy tree: it starts         *)
(* index * (total_size >> level) bytes into the buffer and is              *)
(* (total_size >> level) bytes long.  A buddy_node_t pointer into the list *)
(* of a level is represented by the block's index at that level; NULL, of  *)
(* Lists, is no block's.                                                   *)
(*                                                                         *)
(* A call runs in steps: its entry, one step per iteration of its loop,    *)
(* its return.  Nothing else is enabled while a call runs, so the steps    *)
(* are those of one sequential caller; they expose the states inside the   *)
(* loops, and make the loops' termination something to check.              *)
(***************************************************************************)
EXTENDS Lists

CONSTANTS
  max_order,  \* ctx->max_order: the buffer has 2^max_order bytes
  min_order,  \* get_order(ctx->min_block_size), 5 in the code
  Sizes       \* sizes the client passes to allo_alloc and allo_realloc

\* 1ULL << n
Pow2(n) == 2^n

sizeof_buddy_node == 16
WordBits == 64

\* get_order, the compiled branch: 64 - __builtin_clzll(s - 1).
get_order(s) ==
  IF s <= 1 THEN 0
            ELSE CHOOSE n \in 1..WordBits : Pow2(n - 1) < s /\ s <= Pow2(n)

ASSUME OrderAssumption ==
  /\ min_order \in Nat
  /\ max_order \in Nat
  /\ min_order <= max_order
  /\ sizeof_buddy_node <= Pow2(min_order)

(***************************************************************************)
(* Laws of exponents, for the provers, which have no theory of 2^n, and    *)
(* what the compiler's count-leading-zeros builtin gives get_order.        *)
(***************************************************************************)
ASSUME PowAssumption ==
  /\ Pow2(0) = 1
  /\ \A n \in 0..max_order :
       /\ Pow2(n) \in Nat \ {0}
       /\ Pow2(n + 1) = 2 * Pow2(n)
       /\ \A m \in 0..n : Pow2(m) <= Pow2(n)

ASSUME SizesAssumption ==
  /\ Sizes \subseteq Nat
  /\ \A s \in Sizes : get_order(s) \in Nat /\ s <= Pow2(get_order(s))

total_size == Pow2(max_order)
num_levels == max_order - min_order + 1

Levels == 0..(num_levels - 1)
Node == {n \in Levels \X (0..Pow2(num_levels)) : n[2] < Pow2(n[1])}
NoBlock == <<NULL, NULL>>

\* ctx->total_size >> level
level_size(l) == Pow2(max_order - l)

\* Where block <<l, i>> starts and where the next one of its size does.
Start(l, i) == i * level_size(l)
End(l, i) == (i + 1) * level_size(l)

VARIABLES
  free_lists,  \* head of each level's list of free blocks
  next, prev,  \* the links in the header of each listed block
  bitset,      \* numbers of the bits that are set: blocks free at their level
  unpoisoned,  \* ASan shadow: 16-byte granules that may be accessed
  live,        \* size asked for by the holder of each block, 0: not handed out
  pc,          \* idle, or the loop the running call is in
  level, index,  \* locals of that call: the block it holds
  size,        \* the size it allocates
  old          \* the block a running realloc replaces

vars == <<free_lists, next, prev, bitset, unpoisoned, live,
          pc, level, index, size, old>>

-----------------------------------------------------------------------------
(* The buddy tree and its bitset *)

\* Mutant: bits of different levels are not kept apart.
node_index_flat(l, i) == 2 * l + i

node_index(l, i) == Pow2(l) + i - 1

set_bit(bits, l, i) == bits \cup {node_index(l, i)}

\* Mutant: the bit stays set.
clear_bit_noop(bits, l, i) == bits

clear_bit(bits, l, i) == bits \ {node_index(l, i)}

get_bit(bits, l, i) == node_index(l, i) \in bits

\* index ^ 1
buddy_idx(i) == IF i % 2 = 0 THEN i + 1 ELSE i - 1

\* Mutant: rounds down where the request is not a power of two.
target_level_floor(s) ==
  LET order == IF s # Pow2(get_order(s)) THEN get_order(s) - 1
                                         ELSE get_order(s)
  IN max_order - (IF order < min_order THEN min_order ELSE order)

\* The level of the smallest blocks a request of s bytes fits; negative when
\* it fits none.
target_level(s) ==
  LET order == get_order(s)
  IN max_order - (IF order < min_order THEN min_order ELSE order)

\* Levels the search of buddy_alloc_fn stops at: not below the target, and
\* with a free block.
Candidates(s) == {l \in Levels : l <= target_level(s) /\ free_lists[l] # NULL}

\* The loop at the head of buddy_alloc_fn: from the target level towards the
\* root, the first list that has a block.
search_level(s) ==
  CHOOSE l \in Candidates(s) : \A m \in Candidates(s) : m <= l

-----------------------------------------------------------------------------
(* The free lists *)

\* Mutant: the old head keeps prev = NULL.
list_push_noprev(l, i) ==
  /\ next' = [next EXCEPT ![<<l, i>>] = free_lists[l]]
  /\ prev' = [prev EXCEPT ![<<l, i>>] = NULL]
  /\ free_lists' = [free_lists EXCEPT ![l] = i]

list_push(l, i) ==
  /\ next' = [next EXCEPT ![<<l, i>>] = free_lists[l]]
  /\ prev' = [n \in Node |-> IF n = <<l, i>> THEN NULL
                             ELSE IF n = <<l, free_lists[l]>> THEN i
                             ELSE prev[n]]
  /\ free_lists' = [free_lists EXCEPT ![l] = i]

\* The links of a block that leaves its list are dead: the block is about to
\* be handed out or swallowed by a larger one.  They are kept at NULL.
list_remove(l, i) ==
  /\ next' = [n \in Node |-> IF n = <<l, i>> THEN NULL
                             ELSE IF n = <<l, prev[<<l, i>>]>>
                               THEN next[<<l, i>>]
                             ELSE next[n]]
  /\ prev' = [n \in Node |-> IF n = <<l, i>> THEN NULL
                             ELSE IF n = <<l, next[<<l, i>>]>>
                               THEN prev[<<l, i>>]
                             ELSE prev[n]]
  /\ free_lists' = IF prev[<<l, i>>] = NULL
                     THEN [free_lists EXCEPT ![l] = next[<<l, i>>]]
                     ELSE free_lists

-----------------------------------------------------------------------------
(* The ASan shadow, in granules of sizeof(buddy_node_t) bytes *)

Header(l, i) == {Start(l, i) \div sizeof_buddy_node}

Body(l, i) ==
  Start(l, i) \div sizeof_buddy_node .. End(l, i) \div sizeof_buddy_node - 1

-----------------------------------------------------------------------------
(* buddy_alloc_fn *)

Init ==
  /\ free_lists = [l \in Levels |-> IF l = 0 THEN 0 ELSE NULL]
  /\ next = [n \in Node |-> NULL]
  /\ prev = [n \in Node |-> NULL]
  /\ bitset = set_bit({}, 0, 0)
  /\ unpoisoned = Header(0, 0)
  /\ live = [n \in Node |-> 0]
  /\ pc = "idle"
  /\ level = 0
  /\ index = 0
  /\ size = 0
  /\ old = NoBlock

\* Entry of buddy_alloc_fn up to its split loop: take the head of the list
\* the search found.
buddy_alloc(s, replaced) ==
  /\ s # 0
  /\ target_level(s) >= 0
  /\ Candidates(s) # {}
  /\ LET l == search_level(s)
         i == free_lists[l]
     IN /\ list_remove(l, i)
        /\ bitset' = clear_bit(bitset, l, i)
        /\ unpoisoned' = unpoisoned \cup Header(l, i)
        /\ level' = l
        /\ index' = i
  /\ pc' = "split"
  /\ size' = s
  /\ old' = replaced
  /\ UNCHANGED live

Alloc(s) ==
  /\ pc = "idle"
  /\ buddy_alloc(s, NoBlock)

\* allo_alloc or allo_realloc returns NULL: nothing was asked for, the request
\* is larger than the buffer, or no list has a large enough block.
AllocNull(s) ==
  /\ pc = "idle"
  /\ s = 0 \/ target_level(s) < 0 \/ Candidates(s) = {}
  /\ UNCHANGED vars

\* Mutant: the loop forgets to go down one level.
Split_stuck ==
  /\ pc = "split"
  /\ level < target_level(size)
  /\ UNCHANGED vars

\* One iteration of the split loop: the right half goes to its list, the left
\* half stays with the call.
Split ==
  /\ pc = "split"
  /\ level < target_level(size)
  /\ level' = level + 1
  /\ index' = 2 * index
  /\ unpoisoned' = unpoisoned \cup Header(level + 1, 2 * index + 1)
  /\ list_push(level + 1, 2 * index + 1)
  /\ bitset' = clear_bit(set_bit(bitset, level + 1, 2 * index + 1),
                         level + 1, 2 * index)
  /\ UNCHANGED <<live, pc, size, old>>

\* The block is unpoisoned and returned to the client of allo_alloc.
AllocReturn ==
  /\ pc = "split"
  /\ level = target_level(size)
  /\ old = NoBlock
  /\ unpoisoned' = unpoisoned \cup Body(level, index)
  /\ live' = [live EXCEPT ![<<level, index>>] = size]
  /\ pc' = "idle"
  /\ level' = 0
  /\ index' = 0
  /\ size' = 0
  /\ UNCHANGED <<free_lists, next, prev, bitset, old>>

-----------------------------------------------------------------------------
(* buddy_free_fn *)

\* Mutant: trusts the level the block was cut at instead of its size.
free_level_min(s) == num_levels - 1

\* The level buddy_free_fn derives from the size the client passes.
free_level(s) == target_level(s)

\* index = offset / (total_size >> level), for the pointer to block n.
free_index(n) ==
  Start(n[1], n[2]) \div level_size(free_level(live[n]))

\* Mutant: the freed block stays accessible.
poison_none(shadow, l, i) == shadow

poison(shadow, l, i) == shadow \ Body(l, i)

Free(n) ==
  /\ pc = "idle"
  /\ live[n] # 0
  /\ live' = [live EXCEPT ![n] = 0]
  /\ level' = free_level(live[n])
  /\ index' = free_index(n)
  /\ unpoisoned' = poison(unpoisoned, free_level(live[n]), free_index(n))
  /\ pc' = "merge"
  /\ UNCHANGED <<free_lists, next, prev, bitset, size, old>>

\* Mutant: never joins a block to its buddy.
BuddyFree_never == FALSE

\* Mutant: the index is not halved when the block becomes its parent.
parent_idx_same(i) == i

\* index >> 1
parent_idx(i) == i \div 2

\* The merge loop goes on: there is a parent, and the buddy's bit is set.
BuddyFree == level > 0 /\ get_bit(bitset, level, buddy_idx(index))

\* One iteration of the merge loop: the free buddy leaves its list and the
\* call holds the parent.
Merge ==
  /\ pc = "merge"
  /\ BuddyFree
  /\ list_remove(level, buddy_idx(index))
  /\ unpoisoned' = unpoisoned \ Header(level, buddy_idx(index))
  /\ bitset' = clear_bit(bitset, level, buddy_idx(index))
  /\ level' = level - 1
  /\ index' = parent_idx(index)
  /\ UNCHANGED <<live, pc, size, old>>

\* The root, or the buddy is in use: the block goes to its level's list.
FreeReturn ==
  /\ pc = "merge"
  /\ ~BuddyFree
  /\ bitset' = set_bit(bitset, level, index)
  /\ unpoisoned' = unpoisoned \cup Header(level, index)
  /\ list_push(level, index)
  /\ pc' = "idle"
  /\ level' = 0
  /\ index' = 0
  /\ UNCHANGED <<live, size, old>>

-----------------------------------------------------------------------------
(* buddy_realloc_fn *)

\* Past the early returns of allo_realloc (a new size of 0 is Free, the same
\* size changes nothing) realloc allocates first.
Realloc(n, s) ==
  /\ pc = "idle"
  /\ live[n] # 0
  /\ s # live[n]
  /\ buddy_alloc(s, n)

\* The new block is there: the contents are copied and buddy_free_fn is
\* entered for the old block.
ReallocMove ==
  /\ pc = "split"
  /\ level = target_level(size)
  /\ old # NoBlock
  /\ live' = [live EXCEPT ![<<level, index>>] = size, ![old] = 0]
  /\ unpoisoned' = poison(unpoisoned \cup Body(level, index),
                          free_level(live[old]), free_index(old))
  /\ level' = free_level(live[old])
  /\ index' = free_index(old)
  /\ pc' = "merge"
  /\ size' = 0
  /\ old' = NoBlock
  /\ UNCHANGED <<free_lists, next, prev, bitset>>

-----------------------------------------------------------------------------
Client ==
  \/ \E s \in Sizes : Alloc(s)
  \/ \E s \in Sizes : AllocNull(s)
  \/ \E n \in Node : Free(n)
  \/ \E n \in Node, s \in Sizes : Realloc(n, s)

\* The steps of a call that is running.
Running == Split \/ AllocReturn \/ ReallocMove \/ Merge \/ FreeReturn

Next == Client \/ Running

Spec == Init /\ [][Next]_vars

\* A call that runs goes on running.
FairSpec == Spec /\ WF_vars(Running)

-----------------------------------------------------------------------------
(* Properties *)

FreeBlocks == {n \in Node : get_bit(bitset, n[1], n[2])}
HeldBlocks == {n \in Node : live[n] # 0}

\* The block a running call has taken and not yet handed out or listed.
InHand == IF pc = "idle" THEN {} ELSE {<<level, index>>}

\* The blocks the memory is divided into.
Blocks == FreeBlocks \cup HeldBlocks \cup InHand

Disjoint(m, n) ==
  \/ End(m[1], m[2]) <= Start(n[1], n[2])
  \/ End(n[1], n[2]) <= Start(m[1], m[2])

(***************************************************************************)
(* Type invariant.  Its parts about the locals of a running call say that  *)
(* buddy_alloc_fn and buddy_free_fn only ever compute blocks of the tree,  *)
(* and a realloc only replaces a block its client holds.                   *)
(***************************************************************************)
TypeOK ==
  /\ free_lists \in [Levels -> Int]
  /\ \A l \in Levels : free_lists[l] = NULL \/ <<l, free_lists[l]>> \in Node
  /\ next \in [Node -> Int]
  /\ prev \in [Node -> Int]
  /\ bitset \subseteq {node_index(n[1], n[2]) : n \in Node}
  /\ unpoisoned \subseteq Int
  /\ live \in [Node -> Sizes \cup {0}]
  /\ pc \in {"idle", "split", "merge"}
  /\ <<level, index>> \in Node
  /\ size \in Sizes \cup {0}
  /\ old = NoBlock \/ (old \in HeldBlocks /\ pc = "split")
  /\ pc = "split" => size # 0 /\ target_level(size) \in Levels
                     /\ level <= target_level(size)

(***************************************************************************)
(* No byte is in two blocks: what is listed as free, what clients hold and *)
(* what a call is splitting or merging share no memory, at every iteration *)
(* of the loops of buddy_alloc_fn and buddy_free_fn.                       *)
(***************************************************************************)
NoOverlap ==
  /\ \A m, n \in Blocks : m # n => Disjoint(m, n)
  /\ FreeBlocks \cap HeldBlocks = {}
  /\ InHand \cap (FreeBlocks \cup HeldBlocks) = {}

(***************************************************************************)
(* No byte is lost: splitting and merging never drop part of the buffer.   *)
(***************************************************************************)
NoLeak ==
  \A x \in 0..(total_size - 1) :
    \E n \in Blocks : Start(n[1], n[2]) <= x /\ x < End(n[1], n[2])

(***************************************************************************)
(* A block is handed out at the level its size maps to, so that            *)
(* buddy_free_fn, which only has the size, finds the level it was cut at.  *)
(***************************************************************************)
LevelFromSize ==
  \A n \in HeldBlocks : n[1] = target_level(live[n]) /\ live[n] <= level_size(n[1])

(***************************************************************************)
(* Each free list is a proper doubly linked list at every block of it, and *)
(* the blocks outside the lists have no links: what list_push and          *)
(* list_remove, which unlinks from the middle without a walk, rely on.     *)
(***************************************************************************)
LinksConsistent ==
  /\ \A l \in Levels : free_lists[l] # NULL =>
       /\ <<l, free_lists[l]>> \in FreeBlocks
       /\ prev[<<l, free_lists[l]>>] = NULL
  /\ \A n \in FreeBlocks :
       /\ next[n] # NULL => /\ <<n[1], next[n]>> \in FreeBlocks
                            /\ prev[<<n[1], next[n]>>] = n[2]
       /\ prev[n] # NULL => /\ <<n[1], prev[n]>> \in FreeBlocks
                            /\ next[<<n[1], prev[n]>>] = n[2]
       /\ prev[n] = NULL => free_lists[n[1]] = n[2]
  /\ \A n \in Node \ FreeBlocks : next[n] = NULL /\ prev[n] = NULL

\* The next pointers in the headers of level l's blocks.
list_links(l) == [i \in 0..(Pow2(l) - 1) |-> next[<<l, i>>]]

\* The blocks of level l whose bit is set.
FreeAt(l) == {i \in 0..(Pow2(l) - 1) : get_bit(bitset, l, i)}

(***************************************************************************)
(* The two records of what is free agree: walking a level's list from its  *)
(* head ends, and meets exactly the blocks whose bit is set.  The bitset   *)
(* is what buddy_free_fn merges by, the lists what buddy_alloc_fn takes    *)
(* from.                                                                   *)
(***************************************************************************)
ListsMatchBitset ==
  \A l \in Levels :
    /\ WalkEnds(free_lists[l], list_links(l), Pow2(l))
    /\ Walked(free_lists[l], list_links(l), Pow2(l)) = FreeAt(l)

(***************************************************************************)
(* Merging is eager: two buddies are never both free, in no state of any   *)
(* call.                                                                   *)
(***************************************************************************)
Coalesced ==
  \A n \in FreeBlocks : n[1] > 0 => <<n[1], buddy_idx(n[2])>> \notin FreeBlocks

(***************************************************************************)
(* buddy_alloc_fn refuses a request only when it must: if some block of    *)
(* the request's level is clear of every held block, the search finds one. *)
(* In particular, when everything has been freed, in whatever order, the   *)
(* whole buffer can be had again ("perfect coalescing", test_buddy.c).     *)
(***************************************************************************)
NoFalseRefusal ==
  pc = "idle" =>
    \A s \in Sizes \ {0} :
      /\ target_level(s) >= 0
      /\ \E n \in Node : n[1] = target_level(s)
                         /\ \A h \in HeldBlocks : Disjoint(n, h)
      => Candidates(s) # {}

(***************************************************************************)
(* The ASan shadow is exact: accessible are the blocks clients hold, the   *)
(* list headers of the free blocks, the header of a block being split, and *)
(* nothing else; a header is poisoned again when its block is merged.      *)
(***************************************************************************)
ShadowExact ==
  unpoisoned =
    UNION ({Body(n[1], n[2]) : n \in HeldBlocks}
           \cup {Header(n[1], n[2]) : n \in FreeBlocks}
           \cup (IF pc = "split" THEN {Header(level, index)} ELSE {}))

(***************************************************************************)
(* The loops end: every call of alloc, free or realloc returns.            *)
(***************************************************************************)
CallsReturn == (pc # "idle") ~> (pc = "idle")

(***************************************************************************)
(* What the client sees of the buddy allocator is a heap as allo.h         *)
(* promises it.                                                            *)
(***************************************************************************)
Addrs == {Start(num_levels - 1, i) : i \in 0..(Pow2(num_levels - 1) - 1)}

HeapLive ==
  [a \in Addrs |->
     IF \E n \in HeldBlocks : Start(n[1], n[2]) = a
       THEN live[CHOOSE n \in HeldBlocks : Start(n[1], n[2]) = a]
       ELSE 0]

Contract == INSTANCE Heap WITH Addr <- Addrs, Request <- Sizes,
                               Extent <- total_size, Align <- 8,
                               live <- HeapLive

ImplementsHeap == Contract!Spec

=============================================================================
