----------------------------- MODULE BuddyLife ------------------------------
(***************************************************************************)
(* The life of a buddy allocator: make_buddy_allocator with a failure of   *)
(* each allocation it makes, and buddy_destroy_fn, src/src/allo_buddy.c.   *)
(* Module Buddy starts where make_buddy_allocator returns ALLO_OK.         *)
(*                                                                         *)
(* size_t is a word of WordBits bits: sums and products wrap.  child is    *)
(* what the child allocator has on record: it may refuse any request, and  *)
(* refuses one of 0 bytes, as every _alloc of the library does.  A block   *)
(* given back that is not on the record, or with another size, is Corrupt. *)
(***************************************************************************)
EXTENDS Integers, Sequences

CONSTANTS
  WordBits,    \* width of size_t
  BufferSizes  \* sizes a client makes buddy allocators with

Pow2(n) == 2^n

WordMax == Pow2(WordBits) - 1
wrap(x) == x % (WordMax + 1)

\* Above half of the address space the rounding loop does not end.
ASSUME LifeAssumption ==
  /\ WordBits \in Nat \ {0}
  /\ BufferSizes \subseteq 1..Pow2(WordBits - 1)

\* Laws of exponents, for the provers, which have no theory of 2^n.
ASSUME PowAssumption ==
  /\ Pow2(0) = 1
  /\ \A n \in 0..WordBits :
       /\ Pow2(n) \in Nat /\ n < Pow2(n)
       /\ Pow2(n + 1) = 2 * Pow2(n)
       /\ \A m \in 0..n : Pow2(m) <= Pow2(n) /\ Pow2(m) * Pow2(n - m) = Pow2(n)

min_block_size == 32
sizeof_pointer == 8
Corrupt == -1

\* What the factory asks its child for, in this order; the client may bring
\* the buffer.
Parts == {"buffer", "free_lists", "bitset", "block_orders"}

VARIABLES
  pc,          \* "none", "round", the part asked for next, or "ready"
  size,        \* the size the factory was called with
  total_size,  \* ctx->total_size
  own_buffer,  \* ctx->own_buffer
  child        \* bytes the child has on record for each part

buddy_vars == <<pc, size, total_size, own_buffer, child>>

BuddyInit ==
  /\ pc = "none"
  /\ size = 0
  /\ total_size = 0
  /\ own_buffer = FALSE
  /\ child = [q \in Parts |-> 0]

-----------------------------------------------------------------------------
(* Orders *)

\* The number of significant bits: the word's width less the leading zeros.
bit_length(val) == CHOOSE n \in 0..WordBits : val < Pow2(n) /\ (n > 0 => val >= Pow2(n - 1))

\* get_order where the compiler counts leading zeros.
get_order(n) == IF n <= 1 THEN 0 ELSE bit_length(n - 1)

\* Mutant: the last bit is not counted.
last_bit_lost(val) == 0

\* if (val & 0x1U) order += 1
last_bit(val) == val % 2

\* if (val & mask) { val >>= k; order += k; }: the k bits above the lowest k.
halve(acc, k) ==
  IF (acc.val \div Pow2(k)) % Pow2(k) # 0
  THEN [val |-> acc.val \div Pow2(k), order |-> acc.order + k]
  ELSE acc

\* get_order elsewhere: halve the range of bits that may hold the highest one.
get_order_portable(n) ==
  LET start == [val |-> n - 1, order |-> 0]
      word == IF WordBits > 32 THEN halve(start, 32) ELSE start
      found == halve(halve(halve(halve(halve(word, 16), 8), 4), 2), 1)
  IN IF n <= 1 THEN 0 ELSE found.order + last_bit(found.val)

-----------------------------------------------------------------------------
(* Sizes of the tables *)

\* Negative for a buffer of less than half a smallest block.
num_levels == get_order(total_size) - get_order(min_block_size) + 1

free_lists_count == wrap(wrap(num_levels) + 1)

\* Mutant: room for the smallest blocks only, not for the nodes above them.
max_nodes_leaves == total_size \div min_block_size

max_nodes == (total_size \div min_block_size) * 2

bit_bytes == (max_nodes + 7) \div 8
block_orders_len == total_size \div min_block_size

\* The bytes allo_calloc asks for, 0 when the product would wrap.
allo_calloc(nmemb, n) == IF n > 0 /\ nmemb > WordMax \div n THEN 0 ELSE nmemb * n

\* What the factory requests, and passes to allo_free when a later one fails.
bytes ==
  [buffer |-> total_size,
   free_lists |-> allo_calloc(free_lists_count, sizeof_pointer),
   bitset |-> allo_calloc(bit_bytes, 1),
   block_orders |-> allo_calloc(block_orders_len, 1)]

\* What buddy_destroy_fn computes again from ctx.
destroy_bytes ==
  [buffer |-> total_size,
   free_lists |-> wrap(free_lists_count * sizeof_pointer),
   bitset |-> bit_bytes,
   block_orders |-> block_orders_len]

-----------------------------------------------------------------------------
(* make_buddy_allocator *)

\* Mutant: the loop starts at 0, which no shift changes.
first_size_zero == 0

first_size == 1

Make(n, own) ==
  /\ pc = "none"
  /\ n # 0
  /\ pc' = "round"
  /\ size' = n
  /\ total_size' = first_size
  /\ own_buffer' = own
  /\ UNCHANGED child

\* One iteration of the loop that finds the power of two.
Round ==
  /\ pc = "round"
  /\ total_size < size
  /\ total_size' = wrap(2 * total_size)
  /\ UNCHANGED <<pc, size, own_buffer, child>>

Rounded ==
  /\ pc = "round"
  /\ total_size >= size
  /\ pc' = IF own_buffer THEN "buffer" ELSE "free_lists"
  /\ UNCHANGED <<size, total_size, own_buffer, child>>

following == [buffer |-> "free_lists", free_lists |-> "bitset",
              bitset |-> "block_orders", block_orders |-> "ready"]

Grant ==
  /\ pc \in Parts
  /\ bytes[pc] # 0
  /\ child' = [child EXCEPT ![pc] = bytes[pc]]
  /\ pc' = following[pc]
  /\ UNCHANGED <<size, total_size, own_buffer>>

the_buffer == IF own_buffer THEN {"buffer"} ELSE {}

\* Mutant: the lists are forgotten when the last table is refused.
cleanup_short ==
  [buffer |-> {}, free_lists |-> the_buffer,
   bitset |-> {"free_lists"} \cup the_buffer,
   block_orders |-> {"bitset"} \cup the_buffer]

\* What is freed when each part is refused.
cleanup ==
  [buffer |-> {}, free_lists |-> the_buffer,
   bitset |-> {"free_lists"} \cup the_buffer,
   block_orders |-> {"bitset", "free_lists"} \cup the_buffer]

\* The child's record after parts were given back with these sizes.
given_back(parts, sizes) ==
  [q \in Parts |-> IF q \notin parts THEN child[q]
                   ELSE IF child[q] = sizes[q] THEN 0 ELSE Corrupt]

\* No allocator is left: ALLO_ERR_NOMEM, or after destroy.
gone ==
  /\ pc' = "none"
  /\ size' = 0
  /\ total_size' = 0
  /\ own_buffer' = FALSE

Refuse ==
  /\ pc \in Parts
  /\ child' = given_back(cleanup[pc], bytes)
  /\ gone

BuddyMaking == Round \/ Rounded \/ Grant \/ Refuse

-----------------------------------------------------------------------------
(* buddy_destroy_fn *)

BuddyDestroy ==
  /\ pc = "ready"
  /\ child' = given_back((Parts \ {"buffer"}) \cup the_buffer, destroy_bytes)
  /\ gone

-----------------------------------------------------------------------------
(* Properties *)

(***************************************************************************)
(* Whichever of its allocations is refused, the factory gives back exactly *)
(* what it got, with the sizes it got it with, and destroy gives back all  *)
(* of it: nothing stays with the child, nothing is freed twice.            *)
(***************************************************************************)
ChildExact ==
  /\ \A q \in Parts : child[q] # Corrupt
  /\ pc = "none" => \A q \in Parts : child[q] = 0

(***************************************************************************)
(* A factory that returns ALLO_OK, however small or odd the size, made an  *)
(* allocator with at least one level whose tables hold what buddy_alloc_fn *)
(* and buddy_free_fn index: a list per level, a bit per node of the tree,  *)
(* an order per smallest block; its size is the next power of two.         *)
(***************************************************************************)
TablesFit ==
  pc = "ready" =>
    /\ num_levels >= 1
    /\ child["free_lists"] >= num_levels * sizeof_pointer
    /\ child["bitset"] * 8 >= Pow2(num_levels) - 1
    /\ child["block_orders"] >= Pow2(num_levels - 1)
    /\ size <= total_size /\ total_size < 2 * size

\* Arguments of get_order around every power of two, and the small ones.
OrderInputs ==
  (0..300) \cup {Pow2(k) + d : k \in 0..(WordBits - 1), d \in {-1, 0, 1}}

\* The portable branch of get_order gives what counting leading zeros gives,
\* so every level computed from a size is the same in all builds.
OrderAgrees ==
  \A n \in OrderInputs \cup {size, total_size} :
    get_order_portable(n) = get_order(n)
=============================================================================
