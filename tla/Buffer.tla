------------------------------- MODULE Buffer -------------------------------
(***************************************************************************)
(* The fixed buffer allocator, src/src/allo_buffer.c: a bump offset over a *)
(* caller's buffer, with in-place realloc of the last block.               *)
(*                                                                         *)
(* size_t is a word of WordBits bits: sums wrap.  A block is named by its  *)
(* offset in the buffer; live[a] is the size its holder passes to          *)
(* allo_free and allo_realloc, 0 when no live block starts at a.           *)
(***************************************************************************)
EXTENDS Integers

CONSTANTS
  WordBits,  \* width of size_t
  size,      \* ctx->size
  Sizes      \* sizes the client asks for

WordMax == 2^WordBits - 1

ASSUME WordAssumption ==
  /\ WordBits \in Nat /\ WordMax \in Nat
  /\ size \in 1..WordMax
  /\ size + 7 <= WordMax
  /\ Sizes \subseteq 0..WordMax

Alignment == 8
wrap(x) == x % (WordMax + 1)

\* allo_align_up(x, 8)
align_up(x) == Alignment * (wrap(x + Alignment - 1) \div Alignment)

Addrs == {a \in 0..(size - 1) : a % Alignment = 0}

VARIABLES
  offset,      \* ctx->offset
  unpoisoned,  \* ASan shadow: bytes that may be accessed
  live,        \* size held at each offset
  destroyed    \* allo_destroy was called

vars == <<offset, unpoisoned, live, destroyed>>

Bytes(a, n) == a..(a + n - 1)

Init ==
  /\ offset = 0
  /\ unpoisoned = {}
  /\ live = [a \in Addrs |-> 0]
  /\ destroyed = FALSE

-----------------------------------------------------------------------------
(* buf_alloc_fn *)

\* There is room for n bytes past the aligned offset.
fits(n) ==
  /\ align_up(offset) <= size
  /\ n <= size - align_up(offset)

buf_alloc(n) ==
  /\ fits(n)
  /\ offset' = align_up(offset) + n

Alloc(n) ==
  /\ ~destroyed
  /\ n # 0
  /\ buf_alloc(n)
  /\ unpoisoned' = unpoisoned \cup Bytes(align_up(offset), n)
  /\ live' = [live EXCEPT ![align_up(offset)] = n]
  /\ UNCHANGED destroyed

AllocNull(n) ==
  /\ ~destroyed
  /\ n = 0 \/ ~fits(n)
  /\ UNCHANGED vars

-----------------------------------------------------------------------------
(* buf_free_fn, also allo_realloc to size 0: the space is not reclaimed *)

poison(shadow, a, n) == shadow \ Bytes(a, n)

Free(a) ==
  /\ ~destroyed
  /\ live[a] # 0
  /\ unpoisoned' = poison(unpoisoned, a, live[a])
  /\ live' = [live EXCEPT ![a] = 0]
  /\ UNCHANGED <<offset, destroyed>>

-----------------------------------------------------------------------------
(* buf_realloc_fn *)

\* Mutant: every block is taken for the last one.
is_last_alloc_any(a) == TRUE

\* The block ends where the offset is.
is_last_alloc(a) == wrap(a + live[a]) = offset

fits_in_current(a, n) == wrap(a + n) <= size

InPlace(a, n) == is_last_alloc(a) /\ fits_in_current(a, n)

\* Mutant: what a shrinking block gives back stays accessible.
resize_shadow_grow(a, n) ==
  IF n > live[a] THEN unpoisoned \cup Bytes(a + live[a], n - live[a])
                 ELSE unpoisoned

\* The part gained is unpoisoned, the part given back is poisoned.
resize_shadow(a, n) ==
  IF n > live[a] THEN unpoisoned \cup Bytes(a + live[a], n - live[a])
                 ELSE poison(unpoisoned, a + n, live[a] - n)

\* The last block grows or shrinks where it is.
ReallocInPlace(a, n) ==
  /\ ~destroyed
  /\ live[a] # 0 /\ n # 0 /\ n # live[a]
  /\ InPlace(a, n)
  /\ offset' = wrap(a + n)
  /\ unpoisoned' = resize_shadow(a, n)
  /\ live' = [live EXCEPT ![a] = n]
  /\ UNCHANGED destroyed

\* Another block shrinks: nothing changes but what its holder may use.
ReallocShrink(a, n) ==
  /\ ~destroyed
  /\ live[a] # 0 /\ n # 0 /\ n # live[a]
  /\ ~InPlace(a, n)
  /\ n <= live[a]
  /\ live' = [live EXCEPT ![a] = n]
  /\ UNCHANGED <<offset, unpoisoned, destroyed>>

\* It grows: its contents are copied to a new block, the old one is left.
ReallocMove(a, n) ==
  /\ ~destroyed
  /\ live[a] # 0 /\ n # 0
  /\ ~InPlace(a, n)
  /\ n > live[a]
  /\ buf_alloc(n)
  /\ unpoisoned' = unpoisoned \cup Bytes(align_up(offset), n)
  /\ live' = [live EXCEPT ![a] = 0, ![align_up(offset)] = n]
  /\ UNCHANGED destroyed

-----------------------------------------------------------------------------
(* buf_destroy_fn: using the allocator or its blocks afterwards is undefined *)

Destroy ==
  /\ ~destroyed
  /\ destroyed' = TRUE
  /\ unpoisoned' = {}
  /\ live' = [a \in Addrs |-> 0]
  /\ UNCHANGED offset

Next ==
  \/ \E n \in Sizes : Alloc(n) \/ AllocNull(n)
  \/ \E a \in Addrs : Free(a)
  \/ \E a \in Addrs, n \in Sizes :
       ReallocInPlace(a, n) \/ ReallocShrink(a, n) \/ ReallocMove(a, n)
  \/ Destroy

Spec == Init /\ [][Next]_vars

-----------------------------------------------------------------------------
(* Properties *)

Held == {a \in Addrs : live[a] # 0}

(***************************************************************************)
(* Every live block lies in the buffer: what allo_alloc and allo_realloc   *)
(* return without NULL has the size that was asked for.                    *)
(***************************************************************************)
InsideBuffer == \A a \in Held : a + live[a] <= size

(***************************************************************************)
(* What is_last_alloc relies on: live blocks are apart and none reaches    *)
(* past the offset, so only the last one can end at it.  The offset stays  *)
(* in the buffer, as the ALLO_ASSERT of buf_alloc_fn says.                 *)
(***************************************************************************)
BumpOrder ==
  /\ offset \in 0..size
  /\ \A a \in Held : a + live[a] <= offset
  /\ \A a, b \in Held : a < b => a + live[a] <= b

(***************************************************************************)
(* The shadow never stops a client from using its block, after any grow or *)
(* move, and catches accesses past the last block: no byte past the offset *)
(* is accessible, in particular not what an in-place shrink gave back.     *)
(***************************************************************************)
ShadowSound ==
  /\ \A a \in Held : Bytes(a, live[a]) \subseteq unpoisoned
  /\ unpoisoned \subseteq 0..(offset - 1)

\* The client sees a heap as allo.h promises it.
Contract == INSTANCE Heap WITH Addr <- Addrs, Request <- Sizes,
                               Extent <- size, Align <- Alignment

ImplementsHeap == Contract!Spec
=============================================================================
