-------------------------------- MODULE Page --------------------------------
(***************************************************************************)
(* The page allocator, src/src/allo_page.c: blocks mapped by the operating *)
(* system and a registry of them that itself lives in mapped pages.        *)
(*                                                                         *)
(* Addresses and lengths of mappings are in pages, sizes of blocks and the *)
(* shadow in bytes.  os is the truth the kernel keeps: the length of the   *)
(* mapping at each address.  Any of mmap and mremap may fail, and mremap   *)
(* may move.  The shadow belongs to addresses: it outlives a mapping, and  *)
(* only ALLOC_POISON and ALLOC_UNPOISON change it.                         *)
(***************************************************************************)
EXTENDS Integers, Sequences, FiniteSets

CONSTANTS
  page_size,         \* bytes in a page
  entries_per_page,  \* page_size / sizeof(page_entry_t)
  Pages,             \* number of pages the process may map
  Sizes              \* sizes the client asks for

ASSUME PageAssumption ==
  /\ page_size \in Nat \ {0} /\ entries_per_page \in Nat \ {0}
  /\ Pages \in Nat
  /\ Sizes \subseteq Nat

NULL == -1
PageAddr == 0..(Pages - 1)

VARIABLES
  os,        \* pages mapped at each address, 0: none
  registry,  \* the registry's entries, in order
  reg,       \* where the registry is, NULL: no allocator
  capacity,  \* entries it has room for
  unpoisoned,  \* ASan shadow: the bytes one may access
  live       \* size the client holds at each address, 0: none

vars == <<os, registry, reg, capacity, unpoisoned, live>>

\* Mutant: rounds down.
rounded_down(n) == n \div page_size

\* (n + page_size - 1) & ~(page_size - 1), in pages
rounded(n) == (n + page_size - 1) \div page_size

\* Bytes of k pages.
in_bytes(k) == k * page_size

Bytes(x, n) == x..(x + n - 1)
Memory == Bytes(0, in_bytes(Pages))

\* ALLOC_POISON and ALLOC_UNPOISON: n bytes from x.
poison(shadow, x, n) == shadow \ Bytes(x, n)
unpoison(shadow, x, n) == shadow \cup Bytes(x, n)

\* Pages of the registry: capacity * sizeof(page_entry_t)
reg_pages(cap) == cap \div entries_per_page

Init ==
  /\ os = [a \in PageAddr |-> 0]
  /\ registry = <<>>
  /\ reg = NULL
  /\ capacity = 0
  /\ unpoisoned = Memory
  /\ live = [a \in PageAddr |-> 0]

-----------------------------------------------------------------------------
(* The operating system, src/src/allo_page_posix.h *)

\* k pages may be mapped at a, next to what map says is mapped.
mappable(map, a, k) ==
  /\ a + k <= Pages
  /\ \A b \in PageAddr : map[b] = 0 \/ a + k <= b \/ b + map[b] <= a

\* mremap may answer b: in place, or where there is room beside the old pages.
remappable(a, b, k) ==
  mappable(IF b = a THEN [os EXCEPT ![a] = 0] ELSE os, b, k)

\* mmap: a new mapping of k pages at a.
os_mmap(map, a, k) == [map EXCEPT ![a] = k]

\* munmap: k pages at a.
os_munmap(map, a, k) == [map EXCEPT ![a] = @ - k]

\* mremap: the mapping at a becomes one of k pages at b.
os_mremap(map, a, b, k) == [map EXCEPT ![a] = 0, ![b] = k]

-----------------------------------------------------------------------------
(* make_page_allocator, page_destroy_fn *)

Make(a) ==
  /\ reg = NULL
  /\ mappable(os, a, 1)
  /\ os' = os_mmap(os, a, 1)
  /\ reg' = a
  /\ capacity' = entries_per_page
  /\ registry' = <<>>
  /\ UNCHANGED <<unpoisoned, live>>

\* mmap fails: ALLO_ERR_NOMEM.
MakeFails ==
  /\ reg = NULL
  /\ UNCHANGED vars

\* Mutant: only the pages of the registry are given back.
reclaimed_none == {}

\* The leaked blocks that page_destroy_fn unmaps, one per entry.
reclaimed == {registry[i] : i \in DOMAIN registry}

Destroy ==
  /\ reg # NULL
  /\ os' = [a \in PageAddr |->
              IF a = reg THEN os[a] - reg_pages(capacity)
              ELSE IF \E e \in reclaimed : e.addr = a
                THEN os[a] - (CHOOSE e \in reclaimed : e.addr = a).size
              ELSE os[a]]
  /\ reg' = NULL
  /\ capacity' = 0
  /\ registry' = <<>>
  /\ live' = [a \in PageAddr |-> 0]
  /\ UNCHANGED unpoisoned

-----------------------------------------------------------------------------
(* The registry *)

full == Len(registry) = capacity

\* Mutant: the capacity is not raised with the registry.
grown_none == capacity

\* Capacity after registry_ensure_capacity has added a page.
grown == capacity + entries_per_page

\* registry_ensure_capacity succeeds: the registry has room, or is remapped
\* to b with a page more.
ensured(b) ==
  /\ IF full THEN remappable(reg, b, reg_pages(capacity) + 1) ELSE b = reg
  /\ reg' = b
  /\ capacity' = IF full THEN grown ELSE capacity

\* The kernel's map then.
os_ensured(b) ==
  IF full THEN os_mremap(os, reg, b, reg_pages(capacity) + 1) ELSE os

\* Mutant: the last entry is dropped whichever one goes.
registry_remove_last(a) ==
  IF \E i \in DOMAIN registry : registry[i].addr = a
    THEN SubSeq(registry, 1, Len(registry) - 1) ELSE registry

\* The entry of a is overwritten by the last one.
registry_remove(a) ==
  IF \E i \in DOMAIN registry : registry[i].addr = a
    THEN LET i == CHOOSE j \in DOMAIN registry : registry[j].addr = a
         IN SubSeq([registry EXCEPT ![i] = registry[Len(registry)]],
                   1, Len(registry) - 1)
    ELSE registry

\* The entry of a becomes one of k pages at b.
registry_update(a, b, k) ==
  [i \in DOMAIN registry |->
     IF registry[i].addr = a THEN [addr |-> b, size |-> k] ELSE registry[i]]

-----------------------------------------------------------------------------
(* page_alloc_fn *)

\* The pages of a new block are poisoned, then the n bytes asked for unpoisoned.
opened(shadow, a, n) ==
  unpoison(poison(shadow, in_bytes(a), in_bytes(rounded(n))), in_bytes(a), n)

Alloc(n) ==
  /\ reg # NULL
  /\ n # 0
  /\ \E b, a \in PageAddr :
       /\ ensured(b)
       /\ mappable(os_ensured(b), a, rounded(n))
       /\ os' = os_mmap(os_ensured(b), a, rounded(n))
       /\ registry' = Append(registry, [addr |-> a, size |-> rounded(n)])
       /\ unpoisoned' = opened(unpoisoned, a, n)
       /\ live' = [live EXCEPT ![a] = n]

\* mmap fails after the registry was made to have room.
AllocNoMap(n) ==
  /\ reg # NULL
  /\ n # 0
  /\ \E b \in PageAddr : ensured(b) /\ os' = os_ensured(b)
  /\ UNCHANGED <<registry, unpoisoned, live>>

\* Nothing is asked for, or the registry cannot grow.
AllocNull(n) ==
  /\ reg # NULL
  /\ n = 0 \/ full
  /\ UNCHANGED vars

-----------------------------------------------------------------------------
(* page_free_fn, also allo_realloc to size 0 *)

\* All pages of the block at a are made accessible.
released(a) == unpoison(unpoisoned, in_bytes(a), in_bytes(rounded(live[a])))

Free(a) ==
  /\ reg # NULL
  /\ live[a] # 0
  /\ registry' = registry_remove(a)
  /\ os' = os_munmap(os, a, rounded(live[a]))
  /\ unpoisoned' = released(a)
  /\ live' = [live EXCEPT ![a] = 0]
  /\ UNCHANGED <<reg, capacity>>

-----------------------------------------------------------------------------
(* page_realloc_fn *)

\* The part gained is unpoisoned, the part given up is poisoned.
resized(a, n) ==
  IF n > live[a] THEN unpoison(unpoisoned, in_bytes(a) + live[a], n - live[a])
                 ELSE poison(unpoisoned, in_bytes(a) + n, live[a] - n)

\* The same pages hold the new size.
ReallocSame(a, n) ==
  /\ reg # NULL
  /\ live[a] # 0 /\ n # 0 /\ n # live[a]
  /\ rounded(n) = rounded(live[a])
  /\ unpoisoned' = resized(a, n)
  /\ live' = [live EXCEPT ![a] = n]
  /\ UNCHANGED <<os, registry, reg, capacity>>

\* mremap grows or shrinks the mapping, where it is or elsewhere; the old pages
\* were unpoisoned before.
ReallocRemap(a, b, n) ==
  /\ reg # NULL
  /\ live[a] # 0 /\ n # 0
  /\ rounded(n) # rounded(live[a])
  /\ remappable(a, b, rounded(n))
  /\ os' = os_mremap(os, a, b, rounded(n))
  /\ registry' = registry_update(a, b, rounded(n))
  /\ unpoisoned' = opened(released(a), b, n)
  /\ live' = [live EXCEPT ![a] = 0, ![b] = n]
  /\ UNCHANGED <<reg, capacity>>

\* Mutant: the poisoning is not restored.
restored_none(a) == released(a)

\* The bytes from the block's size to the end of its pages are poisoned again.
restored(a) ==
  poison(released(a), in_bytes(a) + live[a], in_bytes(rounded(live[a])) - live[a])

\* mremap fails: NULL, and the block stays as it is.
ReallocNull(a, n) ==
  /\ reg # NULL
  /\ live[a] # 0 /\ n # 0
  /\ rounded(n) # rounded(live[a])
  /\ unpoisoned' = restored(a)
  /\ UNCHANGED <<os, registry, reg, capacity, live>>

Next ==
  \/ \E a \in PageAddr : Make(a)
  \/ MakeFails
  \/ Destroy
  \/ \E n \in Sizes : Alloc(n) \/ AllocNoMap(n) \/ AllocNull(n)
  \/ \E a \in PageAddr : Free(a)
  \/ \E a \in PageAddr, n \in Sizes : ReallocSame(a, n) \/ ReallocNull(a, n)
  \/ \E a, b \in PageAddr, n \in Sizes : ReallocRemap(a, b, n)

Spec == Init /\ [][Next]_vars

-----------------------------------------------------------------------------
(* Properties *)

Held == {a \in PageAddr : live[a] # 0}

\* Type invariant; registry_add never writes past the registry's pages.
TypeOK ==
  /\ os \in [PageAddr -> 0..Pages]
  /\ registry \in Seq([addr : PageAddr, size : 1..Pages])
  /\ Len(registry) <= capacity
  /\ reg \in PageAddr \cup {NULL}
  /\ capacity \in Nat
  /\ unpoisoned \subseteq Memory
  /\ live \in [PageAddr -> Sizes \cup {0}]

(***************************************************************************)
(* The registry lists every block the client holds once, with the length   *)
(* of its mapping, whatever was swapped, moved or refused before.          *)
(***************************************************************************)
RegistryExact ==
  /\ {registry[i] : i \in DOMAIN registry}
       = {[addr |-> a, size |-> rounded(live[a])] : a \in Held}
  /\ Len(registry) = Cardinality(Held)

(***************************************************************************)
(* Mapped are the blocks the client holds and the registry, and nothing    *)
(* else: no page leaks on a failing path, none is unmapped too early, and  *)
(* page_destroy_fn leaves nothing behind.                                  *)
(***************************************************************************)
MappingsExact ==
  \A a \in PageAddr :
    os[a] = IF a = reg THEN reg_pages(capacity)
            ELSE rounded(live[a])

\* The bytes of the pages the block at a fills.
Mapped(a) == Bytes(in_bytes(a), in_bytes(rounded(live[a])))

\* Poisoned bytes outside the blocks: the next to be given them cannot use them.
Stale == {x \in Memory \ unpoisoned : \A a \in Held : x \notin Mapped(a)}

(***************************************************************************)
(* A block is accessible up to the size asked for and not to the end of    *)
(* its last page, also after a realloc that failed, and whatever lay there *)
(* before.  Pages that are given up are accessible to whoever is given     *)
(* them next, the registry among them: only page_destroy_fn, which unmaps  *)
(* leaked blocks poisoned as they are, leaves stale poison behind.         *)
(***************************************************************************)
ShadowExact ==
  /\ [](\A a \in Held : unpoisoned \cap Mapped(a) = Bytes(in_bytes(a), live[a]))
  /\ [][Stale' \subseteq Stale \/ reg' = NULL]_vars

\* The client sees a heap as allo.h promises it, of blocks aligned to pages.
Addrs == {a * page_size : a \in PageAddr}

Contract == INSTANCE Heap WITH
              Addr <- Addrs, Request <- Sizes,
              Extent <- Pages * page_size, Align <- page_size,
              live <- [x \in Addrs |-> live[x \div page_size]]

ImplementsHeap == Contract!Spec
=============================================================================
