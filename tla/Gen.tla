-------------------------------- MODULE Gen ---------------------------------
(***************************************************************************)
(* The general-purpose allocator, src/src/allo_gen.c: eight pools made     *)
(* over a buddy allocator that is made over a page allocator, in whose     *)
(* first block, s, the three live.                                         *)
(*                                                                         *)
(* Its parts are numbered: the pools 0..7, the buddy, the page allocator   *)
(* and s itself.  The life of the buddy is that of module BuddyLife, with  *)
(* the page allocator as its child; a client may also make one buddy       *)
(* allocator of its own when there is no general-purpose one.  As          *)
(* sub-allocators of the client's calls the parts are any allocators: a    *)
(* block is a part and a number, and each part may refuse.                 *)
(***************************************************************************)
EXTENDS BuddyLife, FiniteSets

CONSTANTS
  PartBlocks,  \* blocks of each part that the client may get
  MaxHeld,     \* bound on the blocks it holds at a time
  Sizes        \* sizes it asks for

ASSUME GenAssumption ==
  /\ WordBits >= 25  \* for BUDDY_TOTAL_SIZE
  /\ PartBlocks \in Nat /\ MaxHeld \in Nat
  /\ Sizes \subseteq 0..WordMax

POOL_COUNT == 8
BUDDY_TOTAL_SIZE == Pow2(24)
SMALL_OBJ_LIMIT == 2048
MEDIUM_OBJ_LIMIT == 2^20

Pools == 0..(POOL_COUNT - 1)
BUDDY == 8
PAGE == 9
STATE_S == 10

pool_sizes == [i \in Pools |-> 2^(i + 4)]

Block == (Pools \cup {BUDDY, PAGE}) \X (1..PartBlocks)

VARIABLES
  gen,      \* "none", "make", "ready", the teardown after a failing make
            \* ("undo") or of destroy ("destroy"), "make_crashed" or
            \* "destroy_crashed" once it touched memory that is not mapped
  mapped,   \* s is mapped
  pools,    \* pools that are made
  todo,     \* calls the teardown has still to make, by part
  live,     \* size of each block the client holds, 0: none
  granted   \* blocks that are taken on the record of their part

gen_vars == <<gen, mapped, pools, todo, live, granted>>
vars == <<buddy_vars, gen_vars>>

nothing == [p \in Block |-> 0]

Init ==
  /\ BuddyInit
  /\ gen = "none"
  /\ mapped = FALSE
  /\ pools = {}
  /\ todo = <<>>
  /\ live = nothing
  /\ granted = {}

-----------------------------------------------------------------------------
(* make_gen_allocator *)

\* The page allocator and s are made; the call of make_buddy_allocator starts.
MakeGen ==
  /\ gen = "none"
  /\ Make(BUDDY_TOTAL_SIZE, TRUE)
  /\ gen' = "make"
  /\ mapped' = TRUE
  /\ UNCHANGED <<pools, todo, live, granted>>

\* make_page_allocator fails, or has no page for s and is destroyed.
MakeGenFails ==
  /\ gen = "none" /\ pc = "none"
  /\ UNCHANGED vars

MakeBuddy ==
  /\ gen = "make"
  /\ Round \/ Rounded \/ Grant
  /\ UNCHANGED gen_vars

\* The calls after a failure: those of gen_destroy_fn as far as there is
\* something to destroy, but s is freed before the page allocator in it.
undo(made) == [j \in 1..made |-> j - 1] \o (IF pc = "ready" THEN <<BUDDY>> ELSE <<>>)
                                        \o <<STATE_S, PAGE>>

MakeBuddyFails ==
  /\ gen = "make"
  /\ Refuse
  /\ gen' = "undo"
  /\ todo' = undo(0)
  /\ UNCHANGED <<mapped, pools, live, granted>>

\* The next pool, over the buddy; after the last one the call returns.
MakePool ==
  /\ gen = "make" /\ pc = "ready"
  /\ pools' = pools \cup {Cardinality(pools)}
  /\ gen' = IF pools' = Pools THEN "ready" ELSE "make"
  /\ UNCHANGED <<buddy_vars, mapped, todo, live, granted>>

\* make_pool_allocator may fail as any factory; with these sizes, 64 KiB for each
\* pool, a new buddy of 16 MiB always has room.
MakePoolFails ==
  /\ gen = "make" /\ pc = "ready"
  /\ gen' = "undo"
  /\ todo' = undo(Cardinality(pools))
  /\ UNCHANGED <<buddy_vars, mapped, pools, live, granted>>

-----------------------------------------------------------------------------
(* gen_destroy_fn, and the teardown after a failing make *)

\* Mutant: the buddy goes before the pools that live in it.
teardown_outside_in == <<BUDDY>> \o [j \in 1..POOL_COUNT |-> j - 1] \o <<PAGE>>

teardown == [j \in 1..POOL_COUNT |-> j - 1] \o <<BUDDY, PAGE>>

\* The client's blocks are void from here on.
Destroy ==
  /\ gen = "ready"
  /\ gen' = "destroy"
  /\ todo' = teardown
  /\ live' = nothing
  /\ granted' = {}
  /\ UNCHANGED <<buddy_vars, mapped, pools>>

\* gen_destroy_fn destroys a copy of s->page, the failing make s->page itself.
page_copied == gen = "destroy"

\* Every call reads the part in s.  A pool gives its buffer back to the buddy,
\* which writes there; page_destroy_fn reads its registry's count again after
\* it unmapped s.
survives(part) ==
  /\ mapped
  /\ part \in Pools => pc = "ready"
  /\ part = PAGE => page_copied

\* The next call of the teardown; the last one is the page allocator's, which
\* reclaims every page that was left.
Teardown ==
  /\ todo # <<>>
  /\ survives(Head(todo))
  /\ todo' = Tail(todo)
  /\ pools' = pools \ {Head(todo)}
  /\ mapped' = (mapped /\ Head(todo) \notin {STATE_S, PAGE})
  /\ gen' = IF Head(todo) = PAGE THEN "none" ELSE gen
  /\ IF Head(todo) = BUDDY THEN BuddyDestroy ELSE UNCHANGED buddy_vars
  /\ UNCHANGED <<live, granted>>

\* Memory that is not mapped any more is read: the process ends.
Crash ==
  /\ todo # <<>>
  /\ ~survives(Head(todo))
  /\ todo' = <<>>
  /\ gen' = IF gen = "undo" THEN "make_crashed" ELSE "destroy_crashed"
  /\ UNCHANGED <<buddy_vars, mapped, pools, live, granted>>

-----------------------------------------------------------------------------
(* Routing by size *)

\* The runs of 1, 1, 2, 4 ... 64 equal entries start at 0, 1, 2, 4 ... 64.
pool_index_table(idx) == Cardinality({k \in 0..6 : 2^k <= idx})

get_pool_index(n) ==
  LET idx == (n - 1) \div 16
  IN IF n = 0 THEN 0 ELSE IF idx > 127 THEN 7 ELSE pool_index_table(idx)

\* The part that gen_alloc_fn and gen_free_fn hand a size to.
route(n) ==
  IF n <= SMALL_OBJ_LIMIT THEN get_pool_index(n)
  ELSE IF n <= MEDIUM_OBJ_LIMIT THEN BUDDY ELSE PAGE

\* A pool refuses sizes above that of its blocks.
accepts(part, n) == part \in Pools => n <= pool_sizes[part]

vacant(part, n) ==
  {p \in Block : p[1] = part /\ p \notin granted /\ accepts(part, n)}

lifecycle_unchanged == UNCHANGED <<buddy_vars, gen, mapped, pools, todo>>

Held == {p \in Block : live[p] # 0}

-----------------------------------------------------------------------------
(* gen_alloc_fn *)

Alloc(n) ==
  /\ gen = "ready"
  /\ n # 0
  /\ Cardinality(Held) < MaxHeld
  /\ \E q \in vacant(route(n), n) :
       /\ live' = [live EXCEPT ![q] = n]
       /\ granted' = granted \cup {q}
  /\ lifecycle_unchanged

\* allo_alloc or allo_realloc returns NULL: the part refused, or the size is 0.
Refused ==
  /\ gen = "ready"
  /\ UNCHANGED vars

-----------------------------------------------------------------------------
(* gen_free_fn, also allo_realloc to size 0 *)

\* The part found by the size takes the block off its record if it has it.
released(p) == IF route(live[p]) = p[1] THEN granted \ {p} ELSE granted

Free(p) ==
  /\ gen = "ready"
  /\ live[p] # 0
  /\ live' = [live EXCEPT ![p] = 0]
  /\ granted' = released(p)
  /\ lifecycle_unchanged

-----------------------------------------------------------------------------
(* gen_realloc_fn *)

\* Mutant: small objects are one tier.
same_tier_small(old, new) ==
  \/ old <= SMALL_OBJ_LIMIT /\ new <= SMALL_OBJ_LIMIT
  \/ old > SMALL_OBJ_LIMIT /\ new > SMALL_OBJ_LIMIT /\ route(old) = route(new)

\* Both small and in one pool, both medium, or both large.
same_tier(old, new) == route(old) = route(new)

\* allo_realloc of that part: a pool leaves the block where it is, the buddy
\* always moves it, the page allocator may do either.
ReallocTier(p, n) ==
  /\ gen = "ready"
  /\ live[p] # 0 /\ n # 0 /\ n # live[p]
  /\ same_tier(live[p], n)
  /\ accepts(p[1], n)
  /\ \E q \in (IF p[1] \in Pools THEN {} ELSE vacant(p[1], n))
              \cup (IF p[1] = BUDDY THEN {} ELSE {p}) :
       /\ live' = [live EXCEPT ![p] = 0, ![q] = n]
       /\ granted' = (granted \ {p}) \cup {q}
  /\ lifecycle_unchanged

\* Another tier or pool: allocate, copy, free.
ReallocMove(p, n) ==
  /\ gen = "ready"
  /\ live[p] # 0 /\ n # 0
  /\ ~same_tier(live[p], n)
  /\ \E q \in vacant(route(n), n) :
       /\ live' = [live EXCEPT ![p] = 0, ![q] = n]
       /\ granted' = released(p) \cup {q}
  /\ lifecycle_unchanged

-----------------------------------------------------------------------------
\* Steps of a call that is running.
Running ==
  \/ gen = "none" /\ BuddyMaking /\ UNCHANGED gen_vars
  \/ MakeBuddy \/ MakeBuddyFails \/ MakePool \/ MakePoolFails
  \/ Teardown \/ Crash

Next ==
  \/ \E n \in BufferSizes, own \in BOOLEAN :
       gen = "none" /\ Make(n, own) /\ UNCHANGED gen_vars
  \/ gen = "none" /\ BuddyDestroy /\ UNCHANGED gen_vars
  \/ MakeGen \/ MakeGenFails \/ Destroy
  \/ Running
  \/ \E n \in Sizes : Alloc(n)
  \/ Refused
  \/ \E p \in Block : Free(p)
  \/ \E p \in Block, n \in Sizes : ReallocTier(p, n) \/ ReallocMove(p, n)

\* Sequential code: a call that runs goes on.
Spec == Init /\ [][Next]_vars /\ WF_vars(Running)

-----------------------------------------------------------------------------
(* Properties *)

\* The part that the code's limits give a size; of the pools the smallest that
\* fits.  SMALL_OBJ_LIMIT itself is a pool's, where allo.h:126 has "< 2KB".
Home(n) ==
  IF n > MEDIUM_OBJ_LIMIT THEN PAGE
  ELSE IF n > SMALL_OBJ_LIMIT THEN BUDDY
  ELSE CHOOSE i \in Pools : /\ n <= pool_sizes[i]
                            /\ \A j \in Pools : n <= pool_sizes[j] => i <= j

(***************************************************************************)
(* Through every sequence of allocs, reallocs within and between tiers and *)
(* frees, a block is held in the part its present size belongs to, where   *)
(* gen_free_fn will look for it, and the parts have on record exactly the  *)
(* blocks the client holds.                                                *)
(***************************************************************************)
TierFromSize ==
  /\ \A p \in Held : p[1] = Home(live[p])
  /\ granted = Held

(***************************************************************************)
(* gen_destroy_fn never touches what it has given back: pools go before    *)
(* the buddy their buffers are in, the buddy before the pages, and s with  *)
(* the pages only when nothing in s is needed any more.                    *)
(***************************************************************************)
DestroySafe == gen # "destroy_crashed"

(***************************************************************************)
(* The teardown of a failing make_gen_allocator never touches what it has  *)
(* given back.                                                             *)
(***************************************************************************)
MakeSafe == gen # "make_crashed"

(***************************************************************************)
(* make_buddy_allocator returns, its rounding loop included, whatever is   *)
(* refused; make_gen_allocator returns or starts to clean up; and          *)
(* gen_destroy_fn returns.                                                 *)
(***************************************************************************)
Returns ==
  /\ pc \notin {"none", "ready"} ~> pc \in {"none", "ready"}
  /\ gen = "make" ~> gen \in {"ready", "undo"}
  /\ gen = "destroy" ~> gen = "none"
=============================================================================
