------------------------------ MODULE Fallback ------------------------------
(***************************************************************************)
(* The fallback allocator, src/src/allo_fallback.c, over a primary and a   *)
(* fallback allocator.                                                     *)
(*                                                                         *)
(* The two sub-allocators are any allocators: each may refuse a request,   *)
(* or answer it with any of its blocks that nobody has.  recorded is what  *)
(* they have on record themselves.  What a sub-allocator does with a       *)
(* pointer of the other one is undefined; that it happened is kept in      *)
(* mixed.                                                                  *)
(***************************************************************************)
EXTENDS Integers

CONSTANTS
  Primary,    \* blocks of the primary allocator
  Spill,      \* blocks of the fallback allocator
  Untracked,  \* sub-allocators that have no _contains, as make_c_allocator's
  Requests    \* sizes the client asks for

ASSUME FallbackAssumption ==
  /\ Primary \cap Spill = {}
  /\ Untracked \subseteq {"primary", "fallback"}
  /\ Requests \subseteq Nat

YES == "yes"
NO == "no"
UNKNOWN == "unknown"

Pointer == Primary \cup Spill
Blocks(sub) == IF sub = "primary" THEN Primary ELSE Spill

VARIABLES
  held,      \* size of each block the client holds, 0: none
  recorded,  \* size of each block on the record of its sub-allocator
  mixed      \* a sub-allocator was handed a pointer that is not its own

fallback_vars == <<held, recorded, mixed>>

FallbackInit ==
  /\ held = [p \in Pointer |-> 0]
  /\ recorded = [p \in Pointer |-> 0]
  /\ mixed = FALSE

-----------------------------------------------------------------------------
(* The sub-allocators, as the wrapper uses them *)

spare(sub) == {p \in Blocks(sub) : recorded[p] = 0}

\* allo_contains of allo.h: UNKNOWN without a _contains.
allo_contains(sub, p) ==
  IF sub \in Untracked THEN UNKNOWN ELSE IF p \in Blocks(sub) THEN YES ELSE NO

-----------------------------------------------------------------------------
(* Routing *)

\* Where frees and reallocs of p go: to the primary when it has p and when it
\* cannot tell.
routed(p) ==
  IF allo_contains("primary", p) \in {YES, UNKNOWN} THEN "primary" ELSE "fallback"

\* The sub-allocator that gets p has p on its record.
to_owner(p) == p \in Blocks(routed(p))

-----------------------------------------------------------------------------
(* fallback_alloc_fn: the primary, then the fallback *)

FallbackAlloc(sub, n) ==
  /\ n # 0
  /\ \E q \in spare(sub) :
       /\ held' = [held EXCEPT ![q] = n]
       /\ recorded' = [recorded EXCEPT ![q] = n]
  /\ UNCHANGED mixed

\* allo_alloc or allo_realloc returns NULL: both sub-allocators refused.
FallbackRefused == UNCHANGED fallback_vars

-----------------------------------------------------------------------------
(* fallback_free_fn, also allo_realloc to size 0 *)

FallbackFree(p) ==
  /\ held[p] # 0
  /\ held' = [held EXCEPT ![p] = 0]
  /\ recorded' = IF to_owner(p) THEN [recorded EXCEPT ![p] = 0] ELSE recorded
  /\ mixed' = (mixed \/ ~to_owner(p))

-----------------------------------------------------------------------------
(* fallback_realloc_fn *)

\* allo_realloc of the sub-allocator that gets the pointer succeeds: in place
\* or by a move within that sub-allocator.
FallbackRealloc(p, n) ==
  /\ held[p] # 0 /\ n # 0 /\ n # held[p]
  /\ \E q \in spare(routed(p)) \cup {p} :
       /\ held' = [held EXCEPT ![p] = 0, ![q] = n]
       /\ recorded' = IF to_owner(p) THEN [recorded EXCEPT ![p] = 0, ![q] = n]
                                    ELSE recorded
  /\ mixed' = (mixed \/ ~to_owner(p))

\* Mutant: the block the contents were copied from is not freed.
after_copy_kept(p) == recorded[p]

\* allo_free(ctx->primary, ptr, old_size) after the copy.
after_copy(p) == IF to_owner(p) THEN 0 ELSE recorded[p]

\* The primary fails: the block moves to the fallback.
FallbackSpill(p, n) ==
  /\ held[p] # 0 /\ n # 0 /\ n # held[p]
  /\ routed(p) = "primary"
  /\ \E q \in spare("fallback") :
       /\ held' = [held EXCEPT ![p] = 0, ![q] = n]
       /\ recorded' = [recorded EXCEPT ![p] = after_copy(p), ![q] = n]
  /\ mixed' = (mixed \/ ~to_owner(p))

FallbackNext ==
  \/ \E n \in Requests : FallbackAlloc("primary", n) \/ FallbackAlloc("fallback", n)
  \/ FallbackRefused
  \/ \E p \in Pointer : FallbackFree(p)
  \/ \E p \in Pointer, n \in Requests : FallbackRealloc(p, n) \/ FallbackSpill(p, n)

FallbackSpec == FallbackInit /\ [][FallbackNext]_fallback_vars

-----------------------------------------------------------------------------
(* Properties *)

(***************************************************************************)
(* The sub-allocators have on record exactly what the client holds, with   *)
(* the sizes the client will free it with: no spill-over leaks a block of  *)
(* the primary, and none is freed twice or with another size.              *)
(***************************************************************************)
RecordsAgree == recorded = held

(***************************************************************************)
(* No sub-allocator is ever handed a pointer of the other one ("ownership  *)
(* checks as internal guards to prevent pointer mixing", README).          *)
(***************************************************************************)
NoPointerMixing == ~mixed
=============================================================================
