-------------------------------- MODULE Mtx --------------------------------
(***************************************************************************)
(* The locking wrapper, src/src/allo_mtx.c, with threads calling a pool    *)
(* allocator (src/src/allo_pool.c) through it.                             *)
(*                                                                         *)
(* The pool's code runs one memory access per step, so that without the    *)
(* mutex two threads could pop or push at the same time.  All requests fit *)
(* a block.  A block may be freed by another thread than the one that got  *)
(* it.                                                                     *)
(***************************************************************************)
EXTENDS Lists, FiniteSets

CONSTANTS
  Threads,
  total_blocks

\* Values of the mutex when no thread holds it, and when it is not initialised.
Unlocked == "unlocked"
NotInit == "not_init"

ASSUME MtxAssumption ==
  /\ IsFiniteSet(Threads) /\ Threads # {}
  /\ Unlocked \notin Threads /\ NotInit \notin Threads
  /\ total_blocks \in Nat \ {0}

Block == 0..(total_blocks - 1)

VARIABLES
  mutex,      \* its owner, or one of the above
  pc,         \* where each thread is in its call
  node,       \* each thread's local: the block it takes or returns
  link,       \* each thread's node->next, once read
  free_list,  \* the pool's list
  next,
  held        \* blocks that clients have

vars == <<mutex, pc, node, link, free_list, next, held>>
pool == <<free_list, next>>

Init ==
  /\ mutex = NotInit
  /\ pc = [t \in Threads |-> "idle"]
  /\ node = [t \in Threads |-> NULL]
  /\ link = [t \in Threads |-> NULL]
  /\ free_list = 0
  /\ next = [i \in Block |-> IF i < total_blocks - 1 THEN i + 1 ELSE NULL]
  /\ held = {}

go(t, there) == pc' = [pc EXCEPT ![t] = there]

-----------------------------------------------------------------------------
(* make_mtx_allocator, allo_mtx_destroy *)

make_mtx_allocator ==
  /\ mutex = NotInit
  /\ mutex' = Unlocked
  /\ UNCHANGED <<pc, node, link, pool, held>>

\* mtx_init fails: ALLO_ERR_NOMEM.
MakeFails ==
  /\ mutex = NotInit
  /\ UNCHANGED vars

\* The wrapper is destroyed when no call runs; the target lives on.
allo_mtx_destroy ==
  /\ mutex = Unlocked
  /\ \A t \in Threads : pc[t] = "idle"
  /\ mutex' = NotInit
  /\ UNCHANGED <<pc, node, link, pool, held>>

-----------------------------------------------------------------------------
(* Calls: each locks, runs the target, unlocks and returns *)

CallAlloc(t) ==
  /\ pc[t] = "idle" /\ mutex # NotInit
  /\ go(t, "alloc")
  /\ UNCHANGED <<mutex, node, link, pool, held>>

\* The client gives the block up when it calls allo_free.
CallFree(t, i) ==
  /\ pc[t] = "idle" /\ mutex # NotInit
  /\ i \in held
  /\ held' = held \ {i}
  /\ node' = [node EXCEPT ![t] = i]
  /\ go(t, "free")
  /\ UNCHANGED <<mutex, link, pool>>

\* allo_realloc and allo_contains of a pool read its context and change
\* nothing.
CallQuery(t) ==
  /\ pc[t] = "idle" /\ mutex # NotInit
  /\ go(t, "query")
  /\ UNCHANGED <<mutex, node, link, pool, held>>

\* Mutant: the mutex is not waited for.
can_lock_always == TRUE

can_lock == mutex = Unlocked

\* mtx_lock, at the start of every function of the wrapper.
mtx_lock(t) ==
  /\ pc[t] \in {"alloc", "free", "query"}
  /\ can_lock
  /\ mutex' = t
  /\ go(t, CASE pc[t] = "alloc" -> "read_head"
             [] pc[t] = "free"  -> "write_next"
             [] pc[t] = "query" -> "unlock")
  /\ UNCHANGED <<node, link, pool, held>>

\* Mutant: an allocation waits, with the mutex, until a block is free.
ReadHead_waits(t) ==
  /\ pc[t] = "read_head"
  /\ IF free_list = NULL
       THEN UNCHANGED <<node, pc>>
       ELSE node' = [node EXCEPT ![t] = free_list] /\ go(t, "read_next")
  /\ UNCHANGED <<mutex, link, pool, held>>

\* pool_alloc_fn: node = ctx->free_list; an empty list gives NULL.
ReadHead(t) ==
  /\ pc[t] = "read_head"
  /\ node' = [node EXCEPT ![t] = free_list]
  /\ go(t, IF free_list = NULL THEN "unlock" ELSE "read_next")
  /\ UNCHANGED <<mutex, link, pool, held>>

\* ... the right-hand side of ctx->free_list = node->next
ReadNext(t) ==
  /\ pc[t] = "read_next"
  /\ link' = [link EXCEPT ![t] = next[node[t]]]
  /\ go(t, "write_head")
  /\ UNCHANGED <<mutex, node, pool, held>>

\* ... and its left-hand side.
WriteHead(t) ==
  /\ pc[t] = "write_head"
  /\ free_list' = link[t]
  /\ go(t, "unlock_alloc")
  /\ UNCHANGED <<mutex, node, link, next, held>>

\* pool_free_fn: node->next = ctx->free_list
WriteNext(t) ==
  /\ pc[t] = "write_next"
  /\ next' = [next EXCEPT ![node[t]] = free_list]
  /\ go(t, "push")
  /\ UNCHANGED <<mutex, node, link, free_list, held>>

\* ... ctx->free_list = node
Push(t) ==
  /\ pc[t] = "push"
  /\ free_list' = node[t]
  /\ node' = [node EXCEPT ![t] = NULL]
  /\ go(t, "unlock")
  /\ UNCHANGED <<mutex, link, next, held>>

mtx_unlock(t) ==
  /\ pc[t] \in {"unlock", "unlock_alloc"}
  /\ mutex' = Unlocked
  /\ go(t, IF pc[t] = "unlock" THEN "return" ELSE "return_alloc")
  /\ UNCHANGED <<node, link, pool, held>>

\* The client gets the result: a block, or NULL, or nothing.
Return(t) ==
  /\ pc[t] \in {"return", "return_alloc"}
  /\ held' = IF pc[t] = "return_alloc" THEN held \cup {node[t]} ELSE held
  /\ node' = [node EXCEPT ![t] = NULL]
  /\ link' = [link EXCEPT ![t] = NULL]
  /\ go(t, "idle")
  /\ UNCHANGED <<mutex, pool>>

Call(t) == CallAlloc(t) \/ CallQuery(t) \/ \E i \in Block : CallFree(t, i)

\* The steps of a call once the mutex is its thread's.
Inside(t) ==
  \/ ReadHead(t) \/ ReadNext(t) \/ WriteHead(t)
  \/ WriteNext(t) \/ Push(t) \/ mtx_unlock(t)

Next ==
  \/ make_mtx_allocator \/ MakeFails \/ allo_mtx_destroy
  \/ \E t \in Threads : Call(t) \/ mtx_lock(t) \/ Inside(t) \/ Return(t)

Spec == Init /\ [][Next]_vars

(***************************************************************************)
(* A thread inside a call is scheduled until it returns, and mtx_lock      *)
(* gives a mutex that stays free to somebody.  That it gives it to every   *)
(* thread that waits is not assumed: C11 mutexes are not fair.             *)
(***************************************************************************)
FairSpec ==
  /\ Spec
  /\ \A t \in Threads : WF_vars(Inside(t)) /\ WF_vars(Return(t))
  /\ WF_vars(\E t \in Threads : mtx_lock(t))

-----------------------------------------------------------------------------
(* Properties *)

\* Blocks a running call has: popped and not yet returned, or not yet pushed.
InFlight(t) ==
  IF pc[t] \in {"free", "write_next", "push", "unlock_alloc", "return_alloc"}
    THEN {node[t]} ELSE {}

Listed == Walked(free_list, next, total_blocks)

(***************************************************************************)
(* The mutex makes the pool safe for threads: in every interleaving each   *)
(* block is in exactly one place, the list, a client or one running call,  *)
(* and none is lost.                                                       *)
(***************************************************************************)
OneOwner ==
  /\ WalkEnds(free_list, next, total_blocks)
  /\ Listed \cup held \cup UNION {InFlight(t) : t \in Threads} = Block
  /\ Listed \cap held = {}
  /\ \A t \in Threads : InFlight(t) \cap (Listed \cup held) = {}
  /\ \A t, u \in Threads : t # u => InFlight(t) \cap InFlight(u) = {}

(***************************************************************************)
(* While calls are outstanding, one of them returns: no path, not even a   *)
(* failing one, keeps the mutex or waits with it, so no set of callers     *)
(* hangs.                                                                  *)
(***************************************************************************)
SomeCallReturns ==
  (\E t \in Threads : pc[t] # "idle")
    ~> (\E t \in Threads : pc[t] \in {"return", "return_alloc"})
=============================================================================
