------------------------------ MODULE MtxProofs -----------------------------
(***************************************************************************)
(* The locking wrapper keeps a pool safe for any number of threads and     *)
(* blocks, in every interleaving of their memory accesses.                 *)
(***************************************************************************)
EXTENDS Mtx, ListProofs

\* Where a thread is while it has the mutex.
Locked == {"read_head", "read_next", "write_head", "write_next", "push",
           "unlock", "unlock_alloc"}

PCs == Locked \cup {"idle", "alloc", "free", "query", "return", "return_alloc"}

Types ==
  /\ pc \in [Threads -> PCs]
  /\ node \in [Threads -> Block \cup {NULL}]
  /\ link \in [Threads -> Block \cup {NULL}]
  /\ next \in [Block -> Block \cup {NULL}]

\* Mutual exclusion: the thread between its lock and its unlock, and no other,
\* has the mutex.
Exclusion == \A t \in Threads : pc[t] \in Locked <=> mutex = t

\* Clients and running calls have blocks of the pool, each has its own.
Owners ==
  /\ held \subseteq Block
  /\ \A t \in Threads : InFlight(t) \subseteq Block /\ InFlight(t) \cap held = {}
  /\ \A t, u \in Threads : t # u => InFlight(t) \cap InFlight(u) = {}

\* The blocks neither has.
Rest == {b \in Block : b \notin held /\ \A t \in Threads : b \notin InFlight(t)}

\* What a call read of the list is still true where it uses it.
ReadsFresh(t) ==
  /\ pc[t] \in {"read_next", "write_head"} => node[t] = free_list /\ free_list # NULL
  /\ pc[t] = "write_head" => link[t] = next[node[t]]
  /\ pc[t] = "push" => next[node[t]] = free_list

IInv ==
  /\ Types
  /\ Exclusion
  /\ Owners
  /\ \A t \in Threads : ReadsFresh(t)
  /\ Chain(free_list, next, Rest)

LEMMA BlockFacts ==
  /\ NULL \notin Block /\ 0 \in Block
  /\ IsFiniteSet(Block) /\ Cardinality(Block) = total_blocks
<1>1. NULL \notin Block /\ 0 \in Block
  BY MtxAssumption DEF Block, NULL
<1>2. total_blocks - 1 \in Int /\ 0 \in Int
  BY MtxAssumption
<1>3. /\ IsFiniteSet(Block)
      /\ Cardinality(Block) = IF 0 > total_blocks - 1 THEN 0
                              ELSE (total_blocks - 1) - 0 + 1
  BY <1>2, FS_Interval DEF Block
<1> QED BY <1>1, <1>3, MtxAssumption

LEMMA RestFacts == Rest \subseteq Block /\ NULL \notin Rest
  BY BlockFacts DEF Rest

LEMMA InitInv == Init => IInv
<1> SUFFICES ASSUME Init PROVE IInv
  OBVIOUS
<1>1. Types
  <2>1. \A i \in Block : i < total_blocks - 1 => i + 1 \in Block
    BY MtxAssumption DEF Block
  <2> QED BY <2>1 DEF Init, Types, PCs
<1>2. \A t \in Threads : pc[t] = "idle"
  BY DEF Init
<1>3. Exclusion
  BY <1>2, MtxAssumption DEF Init, Exclusion, Locked
<1>4. \A t \in Threads : InFlight(t) = {}
  BY <1>2 DEF InFlight
<1>5. Owners /\ Rest = Block
  BY <1>4 DEF Init, Owners, Rest
<1>6. \A t \in Threads : ReadsFresh(t)
  BY <1>2 DEF ReadsFresh
<1>7. Chain(0, next, 0..(total_blocks - 1))
  BY MtxAssumption, ChainArray DEF Init, Block
<1> QED BY <1>1, <1>3, <1>5, <1>6, <1>7 DEF IInv, Init, Block

-----------------------------------------------------------------------------
(* Who has what, when one thread steps *)

\* Blocks pass between the clients and a call: the rest stays.
LEMMA OwnersPass ==
  ASSUME Owners, NEW t \in Threads,
         \A u \in Threads \ {t} : InFlight(u)' = InFlight(u),
         InFlight(t)' \cup held' = InFlight(t) \cup held,
         InFlight(t)' \cap held' = {}
  PROVE  Owners' /\ Rest' = Rest
<1>1. ASSUME NEW u \in Threads \ {t}
      PROVE  /\ InFlight(u)' \subseteq Block /\ InFlight(u)' \cap held' = {}
             /\ InFlight(u)' \cap InFlight(t)' = {}
  <2>1. /\ InFlight(u) \cap InFlight(t) = {}
        /\ InFlight(u) \cap held = {} /\ InFlight(u) \subseteq Block
    BY DEF Owners
  <2> QED BY <2>1
<1>2. held' \subseteq Block /\ InFlight(t)' \subseteq Block
  BY DEF Owners
<1>3. \A u, v \in Threads \ {t} : u # v => InFlight(u)' \cap InFlight(v)' = {}
  BY DEF Owners
<1>4. Owners'
  BY <1>1, <1>2, <1>3 DEF Owners, Block
<1>5. ASSUME NEW b
      PROVE  (b \notin held' /\ \A u \in Threads : b \notin InFlight(u)')
               <=> (b \notin held /\ \A u \in Threads : b \notin InFlight(u))
  OBVIOUS
<1> QED BY <1>4, <1>5 DEF Rest, Block

\* A call takes a block of the rest.
LEMMA OwnersTake ==
  ASSUME Owners, NEW t \in Threads, NEW b \in Rest,
         \A u \in Threads \ {t} : InFlight(u)' = InFlight(u),
         InFlight(t) = {}, InFlight(t)' = {b}, held' = held
  PROVE  Owners' /\ Rest' = Rest \ {b}
<1>1. Owners'
  BY DEF Owners, Rest, Block
<1>2. ASSUME NEW x
      PROVE  (\A u \in Threads : x \notin InFlight(u)')
               <=> (\A u \in Threads : x \notin InFlight(u)) /\ x # b
  OBVIOUS
<1> QED BY <1>1, <1>2 DEF Rest, Block

\* A call gives its block to the rest.
LEMMA OwnersGive ==
  ASSUME Owners, NEW t \in Threads, NEW b,
         \A u \in Threads \ {t} : InFlight(u)' = InFlight(u),
         InFlight(t) = {b}, InFlight(t)' = {}, held' = held
  PROVE  Owners' /\ Rest' = Rest \cup {b} /\ b \in Block \ Rest
<1>1. Owners'
  BY DEF Owners, Block
<1>2. \A u \in Threads \ {t} : b \notin InFlight(u)
  BY DEF Owners
<1>3. b \in Block /\ b \notin held
  BY DEF Owners
<1>4. ASSUME NEW x
      PROVE  (\A u \in Threads : x \notin InFlight(u)')
               <=> (\A u \in Threads : x \notin InFlight(u)) \/ x = b
  BY <1>2
<1> QED BY <1>1, <1>3, <1>4 DEF Rest, Block

-----------------------------------------------------------------------------
(* One thread's step *)

\* The other threads' locals are their own.
Others(t) ==
  \A u \in Threads \ {t} : pc'[u] = pc[u] /\ node'[u] = node[u] /\ link'[u] = link[u]

LEMMA OthersKeep ==
  ASSUME NEW t \in Threads, Others(t)
  PROVE  \A u \in Threads \ {t} : InFlight(u)' = InFlight(u)
  BY DEF Others, InFlight

\* What others read stays true: they are not inside, or the list is the same.
LEMMA OthersFresh ==
  ASSUME IInv, NEW t \in Threads, Others(t),
         pc[t] \in Locked \/ UNCHANGED pool
  PROVE  \A u \in Threads \ {t} : ReadsFresh(u)'
<1> SUFFICES ASSUME NEW u \in Threads \ {t} PROVE ReadsFresh(u)'
  OBVIOUS
<1>1. CASE UNCHANGED pool
  BY <1>1 DEF IInv, Others, ReadsFresh, pool
<1>2. CASE pc[t] \in Locked
  <2>1. pc[u] \notin Locked
    BY <1>2 DEF IInv, Exclusion
  <2>2. pc'[u] \notin {"read_next", "write_head", "push"}
    BY <2>1 DEF Others, Locked
  <2> QED BY <2>2 DEF ReadsFresh
<1> QED BY <1>1, <1>2

\* A step that moves no block and touches neither the list nor the mutex, and
\* stays inside or outside.
LEMMA QuietStep ==
  ASSUME IInv, NEW t \in Threads, Others(t), Types',
         UNCHANGED <<mutex, pool>>,
         pc'[t] \in Locked <=> pc[t] \in Locked,
         InFlight(t)' \cup held' = InFlight(t) \cup held,
         InFlight(t)' \cap held' = {},
         ReadsFresh(t)'
  PROVE  IInv'
<1>1. Owners' /\ Rest' = Rest
  BY OthersKeep, OwnersPass DEF IInv
<1>2. Exclusion'
  BY DEF IInv, Exclusion, Others
<1>3. \A u \in Threads : ReadsFresh(u)'
  BY OthersFresh
<1> QED BY <1>1, <1>2, <1>3 DEF IInv, pool

\* The calls of a client, and their return.
LEMMA ClientSteps ==
  ASSUME IInv, NEW t \in Threads, Call(t) \/ Return(t)
  PROVE  IInv'
<1> USE DEF IInv, Types
<1>1. CASE CallAlloc(t)
  <2>1. /\ pc[t] = "idle" /\ pc' = [pc EXCEPT ![t] = "alloc"]
        /\ UNCHANGED <<mutex, node, link, pool, held>>
    BY <1>1 DEF CallAlloc, go
  <2>2. Others(t) /\ Types' /\ pc'[t] = "alloc"
    BY <2>1 DEF Others, PCs, pool
  <2> QED BY <2>1, <2>2, QuietStep DEF InFlight, ReadsFresh, Locked, Owners
<1>2. CASE CallQuery(t)
  <2>1. /\ pc[t] = "idle" /\ pc' = [pc EXCEPT ![t] = "query"]
        /\ UNCHANGED <<mutex, node, link, pool, held>>
    BY <1>2 DEF CallQuery, go
  <2>2. Others(t) /\ Types' /\ pc'[t] = "query"
    BY <2>1 DEF Others, PCs, pool
  <2> QED BY <2>1, <2>2, QuietStep DEF InFlight, ReadsFresh, Locked, Owners
<1>3. ASSUME NEW i \in Block, CallFree(t, i) PROVE IInv'
  <2>1. /\ pc[t] = "idle" /\ pc' = [pc EXCEPT ![t] = "free"]
        /\ i \in held /\ held' = held \ {i}
        /\ node' = [node EXCEPT ![t] = i]
        /\ UNCHANGED <<mutex, link, pool>>
    BY <1>3 DEF CallFree, go
  <2>2. Others(t) /\ Types' /\ pc'[t] = "free" /\ node'[t] = i
    BY <2>1 DEF Others, PCs, pool
  <2>3. InFlight(t) = {} /\ InFlight(t)' = {i}
    BY <2>1, <2>2 DEF InFlight
  <2>4. ReadsFresh(t)'
    BY <2>2 DEF ReadsFresh
  <2> QED BY <2>1, <2>2, <2>3, <2>4, QuietStep DEF Locked
<1>4. CASE Return(t)
  <2>1. /\ pc[t] \in {"return", "return_alloc"}
        /\ held' = IF pc[t] = "return_alloc" THEN held \cup {node[t]} ELSE held
        /\ pc' = [pc EXCEPT ![t] = "idle"]
        /\ node' = [node EXCEPT ![t] = NULL]
        /\ link' = [link EXCEPT ![t] = NULL]
        /\ UNCHANGED <<mutex, pool>>
    BY <1>4 DEF Return, go
  <2>2. Others(t) /\ Types' /\ pc'[t] = "idle"
    BY <2>1 DEF Others, PCs, pool
  <2>3. InFlight(t)' = {} /\ held' = held \cup InFlight(t)
    BY <2>1, <2>2 DEF InFlight
  <2>4. ReadsFresh(t)'
    BY <2>2 DEF ReadsFresh
  <2> QED BY <2>1, <2>2, <2>3, <2>4, QuietStep DEF Locked
<1> QED BY <1>1, <1>2, <1>3, <1>4 DEF Call

\* mtx_lock: nobody is inside when the mutex is free.
LEMMA LockStep ==
  ASSUME IInv, NEW t \in Threads, mtx_lock(t)
  PROVE  IInv'
<1> DEFINE there == CASE pc[t] = "alloc" -> "read_head"
                      [] pc[t] = "free"  -> "write_next"
                      [] pc[t] = "query" -> "unlock"
<1>1. /\ pc[t] \in {"alloc", "free", "query"} /\ mutex = Unlocked /\ mutex' = t
      /\ pc' = [pc EXCEPT ![t] = there]
      /\ UNCHANGED <<node, link, pool, held>>
  BY DEF mtx_lock, can_lock, go
<1>2. /\ there \in {"read_head", "write_next", "unlock"}
      /\ there = "write_next" <=> pc[t] = "free"
  BY <1>1
<1> HIDE DEF there
<1>3. Others(t) /\ Types' /\ pc'[t] = there
  BY <1>1, <1>2 DEF Others, IInv, Types, PCs, Locked, pool
<1>4. InFlight(t)' = InFlight(t)
  BY <1>1, <1>2, <1>3 DEF InFlight
<1>5. Owners' /\ Rest' = Rest
  BY <1>1, <1>3, <1>4, OthersKeep, OwnersPass DEF IInv, Owners
<1>6. \A u \in Threads : pc[u] \notin Locked
  BY <1>1, MtxAssumption DEF IInv, Exclusion
<1>7. Exclusion'
  BY <1>1, <1>2, <1>3, <1>6 DEF Exclusion, Others, Locked
<1>8. \A u \in Threads : ReadsFresh(u)'
  BY <1>1, <1>2, <1>3, OthersFresh DEF ReadsFresh
<1> QED BY <1>1, <1>3, <1>5, <1>7, <1>8 DEF IInv, pool

\* A thread's accesses to the pool while it has the mutex that leave every
\* block where it is.
LEMMA ReadSteps ==
  ASSUME IInv, NEW t \in Threads, ReadHead(t) \/ ReadNext(t)
  PROVE  IInv'
<1> USE DEF IInv, Types
<1>1. free_list \in Block \cup {NULL}
  BY RestFacts, ChainHead
<1>2. CASE ReadHead(t)
  <2> DEFINE there == IF free_list = NULL THEN "unlock" ELSE "read_next"
  <2>1. /\ pc[t] = "read_head" /\ pc' = [pc EXCEPT ![t] = there]
        /\ node' = [node EXCEPT ![t] = free_list]
        /\ UNCHANGED <<mutex, link, pool, held>>
    BY <1>2 DEF ReadHead, go
  <2>2. /\ Others(t) /\ Types' /\ pc'[t] = there /\ node'[t] = free_list
        /\ there \in {"unlock", "read_next"}
    BY <1>1, <2>1 DEF Others, PCs, Locked, pool
  <2>3. InFlight(t) = {} /\ InFlight(t)' = {}
    BY <2>1, <2>2 DEF InFlight
  <2>4. ReadsFresh(t)'
    BY <2>1, <2>2 DEF ReadsFresh, pool
  <2>5. pc'[t] \in Locked /\ pc[t] \in Locked
    BY <2>1, <2>2 DEF Locked
  <2> QED BY <2>1, <2>2, <2>3, <2>4, <2>5, QuietStep
<1>3. CASE ReadNext(t)
  <2>1. /\ pc[t] = "read_next" /\ pc' = [pc EXCEPT ![t] = "write_head"]
        /\ link' = [link EXCEPT ![t] = next[node[t]]]
        /\ UNCHANGED <<mutex, node, pool, held>>
    BY <1>3 DEF ReadNext, go
  <2>2. node[t] = free_list /\ free_list # NULL
    BY <2>1 DEF ReadsFresh
  <2>3. next[node[t]] \in Block \cup {NULL}
    BY <1>1, <2>2
  <2>4. /\ Others(t) /\ Types' /\ pc'[t] = "write_head"
        /\ link'[t] = next[node[t]]
    BY <2>1, <2>3 DEF Others, PCs, Locked, pool
  <2>5. InFlight(t) = {} /\ InFlight(t)' = {}
    BY <2>1, <2>4 DEF InFlight
  <2>6. ReadsFresh(t)'
    BY <2>1, <2>2, <2>4 DEF ReadsFresh, pool
  <2>7. pc'[t] \in Locked /\ pc[t] \in Locked
    BY <2>1, <2>4 DEF Locked
  <2> QED BY <2>1, <2>4, <2>5, <2>6, <2>7, QuietStep
<1> QED BY <1>2, <1>3

\* The writes, which change the list one word at a time.
LEMMA WriteSteps ==
  ASSUME IInv, NEW t \in Threads, WriteHead(t) \/ WriteNext(t) \/ Push(t)
  PROVE  IInv'
<1> USE DEF IInv, Types
<1>1. free_list \in Block \cup {NULL}
  BY RestFacts, ChainHead
<1>2. ASSUME Others(t), mutex' = mutex, pc[t] \in Locked, pc'[t] \in Locked
      PROVE  Exclusion' /\ \A u \in Threads \ {t} : ReadsFresh(u)'
  BY <1>2, OthersFresh DEF Exclusion, Others
<1>3. CASE WriteHead(t)
  <2>1. /\ pc[t] = "write_head" /\ pc' = [pc EXCEPT ![t] = "unlock_alloc"]
        /\ free_list' = link[t]
        /\ UNCHANGED <<mutex, node, link, next, held>>
    BY <1>3 DEF WriteHead, go
  <2>2. /\ node[t] = free_list /\ free_list # NULL
        /\ link[t] = next[free_list]
    BY <2>1 DEF ReadsFresh
  <2>3. Others(t) /\ Types' /\ pc'[t] = "unlock_alloc"
    BY <2>1 DEF Others, PCs, Locked
  <2>4. InFlight(t) = {} /\ InFlight(t)' = {free_list}
    BY <2>1, <2>2, <2>3 DEF InFlight
  <2>5. free_list \in Rest /\ Chain(next[free_list], next, Rest \ {free_list})
    BY <2>2, RestFacts, ChainPop
  <2>6. Owners' /\ Rest' = Rest \ {free_list}
    BY <2>1, <2>3, <2>4, <2>5, OthersKeep, OwnersTake
  <2>7. Exclusion' /\ \A u \in Threads : ReadsFresh(u)'
    BY <1>2, <2>1, <2>3 DEF ReadsFresh, Locked
  <2> QED BY <2>1, <2>2, <2>3, <2>5, <2>6, <2>7
<1>4. CASE WriteNext(t)
  <2> DEFINE b == node[t]
  <2>1. /\ pc[t] = "write_next" /\ pc' = [pc EXCEPT ![t] = "push"]
        /\ next' = [next EXCEPT ![b] = free_list]
        /\ UNCHANGED <<mutex, node, link, free_list, held>>
    BY <1>4 DEF WriteNext, go
  <2>2. Others(t) /\ Types' /\ pc'[t] = "push"
    BY <1>1, <2>1 DEF Others, PCs, Locked
  <2>3. InFlight(t) = {b} /\ InFlight(t)' = {b}
    BY <2>1, <2>2 DEF InFlight
  <2>4. b \in Block /\ b \notin Rest
    BY <2>3 DEF Owners, Rest
  <2>5. Owners' /\ Rest' = Rest
    BY <2>1, <2>2, <2>3, OthersKeep, OwnersPass DEF Owners
  <2>6. Chain(free_list, next', Rest)
    <3>1. \A x \in Rest : next'[x] = next[x]
      BY <2>1, <2>4, RestFacts
    <3> QED BY <3>1, ChainFrame
  <2>7. next'[node'[t]] = free_list'
    BY <2>1, <2>4
  <2>8. Exclusion' /\ \A u \in Threads : ReadsFresh(u)'
    BY <1>2, <2>1, <2>2, <2>7 DEF ReadsFresh, Locked
  <2> QED BY <2>1, <2>2, <2>5, <2>6, <2>8
<1>5. CASE Push(t)
  <2> DEFINE b == node[t]
  <2>1. /\ pc[t] = "push" /\ pc' = [pc EXCEPT ![t] = "unlock"]
        /\ free_list' = b
        /\ node' = [node EXCEPT ![t] = NULL]
        /\ UNCHANGED <<mutex, link, next, held>>
    BY <1>5 DEF Push, go
  <2>2. next[b] = free_list
    BY <2>1 DEF ReadsFresh
  <2>3. Others(t) /\ Types' /\ pc'[t] = "unlock"
    BY <2>1 DEF Others, PCs, Locked
  <2>4. InFlight(t) = {b} /\ InFlight(t)' = {}
    BY <2>1, <2>3 DEF InFlight
  <2>5. Owners' /\ Rest' = Rest \cup {b} /\ b \in Block \ Rest
    BY <2>1, <2>3, <2>4, OthersKeep, OwnersGive
  <2>6. Chain(b, next, Rest \cup {b})
    BY <2>2, <2>5, BlockFacts, ChainPush
  <2>7. Exclusion' /\ \A u \in Threads : ReadsFresh(u)'
    BY <1>2, <2>1, <2>3 DEF ReadsFresh, Locked
  <2> QED BY <2>1, <2>3, <2>5, <2>6, <2>7
<1> QED BY <1>3, <1>4, <1>5

\* mtx_unlock: the thread is outside, and nobody else was inside.
LEMMA UnlockStep ==
  ASSUME IInv, NEW t \in Threads, mtx_unlock(t)
  PROVE  IInv'
<1> DEFINE there == IF pc[t] = "unlock" THEN "return" ELSE "return_alloc"
<1>1. /\ pc[t] \in {"unlock", "unlock_alloc"} /\ mutex' = Unlocked
      /\ pc' = [pc EXCEPT ![t] = there]
      /\ UNCHANGED <<node, link, pool, held>>
  BY DEF mtx_unlock, go
<1>2. /\ there \in {"return", "return_alloc"}
      /\ there = "return_alloc" <=> pc[t] = "unlock_alloc"
  BY <1>1
<1> HIDE DEF there
<1>3. Others(t) /\ Types' /\ pc'[t] = there
  BY <1>1, <1>2 DEF Others, IInv, Types, PCs, pool
<1>4. InFlight(t)' = InFlight(t)
  BY <1>1, <1>2, <1>3 DEF InFlight
<1>5. Owners' /\ Rest' = Rest
  BY <1>1, <1>3, <1>4, OthersKeep, OwnersPass DEF IInv, Owners
<1>6. \A u \in Threads \ {t} : pc[u] \notin Locked
  BY <1>1 DEF IInv, Exclusion, Locked
<1>7. \A u \in Threads : pc'[u] \notin Locked
  BY <1>2, <1>3, <1>6 DEF Others, Locked
<1>8. Exclusion'
  BY <1>1, <1>7, MtxAssumption DEF Exclusion
<1>9. \A u \in Threads : ReadsFresh(u)'
  BY <1>7 DEF ReadsFresh, Locked
<1> QED BY <1>1, <1>3, <1>5, <1>8, <1>9 DEF IInv, pool

\* Making and destroying the wrapper, while no thread is inside.
LEMMA WrapperSteps ==
  ASSUME IInv, make_mtx_allocator \/ allo_mtx_destroy
  PROVE  IInv'
<1>1. /\ mutex \in {NotInit, Unlocked} /\ mutex' \in {NotInit, Unlocked}
      /\ UNCHANGED <<pc, node, link, pool, held>>
  BY DEF make_mtx_allocator, allo_mtx_destroy
<1>2. Exclusion'
  BY <1>1, MtxAssumption DEF IInv, Exclusion
<1>3. Owners' /\ Rest' = Rest
  BY <1>1 DEF IInv, Owners, Rest, InFlight, Block
<1>4. \A t \in Threads : ReadsFresh(t)'
  BY <1>1 DEF IInv, ReadsFresh, pool
<1> QED BY <1>1, <1>2, <1>3, <1>4 DEF IInv, Types, pool

LEMMA NextInv == IInv /\ [Next]_vars => IInv'
<1> SUFFICES ASSUME IInv, [Next]_vars PROVE IInv'
  OBVIOUS
<1>1. ASSUME UNCHANGED vars PROVE IInv'
  BY <1>1 DEF vars, IInv, Types, Exclusion, Owners, Rest, InFlight,
              ReadsFresh, Block
<1>2. ASSUME MakeFails PROVE IInv'
  BY <1>1, <1>2 DEF MakeFails
<1>3. ASSUME NEW t \in Threads, Inside(t) PROVE IInv'
  BY <1>3, ReadSteps, WriteSteps, UnlockStep DEF Inside
<1> QED BY <1>1, <1>2, <1>3, WrapperSteps, ClientSteps, LockStep DEF Next

\* The inductive invariant holds in every reachable state.
LEMMA Invariance == Spec => []IInv
  BY InitInv, NextInv, PTL DEF Spec

-----------------------------------------------------------------------------

(***************************************************************************)
(* For any number of threads and blocks, in every interleaving of their    *)
(* accesses: each block is in exactly one place, on the list, with a       *)
(* client or with one running call, and none is lost.                      *)
(***************************************************************************)
THEOREM EveryBlockOneOwner == Spec => []OneOwner
<1>1. ASSUME IInv PROVE OneOwner
  <2>1. /\ WalkEnds(free_list, next, Cardinality(Block))
        /\ Walked(free_list, next, Cardinality(Block)) = Rest
    <3>1. /\ NULL \notin Rest /\ Chain(free_list, next, Rest)
          /\ Rest \subseteq Block /\ IsFiniteSet(Block)
      BY <1>1, BlockFacts, RestFacts DEF IInv
    <3> QED BY ONLY <3>1, ChainWalk
  <2>2. WalkEnds(free_list, next, total_blocks) /\ Listed = Rest
    BY <2>1, BlockFacts DEF Listed
  <2>3. Rest \cup held \cup UNION {InFlight(t) : t \in Threads} = Block
    BY <1>1 DEF IInv, Owners, Rest
  <2> QED BY <1>1, <2>2, <2>3 DEF IInv, Owners, Rest, OneOwner
<1> QED BY <1>1, Invariance, PTL

\* No two threads are ever between their mtx_lock and their mtx_unlock.
NoTwoInside == \A t, u \in Threads : pc[t] \in Locked /\ pc[u] \in Locked => t = u

(***************************************************************************)
(* Mutual exclusion: the functions of the wrapped allocator never run in   *)
(* two threads at a time, whichever functions of the wrapper are called.   *)
(***************************************************************************)
THEOREM MutualExclusion == Spec => []NoTwoInside
<1>1. IInv => NoTwoInside
  BY DEF IInv, Exclusion, NoTwoInside
<1> QED BY <1>1, Invariance, PTL
=============================================================================
