------------------------------- MODULE MemoryPool -------------------------------
(***************************************************************************)
(* The allocator of quash's parser, memory_pool.c: a deque of pools, each  *)
(* of them a block from malloc that is handed out from its beginning to    *)
(* its end, and all of them freed at once.  malloc may fail at any call.   *)
(* An address is a block and an offset into it; block 0 is the null        *)
(* pointer.                                                                *)
(***************************************************************************)
EXTENDS Integers, Sequences, FiniteSets

CONSTANTS FirstSizes,   \* what initialize_memory_pool is called with
          PoolSizes,    \* what memory_pool_alloc is called with
          MAX_GIVEN,    \* bound: calls of memory_pool_alloc between two destroys
          POOL_CAP      \* the capacity pool_deq is made with

ASSUME PoolAssumption ==
  /\ FirstSizes \subseteq Nat /\ PoolSizes \subseteq Nat \ {0}
  /\ MAX_GIVEN \in Nat /\ POOL_CAP \in Nat \ {0}

VARIABLES pool_deq,
          pool,      \* the local copy in memory_pool_alloc
          wanted,    \* its argument
          failed,    \* the size for which malloc has failed
          heap,      \* the sizes of the blocks that are not freed
          given,     \* what was handed out since the pools were made
          pool_at    \* "out" between calls, "fit" at the head of the loop, "low" in
                     \* __low_memory_initialize_memory_pool, "abort", "exit"

poolVars == <<pool_deq, pool, wanted, failed, heap, given, pool_at>>

NullPool == [pool |-> 0, size |-> 0, next |-> 0]

Pools == INSTANCE Deque WITH Elements <- {}, Garbage <- NullPool

AllPools == IF Pools!Valid(pool_deq) THEN Pools!Contents(pool_deq) ELSE <<>>
Blocks == {AllPools[k].pool : k \in DOMAIN AllPools} \ {0}

PoolInit ==
  /\ pool_deq = Pools!NullDeque /\ pool = NullPool
  /\ wanted = 0 /\ failed = 0
  /\ heap = [b \in {} |-> 0] /\ given = <<>>
  /\ pool_at = "out"

\* The pool p is added to the deque d.
Add(d, p) == pool_deq' = Pools!push_back(d, p) /\ pool' = p

\* malloc(size) is successful and a pool of the block is added to d.
AddBlock(d, size) ==
  LET block == CHOOSE b \in 1..(Cardinality(DOMAIN heap) + 1) : b \notin DOMAIN heap
  IN /\ heap' = [b \in DOMAIN heap \cup {block} |-> IF b = block THEN size ELSE heap[b]]
     /\ Add(d, [pool |-> block, size |-> size, next |-> 0])

\* A pool of that size is added to d, unless malloc fails.
AddPool(d, size, at) ==
  \/ AddBlock(d, size) /\ pool_at' = at /\ UNCHANGED failed
  \/ pool_deq' = d /\ pool_at' = "low" /\ failed' = size /\ UNCHANGED <<pool, heap>>

\* quash.c has no pools when it calls initialize_memory_pool.
initialize_memory_pool(size) ==
  /\ pool_at = "out" /\ ~Pools!Valid(pool_deq)
  /\ wanted' = 1
  /\ AddPool(Pools!new_destructable(POOL_CAP, TRUE), IF size = 0 THEN 1 ELSE size, "out")
  /\ UNCHANGED given

\* memory_pool_alloc up to its loop, with its assertions.
memory_pool_alloc(size) ==
  /\ pool_at = "out" /\ Pools!Valid(pool_deq)
  /\ Len(given) < MAX_GIVEN
  /\ wanted' = size
  /\ IF Pools!is_empty(pool_deq) \/ Pools!peek_back(pool_deq).pool = 0
     THEN pool_at' = "abort" /\ UNCHANGED pool
     ELSE pool_at' = "fit" /\ pool' = Pools!peek_back(pool_deq)
  /\ UNCHANGED <<pool_deq, failed, heap, given>>

Fits == pool.next + wanted <= pool.size

\* 2 << (length - 1) times the size of the first pool.
NextSize == Pools!peek_front(pool_deq).size * 2^Pools!length(pool_deq)

\* Mutant: a pool without memory is not recorded.
DropPlaceholder == pool_deq' = pool_deq /\ pool' = NullPool

\* A pool without memory makes the next one larger.
AddPlaceholder == Add(pool_deq, NullPool)

\* An iteration of the loop.
Grow ==
  /\ pool_at = "fit" /\ ~Fits
  /\ IF NextSize < wanted THEN AddPlaceholder /\ UNCHANGED <<heap, failed, pool_at>>
                          ELSE AddPool(pool_deq, NextSize, "fit")
  /\ UNCHANGED <<wanted, given>>

\* Mutant: the record in the deque is left as it was.
GiveWithoutUpdate ==
  /\ pool_at = "fit" /\ Fits
  /\ IF pool.next = Pools!peek_back(pool_deq).next /\ pool.pool = Pools!peek_back(pool_deq).pool
     THEN /\ given' = Append(given, [block |-> pool.pool, first |-> pool.next, size |-> wanted])
          /\ pool_at' = "out"
     ELSE pool_at' = "abort" /\ UNCHANGED given
  /\ UNCHANGED <<pool_deq, pool, wanted, failed, heap>>

\* The rest of memory_pool_alloc.
Give ==
  /\ pool_at = "fit" /\ Fits
  /\ IF pool.next = Pools!peek_back(pool_deq).next /\ pool.pool = Pools!peek_back(pool_deq).pool
     THEN /\ given' = Append(given, [block |-> pool.pool, first |-> pool.next, size |-> wanted])
          /\ pool' = [pool EXCEPT !.next = @ + wanted]
          /\ pool_deq' = Pools!update_back(pool_deq, pool')
          /\ pool_at' = "out"
     ELSE pool_at' = "abort" /\ UNCHANGED <<given, pool, pool_deq>>
  /\ UNCHANGED <<wanted, failed, heap>>

\* The destructor frees the block of every pool.
Release ==
  /\ heap' = [b \in DOMAIN heap \ Blocks |-> heap[b]]
  /\ pool_deq' = [Pools!NullDeque EXCEPT !.destructor = pool_deq.destructor]

\* What is asked for when there is no block of that size.
Smaller(size) == IF size \div 2 < wanted THEN wanted ELSE size \div 2

\* An iteration in __low_memory_initialize_memory_pool; exit runs
\* destroy_memory_pool.
LowMemory ==
  /\ pool_at = "low" /\ UNCHANGED <<wanted, given>>
  /\ \/ failed <= wanted /\ Release /\ pool_at' = "exit" /\ UNCHANGED <<pool, failed>>
     \/ failed > wanted
        /\ AddPool(pool_deq, Smaller(failed), IF Pools!is_empty(pool_deq) THEN "out" ELSE "fit")

\* After a line, when the deque may have been destroyed already, and at exit.
destroy_memory_pool ==
  /\ pool_at = "out" /\ Release
  /\ given' = <<>>
  /\ pool_at' \in {"out", "exit"}
  /\ UNCHANGED <<pool, wanted, failed>>

PoolStep == Grow \/ Give \/ LowMemory
PoolNext == \/ PoolStep \/ destroy_memory_pool
            \/ \E size \in FirstSizes : initialize_memory_pool(size)
            \/ \E size \in PoolSizes : memory_pool_alloc(size)

-----------------------------------------------------------------------------
(* Properties *)

\* What memory_pool_alloc hands out lies in a block that is not freed, and no
\* byte of it is handed out twice.
GivenApart ==
  /\ pool_at # "exit" => \A k \in DOMAIN given :
       given[k].block \in DOMAIN heap /\ given[k].first + given[k].size <= heap[given[k].block]
  /\ \A j, k \in DOMAIN given :
       j # k /\ given[j].block = given[k].block =>
         \/ given[j].first + given[j].size <= given[k].first
         \/ given[k].first + given[k].size <= given[j].first

\* Every block that is not freed belongs to one pool, so that one call frees
\* them all and none of them twice; and the record of a pool is in its block.
BlocksOwned ==
  /\ DOMAIN heap = Blocks
  /\ \A j, k \in DOMAIN AllPools :
       j # k /\ AllPools[j].pool = AllPools[k].pool => AllPools[j].pool = 0
  /\ \A k \in DOMAIN AllPools :
       AllPools[k].pool # 0 =>
         AllPools[k].size = heap[AllPools[k].pool] /\ AllPools[k].next <= AllPools[k].size

\* The strings of a line stay apart and whole, and their memory is freed once,
\* whatever malloc does (memory_pool.c).
PoolsSound == GivenApart /\ BlocksOwned

\* A request is answered or ends quash, however large it is, and the assertions
\* of memory_pool_alloc hold.
AllocEnds == (pool_at \in {"fit", "low", "abort"}) ~> (pool_at \in {"out", "exit"})
=============================================================================
