-------------------------------- MODULE Buddy --------------------------------
(***************************************************************************)
(* The buddy allocator of project2/buddy/buddy.c.                          *)
(*                                                                         *)
(* A page is named by its index in g_pages; PAGE_TO_ADDR and ADDR_TO_PAGE  *)
(* are the bijection between indices and page addresses, so a block of     *)
(* order o that starts at page p covers p .. p + PageCount(o) - 1.         *)
(*                                                                         *)
(* buddy_alloc and buddy_free are loops over the descriptors.  Each loop   *)
(* iteration is an action, with the locals of the running call in page,    *)
(* order and found_order; the program is sequential, so no second call     *)
(* starts before pc is back at "idle".                                     *)
(***************************************************************************)
EXTENDS FreeList

CONSTANTS MIN_ORDER, MAX_ORDER, \* log2 of the page size and of the memory
          Sizes,                \* the sizes (in bytes) callers ask for
          NULL,                 \* the null pointer
          NoAnswer              \* no call of buddy_alloc was the last to end

Orders == MIN_ORDER..MAX_ORDER
PageCount(o) == 2^(o - MIN_ORDER)
Pages == 0..(PageCount(MAX_ORDER) - 1)

ASSUME OrdersAssumption ==
  /\ MIN_ORDER \in Nat
  /\ MAX_ORDER \in Nat
  /\ MIN_ORDER <= MAX_ORDER

ASSUME SizesAssumption == Sizes \subseteq Int

ASSUME NullAssumption == NULL \notin Pages

\* The laws of exponents that the arithmetic of blocks rests on.
ASSUME PowerOfTwoAssumption ==
  /\ 2^0 = 1
  /\ 2^1 = 2
  /\ \A n \in 0..MAX_ORDER : 2^n \in Nat \ {0}
  /\ \A m, n \in 0..MAX_ORDER : m <= n => 2^n = 2^m * 2^(n - m)

VARIABLES
  pgOrder,      \* g_pages[p].order
  pgFree,       \* g_pages[p].free
  free_area,    \* free_area[o]: the pages linked on the list of order o
  pc,           \* "idle", or the loop of the call that is running
  size,         \* the argument of the running buddy_alloc
  page,         \* local of the running call
  order,        \* local of the running call
  found_order,  \* local of buddy_alloc
  live,         \* pages returned by buddy_alloc and not yet freed
  ret           \* the argument and the result of the last call, if it was
                \* buddy_alloc and has ended

vars == <<pgOrder, pgFree, free_area, pc, size, page, order, found_order, live, ret>>

-----------------------------------------------------------------------------
\* BUDDY_ADDR: exclusive-or with the size of the block, on page indices.
BuddyOf(p, o) ==
  IF (p \div PageCount(o)) % 2 = 0 THEN p + PageCount(o) ELSE p - PageCount(o)

\* Mutant: a size that fills a block exactly is given a larger one.
FitsStrictly(bytes, o) ==
  /\ bytes < 2^o
  /\ \A q \in MIN_ORDER..(o - 1) : 2^q <= bytes

\* The loop of step 1: the smallest order whose block holds the request.
\* SizeRequest models the loop itself, with the width of int.
Fits(bytes, o) ==
  /\ bytes <= 2^o
  /\ \A q \in MIN_ORDER..(o - 1) : 2^q < bytes

\* The loop of step 2: the smallest order, from o up, with a free block.
FirstNonEmpty(o, f) ==
  /\ f \in o..MAX_ORDER
  /\ ~list_empty(free_area[f])
  /\ \A q \in o..(f - 1) : list_empty(free_area[q])

\* The locals of a call are gone when it returns.
NoLocals == size' = 0 /\ page' = 0 /\ order' = MIN_ORDER /\ found_order' = MIN_ORDER

Init ==
  /\ pgOrder = [p \in Pages |-> IF p = 0 THEN MAX_ORDER ELSE 0]
  /\ pgFree = [p \in Pages |-> p = 0]
  /\ free_area = [o \in Orders |-> IF o = MAX_ORDER THEN <<0>> ELSE <<>>]
  /\ pc = "idle"
  /\ size = 0
  /\ page = 0
  /\ order = MIN_ORDER
  /\ found_order = MIN_ORDER
  /\ live = {}
  /\ ret = NoAnswer

-----------------------------------------------------------------------------
(* buddy_alloc *)

\* The three early returns: a size that is not positive, a size above the
\* whole memory, and no free block of a sufficient order.
AllocFail(bytes) ==
  /\ pc = "idle"
  /\ \/ bytes <= 0
     \/ bytes > 2^MAX_ORDER
     \/ \E o \in Orders : Fits(bytes, o) /\ \A f \in o..MAX_ORDER : list_empty(free_area[f])
  /\ ret' = <<bytes, NULL>>
  /\ UNCHANGED <<pgOrder, pgFree, free_area, pc, size, page, order, found_order, live>>

\* Steps 1 to 3: choose the orders and take the head of the free list.
AllocTake(bytes) ==
  /\ pc = "idle"
  /\ bytes > 0
  /\ size' = bytes
  /\ \E o \in Orders, f \in Orders :
       /\ Fits(bytes, o)
       /\ FirstNonEmpty(o, f)
       /\ order' = o
       /\ found_order' = f
       /\ page' = Head(free_area[f])
       /\ free_area' = [free_area EXCEPT ![f] = list_del_init(Head(@), @)]
       /\ pgFree' = [pgFree EXCEPT ![Head(free_area[f])] = FALSE]
  /\ pc' = "split"
  /\ ret' = NoAnswer
  /\ UNCHANGED <<pgOrder, live>>

\* Mutant: the loop makes no progress one order above the one wanted.
AllocSplitStalls ==
  /\ pc = "split"
  /\ found_order > order + 1
  /\ found_order' = found_order - 1
  /\ LET buddy == BuddyOf(page, found_order - 1) IN
       /\ pgOrder' = [pgOrder EXCEPT ![buddy] = found_order - 1,
                                     ![page] = found_order - 1]
       /\ pgFree' = [pgFree EXCEPT ![buddy] = TRUE]
       /\ free_area' = [free_area EXCEPT ![found_order - 1] = list_add(buddy, @)]
  /\ UNCHANGED <<pc, size, page, order, live, ret>>

\* One iteration of the loop of step 4: the right half becomes free.
AllocSplit ==
  /\ pc = "split"
  /\ found_order > order
  /\ found_order' = found_order - 1
  /\ LET buddy == BuddyOf(page, found_order - 1) IN
       /\ pgOrder' = [pgOrder EXCEPT ![buddy] = found_order - 1,
                                     ![page] = found_order - 1]
       /\ pgFree' = [pgFree EXCEPT ![buddy] = TRUE]
       /\ free_area' = [free_area EXCEPT ![found_order - 1] = list_add(buddy, @)]
  /\ UNCHANGED <<pc, size, page, order, live, ret>>

\* The loop has ended: mark the block allocated and return its address.
AllocReturn ==
  /\ pc = "split"
  /\ ~(found_order > order)
  /\ pgOrder' = [pgOrder EXCEPT ![page] = order]
  /\ pgFree' = [pgFree EXCEPT ![page] = FALSE]
  /\ live' = live \cup {page}
  /\ ret' = <<size, page>>
  /\ pc' = "idle"
  /\ NoLocals
  /\ UNCHANGED free_area

-----------------------------------------------------------------------------
(* buddy_free *)

\* The entry of buddy_free, which takes any page its caller names.
FreeEnter(p) ==
  /\ pc = "idle"
  /\ live' = live \ {p}
  /\ page' = p
  /\ order' = pgOrder[p]
  /\ pgFree' = [pgFree EXCEPT ![p] = TRUE]
  /\ pc' = "merge"
  /\ ret' = NoAnswer
  /\ UNCHANGED <<pgOrder, free_area, size, found_order>>

\* Callers free what buddy_alloc returned to them and they have not freed yet;
\* BuddySimulator shows that the simulator is such a caller.
FreeStart(p) == p \in live /\ FreeEnter(p)

\* Mutant: the buddy's order is not compared.
CanMergeAnyOrder(p, o) == o < MAX_ORDER /\ pgFree[BuddyOf(p, o)]

\* Mutant: the buddy's free mark is not tested.
CanMergeAllocated(p, o) == o < MAX_ORDER /\ pgOrder[BuddyOf(p, o)] = o

\* Mutant: the loop stops one order too early.
CanMergeBelowTop(p, o) ==
  /\ o < MAX_ORDER - 1
  /\ pgFree[BuddyOf(p, o)]
  /\ pgOrder[BuddyOf(p, o)] = o

\* The loop condition and the test inside the coalescing loop.
CanMerge(p, o) ==
  /\ o < MAX_ORDER
  /\ pgFree[BuddyOf(p, o)]
  /\ pgOrder[BuddyOf(p, o)] = o

\* Mutant: the buddy stays on its free list.
FreeMergeKeepsLink ==
  /\ pc = "merge"
  /\ CanMerge(page, order)
  /\ LET buddy == BuddyOf(page, order)
         low == IF buddy < page THEN buddy ELSE page IN
       /\ pgFree' = [pgFree EXCEPT ![buddy] = FALSE, ![low] = TRUE]
       /\ pgOrder' = [pgOrder EXCEPT ![low] = order + 1]
       /\ page' = low
  /\ order' = order + 1
  /\ UNCHANGED <<free_area, pc, size, found_order, live, ret>>

\* Mutant: the order is stepped up twice.
FreeMergeStepsTwice ==
  /\ pc = "merge"
  /\ CanMerge(page, order)
  /\ LET buddy == BuddyOf(page, order)
         low == IF buddy < page THEN buddy ELSE page IN
       /\ free_area' = [o \in Orders |-> list_del_init(buddy, free_area[o])]
       /\ pgFree' = [pgFree EXCEPT ![buddy] = FALSE, ![low] = TRUE]
       /\ pgOrder' = [pgOrder EXCEPT ![low] = order + 2]
       /\ page' = low
  /\ order' = order + 2
  /\ UNCHANGED <<pc, size, found_order, live, ret>>

\* One iteration of the coalescing loop: absorb the buddy, step up an order.
FreeMerge ==
  /\ pc = "merge"
  /\ CanMerge(page, order)
  /\ LET buddy == BuddyOf(page, order)
         low == IF buddy < page THEN buddy ELSE page IN
       /\ free_area' = [o \in Orders |-> list_del_init(buddy, free_area[o])]
       /\ pgFree' = [pgFree EXCEPT ![buddy] = FALSE, ![low] = TRUE]
       /\ pgOrder' = [pgOrder EXCEPT ![low] = order + 1]
       /\ page' = low
  /\ order' = order + 1
  /\ UNCHANGED <<pc, size, found_order, live, ret>>

\* The loop has ended: link the block behind the head of its free list.
FreeInsert ==
  /\ pc = "merge"
  /\ ~CanMerge(page, order)
  /\ free_area' = [free_area EXCEPT ![order] = list_add(page, @)]
  /\ pc' = "idle"
  /\ NoLocals
  /\ UNCHANGED <<pgOrder, pgFree, live, ret>>

-----------------------------------------------------------------------------
\* The steps of a call that has begun.
Step == AllocSplit \/ AllocReturn \/ FreeMerge \/ FreeInsert

Next ==
  \/ \E bytes \in Sizes : AllocFail(bytes) \/ AllocTake(bytes)
  \/ \E p \in Pages : FreeStart(p)
  \/ Step

Spec == Init /\ [][Next]_vars

-----------------------------------------------------------------------------
(* Properties *)

Linked(o) == Members(free_area[o])
FreeHeads == {p \in Pages : \E o \in Orders : p \in Linked(o)}
InFlight == IF pc = "idle" THEN {} ELSE {page}

\* The first pages of the blocks the memory is divided into.
Heads == live \cup FreeHeads \cup InFlight

\* The pages of the block of order o that starts at page p.
Extent(p, o) == p..(p + PageCount(o) - 1)

\* Type invariant.
TypeOK ==
  /\ pgOrder \in [Pages -> Orders \cup {0}]
  /\ pgFree \in [Pages -> BOOLEAN]
  /\ free_area \in [Orders -> Seq(Pages)]
  /\ pc \in {"idle", "split", "merge"}
  /\ size \in Int
  /\ page \in Pages
  /\ order \in Orders
  /\ found_order \in Orders
  /\ live \subseteq Pages
  /\ ret \in (Int \X (Pages \cup {NULL})) \cup {NoAnswer}

\* The free lists and the descriptors tell the same story: a linked page is
\* marked free with the order of its list and is linked once, and neither an
\* allocated block nor the block a call is working on is linked.  The order the
\* call works with is that of its block.  This is what lets buddy_free trust
\* buddy->free and buddy->order, although it never clears the marks of a page
\* that disappears inside a larger block.
ListsMatchDescriptors ==
  /\ \A o \in Orders : NoDup(free_area[o])
  /\ \A o \in Orders : \A p \in Linked(o) : pgFree[p] /\ pgOrder[p] = o
  /\ \A p \in live : ~pgFree[p]
  /\ live \cap FreeHeads = {}
  /\ InFlight \cap (live \cup FreeHeads) = {}
  /\ pc = "split" => order <= found_order /\ pgOrder[page] = found_order
  /\ pc = "merge" => pgOrder[page] = order /\ pgFree[page]

\* The blocks of the orders ord that start at the pages H divide the memory:
\* each is aligned to its size, no two overlap, and no page is left out.
Tiling(H, ord) ==
  /\ \A p \in H : ord[p] \in Orders /\ p % PageCount(ord[p]) = 0
  /\ \A p, q \in H : p # q => Extent(p, ord[p]) \cap Extent(q, ord[q]) = {}
  /\ \A x \in Pages : \E p \in H : x \in Extent(p, ord[p])

\* The allocated blocks, the free blocks and the block in the hands of the
\* running call divide the memory between them: no block is handed out twice,
\* and none is lost by a split, a merge or a long series of both.
BlocksTileMemory == Tiling(Heads, pgOrder)

\* No two free blocks are buddies of the same order: buddy_free has combined
\* every pair it could ("This process continues until one of the buddies is
\* not free", buddy.c).
Coalesced ==
  \A o \in Orders : o < MAX_ORDER => \A p \in Linked(o) : BuddyOf(p, o) \notin Linked(o)

\* No call touches the descriptor of a block that stays allocated across it:
\* the order that a later buddy_free reads is the order that was allocated.
LiveBlocksUntouched ==
  [][\A p \in live \cap live' : pgOrder'[p] = pgOrder[p] /\ pgFree'[p] = pgFree[p]]_vars

-----------------------------------------------------------------------------
(* What callers are promised: PageAllocator, with the blocks that are      *)
(* handed out read off live and the descriptors.                           *)
Promise == INSTANCE PageAllocator WITH
  alloc <- {<<p, pgOrder[p]>> : p \in live},
  asked <- size

\* The allocator implements its promise: the block returned is the smallest
\* that holds the request, is aligned and overlaps no other, and NULL is
\* returned only if no aligned run of pages of that size is unallocated.
ImplementsPromise == Promise!Spec
=============================================================================
