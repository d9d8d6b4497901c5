------------------------------ MODULE LinkedQueue ------------------------------
(***************************************************************************)
(* The nodes of the priority queue of lab7, libpriqueue.c, and the loops   *)
(* of offer and remove, which change the list one link at a time.          *)
(***************************************************************************)
EXTENDS Integers, Sequences, FiniteSets

CONSTANTS Items,
          ItemBefore,   \* {<<x, y>> : comparer(x, y) < 0}
          NULL,
          MAX_NODES     \* bound: nodes of the list

ASSUME QueueAssumption ==
  /\ MAX_NODES \in Nat
  /\ NULL \notin Items /\ NULL \notin 1..MAX_NODES /\ ItemBefore \subseteq Items \X Items

VARIABLES top,
          nodes,          \* the allocated nodes
          queue_at,       \* "out", in the loop of "offer" or "remove", or "destroyed"
          ptr,            \* the argument of the call that runs
          prev, target,   \* its pointers
          count,          \* the index in offer, removed in remove
          returned        \* what the last call has returned

queueVars == <<top, nodes, queue_at, ptr, prev, target, count, returned>>

\* The nodes in the order of the links from a node on.  A link to freed memory
\* leads nowhere.
Chain(first) ==
  LET Target(node) == IF node \in DOMAIN nodes THEN node ELSE NULL
      \* the node n links behind first
      link[n \in 0..Cardinality(DOMAIN nodes)] ==
        IF n = 0 THEN Target(first)
        ELSE IF link[n - 1] = NULL THEN NULL ELSE Target(nodes[link[n - 1]].next)
  IN [k \in 1..Cardinality({n \in DOMAIN link : link[n] # NULL}) |-> link[k - 1]]

list_size(node) == Len(Chain(node))
node_at(node, index) == IF index \in 0..(list_size(node) - 1) THEN Chain(node)[index + 1]
                                                              ELSE NULL

QueueInit ==
  /\ top = NULL
  /\ nodes = [n \in {} |-> 0]
  /\ queue_at = "out"
  /\ ptr = NULL /\ prev = NULL /\ target = NULL /\ count = 0 /\ returned = NULL

\* The call returns value.
Return(value) ==
  /\ returned' = value /\ queue_at' = "out"
  /\ ptr' = NULL /\ prev' = NULL /\ target' = NULL /\ count' = 0

Loop(op, x) ==
  /\ queue_at' = op /\ ptr' = x /\ prev' = NULL /\ target' = top /\ count' = 0
  /\ UNCHANGED <<top, nodes, returned>>

\* new_node: a node of ptr that links to next.
FreeNode == CHOOSE n \in 1..MAX_NODES : n \notin DOMAIN nodes
NewNode(next) ==
  [n \in DOMAIN nodes \cup {FreeNode} |-> IF n = FreeNode THEN [item |-> ptr, next |-> next]
                                                          ELSE nodes[n]]

priqueue_offer(x) ==
  queue_at = "out" /\ Cardinality(DOMAIN nodes) < MAX_NODES /\ Loop("offer", x)

\* Mutant: an item goes before those of its priority.
PrecedesOrTies(x, y) == <<y, x>> \notin ItemBefore

\* comparer(x, y) < 0
Precedes(x, y) == <<x, y>> \in ItemBefore

\* The node is linked where the loop of offer has stopped, or into an empty list.
LinkNode ==
  /\ queue_at = "offer"
  /\ target # NULL => Precedes(ptr, nodes[target].item)
  /\ IF prev = NULL
     THEN top' = FreeNode /\ nodes' = NewNode(target)
     ELSE nodes' = [NewNode(target) EXCEPT ![prev].next = FreeNode] /\ UNCHANGED top
  /\ Return(count)

\* Both loops pass a node: the item of a node it passes precedes ptr or is equal
\* in offer, and is another one in remove.
PassNode ==
  /\ target # NULL
  /\ \/ queue_at = "offer" /\ ~Precedes(ptr, nodes[target].item)
        /\ count' = count + 1
     \/ queue_at = "remove" /\ nodes[target].item # ptr
        /\ UNCHANGED count
  /\ prev' = target /\ target' = nodes[target].next
  /\ UNCHANGED <<top, nodes, queue_at, ptr, returned>>

priqueue_remove(x) == queue_at = "out" /\ Loop("remove", x)

Without(links, node) == [n \in DOMAIN links \ {node} |-> links[n]]

\* A node of remove's item is taken out and freed.
RemoveNode ==
  /\ queue_at = "remove" /\ target # NULL /\ nodes[target].item = ptr
  /\ top' = IF target = top THEN nodes[top].next ELSE top
  /\ nodes' = Without(IF prev = NULL THEN nodes
                      ELSE [nodes EXCEPT ![prev].next = nodes[target].next], target)
  /\ target' = nodes[target].next /\ count' = count + 1
  /\ UNCHANGED <<queue_at, ptr, prev, returned>>

RemoveEnds == /\ queue_at = "remove" /\ target = NULL
              /\ Return(count) /\ UNCHANGED <<top, nodes>>

\* poll is remove_at(0).
priqueue_remove_at(index) ==
  /\ queue_at = "out"
  /\ IF node_at(top, index) = NULL
     THEN Return(NULL) /\ UNCHANGED <<top, nodes>>
     ELSE LET node == node_at(top, index)
              before == node_at(top, index - 1)
          IN /\ top' = IF index = 0 THEN nodes[top].next ELSE top
             /\ nodes' = Without(IF index = 0 THEN nodes
                                 ELSE [nodes EXCEPT ![before].next = nodes[node].next], node)
             /\ Return(nodes[node].item)

\* peek is at(0).
priqueue_at(index) ==
  /\ queue_at = "out"
  /\ Return(IF node_at(top, index) = NULL THEN NULL ELSE nodes[node_at(top, index)].item)
  /\ UNCHANGED <<top, nodes>>

priqueue_size == queue_at = "out" /\ Return(list_size(top)) /\ UNCHANGED <<top, nodes>>

\* q->top is left as it was.
priqueue_destroy ==
  /\ queue_at = "out"
  /\ nodes' = [n \in DOMAIN nodes \ {Chain(top)[k] : k \in 1..list_size(top)} |-> nodes[n]]
  /\ queue_at' = "destroyed"
  /\ UNCHANGED <<top, ptr, prev, target, count, returned>>

QueueStep == LinkNode \/ PassNode \/ RemoveNode \/ RemoveEnds
QueueNext == \/ QueueStep \/ priqueue_size \/ priqueue_destroy
             \/ \E x \in Items : priqueue_offer(x) \/ priqueue_remove(x)
             \/ \E index \in -1..MAX_NODES : priqueue_remove_at(index) \/ priqueue_at(index)

-----------------------------------------------------------------------------
(* Properties *)

\* The items of the list.
QueueItems == LET chain == Chain(top)
              IN [k \in DOMAIN chain |-> nodes[chain[k]].item]

\* A node is allocated exactly as long as it is in the list, during a removal
\* as well, so that no link leads to freed memory and none is lost.
NodesLinked ==
  IF queue_at = "destroyed" THEN DOMAIN nodes = {}
  ELSE LET chain == Chain(top)
       IN {chain[k] : k \in DOMAIN chain} = DOMAIN nodes

\* What counts of the list: what is still to be removed does not.
List == INSTANCE PriQueue
QueueContents ==
  CASE queue_at = "destroyed"        -> <<>>
    [] queue_at = "remove"           -> List!Others(QueueItems, ptr)
    [] queue_at \in {"out", "offer"} -> QueueItems

\* What the call that runs will return, as far as it is decided.
QueueAnswer ==
  IF queue_at = "remove"
  THEN count + Cardinality({k \in DOMAIN QueueItems : QueueItems[k] = ptr})
  ELSE returned

\* The linked list is the ordered sequence that libpriqueue.h documents.  A
\* removal of all occurrences is one step of it, though the loop takes them out
\* one by one.  The nodes in the meantime are those that are allocated
\* (libpriqueue.c).
Ordered == INSTANCE AbstractPriQueue WITH
  contents <- QueueContents, answer <- QueueAnswer, destroyed <- queue_at = "destroyed"

IsOrderedQueue == Ordered!Spec /\ []NodesLinked
=============================================================================
