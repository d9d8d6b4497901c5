--------------------------- MODULE AbstractPriQueue ---------------------------
(***************************************************************************)
(* What libpriqueue.h promises: a sequence of items in the order of the    *)
(* comparer, items of equal priority in the order in which they came.      *)
(***************************************************************************)
EXTENDS PriQueue, FiniteSets

CONSTANTS Items,
          ItemBefore, \* {<<x, y>> : comparer(x, y) < 0}
          NULL

VARIABLES contents,
          answer,     \* what the last call has returned
          destroyed

vars == <<contents, answer, destroyed>>

Init == contents = <<>> /\ answer = NULL /\ destroyed = FALSE

Offer(x) ==
  \E i \in 1..(Len(contents) + 1) :
    /\ IsPlace(contents, x, ItemBefore, i)
    /\ contents' = SubSeq(contents, 1, i - 1) \o <<x>> \o SubSeq(contents, i, Len(contents))
    /\ answer' = i - 1

\* The item at an index counted from 0, and the removal of it.
At(index) == IF index \in 0..(Len(contents) - 1) THEN contents[index + 1] ELSE NULL
Look(index) == answer' = At(index) /\ UNCHANGED contents
RemoveAt(index) ==
  /\ answer' = At(index)
  /\ contents' = SubSeq(contents, 1, index) \o SubSeq(contents, index + 2, Len(contents))

\* Every occurrence of x goes.
Remove(x) ==
  /\ contents' = Others(contents, x)
  /\ answer' = Cardinality({k \in DOMAIN contents : contents[k] = x})

Size == answer' = Len(contents) /\ UNCHANGED contents
Destroy == contents' = <<>> /\ UNCHANGED answer

Next ==
  /\ ~destroyed
  /\ \/ /\ \/ \E x \in Items : Offer(x) \/ Remove(x)
           \/ \E index \in -1..Len(contents) : Look(index) \/ RemoveAt(index)
           \/ Size
        /\ UNCHANGED destroyed
     \/ Destroy /\ destroyed' = TRUE

Spec == Init /\ [][Next]_vars
=============================================================================
