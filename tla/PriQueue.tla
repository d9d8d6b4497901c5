------------------------------ MODULE PriQueue ------------------------------
(***************************************************************************)
(* The priority queue of lab7, libpriqueue.c: a singly linked list that    *)
(* offer keeps ordered by the comparer.  The list is the sequence of its   *)
(* items; before is the relation {<<x, y>> : comparer(x, y) < 0}.           *)
(***************************************************************************)
EXTENDS Integers, Sequences

\* Where offer links the item: before the first item it precedes, or last.
IsPlace(q, item, before, i) ==
  /\ i \in 1..(Len(q) + 1)
  /\ i <= Len(q) => <<item, q[i]>> \in before
  /\ \A k \in 1..(i - 1) : <<item, q[k]>> \notin before

\* Mutant: the item is linked at the end.
priqueue_append(q, item, before) == Append(q, item)

priqueue_offer(q, item, before) ==
  LET i == CHOOSE k \in 1..(Len(q) + 1) : IsPlace(q, item, before, k)
  IN  SubSeq(q, 1, i - 1) \o <<item>> \o SubSeq(q, i, Len(q))

\* poll is remove_at(q, 0): the item is priqueue_peek(q), NULL if there is none.
priqueue_peek(q, null) == IF q = <<>> THEN null ELSE Head(q)
priqueue_poll(q) == IF q = <<>> THEN q ELSE Tail(q)

\* What priqueue_remove leaves: the items but for every occurrence of one.
Others(q, item) ==
  LET kept[n \in 0..Len(q)] ==
        IF n = 0 THEN <<>>
        ELSE IF q[n] = item THEN kept[n - 1] ELSE Append(kept[n - 1], q[n])
  IN  kept[Len(q)]
=============================================================================
