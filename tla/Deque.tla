--------------------------------- MODULE Deque ---------------------------------
(***************************************************************************)
(* The double ended queue of quash, deque.h: a ring buffer that doubles    *)
(* when it is full.  The macros IMPLEMENT_DEQUE and                         *)
(* IMPLEMENT_DEQUE_MEMORY_POOL generate the same functions and differ in   *)
(* where memory comes from only; functions here take the structure and     *)
(* return it.                                                              *)
(***************************************************************************)
EXTENDS Integers, Sequences

CONSTANTS Elements,
          Garbage    \* what an uninitialized slot holds

ASSUME GarbageAssumption == Garbage \notin Elements

\* A structure whose data is the null pointer.  Its capacity is 0, and that of
\* no other is.
NullDeque == [data |-> <<>>, cap |-> 0, front |-> 0, back |-> 0, destructor |-> FALSE]
Valid(d) == d.cap # 0

\* A buffer asked for with capacity 0 has no slots; the first push brings some.
new_destructable(init_cap, destructor) ==
  [data |-> [k \in 0..(init_cap - 1) |-> Garbage],
   cap |-> IF init_cap > 0 THEN init_cap ELSE 1,
   front |-> 0, back |-> 0, destructor |-> destructor]

is_empty(d) == d.front = d.back
length(d) == (d.back - d.front + d.cap) % d.cap

\* The slot k places behind the front.
Slot(d, k) == d.data[(d.front + k) % d.cap]

\* The elements in the order in which apply visits them.
Contents(d) == [k \in 1..length(d) |-> Slot(d, k - 1)]

empty(d) == [d EXCEPT !.front = 0, !.back = 0]

\* One slot stays free, to tell a full buffer from an empty one.
on_push(d) ==
  IF d.front = (d.back + 1) % d.cap
  THEN [data |-> [k \in 0..(2 * d.cap - 1) |->
                    IF k < d.cap - 1 THEN Slot(d, k) ELSE Garbage],
        cap |-> 2 * d.cap, front |-> 0, back |-> d.cap - 1, destructor |-> d.destructor]
  ELSE d

push_front(d, e) ==
  LET g == on_push(d)
      front == (g.front + g.cap - 1) % g.cap
  IN [g EXCEPT !.front = front, !.data[front] = e]

push_back(d, e) ==
  LET g == on_push(d)
  IN [g EXCEPT !.data[g.back] = e, !.back = (@ + 1) % g.cap]

\* The slot of the last element.
Last(d) == (d.back + d.cap - 1) % d.cap

peek_front(d) == d.data[d.front]
peek_back(d) == d.data[Last(d)]

\* What the pops leave; what they return is what the peeks return.
pop_front(d) == [d EXCEPT !.front = (@ + 1) % d.cap]
pop_back(d) == [d EXCEPT !.back = Last(d)]

update_front(d, e) == [d EXCEPT !.data[d.front] = e]
update_back(d, e) == [d EXCEPT !.data[Last(d)] = e]

\* Mutant: the elements are taken from the beginning of the buffer.
realign_in_place(d) == [d EXCEPT !.front = 0, !.back = length(d)]

\* The elements move to the beginning of a new buffer.
realign(d) ==
  IF d.front = 0 THEN d
  ELSE [d EXCEPT !.data = [k \in 0..(d.cap - 1) |->
                             IF k < length(d) THEN Slot(d, k) ELSE Garbage],
                 !.front = 0, !.back = length(d)]

\* The array that as_array returns, and its length elements that count.
as_array(d) == [k \in 1..length(d) |-> realign(d).data[k - 1]]
=============================================================================
