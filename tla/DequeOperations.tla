---------------------------- MODULE DequeOperations ----------------------------
(***************************************************************************)
(* A variable of a type made by deque.h, and any sequence of calls of the  *)
(* generated functions.                                                    *)
(***************************************************************************)
EXTENDS Deque

CONSTANTS InitCaps,     \* the capacities new is called with
          MAX_LENGTH    \* bound: elements that are in the deque

ASSUME InitCapsAssumption == InitCaps \subseteq Nat
ASSUME MaxLengthAssumption == MAX_LENGTH \in Nat

VARIABLES deq,
          answer,    \* the elements the last call has returned or destroyed
          aborted    \* an assertion has failed, or an empty deque was popped

dequeVars == <<deq, answer, aborted>>

DequeInit == deq = NullDeque /\ answer = <<>> /\ aborted = FALSE

\* The call returns a and leaves d.
Returns(d, a) == deq' = d /\ answer' = a /\ UNCHANGED aborted

\* A call with a precondition, which the code checks.
Call(ok, d, a) ==
  IF ok THEN Returns(d, a) ELSE aborted' = TRUE /\ UNCHANGED <<deq, answer>>

HasElements == Valid(deq) /\ ~is_empty(deq)

New == ~Valid(deq) /\ \E c \in InitCaps, f \in BOOLEAN : Returns(new_destructable(c, f), <<>>)
Push(e) ==
  /\ Valid(deq) => length(deq) < MAX_LENGTH
  /\ Call(Valid(deq), push_front(deq, e), <<>>) \/ Call(Valid(deq), push_back(deq, e), <<>>)
Pop == \/ Call(HasElements, pop_front(deq), <<peek_front(deq)>>)
       \/ Call(HasElements, pop_back(deq), <<peek_back(deq)>>)
Peek == \/ Call(HasElements, deq, <<peek_front(deq)>>)
        \/ Call(HasElements, deq, <<peek_back(deq)>>)
Update(e) == \/ Call(HasElements, update_front(deq, e), <<>>)
             \/ Call(HasElements, update_back(deq, e), <<>>)
Clear == Call(Valid(deq), empty(deq), <<>>)
AsArray == Call(Valid(deq), [NullDeque EXCEPT !.destructor = deq.destructor], as_array(deq))
Destroy ==
  IF Valid(deq) THEN Returns([NullDeque EXCEPT !.destructor = deq.destructor],
                             IF deq.destructor THEN Contents(deq) ELSE <<>>)
                ELSE Returns(deq, <<>>)

DequeNext ==
  /\ ~aborted
  /\ \/ New \/ Pop \/ Peek \/ Clear \/ AsArray \/ Destroy
     \/ \E e \in Elements : Push(e) \/ Update(e)

DequeSpec == DequeInit /\ [][DequeNext]_dequeVars

-----------------------------------------------------------------------------
(* Properties *)

\* Type invariant: the indices are in the buffer, whose slots hold an element or
\* were never written.
DequeTypeOK ==
  /\ \/ deq.cap = 0 /\ deq.front = 0 /\ deq.back = 0
     \/ /\ deq.cap \in Nat \ {0}
        /\ deq.front \in 0..(deq.cap - 1) /\ deq.back \in 0..(deq.cap - 1)
        /\ deq.cap > 1 => deq.data \in [0..(deq.cap - 1) -> Elements \cup {Garbage}]
  /\ deq.destructor \in BOOLEAN
  /\ aborted \in BOOLEAN

\* The ring buffer is a sequence to its callers, however often it has wrapped
\* around, grown and been realigned: no call loses, repeats, reorders or makes
\* up an element, and the program ends only where an empty deque is used.
Sequence == INSTANCE AbstractDeque WITH
  contents <- IF Valid(deq) THEN Contents(deq) ELSE <<>>,
  valid <- Valid(deq),
  destructor <- deq.destructor

IsSequence == Sequence!Spec
=============================================================================
