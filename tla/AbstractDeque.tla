----------------------------- MODULE AbstractDeque -----------------------------
(***************************************************************************)
(* What deque.h promises: a sequence that is changed at both ends.  Using  *)
(* a deque that is not valid, or an element that is not there, is the end  *)
(* of the program.                                                         *)
(***************************************************************************)
EXTENDS Integers, Sequences

CONSTANT Elements

VARIABLES contents, valid,
          destructor, \* whether the elements are passed to a destructor
          answer,     \* the elements the last call has returned or destroyed
          aborted

vars == <<contents, valid, destructor, answer, aborted>>

Front(s) == SubSeq(s, 1, Len(s) - 1)

Init == /\ contents = <<>> /\ valid = FALSE /\ destructor = FALSE
        /\ answer = <<>> /\ aborted = FALSE

Become(s, a) == /\ ~aborted
                /\ contents' = s /\ answer' = a
                /\ UNCHANGED aborted

New == /\ ~valid /\ Become(<<>>, <<>>)
       /\ valid' = TRUE /\ destructor' \in BOOLEAN

Push == \E e \in Elements :
          Become(<<e>> \o contents, <<>>) \/ Become(Append(contents, e), <<>>)

Pop == /\ contents # <<>>
       /\ \/ Become(Tail(contents), <<Head(contents)>>)
          \/ Become(Front(contents), <<contents[Len(contents)]>>)

Peek == /\ contents # <<>>
        /\ \E k \in {1, Len(contents)} : Become(contents, <<contents[k]>>)

Update == /\ contents # <<>>
          /\ \E e \in Elements, k \in {1, Len(contents)} :
               Become([contents EXCEPT ![k] = e], <<>>)

Clear == Become(<<>>, <<>>)

\* Every operation but new and destroy needs a valid deque.
Use == valid /\ (Push \/ Pop \/ Peek \/ Update \/ Clear) /\ UNCHANGED <<valid, destructor>>

\* as_array hands the elements to the caller, destroy to the destructor.
GiveUp == /\ \/ valid /\ Become(<<>>, contents)
             \/ Become(<<>>, IF destructor THEN contents ELSE <<>>)
          /\ valid' = FALSE /\ UNCHANGED destructor

Abort == /\ ~aborted /\ contents = <<>>
         /\ aborted' = TRUE
         /\ UNCHANGED <<contents, valid, destructor, answer>>

Next == New \/ Use \/ GiveUp \/ Abort

Spec == Init /\ [][Next]_vars
=============================================================================
