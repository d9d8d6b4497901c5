------------------------------ MODULE FreeList ------------------------------
(***************************************************************************)
(* The intrusive circular list of project2/buddy/list.h, as the buddy      *)
(* allocator uses it.  A list head is the sequence of the entries that are *)
(* linked behind it, first entry first; an entry that is linked nowhere    *)
(* (INIT_LIST_HEAD) occurs in no sequence.                                 *)
(***************************************************************************)
EXTENDS Integers, Sequences

Members(s) == {s[i] : i \in 1..Len(s)}

\* Every entry is linked at most once.
NoDup(s) == \A i, j \in 1..Len(s) : s[i] = s[j] => i = j

list_empty(s) == s = <<>>

\* list_add links the entry directly behind the head: the lists are LIFO.
list_add(entry, s) == <<entry>> \o s

\* list_del_init unlinks the entry from the list it is on; on an entry that
\* is linked nowhere it changes nothing.
list_del_init(entry, s) ==
  IF entry \in Members(s)
  THEN LET i == CHOOSE k \in 1..Len(s) : s[k] = entry
       IN  [j \in 1..(Len(s) - 1) |-> IF j < i THEN s[j] ELSE s[j + 1]]
  ELSE s
=============================================================================
