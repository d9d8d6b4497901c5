---------------------------- MODULE PageAllocator ----------------------------
(***************************************************************************)
(* What the buddy allocator promises its callers, with none of its data    *)
(* structures: a set of allocated blocks, each the pair of its first page  *)
(* and its order.                                                          *)
(***************************************************************************)
EXTENDS Integers

CONSTANTS MIN_ORDER, MAX_ORDER, Sizes, NULL, NoAnswer

VARIABLES alloc,  \* the allocated blocks
          asked,  \* the size asked for, while a request is worked on
          ret     \* the last request with its answer, until the next call begins

Orders == MIN_ORDER..MAX_ORDER
PageCount(o) == 2^(o - MIN_ORDER)
Pages == 0..(PageCount(MAX_ORDER) - 1)
Extent(p, o) == p..(p + PageCount(o) - 1)

\* o is the order of the smallest block that holds size bytes.
OrderOf(size, o) == size > 0 /\ size <= 2^o /\ \A q \in MIN_ORDER..(o - 1) : 2^q < size

\* The aligned block of order o at page p is inside the memory and overlaps
\* no allocated block.
Room(p, o) ==
  /\ p % PageCount(o) = 0
  /\ Extent(p, o) \subseteq Pages
  /\ \A b \in alloc : Extent(p, o) \cap Extent(b[1], b[2]) = {}

Init == alloc = {} /\ asked = 0 /\ ret = NoAnswer

\* A request is taken up; no other call begins before it is answered.
Ask(size) == asked = 0 /\ asked' = size /\ ret' = NoAnswer /\ UNCHANGED alloc

Granted ==
  \E o \in Orders, p \in Pages :
    /\ OrderOf(asked, o)
    /\ Room(p, o)
    /\ alloc' = alloc \cup {<<p, o>>}
    /\ asked' = 0
    /\ ret' = <<asked, p>>

\* A request is refused only if it is not positive, exceeds the memory, or
\* finds no room.
Refused(size) ==
  /\ asked = 0
  /\ \A o \in Orders : OrderOf(size, o) => \A p \in Pages : ~Room(p, o)
  /\ ret' = <<size, NULL>>
  /\ UNCHANGED <<alloc, asked>>

Released(b) ==
  /\ asked = 0
  /\ alloc' = alloc \ {b}
  /\ ret' = NoAnswer
  /\ UNCHANGED asked

Next == \/ \E size \in Sizes : Ask(size) \/ Refused(size)
        \/ Granted
        \/ \E b \in alloc : Released(b)

Spec == Init /\ [][Next]_<<alloc, asked, ret>>
=============================================================================
