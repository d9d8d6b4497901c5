----------------------------- MODULE SizeRequest -----------------------------
(***************************************************************************)
(* From the text of a request to the order of a block: the size that       *)
(* parse_alloc (project2/buddy/simulator.c) computes from the number and   *)
(* the unit on the line, and the loop of buddy_alloc (project2/buddy/      *)
(* buddy.c) that searches the order, both with the width of int.           *)
(*                                                                         *)
(* Signed overflow and oversized shifts are undefined in C; modelled is    *)
(* what the build of the Makefile (gcc without optimisation) produces:     *)
(* products wrap, and the processor takes the shift count modulo the       *)
(* width.                                                                  *)
(***************************************************************************)
EXTENDS Integers

CONSTANTS INT_BITS,              \* the width of int
          KILO,                  \* the factor of the unit K
          MIN_ORDER, MAX_ORDER

ASSUME WidthAssumption ==
  /\ INT_BITS \in Nat /\ MIN_ORDER \in Nat /\ MAX_ORDER \in Nat /\ KILO \in Nat
  /\ MIN_ORDER <= MAX_ORDER /\ MAX_ORDER < INT_BITS - 1

INT_MAX == 2^(INT_BITS - 1) - 1
INT_MIN == -(2^(INT_BITS - 1))
IntValues == INT_MIN..INT_MAX

VARIABLES number,  \* the number on the line
          factor,  \* KILO if the unit K follows it, else 1
          size, order,
          pc

requestVars == <<number, factor, size, order, pc>>

\* The value of the low INT_BITS bits of x.
Wrap(x) == ((x - INT_MIN) % 2^INT_BITS) + INT_MIN

\* 1 << n
ShiftOne(n) == Wrap(2^(n % INT_BITS))

RequestInit ==
  /\ number \in IntValues
  /\ factor \in {1, KILO}
  /\ size = 0
  /\ order = 0
  /\ pc = "parse"

\* size *= 1024 in parse_alloc.
Parse ==
  /\ pc = "parse"
  /\ size' = Wrap(number * factor)
  /\ pc' = "alloc"
  /\ UNCHANGED <<number, factor, order>>

\* buddy_alloc up to its loop.
Enter ==
  /\ pc = "alloc"
  /\ IF size <= 0 THEN pc' = "null" /\ UNCHANGED order
                  ELSE pc' = "loop" /\ order' = MIN_ORDER
  /\ UNCHANGED <<number, factor, size>>

\* One iteration of the loop.  Beyond the width only order % INT_BITS matters,
\* so the counter is folded back by INT_BITS there: the bound of the model.
Iterate ==
  /\ pc = "loop"
  /\ ShiftOne(order) < size
  /\ order' = IF order + 1 < 2 * INT_BITS THEN order + 1 ELSE INT_BITS
  /\ UNCHANGED <<number, factor, size, pc>>

\* Mutant: a request for the whole memory is refused.
LoopEndsBelowTop ==
  /\ pc = "loop"
  /\ ShiftOne(order) >= size
  /\ pc' = IF order >= MAX_ORDER THEN "null" ELSE "found"
  /\ UNCHANGED <<number, factor, size, order>>

\* The loop has ended; a request for more than the whole memory is refused.
LoopEnds ==
  /\ pc = "loop"
  /\ ShiftOne(order) >= size
  /\ pc' = IF order > MAX_ORDER THEN "null" ELSE "found"
  /\ UNCHANGED <<number, factor, size, order>>

RequestNext == Parse \/ Enter \/ Iterate \/ LoopEnds

\* The program computes on; nothing in it waits.
RequestSpec == RequestInit /\ [][RequestNext]_requestVars /\ WF_requestVars(RequestNext)

-----------------------------------------------------------------------------
(* Properties *)

\* The largest size for which the loop finds a power of two.
LargestPower == 2^(INT_BITS - 2)

\* The answer is the smallest order that holds the size, or the size exceeds the
\* memory.
Answered ==
  /\ pc \in {"found", "null"}
  /\ pc = "found" =>
       /\ order \in MIN_ORDER..MAX_ORDER
       /\ size <= 2^order
       /\ order > MIN_ORDER => 2^(order - 1) < size
  /\ pc = "null" => size <= 0 \/ size > 2^MAX_ORDER

\* buddy_alloc answers every size up to the largest power of two of the type,
\* with the smallest order that holds it, and refuses exactly the sizes that
\* exceed the memory.
SmallSizesAnswered == (pc = "alloc" /\ size <= LargestPower) ~> Answered

\* Every request is answered: "if (order > MAX_ORDER) return NULL; /* Request
\* too large */" (buddy.c).
EveryRequestAnswered == <>(pc \in {"found", "null"})
=============================================================================
