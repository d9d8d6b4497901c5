------------------------------- MODULE DequeProofs -------------------------------
(***************************************************************************)
(* The ring buffer of deque.h is a sequence, for every set of elements,    *)
(* every initial capacity and every length.                                *)
(***************************************************************************)
EXTENDS DequeOperations, TLAPS

\* A valid structure: a record with the fields of struct_name.
IsDeque(d) ==
  /\ DOMAIN d = {"data", "cap", "front", "back", "destructor"}
  /\ d.cap \in Nat \ {0}
  /\ d.front \in 0..(d.cap - 1)
  /\ d.back \in 0..(d.cap - 1)
  /\ d.cap > 1 => d.data \in [0..(d.cap - 1) -> Elements \cup {Garbage}]
  /\ d.destructor \in BOOLEAN

-----------------------------------------------------------------------------
(* Indices *)

\* An index that has gone around the buffer once at most.
LEMMA Wrap ==
  ASSUME NEW c \in Nat \ {0}, NEW a \in 0..(2 * c - 1)
  PROVE  a % c = IF a < c THEN a ELSE a - c
<1>1. CASE a < c
  BY <1>1
<1>2. CASE a >= c
  <2> DEFINE q == a \div c
  <2>1. /\ q \in Int /\ a % c \in 0..(c - 1)
        /\ a = c * q + (a % c)
    OBVIOUS
  <2>2. ~(q <= 0)
    <3>1. q <= 0 => c * q <= 0
      BY <2>1
    <3> QED BY <1>2, <2>1, <3>1
  <2>3. ~(q >= 2)
    <3>1. q >= 2 => c * q >= 2 * c
      BY <2>1
    <3> QED BY <2>1, <3>1
  <2>4. q = 1
    BY <2>1, <2>2, <2>3
  <2> QED BY <1>2, <2>1, <2>4
<1> QED BY <1>1, <1>2

\* The indices the functions compute from an index f and an index b.
LEMMA WrapAround ==
  ASSUME NEW c \in Nat \ {0}, NEW f \in 0..(c - 1), NEW b \in 0..(c - 1)
  PROVE  /\ (b - f + c) % c = IF b >= f THEN b - f ELSE b - f + c
         /\ (f + c - 1) % c = IF f = 0 THEN c - 1 ELSE f - 1
         /\ (f + 1) % c = IF f = c - 1 THEN 0 ELSE f + 1
         /\ \A k \in 0..(c - 1) : (f + k) % c = IF f + k < c THEN f + k ELSE f + k - c
<1>1. (b - f + c) % c = IF b >= f THEN b - f ELSE b - f + c
  <2> DEFINE a == b - f + c
  <2>1. a \in 0..(2 * c - 1) /\ (a < c <=> b < f) /\ a - c = b - f
    OBVIOUS
  <2>2. a % c = IF a < c THEN a ELSE a - c
    BY <2>1, Wrap
  <2> HIDE DEF a
  <2>3. a % c = IF b >= f THEN b - f ELSE a
    BY <2>1, <2>2
  <2> QED BY <2>3 DEF a
<1>2. (f + c - 1) % c = IF f = 0 THEN c - 1 ELSE f - 1
  <2> DEFINE a == f + c - 1
  <2>1. a \in 0..(2 * c - 1) /\ (a < c <=> f = 0) /\ a - c = f - 1 /\ (f = 0 => a = c - 1)
    OBVIOUS
  <2>2. a % c = IF a < c THEN a ELSE a - c
    BY <2>1, Wrap
  <2> HIDE DEF a
  <2>3. a % c = IF f = 0 THEN c - 1 ELSE f - 1
    BY <2>1, <2>2
  <2> QED BY <2>3 DEF a
<1>3. ASSUME NEW k \in 0..(c - 1)
      PROVE  (f + k) % c = IF f + k < c THEN f + k ELSE f + k - c
  <2> DEFINE a == f + k
  <2>1. a \in 0..(2 * c - 1)
    OBVIOUS
  <2> HIDE DEF a
  <2>2. a % c = IF a < c THEN a ELSE a - c
    BY <2>1, Wrap
  <2> QED BY <2>2 DEF a
<1>4. (f + 1) % c = IF f = c - 1 THEN 0 ELSE f + 1
  <2>1. CASE c = 1
    <3>1. f = 0 /\ 1 \in 1..1
      BY <2>1
    <3> QED BY <2>1, <3>1, Wrap
  <2>2. CASE c # 1
    <3>1. 1 \in 0..(c - 1)
      BY <2>2
    <3> QED BY <1>3, <3>1
  <2> QED BY <2>1, <2>2
<1> QED BY <1>1, <1>2, <1>3, <1>4

\* The place in a buffer of c slots that is k places behind f.
At(c, f, k) == IF f + k < c THEN f + k ELSE f + k - c

\* Its neighbours.
Before(c, f) == IF f = 0 THEN c - 1 ELSE f - 1
After(c, f) == IF f = c - 1 THEN 0 ELSE f + 1

\* Places that are counted from f are different ones.
LEMMA Places ==
  ASSUME NEW c \in Nat \ {0}, NEW f \in 0..(c - 1), NEW k \in 0..(c - 1)
  PROVE  /\ At(c, f, k) \in 0..(c - 1)
         /\ At(c, f, 0) = f
         /\ \A j \in 0..(c - 1) : At(c, f, k) = At(c, f, j) => k = j
BY DEF At

LEMMA OtherPlace ==
  ASSUME NEW c \in Nat \ {0}, NEW f \in 0..(c - 1), NEW k \in 0..(c - 1), NEW j \in 0..(c - 1),
         k # j
  PROVE  At(c, f, k) # At(c, f, j)
BY DEF At

\* Places counted from the neighbours of f.
LEMMA PlaceFromBefore ==
  ASSUME NEW c \in Nat \ {0}, NEW f \in 0..(c - 1), NEW k \in 0..(c - 1), k # 0
  PROVE  k - 1 \in 0..(c - 1) /\ At(c, Before(c, f), k) = At(c, f, k - 1)
BY DEF At, Before

LEMMA PlaceFromAfter ==
  ASSUME NEW c \in Nat \ {0}, NEW f \in 0..(c - 1), NEW k \in 0..(c - 1), k + 1 < c
  PROVE  k + 1 \in 0..(c - 1) /\ At(c, After(c, f), k) = At(c, f, k + 1)
BY DEF At, After

\* The number of elements and the slot of each.
LEMMA Indices ==
  ASSUME NEW d, IsDeque(d)
  PROVE  /\ length(d) = IF d.back >= d.front THEN d.back - d.front
                                             ELSE d.back - d.front + d.cap
         /\ length(d) \in 0..(d.cap - 1)
         /\ length(d) = 0 <=> is_empty(d)
         /\ \A k \in 0..(d.cap - 1) :
              (d.front + k) % d.cap = IF d.front + k < d.cap THEN d.front + k
                                                             ELSE d.front + k - d.cap
<1>1. d.cap \in Nat \ {0} /\ d.front \in 0..(d.cap - 1) /\ d.back \in 0..(d.cap - 1)
  BY DEF IsDeque
<1>2. length(d) = IF d.back >= d.front THEN d.back - d.front ELSE d.back - d.front + d.cap
  BY <1>1, WrapAround DEF length
<1>3. length(d) \in 0..(d.cap - 1) /\ (length(d) = 0 <=> is_empty(d))
  BY <1>1, <1>2 DEF is_empty
<1> QED BY <1>1, <1>2, <1>3, WrapAround

\* The back of the elements is the place behind the last of them.
LEMMA BackPlace ==
  ASSUME NEW d, IsDeque(d)
  PROVE  At(d.cap, d.front, length(d)) = d.back
<1>1. d.cap \in Nat \ {0} /\ d.front \in 0..(d.cap - 1) /\ d.back \in 0..(d.cap - 1)
  BY DEF IsDeque
<1>2. length(d) = IF d.back >= d.front THEN d.back - d.front ELSE d.back - d.front + d.cap
  BY Indices
<1> QED BY <1>1, <1>2 DEF At

\* The slots beside the front and the back.
LEMMA Neighbours ==
  ASSUME NEW d, IsDeque(d)
  PROVE  /\ (d.front + d.cap - 1) % d.cap = Before(d.cap, d.front)
         /\ (d.front + 1) % d.cap = After(d.cap, d.front)
         /\ (d.back + 1) % d.cap = After(d.cap, d.back)
         /\ Last(d) = Before(d.cap, d.back)
<1>1. d.cap \in Nat \ {0} /\ d.front \in 0..(d.cap - 1) /\ d.back \in 0..(d.cap - 1)
  BY DEF IsDeque
<1> QED BY <1>1, WrapAround, ZenonT(30) DEF Last, Before, After
-----------------------------------------------------------------------------
(* What each function does to the contents *)

\* A sequence is the contents if its elements are in the slots.
LEMMA ContentsIs ==
  ASSUME NEW d, NEW S, NEW s \in Seq(S), IsDeque(d), Len(s) = length(d),
         \A k \in 1..Len(s) : s[k] = Slot(d, k - 1)
  PROVE  Contents(d) = s
BY DEF Contents

\* Where the slots are, given the numbers of the structure.
LEMMA SlotIndex ==
  ASSUME NEW d, IsDeque(d), NEW k \in 0..(d.cap - 1)
  PROVE  /\ Slot(d, k) = d.data[At(d.cap, d.front, k)]
         /\ At(d.cap, d.front, k) \in 0..(d.cap - 1)
<1>1. d.cap \in Nat \ {0} /\ d.front \in 0..(d.cap - 1)
  BY DEF IsDeque
<1> QED BY <1>1, Indices DEF Slot, At

LEMMA SlotAt ==
  ASSUME NEW d, IsDeque(d), NEW c, NEW f, d.cap = c, d.front = f, NEW k \in 0..(c - 1)
  PROVE  Slot(d, k) = d.data[At(c, f, k)]
BY SlotIndex

\* A deque into which there will be a push has room for it, and the elements it
\* had.
LEMMA OnPush ==
  ASSUME NEW d, IsDeque(d)
  PROVE  LET g == on_push(d)
         IN /\ IsDeque(g)
            /\ length(g) = length(d)
            /\ length(g) < g.cap - 1
            /\ \A k \in 0..(length(d) - 1) : Slot(g, k) = Slot(d, k)
            /\ g.destructor = d.destructor
<1> DEFINE g == on_push(d)
<1>1. /\ d.cap \in Nat \ {0} /\ d.front \in 0..(d.cap - 1) /\ d.back \in 0..(d.cap - 1)
      /\ d.cap > 1 => d.data \in [0..(d.cap - 1) -> Elements \cup {Garbage}]
      /\ d.destructor \in BOOLEAN
  BY DEF IsDeque
<1>2. (d.back + 1) % d.cap = IF d.back = d.cap - 1 THEN 0 ELSE d.back + 1
  BY Neighbours DEF After
<1>3. length(d) = IF d.back >= d.front THEN d.back - d.front ELSE d.back - d.front + d.cap
  BY Indices
<1>4. CASE d.front # (d.back + 1) % d.cap
  <2>1. g = d
    BY <1>4 DEF on_push
  <2>2. length(d) < d.cap - 1
    BY <1>1, <1>2, <1>3, <1>4
  <2> QED BY <2>1, <2>2
<1>5. CASE d.front = (d.back + 1) % d.cap
  <2>1. length(d) = d.cap - 1
    BY <1>1, <1>2, <1>3, <1>5
  <2> DEFINE new == [k \in 0..(2 * d.cap - 1) |-> IF k < d.cap - 1 THEN Slot(d, k) ELSE Garbage]
  <2>2. g = [data |-> new, cap |-> 2 * d.cap, front |-> 0, back |-> d.cap - 1,
             destructor |-> d.destructor]
    BY <1>5 DEF on_push
  <2>3. new \in [0..(2 * d.cap - 1) -> Elements \cup {Garbage}]
    <3>1. ASSUME NEW k \in 0..(2 * d.cap - 1), k < d.cap - 1
          PROVE  Slot(d, k) \in Elements \cup {Garbage}
      <4>1. d.cap > 1 /\ k \in 0..(d.cap - 1)
        BY <1>1, <3>1
      <4> QED BY <1>1, <4>1, SlotIndex, ZenonT(30)
    <3> QED BY <3>1
  <2> HIDE DEF new
  <2>4. g.data = new /\ g.cap = 2 * d.cap /\ g.front = 0 /\ g.back = d.cap - 1
        /\ g.destructor = d.destructor
    BY <2>2
  <2>5. IsDeque(g)
    <3>1. DOMAIN g = {"data", "cap", "front", "back", "destructor"}
      BY <2>2
    <3>2. g.cap \in Nat \ {0} /\ g.front \in 0..(g.cap - 1) /\ g.back \in 0..(g.cap - 1)
      BY <1>1, <2>4
    <3> QED BY <1>1, <2>3, <2>4, <3>1, <3>2 DEF IsDeque
  <2>6. length(g) = d.cap - 1
    <3> HIDE DEF g
    <3>1. length(g) = IF g.back >= g.front THEN g.back - g.front ELSE g.back - g.front + g.cap
      BY <2>5, Indices
    <3> QED BY <1>1, <2>4, <3>1
  <2>7. ASSUME NEW k \in 0..(length(d) - 1) PROVE Slot(g, k) = Slot(d, k)
    <3> HIDE DEF g
    <3>1. k \in 0..(g.cap - 1) /\ At(g.cap, g.front, k) = k
          /\ k \in 0..(2 * d.cap - 1) /\ k < d.cap - 1
      BY <1>1, <2>1, <2>4 DEF At
    <3>2. Slot(g, k) = new[k]
      BY <2>4, <2>5, <3>1, SlotIndex
    <3> QED BY <3>1, <3>2 DEF new
  <2> HIDE DEF g
  <2>8. length(g) < g.cap - 1
    BY <1>1, <2>4, <2>6
  <2> QED BY <2>1, <2>4, <2>5, <2>6, <2>7, <2>8 DEF g
<1> QED BY <1>4, <1>5

\* What is in the slots are the elements of the contents.
LEMMA ContentsFacts ==
  ASSUME NEW d, IsDeque(d)
  PROVE  /\ Len(Contents(d)) = length(d)
         /\ \A k \in 1..length(d) : Contents(d)[k] = Slot(d, k - 1)
         /\ Contents(d) = <<>> <=> is_empty(d)
<1>1. length(d) \in Nat /\ (length(d) = 0 <=> is_empty(d))
  BY Indices DEF IsDeque
<1>2. DOMAIN Contents(d) = 1..length(d) /\ \A k \in 1..length(d) : Contents(d)[k] = Slot(d, k - 1)
  BY DEF Contents
<1>3. Contents(d) \in Seq({Slot(d, k - 1) : k \in 1..length(d)})
  BY <1>1 DEF Contents
<1>4. Len(Contents(d)) = length(d)
  BY <1>1, <1>2, <1>3
<1>5. Contents(d) = <<>> <=> Len(Contents(d)) = 0
  BY <1>3
<1> QED BY <1>1, <1>2, <1>4, <1>5

\* A structure without elements is the empty sequence.
LEMMA EmptyContents ==
  ASSUME NEW d, IsDeque(d), is_empty(d)
  PROVE  Contents(d) = <<>>
BY ContentsFacts

LEMMA PushFront ==
  ASSUME NEW d, IsDeque(d), Contents(d) \in Seq(Elements), NEW e \in Elements
  PROVE  LET p == push_front(d, e)
         IN /\ IsDeque(p) /\ p.destructor = d.destructor
            /\ Contents(p) = <<e>> \o Contents(d)
<1> DEFINE g == on_push(d)
           p == push_front(d, e)
           f == (g.front + g.cap - 1) % g.cap
           s == <<e>> \o Contents(d)
<1>1. /\ IsDeque(g) /\ length(g) = length(d) /\ length(g) < g.cap - 1
      /\ \A k \in 0..(length(d) - 1) : Slot(g, k) = Slot(d, k)
      /\ g.destructor = d.destructor
  BY OnPush
<1>2. p = [g EXCEPT !.front = f, !.data[f] = e]
  BY DEF push_front
<1> HIDE DEF g
<1>3. f = Before(g.cap, g.front)
  BY <1>1, Neighbours
<1>4. /\ g.cap \in Nat /\ length(g) \in Nat /\ g.cap > 1
      /\ g.front \in 0..(g.cap - 1) /\ g.back \in 0..(g.cap - 1) /\ f \in 0..(g.cap - 1)
      /\ g.data \in [0..(g.cap - 1) -> Elements \cup {Garbage}]
      /\ DOMAIN g = {"data", "cap", "front", "back", "destructor"}
      /\ g.destructor \in BOOLEAN
  <2>1. /\ g.cap \in Nat \ {0} /\ g.front \in 0..(g.cap - 1) /\ g.back \in 0..(g.cap - 1)
        /\ g.cap > 1 => g.data \in [0..(g.cap - 1) -> Elements \cup {Garbage}]
        /\ DOMAIN g = {"data", "cap", "front", "back", "destructor"}
        /\ g.destructor \in BOOLEAN
    BY <1>1 DEF IsDeque
  <2>2. length(g) \in 0..(g.cap - 1)
    BY <1>1, Indices
  <2>3. length(g) \in Nat /\ g.cap > 1
    BY <1>1, <2>1, <2>2
  <2>4. f \in 0..(g.cap - 1)
    BY <1>3, <2>1 DEF Before
  <2> QED BY <2>1, <2>3, <2>4
<1> HIDE DEF f
<1>5. /\ p.data = [g.data EXCEPT ![f] = e] /\ p.cap = g.cap /\ p.front = f /\ p.back = g.back
      /\ p.destructor = g.destructor /\ DOMAIN p = DOMAIN g
  BY <1>2, <1>4
<1> HIDE DEF p
<1>15. p.cap = g.cap /\ p.front = f /\ g.cap \in Nat \ {0} /\ 0 \in 0..(g.cap - 1)
       /\ g.front \in 0..(g.cap - 1) /\ f \in 0..(g.cap - 1)
  BY <1>4, <1>5
<1>6. IsDeque(p)
  BY <1>4, <1>5 DEF IsDeque
<1>7. length(g) = IF g.back >= g.front THEN g.back - g.front ELSE g.back - g.front + g.cap
  BY <1>1, Indices
<1>8. length(p) = length(g) + 1
  <2>1. length(p) = IF g.back >= f THEN g.back - f ELSE g.back - f + g.cap
    BY <1>5, <1>6, Indices
  <2> QED BY <1>1, <1>3, <1>4, <1>7, <2>1, SMTT(30) DEF Before
<1>9. Slot(p, 0) = e
  <2>1. 0 \in 0..(p.cap - 1) /\ At(p.cap, p.front, 0) = f
    BY <1>15, Places
  <2>2. Slot(p, 0) = p.data[f]
    BY <1>6, <2>1, SlotIndex
  <2> QED BY <1>4, <1>5, <2>2
<1>10. ASSUME NEW k \in 1..length(g) PROVE Slot(p, k) = Slot(g, k - 1)
  <2> DEFINE x == At(g.cap, f, k)
  <2>1. k \in 0..(g.cap - 1) /\ k # 0
    BY <1>1, <1>4
  <2>2. k - 1 \in 0..(g.cap - 1) /\ At(g.cap, g.front, k - 1) = x /\ x \in 0..(g.cap - 1)
    <3>1. k - 1 \in 0..(g.cap - 1) /\ At(g.cap, Before(g.cap, g.front), k) = At(g.cap, g.front, k - 1)
      BY <1>15, <2>1, PlaceFromBefore
    <3>2. x \in 0..(g.cap - 1)
      BY <1>15, <2>1, Places
    <3> QED BY <1>3, <3>1, <3>2
  <2>3. x # f
    <3>1. At(g.cap, f, 0) = f /\ 0 \in 0..(g.cap - 1)
      BY <1>4, Places
    <3> QED BY <1>4, <2>1, <3>1, Places
  <2>4. Slot(p, k) = p.data[x] /\ Slot(g, k - 1) = g.data[x]
    <3>1. Slot(p, k) = p.data[x]
      BY <1>15, <1>6, <2>1, SlotIndex
    <3>2. Slot(g, k - 1) = g.data[x]
      BY <1>1, <2>2, SlotIndex
    <3> QED BY <3>1, <3>2
  <2> HIDE DEF x
  <2> QED BY <1>4, <1>5, <2>2, <2>3, <2>4
<1>11. /\ s \in Seq(Elements) /\ Len(s) = length(d) + 1 /\ s[1] = e
       /\ \A k \in 2..(length(d) + 1) : s[k] = Slot(d, k - 2)
  <2>1. Len(Contents(d)) = length(d) /\ \A k \in 1..length(d) : Contents(d)[k] = Slot(d, k - 1)
    BY ContentsFacts
  <2>2. length(d) \in Nat
    BY <1>1, <1>4
  <2>3. ASSUME NEW k \in 2..(length(d) + 1) PROVE s[k] = Slot(d, k - 2)
    <3>1. k - 1 \in 1..length(d) /\ (k - 1) - 1 = k - 2
      BY <2>2
    <3>2. s[k] = Contents(d)[k - 1]
      BY <2>1, <2>2
    <3> QED BY <2>1, <3>1, <3>2
  <2> QED BY <2>1, <2>2, <2>3
<1>12. \A k \in 1..Len(s) : s[k] = Slot(p, k - 1)
  <2> SUFFICES ASSUME NEW k \in 1..Len(s) PROVE s[k] = Slot(p, k - 1)
    OBVIOUS
  <2>1. CASE k = 1
    BY <1>9, <1>11, <2>1
  <2>2. CASE k # 1
    <3>1. k \in 2..(length(d) + 1) /\ k - 1 \in 1..length(g) /\ k - 2 \in 0..(length(d) - 1)
          /\ (k - 1) - 1 = k - 2
      BY <1>1, <1>4, <1>11, <2>2
    <3>2. s[k] = Slot(d, k - 2) /\ Slot(p, k - 1) = Slot(g, k - 2) /\ Slot(g, k - 2) = Slot(d, k - 2)
      BY <1>1, <1>10, <1>11, <3>1
    <3> QED BY <3>2
  <2> QED BY <2>1, <2>2
<1> HIDE DEF s
<1>13. Contents(p) = s
  BY <1>1, <1>6, <1>8, <1>11, <1>12, ContentsIs
<1> QED BY <1>1, <1>5, <1>6, <1>13 DEF p, s

LEMMA PushBack ==
  ASSUME NEW d, IsDeque(d), Contents(d) \in Seq(Elements), NEW e \in Elements
  PROVE  LET p == push_back(d, e)
         IN /\ IsDeque(p) /\ p.destructor = d.destructor
            /\ Contents(p) = Append(Contents(d), e)
<1> DEFINE g == on_push(d)
           p == push_back(d, e)
           b == (g.back + 1) % g.cap
           n == length(g)
           s == Append(Contents(d), e)
<1>1. /\ IsDeque(g) /\ length(g) = length(d) /\ length(g) < g.cap - 1
      /\ \A k \in 0..(length(d) - 1) : Slot(g, k) = Slot(d, k)
      /\ g.destructor = d.destructor
  BY OnPush
<1>2. p = [g EXCEPT !.data[g.back] = e, !.back = b]
  BY DEF push_back
<1> HIDE DEF g
<1>3. b = After(g.cap, g.back)
  BY <1>1, Neighbours
<1>4. /\ g.cap \in Nat \ {0} /\ g.front \in 0..(g.cap - 1) /\ g.back \in 0..(g.cap - 1)
      /\ n \in 0..(g.cap - 1) /\ n + 1 < g.cap /\ g.cap > 1
  <2>1. /\ g.cap \in Nat \ {0} /\ g.front \in 0..(g.cap - 1) /\ g.back \in 0..(g.cap - 1)
    BY <1>1 DEF IsDeque
  <2>2. n \in 0..(g.cap - 1)
    BY <1>1, Indices
  <2> QED BY <1>1, <2>1, <2>2
<1>5. /\ g.data \in [0..(g.cap - 1) -> Elements \cup {Garbage}]
      /\ DOMAIN g = {"data", "cap", "front", "back", "destructor"}
      /\ g.destructor \in BOOLEAN
  BY <1>1, <1>4 DEF IsDeque
<1>6. b \in 0..(g.cap - 1)
  BY <1>3, <1>4 DEF After
<1> HIDE DEF b
<1>7. /\ p.cap = g.cap /\ p.front = g.front /\ p.back = b
      /\ p.destructor = g.destructor /\ DOMAIN p = DOMAIN g
  BY <1>2, <1>5
<1>8. p.data = [g.data EXCEPT ![g.back] = e]
  BY <1>2, <1>5
<1> HIDE DEF p
<1>9. IsDeque(p)
  BY <1>4, <1>5, <1>6, <1>7, <1>8 DEF IsDeque
<1>10. length(p) = n + 1
  <2>1. length(p) = IF b >= g.front THEN b - g.front ELSE b - g.front + g.cap
    BY <1>7, <1>9, Indices
  <2>2. n = IF g.back >= g.front THEN g.back - g.front ELSE g.back - g.front + g.cap
    BY <1>1, Indices
  <2> HIDE DEF n
  <2> QED BY <1>3, <1>4, <2>1, <2>2, SMTT(30) DEF After
<1>11. At(g.cap, g.front, n) = g.back
  BY <1>1, BackPlace
<1>12. Slot(p, n) = e
  <2>1. Slot(p, n) = p.data[g.back]
    BY <1>4, <1>7, <1>9, <1>11, SlotIndex, SMTT(30)
  <2> QED BY <1>4, <1>5, <1>8, <2>1
<1>13. ASSUME NEW k \in 0..(n - 1) PROVE Slot(p, k) = Slot(d, k)
  <2> DEFINE x == At(g.cap, g.front, k)
  <2>1. k \in 0..(g.cap - 1) /\ k # n
    BY <1>4
  <2>2. x \in 0..(g.cap - 1) /\ x # g.back
    <3>1. x \in 0..(g.cap - 1)
      BY <1>4, <2>1, Places
    <3>2. n \in 0..(g.cap - 1)
      BY <1>4
    <3> HIDE DEF n
    <3>3. x # At(g.cap, g.front, n)
      BY <1>4, <2>1, <3>2, OtherPlace
    <3> QED BY <1>11, <3>1, <3>3
  <2>3. Slot(p, k) = p.data[x]
    BY <1>7, <1>9, <2>1, SlotAt
  <2>4. Slot(g, k) = g.data[x]
    BY <1>1, <2>1, SlotIndex
  <2> HIDE DEF x
  <2>5. Slot(p, k) = Slot(g, k)
    BY <1>4, <1>5, <1>8, <2>2, <2>3, <2>4
  <2> QED BY <1>1, <2>5
<1>14. s \in Seq(Elements) /\ Len(s) = n + 1 /\ \A k \in 1..(n + 1) : s[k] = Slot(p, k - 1)
  <2>1. Len(Contents(d)) = n /\ \A k \in 1..n : Contents(d)[k] = Slot(d, k - 1)
    BY <1>1, ContentsFacts
  <2>2. n \in Nat
    BY <1>4
  <2> HIDE DEF n
  <2>3. ASSUME NEW k \in 1..(n + 1) PROVE s[k] = Slot(p, k - 1)
    <3>1. CASE k = n + 1
      <4>1. s[k] = e /\ k - 1 = n
        BY <2>1, <2>2, <3>1
      <4> QED BY <1>12, <4>1
    <3>2. CASE k # n + 1
      <4>1. k \in 1..n /\ k - 1 \in 0..(n - 1)
        BY <2>2, <3>2
      <4>2. s[k] = Contents(d)[k]
        BY <2>1, <2>2, <4>1
      <4> QED BY <1>13, <2>1, <4>1, <4>2
    <3> QED BY <3>1, <3>2
  <2> QED BY <2>1, <2>2, <2>3
<1> HIDE DEF s
<1>15. Contents(p) = s
  BY <1>9, <1>10, <1>14, ContentsIs
<1> QED BY <1>1, <1>7, <1>9, <1>15 DEF p, s

LEMMA PopFront ==
  ASSUME NEW d, IsDeque(d), Contents(d) \in Seq(Elements), ~is_empty(d)
  PROVE  LET p == pop_front(d)
         IN /\ IsDeque(p) /\ p.destructor = d.destructor
            /\ Contents(d) # <<>> /\ peek_front(d) = Head(Contents(d))
            /\ Contents(p) = Tail(Contents(d))
<1> DEFINE p == pop_front(d)
           f == (d.front + 1) % d.cap
           n == length(d)
           s == Tail(Contents(d))
<1>1. f = After(d.cap, d.front)
  BY Neighbours
<1>2. /\ d.cap \in Nat \ {0} /\ d.front \in 0..(d.cap - 1) /\ d.back \in 0..(d.cap - 1)
      /\ n \in 0..(d.cap - 1) /\ n # 0
      /\ DOMAIN d = {"data", "cap", "front", "back", "destructor"}
  BY Indices DEF IsDeque
<1>3. f \in 0..(d.cap - 1)
  BY <1>1, <1>2 DEF After
<1>12. p = [d EXCEPT !.front = f]
  BY DEF pop_front
<1> HIDE DEF f, p
<1>4. /\ p.data = d.data /\ p.cap = d.cap /\ p.front = f /\ p.back = d.back
      /\ p.destructor = d.destructor /\ DOMAIN p = DOMAIN d
  BY <1>2, <1>12
<1>5. IsDeque(p)
  BY <1>3, <1>4 DEF IsDeque
<1>6. length(p) = n - 1
  <2>1. length(p) = IF d.back >= f THEN d.back - f ELSE d.back - f + d.cap
    BY <1>4, <1>5, Indices
  <2>2. n = IF d.back >= d.front THEN d.back - d.front ELSE d.back - d.front + d.cap
    BY Indices
  <2> HIDE DEF n
  <2> QED BY <1>1, <1>2, <2>1, <2>2 DEF After
<1>7. Len(Contents(d)) = n /\ \A k \in 1..n : Contents(d)[k] = Slot(d, k - 1)
  BY ContentsFacts
<1>8. peek_front(d) = Head(Contents(d)) /\ Contents(d) # <<>>
  <2>1. At(d.cap, d.front, 0) = d.front /\ 0 \in 0..(d.cap - 1)
    BY <1>2, Places
  <2>2. Slot(d, 0) = d.data[d.front]
    BY <2>1, SlotIndex
  <2>3. 1 \in 1..n /\ 1 - 1 = 0
    BY <1>2
  <2>4. Contents(d)[1] = Slot(d, 0)
    BY <1>7, <2>3
  <2> QED BY <1>2, <1>7, <2>2, <2>4 DEF peek_front
<1>9. ASSUME NEW k \in 0..(n - 2) PROVE Slot(p, k) = Slot(d, k + 1)
  <2>1. k \in 0..(d.cap - 1) /\ k + 1 < d.cap
    BY <1>2
  <2>2. k + 1 \in 0..(d.cap - 1) /\ At(d.cap, f, k) = At(d.cap, d.front, k + 1)
    BY <1>1, <1>2, <2>1, PlaceFromAfter
  <2>3. Slot(p, k) = p.data[At(d.cap, f, k)]
    BY <1>4, <1>5, <2>1, SlotAt
  <2>4. Slot(d, k + 1) = d.data[At(d.cap, d.front, k + 1)]
    BY <2>2, SlotIndex
  <2> QED BY <1>4, <2>2, <2>3, <2>4
<1>10. s \in Seq(Elements) /\ Len(s) = n - 1 /\ \A k \in 1..(n - 1) : s[k] = Slot(p, k - 1)
  <2>1. n \in Nat /\ n # 0
    BY <1>2
  <2> HIDE DEF n
  <2>2. s \in Seq(Elements) /\ Len(s) = n - 1
    BY <1>7, <1>8, <2>1
  <2>3. ASSUME NEW k \in 1..(n - 1) PROVE s[k] = Slot(p, k - 1)
    <3>1. k + 1 \in 1..n /\ k - 1 \in 0..(n - 2) /\ (k - 1) + 1 = k /\ (k + 1) - 1 = k
      BY <2>1
    <3>2. s[k] = Contents(d)[k + 1]
      BY <1>7, <1>8, <2>1
    <3> QED BY <1>7, <1>9, <3>1, <3>2
  <2> QED BY <2>2, <2>3
<1> HIDE DEF s
<1>11. Contents(p) = s
  BY <1>5, <1>6, <1>10, ContentsIs
<1> QED BY <1>4, <1>5, <1>8, <1>11 DEF p, s

\* The last element, and the slots of the others.
LEMMA LastSlot ==
  ASSUME NEW d, IsDeque(d), ~is_empty(d)
  PROVE  /\ length(d) - 1 \in 0..(d.cap - 1)
         /\ Last(d) = At(d.cap, d.front, length(d) - 1)
         /\ Last(d) \in 0..(d.cap - 1)
<1>1. /\ d.cap \in Nat \ {0} /\ d.front \in 0..(d.cap - 1) /\ d.back \in 0..(d.cap - 1)
      /\ length(d) \in 0..(d.cap - 1) /\ length(d) # 0
  BY Indices DEF IsDeque
<1>2. length(d) = IF d.back >= d.front THEN d.back - d.front ELSE d.back - d.front + d.cap
  BY Indices
<1>3. Last(d) = Before(d.cap, d.back)
  BY Neighbours
<1> QED BY <1>1, <1>2, <1>3 DEF Before, At

LEMMA PopBack ==
  ASSUME NEW d, IsDeque(d), Contents(d) \in Seq(Elements), ~is_empty(d)
  PROVE  LET p == pop_back(d)
         IN /\ IsDeque(p) /\ p.destructor = d.destructor
            /\ Contents(d) # <<>> /\ peek_back(d) = Contents(d)[Len(Contents(d))]
            /\ Contents(p) = SubSeq(Contents(d), 1, Len(Contents(d)) - 1)
<1> DEFINE p == pop_back(d)
           n == length(d)
           s == SubSeq(Contents(d), 1, Len(Contents(d)) - 1)
<1>1. /\ d.cap \in Nat \ {0} /\ d.front \in 0..(d.cap - 1) /\ d.back \in 0..(d.cap - 1)
      /\ n \in 0..(d.cap - 1) /\ n # 0
      /\ DOMAIN d = {"data", "cap", "front", "back", "destructor"}
  BY Indices DEF IsDeque
<1>2. n - 1 \in 0..(d.cap - 1) /\ Last(d) = At(d.cap, d.front, n - 1) /\ Last(d) \in 0..(d.cap - 1)
  BY LastSlot
<1>3. /\ p.data = d.data /\ p.cap = d.cap /\ p.front = d.front /\ p.back = Last(d)
      /\ p.destructor = d.destructor /\ DOMAIN p = DOMAIN d
  BY <1>1 DEF pop_back
<1> HIDE DEF p
<1>4. IsDeque(p)
  BY <1>2, <1>3 DEF IsDeque
<1>5. length(p) = n - 1
  <2>1. length(p) = IF Last(d) >= d.front THEN Last(d) - d.front ELSE Last(d) - d.front + d.cap
    BY <1>3, <1>4, Indices
  <2> QED BY <1>1, <1>2, <2>1 DEF At
<1>6. Len(Contents(d)) = n /\ \A k \in 1..n : Contents(d)[k] = Slot(d, k - 1)
  BY ContentsFacts
<1>7. peek_back(d) = Contents(d)[n] /\ Contents(d) # <<>>
  <2>1. n \in 1..n
    BY <1>1
  <2>2. Slot(d, n - 1) = d.data[Last(d)]
    BY <1>2, SlotIndex
  <2> QED BY <1>1, <1>6, <2>1, <2>2 DEF peek_back
<1>8. ASSUME NEW k \in 0..(n - 2) PROVE Slot(p, k) = Slot(d, k)
  <2>1. k \in 0..(d.cap - 1)
    BY <1>1
  <2>2. Slot(p, k) = p.data[At(d.cap, d.front, k)]
    BY <1>3, <1>4, <2>1, SlotAt
  <2>3. Slot(d, k) = d.data[At(d.cap, d.front, k)]
    BY <2>1, SlotIndex
  <2> QED BY <1>3, <2>2, <2>3
<1>9. s \in Seq(Elements) /\ Len(s) = n - 1 /\ \A k \in 1..(n - 1) : s[k] = Slot(p, k - 1)
  <2>1. n \in Nat /\ n # 0
    BY <1>1
  <2> HIDE DEF n
  <2>2. s \in Seq(Elements) /\ Len(s) = n - 1 /\ \A k \in 1..(n - 1) : s[k] = Contents(d)[k]
    BY <1>6, <2>1
  <2>3. ASSUME NEW k \in 1..(n - 1) PROVE s[k] = Slot(p, k - 1)
    <3>1. k \in 1..n /\ k - 1 \in 0..(n - 2)
      BY <2>1
    <3> QED BY <1>6, <1>8, <2>2, <3>1
  <2> QED BY <2>2, <2>3
<1> HIDE DEF s
<1>10. Contents(p) = s
  BY <1>4, <1>5, <1>9, ContentsIs
<1> QED BY <1>3, <1>4, <1>6, <1>7, <1>10 DEF p, s

\* An element that is replaced where it is.
LEMMA Replace ==
  ASSUME NEW d, IsDeque(d), Contents(d) \in Seq(Elements), NEW e \in Elements,
         NEW j \in 0..(length(d) - 1)
  PROVE  LET p == [d EXCEPT !.data[At(d.cap, d.front, j)] = e]
         IN /\ IsDeque(p) /\ p.destructor = d.destructor
            /\ Contents(p) = [Contents(d) EXCEPT ![j + 1] = e]
<1> DEFINE n == length(d)
           i == At(d.cap, d.front, j)
           p == [d EXCEPT !.data[i] = e]
           s == [Contents(d) EXCEPT ![j + 1] = e]
<1>1. /\ d.cap \in Nat \ {0} /\ d.front \in 0..(d.cap - 1) /\ d.back \in 0..(d.cap - 1)
      /\ n \in 0..(d.cap - 1)
      /\ DOMAIN d = {"data", "cap", "front", "back", "destructor"}
      /\ d.destructor \in BOOLEAN
  BY Indices DEF IsDeque
<1>2. d.cap > 1 /\ j \in 0..(d.cap - 1)
  BY <1>1
<1>3. d.data \in [0..(d.cap - 1) -> Elements \cup {Garbage}]
  BY <1>2 DEF IsDeque
<1>4. i \in 0..(d.cap - 1)
  BY <1>1, <1>2, Places
<1> HIDE DEF i
<1>5. /\ p.data = [d.data EXCEPT ![i] = e]
      /\ p.cap = d.cap /\ p.front = d.front /\ p.back = d.back
      /\ p.destructor = d.destructor /\ DOMAIN p = DOMAIN d
  BY <1>1
<1> HIDE DEF p
<1>6. IsDeque(p)
  BY <1>1, <1>3, <1>4, <1>5 DEF IsDeque
<1>7. length(p) = n
  BY <1>5 DEF length
<1>8. ASSUME NEW k \in 0..(n - 1) PROVE Slot(p, k) = IF k = j THEN e ELSE Slot(d, k)
  <2> DEFINE x == At(d.cap, d.front, k)
  <2>1. k \in 0..(d.cap - 1)
    BY <1>1
  <2>2. x \in 0..(d.cap - 1) /\ (k # j => x # i) /\ (k = j => x = i)
    BY <1>1, <1>2, <2>1, Places, OtherPlace, ZenonT(30) DEF i
  <2>3. Slot(p, k) = p.data[x]
    <3>1. p.cap = d.cap /\ p.front = d.front
      BY <1>5
    <3> QED BY <1>6, <2>1, <3>1, SlotAt
  <2>4. Slot(d, k) = d.data[x]
    BY <2>1, SlotIndex
  <2> HIDE DEF x
  <2> QED BY <1>3, <1>5, <2>2, <2>3, <2>4
<1>9. Len(Contents(d)) = n /\ \A k \in 1..n : Contents(d)[k] = Slot(d, k - 1)
  BY ContentsFacts
<1>10. s \in Seq(Elements) /\ Len(s) = n /\ \A k \in 1..n : s[k] = Slot(p, k - 1)
  <2>1. n \in Nat /\ j \in 0..(n - 1)
    BY <1>1
  <2> HIDE DEF n
  <2>2. s \in Seq(Elements) /\ Len(s) = n
        /\ \A k \in 1..n : s[k] = IF k = j + 1 THEN e ELSE Contents(d)[k]
    BY <1>9, <2>1
  <2>3. ASSUME NEW k \in 1..n PROVE s[k] = Slot(p, k - 1)
    <3>1. k - 1 \in 0..(n - 1) /\ (k = j + 1 <=> k - 1 = j)
      BY <2>1
    <3> QED BY <1>8, <1>9, <2>2, <3>1
  <2> QED BY <2>2, <2>3
<1> HIDE DEF s
<1>11. Contents(p) = s
  BY <1>6, <1>7, <1>10, ContentsIs
<1> QED BY <1>5, <1>6, <1>11 DEF s, p, i

LEMMA Updates ==
  ASSUME NEW d, IsDeque(d), Contents(d) \in Seq(Elements), ~is_empty(d), NEW e \in Elements
  PROVE  LET p == update_front(d, e)
             q == update_back(d, e)
         IN /\ IsDeque(p) /\ p.destructor = d.destructor
            /\ Contents(p) = [Contents(d) EXCEPT ![1] = e]
            /\ IsDeque(q) /\ q.destructor = d.destructor
            /\ Contents(q) = [Contents(d) EXCEPT ![Len(Contents(d))] = e]
<1> DEFINE n == length(d)
           p == update_front(d, e)
           q == update_back(d, e)
<1>1. n \in Nat \ {0} /\ d.cap \in Nat \ {0} /\ d.front \in 0..(d.cap - 1)
  BY Indices DEF IsDeque
<1>2. p = [d EXCEPT !.data[At(d.cap, d.front, 0)] = e]
  BY <1>1 DEF update_front, At
<1>3. q = [d EXCEPT !.data[At(d.cap, d.front, n - 1)] = e]
  BY LastSlot DEF update_back
<1>4. Len(Contents(d)) = n
  BY ContentsFacts
<1>5. 0 \in 0..(n - 1) /\ 0 + 1 = 1 /\ n - 1 \in 0..(n - 1) /\ (n - 1) + 1 = n
  BY <1>1
<1> HIDE DEF p, q, n
<1>6. IsDeque(p) /\ p.destructor = d.destructor /\ Contents(p) = [Contents(d) EXCEPT ![0 + 1] = e]
  BY <1>2, <1>5, Replace DEF n
<1>7. IsDeque(q) /\ q.destructor = d.destructor
      /\ Contents(q) = [Contents(d) EXCEPT ![(n - 1) + 1] = e]
  BY <1>3, <1>5, Replace DEF n
<1> QED BY <1>4, <1>5, <1>6, <1>7 DEF p, q

LEMMA NewDeque ==
  ASSUME NEW c \in Nat, NEW f \in BOOLEAN
  PROVE  LET d == new_destructable(c, f)
         IN IsDeque(d) /\ Contents(d) = <<>> /\ d.destructor = f
<1> DEFINE d == new_destructable(c, f)
<1>1. /\ d.cap = IF c > 0 THEN c ELSE 1
      /\ d.front = 0 /\ d.back = 0 /\ d.destructor = f
      /\ d.data = [k \in 0..(c - 1) |-> Garbage]
      /\ DOMAIN d = {"data", "cap", "front", "back", "destructor"}
  BY DEF new_destructable
<1> HIDE DEF d
<1>2. d.cap > 1 => d.data \in [0..(d.cap - 1) -> Elements \cup {Garbage}]
  BY <1>1
<1>3. IsDeque(d)
  BY <1>1, <1>2 DEF IsDeque
<1>4. is_empty(d)
  BY <1>1 DEF is_empty
<1> QED BY <1>1, <1>3, <1>4, EmptyContents DEF d

LEMMA Emptied ==
  ASSUME NEW d, IsDeque(d)
  PROVE  IsDeque(empty(d)) /\ Contents(empty(d)) = <<>> /\ empty(d).destructor = d.destructor
<1> DEFINE p == empty(d)
<1>1. DOMAIN d = {"data", "cap", "front", "back", "destructor"}
      /\ d.cap \in Nat \ {0} /\ d.destructor \in BOOLEAN
      /\ (d.cap > 1 => d.data \in [0..(d.cap - 1) -> Elements \cup {Garbage}])
  BY DEF IsDeque
<1>2. p.front = 0 /\ p.back = 0 /\ p.cap = d.cap /\ p.data = d.data
      /\ p.destructor = d.destructor /\ DOMAIN p = DOMAIN d
  BY <1>1 DEF empty
<1> HIDE DEF p
<1>3. IsDeque(p)
  BY <1>1, <1>2 DEF IsDeque
<1>4. is_empty(p)
  BY <1>2 DEF is_empty
<1> QED BY <1>2, <1>3, <1>4, EmptyContents DEF p

LEMMA Array ==
  ASSUME NEW d, IsDeque(d)
  PROVE  as_array(d) = Contents(d)
<1> DEFINE n == length(d)
<1>1. /\ d.cap \in Nat \ {0} /\ d.front \in 0..(d.cap - 1) /\ n \in 0..(d.cap - 1)
      /\ DOMAIN d = {"data", "cap", "front", "back", "destructor"}
  BY Indices DEF IsDeque
<1> HIDE DEF n
<1>2. ASSUME NEW k \in 1..n PROVE realign(d).data[k - 1] = Slot(d, k - 1)
  <2>1. k - 1 \in 0..(d.cap - 1) /\ k - 1 < n
    BY <1>1
  <2>2. CASE d.front = 0
    <3>1. At(d.cap, 0, k - 1) = k - 1
      BY <1>1, <2>1 DEF At
    <3>2. Slot(d, k - 1) = d.data[k - 1]
      BY <2>1, <2>2, <3>1, SlotAt
    <3> QED BY <2>2, <3>2 DEF realign
  <2>3. CASE d.front # 0
    <3> DEFINE new == [j \in 0..(d.cap - 1) |-> IF j < n THEN Slot(d, j) ELSE Garbage]
    <3>1. realign(d) = [d EXCEPT !.data = new, !.front = 0, !.back = n]
      BY <2>3 DEF realign, n
    <3>2. realign(d).data = new
      BY <1>1, <3>1
    <3> QED BY <2>1, <3>2
  <2> QED BY <2>2, <2>3
<1> QED BY <1>2 DEF as_array, Contents, n

-----------------------------------------------------------------------------
(* The calls *)

Null(d) == d.cap = 0 /\ d.front = 0 /\ d.back = 0 /\ d.destructor \in BOOLEAN

\* The contents of a deque, as IsSequence defines them.
Elts == IF Valid(deq) THEN Contents(deq) ELSE <<>>

\* The inductive invariant: the numbers in the structure say which slots hold an
\* element, and those do.
DequeInv ==
  /\ Null(deq) \/ (IsDeque(deq) /\ Contents(deq) \in Seq(Elements))
  /\ aborted \in BOOLEAN

\* What a call leaves, for the invariant and for the abstract sequence.
LEMMA Left ==
  ASSUME DequeInv, NEW d, NEW a, Returns(d, a),
         IsDeque(d), Contents(d) \in Seq(Elements)
  PROVE  /\ DequeInv'
         /\ Valid(deq') /\ Elts' = Contents(d) /\ deq'.destructor = d.destructor
         /\ answer' = a /\ aborted' = aborted
BY DEF DequeInv, Returns, Valid, Elts, IsDeque

LEMMA GivenUp ==
  ASSUME DequeInv, NEW a, Returns([NullDeque EXCEPT !.destructor = deq.destructor], a)
  PROVE  /\ DequeInv'
         /\ ~Valid(deq') /\ Elts' = <<>> /\ deq'.destructor = deq.destructor
         /\ answer' = a /\ aborted' = aborted
<1>1. deq'.cap = 0 /\ deq'.front = 0 /\ deq'.back = 0 /\ deq'.destructor = deq.destructor
  BY DEF Returns, NullDeque
<1>2. deq.destructor \in BOOLEAN
  BY DEF DequeInv, Null, IsDeque
<1>3. answer' = a /\ aborted' = aborted
  BY DEF Returns
<1>4. Null(deq')
  BY <1>1, <1>2 DEF Null
<1>5. ~Valid(deq')
  BY <1>1 DEF Valid
<1> QED BY <1>1, <1>3, <1>4, <1>5 DEF DequeInv, Elts

\* In a valid deque with elements and in any other.
LEMMA States ==
  ASSUME DequeInv
  PROVE  /\ Valid(deq) <=> IsDeque(deq)
         /\ Valid(deq) => Contents(deq) \in Seq(Elements) /\ Elts = Contents(deq)
         /\ ~Valid(deq) => Elts = <<>>
         /\ HasElements => IsDeque(deq) /\ ~is_empty(deq) /\ Contents(deq) # <<>>
         /\ ~HasElements => Elts = <<>>
<1>1. CASE Null(deq)
  BY <1>1 DEF Null, Valid, HasElements, Elts, IsDeque
<1>2. CASE IsDeque(deq) /\ Contents(deq) \in Seq(Elements)
  <2>1. Valid(deq)
    BY <1>2 DEF IsDeque, Valid
  <2> QED BY <1>2, <2>1, ContentsFacts DEF HasElements, Elts
<1> QED BY <1>1, <1>2 DEF DequeInv

\* A call whose precondition fails is the end of the program.
LEMMA Aborts ==
  ASSUME DequeInv, ~aborted, Elts = <<>>, aborted' = TRUE, UNCHANGED <<deq, answer>>
  PROVE  DequeInv' /\ Sequence!Next
<1>1. DequeInv'
  BY DEF DequeInv
<1>2. Sequence!Abort
  BY DEF Sequence!Abort, Elts
<1> QED BY <1>1, <1>2 DEF Sequence!Next

\* A call that leaves a valid deque valid.
LEMMA Uses ==
  ASSUME DequeInv, ~aborted, Valid(deq),
         NEW d, NEW a, Returns(d, a), IsDeque(d), Contents(d) \in Seq(Elements),
         d.destructor = deq.destructor,
         Sequence!Become(Contents(d), a) =>
           Sequence!Push \/ Sequence!Pop \/ Sequence!Peek \/ Sequence!Update \/ Sequence!Clear
  PROVE  DequeInv' /\ Sequence!Next
<1>1. DequeInv' /\ Valid(deq') /\ Elts' = Contents(d) /\ deq'.destructor = d.destructor
      /\ answer' = a /\ aborted' = aborted
  BY Left
<1>2. Sequence!Become(Contents(d), a)
  BY <1>1 DEF Sequence!Become, Elts
<1>3. Valid(deq)' = Valid(deq)
  BY <1>1 DEF Valid
<1> QED BY <1>1, <1>2, <1>3 DEF Sequence!Next, Sequence!Use

LEMMA PushStep ==
  ASSUME DequeInv, ~aborted, NEW e \in Elements, Push(e)
  PROVE  DequeInv' /\ Sequence!Next
<1>1. CASE ~Valid(deq)
  <2>1. aborted' = TRUE /\ UNCHANGED <<deq, answer>>
    BY <1>1 DEF Push, Call
  <2> QED BY <1>1, <2>1, Aborts, States
<1>2. CASE Valid(deq)
  <2>1. IsDeque(deq) /\ Contents(deq) \in Seq(Elements) /\ Elts = Contents(deq)
    BY <1>2, States
  <2>2. CASE Returns(push_front(deq, e), <<>>)
    <3> DEFINE p == push_front(deq, e)
    <3>1. IsDeque(p) /\ p.destructor = deq.destructor /\ Contents(p) = <<e>> \o Contents(deq)
      BY <2>1, PushFront
    <3>2. Contents(p) \in Seq(Elements)
      BY <2>1, <3>1
    <3> HIDE DEF p
    <3>3. Sequence!Become(Contents(p), <<>>) => Sequence!Push
      BY <2>1, <3>1 DEF Sequence!Push, Elts
    <3> QED BY <1>2, <2>2, <3>1, <3>2, <3>3, Uses DEF p
  <2>3. CASE Returns(push_back(deq, e), <<>>)
    <3> DEFINE p == push_back(deq, e)
    <3>1. IsDeque(p) /\ p.destructor = deq.destructor /\ Contents(p) = Append(Contents(deq), e)
      BY <2>1, PushBack
    <3>2. Contents(p) \in Seq(Elements)
      BY <2>1, <3>1
    <3> HIDE DEF p
    <3>3. Sequence!Become(Contents(p), <<>>) => Sequence!Push
      BY <2>1, <3>1 DEF Sequence!Push, Elts
    <3> QED BY <1>2, <2>3, <3>1, <3>2, <3>3, Uses DEF p
  <2> QED BY <1>2, <2>2, <2>3 DEF Push, Call
<1> QED BY <1>1, <1>2

\* The operations that need an element abort without one.
LEMMA NoElements ==
  ASSUME DequeInv, ~aborted, ~HasElements, NEW d, NEW a, Call(HasElements, d, a)
  PROVE  DequeInv' /\ Sequence!Next
<1>1. aborted' = TRUE /\ UNCHANGED <<deq, answer>>
  BY DEF Call
<1> QED BY <1>1, Aborts, States

LEMMA PopStep ==
  ASSUME DequeInv, ~aborted, Pop
  PROVE  DequeInv' /\ Sequence!Next
<1>1. CASE ~HasElements
  BY <1>1, NoElements DEF Pop
<1>2. CASE HasElements
  <2>1. /\ IsDeque(deq) /\ Contents(deq) \in Seq(Elements) /\ Elts = Contents(deq)
        /\ Valid(deq) /\ ~is_empty(deq) /\ Contents(deq) # <<>>
    BY <1>2, States DEF HasElements
  <2>2. CASE Returns(pop_front(deq), <<peek_front(deq)>>)
    <3> DEFINE p == pop_front(deq)
    <3>1. /\ IsDeque(p) /\ p.destructor = deq.destructor
          /\ peek_front(deq) = Head(Contents(deq)) /\ Contents(p) = Tail(Contents(deq))
      BY <2>1, PopFront
    <3>2. Contents(p) \in Seq(Elements)
      BY <2>1, <3>1
    <3> HIDE DEF p
    <3>3. Sequence!Become(Contents(p), <<peek_front(deq)>>) => Sequence!Pop
      BY <2>1, <3>1 DEF Sequence!Pop, Elts
    <3> QED BY <2>1, <2>2, <3>1, <3>2, <3>3, Uses DEF p
  <2>3. CASE Returns(pop_back(deq), <<peek_back(deq)>>)
    <3> DEFINE p == pop_back(deq)
               s == Contents(deq)
    <3>1. /\ IsDeque(p) /\ p.destructor = deq.destructor
          /\ peek_back(deq) = s[Len(s)] /\ Contents(p) = SubSeq(s, 1, Len(s) - 1)
      BY <2>1, PopBack
    <3>2. Contents(p) \in Seq(Elements)
      BY <2>1, <3>1
    <3> HIDE DEF p
    <3>3. Sequence!Become(Contents(p), <<peek_back(deq)>>) => Sequence!Pop
      BY <2>1, <3>1 DEF Sequence!Pop, Sequence!Front, Elts
    <3> QED BY <2>1, <2>3, <3>1, <3>2, <3>3, Uses DEF p
  <2> QED BY <1>2, <2>2, <2>3 DEF Pop, Call
<1> QED BY <1>1, <1>2

LEMMA PeekStep ==
  ASSUME DequeInv, ~aborted, Peek
  PROVE  DequeInv' /\ Sequence!Next
<1>1. CASE ~HasElements
  BY <1>1, NoElements DEF Peek
<1>2. CASE HasElements
  <2> DEFINE s == Contents(deq)
  <2>1. /\ IsDeque(deq) /\ s \in Seq(Elements) /\ Elts = s
        /\ Valid(deq) /\ ~is_empty(deq) /\ s # <<>>
    BY <1>2, States DEF HasElements
  <2>2. peek_front(deq) = s[1] /\ peek_back(deq) = s[Len(s)]
    BY <2>1, PopFront, PopBack
  <2> HIDE DEF s
  <2>3. PICK k \in {1, Len(s)} : Returns(deq, <<s[k]>>)
    BY <1>2, <2>2 DEF Peek, Call
  <2>4. Sequence!Become(s, <<s[k]>>) => Sequence!Peek
    BY <2>1 DEF Sequence!Peek, Elts
  <2> QED BY <2>1, <2>3, <2>4, Uses DEF s
<1> QED BY <1>1, <1>2

LEMMA UpdateStep ==
  ASSUME DequeInv, ~aborted, NEW e \in Elements, Update(e)
  PROVE  DequeInv' /\ Sequence!Next
<1>1. CASE ~HasElements
  BY <1>1, NoElements DEF Update
<1>2. CASE HasElements
  <2> DEFINE s == Contents(deq)
             p == update_front(deq, e)
             q == update_back(deq, e)
  <2>1. /\ IsDeque(deq) /\ s \in Seq(Elements) /\ Elts = s
        /\ Valid(deq) /\ ~is_empty(deq) /\ s # <<>>
    BY <1>2, States DEF HasElements
  <2>2. /\ IsDeque(p) /\ p.destructor = deq.destructor /\ Contents(p) = [s EXCEPT ![1] = e]
        /\ IsDeque(q) /\ q.destructor = deq.destructor
        /\ Contents(q) = [s EXCEPT ![Len(s)] = e]
    BY <2>1, Updates
  <2>3. Returns(p, <<>>) \/ Returns(q, <<>>)
    BY <1>2 DEF Update, Call
  <2> HIDE DEF s, p, q
  <2>4. \A k \in {1, Len(s)} : [s EXCEPT ![k] = e] \in Seq(Elements)
    BY <2>1
  <2>5. Sequence!Become(Contents(p), <<>>) => Sequence!Update
    BY <2>1, <2>2 DEF Sequence!Update, Elts
  <2>6. Sequence!Become(Contents(q), <<>>) => Sequence!Update
    BY <2>1, <2>2 DEF Sequence!Update, Elts
  <2>7. CASE Returns(p, <<>>)
    BY <2>1, <2>2, <2>4, <2>5, <2>7, Uses
  <2>8. CASE Returns(q, <<>>)
    BY <2>1, <2>2, <2>4, <2>6, <2>8, Uses
  <2> QED BY <2>3, <2>7, <2>8
<1> QED BY <1>1, <1>2

LEMMA OtherSteps ==
  ASSUME DequeInv, ~aborted, New \/ Clear \/ AsArray \/ Destroy
  PROVE  DequeInv' /\ Sequence!Next
<1>1. CASE New
  <2>1. PICK c \in InitCaps, f \in BOOLEAN : ~Valid(deq) /\ Returns(new_destructable(c, f), <<>>)
    BY <1>1 DEF New
  <2> DEFINE d == new_destructable(c, f)
  <2>2. IsDeque(d) /\ Contents(d) = <<>> /\ d.destructor = f
    BY InitCapsAssumption, NewDeque
  <2>6. Contents(d) \in Seq(Elements)
    BY <2>2
  <2>7. Returns(d, <<>>)
    BY <2>1
  <2> HIDE DEF d
  <2>8. DequeInv' /\ Valid(deq') /\ Elts' = Contents(d) /\ deq'.destructor = d.destructor
        /\ answer' = <<>> /\ aborted' = aborted
    BY <2>2, <2>6, <2>7, Left
  <2>3. DequeInv' /\ Valid(deq') /\ Elts' = <<>> /\ deq'.destructor = f
        /\ answer' = <<>> /\ aborted' = aborted
    BY <2>2, <2>8
  <2>4. Valid(deq)' = TRUE
    BY <2>3 DEF Valid
  <2>5. Sequence!New
    BY <2>1, <2>3, <2>4 DEF Sequence!New, Sequence!Become, Elts
  <2> QED BY <2>3, <2>5 DEF Sequence!Next
<1>2. CASE (Clear \/ AsArray) /\ ~Valid(deq)
  <2>1. aborted' = TRUE /\ UNCHANGED <<deq, answer>>
    BY <1>2 DEF Clear, AsArray, Call
  <2> QED BY <1>2, <2>1, Aborts, States
<1>3. CASE Clear /\ Valid(deq)
  <2> DEFINE d == empty(deq)
  <2>1. IsDeque(d) /\ Contents(d) = <<>> /\ d.destructor = deq.destructor
    BY <1>3, States, Emptied
  <2>2. Returns(d, <<>>)
    BY <1>3 DEF Clear, Call
  <2> HIDE DEF d
  <2>4. Contents(d) \in Seq(Elements)
    BY <2>1
  <2>3. Sequence!Become(Contents(d), <<>>) => Sequence!Clear
    BY <2>1 DEF Sequence!Clear
  <2> QED BY <1>3, <2>1, <2>2, <2>3, <2>4, Uses
<1>4. CASE AsArray /\ Valid(deq)
  <2>1. Returns([NullDeque EXCEPT !.destructor = deq.destructor], Contents(deq))
    BY <1>4, States, Array DEF AsArray, Call
  <2>2. DequeInv' /\ ~Valid(deq') /\ Elts' = <<>> /\ deq'.destructor = deq.destructor
        /\ answer' = Contents(deq) /\ aborted' = aborted
    BY <2>1, GivenUp
  <2>3. Valid(deq)' = FALSE
    BY <2>2 DEF Valid
  <2>4. Sequence!GiveUp
    BY <1>4, <2>2, <2>3, States DEF Sequence!GiveUp, Sequence!Become, Elts
  <2> QED BY <2>2, <2>4 DEF Sequence!Next
<1>5. CASE Destroy /\ Valid(deq)
  <2> DEFINE a == IF deq.destructor THEN Contents(deq) ELSE <<>>
  <2>1. Returns([NullDeque EXCEPT !.destructor = deq.destructor], a)
    BY <1>5 DEF Destroy
  <2> HIDE DEF a
  <2>2. DequeInv' /\ ~Valid(deq') /\ Elts' = <<>> /\ deq'.destructor = deq.destructor
        /\ answer' = a /\ aborted' = aborted
    BY <2>1, GivenUp
  <2>3. Valid(deq)' = FALSE
    BY <2>2 DEF Valid
  <2>4. Sequence!GiveUp
    BY <1>5, <2>2, <2>3 DEF Sequence!GiveUp, Sequence!Become, Elts, a
  <2> QED BY <2>2, <2>4 DEF Sequence!Next
<1>6. CASE Destroy /\ ~Valid(deq)
  <2>1. deq' = deq /\ answer' = <<>> /\ aborted' = aborted
    BY <1>6 DEF Destroy, Returns
  <2>2. Sequence!GiveUp
    BY <1>6, <2>1 DEF Sequence!GiveUp, Sequence!Become, Valid
  <2> QED BY <2>1, <2>2 DEF Sequence!Next, DequeInv
<1> QED BY <1>1, <1>2, <1>3, <1>4, <1>5, <1>6

LEMMA Step ==
  ASSUME DequeInv, [DequeNext]_dequeVars
  PROVE  DequeInv' /\ [Sequence!Next]_(Sequence!vars)
<1>1. CASE UNCHANGED dequeVars
  BY <1>1 DEF dequeVars, Sequence!vars, DequeInv
<1>2. CASE DequeNext
  <2>1. ~aborted
    BY <1>2 DEF DequeNext
  <2> QED BY <1>2, <2>1, PushStep, PopStep, PeekStep, UpdateStep, OtherSteps DEF DequeNext
<1> QED BY <1>1, <1>2

LEMMA Start ==
  ASSUME DequeInit
  PROVE  DequeInv /\ Sequence!Init
<1>1. deq.cap = 0 /\ deq.front = 0 /\ deq.back = 0 /\ deq.destructor = FALSE
  BY DEF DequeInit, NullDeque
<1>2. Valid(deq) = FALSE
  BY <1>1 DEF Valid
<1>3. DequeInv
  BY <1>1 DEF DequeInit, DequeInv, Null
<1>4. Sequence!Init
  BY <1>1, <1>2 DEF DequeInit, Sequence!Init
<1> QED BY <1>3, <1>4

\* The indices of a deque stay in its buffer, which holds nothing but elements
\* and slots that were never written.
THEOREM DequeTypeCorrect == DequeSpec => []DequeTypeOK
<1>1. DequeInv => DequeTypeOK
  BY DEF DequeInv, DequeTypeOK, Null, IsDeque
<1>2. DequeInv /\ [DequeNext]_dequeVars => DequeInv'
  BY Step
<1> QED BY <1>1, <1>2, Start, PTL DEF DequeSpec

\* The ring buffer implements the sequence: for every set of elements, capacity
\* and length, no call loses, repeats, reorders or makes up an element.
THEOREM DequeIsSequence == DequeSpec => IsSequence
<1>1. DequeInv /\ [DequeNext]_dequeVars => DequeInv' /\ [Sequence!Next]_(Sequence!vars)
  BY Step
<1> QED BY <1>1, Start, PTL DEF DequeSpec, IsSequence, Sequence!Spec
=============================================================================
